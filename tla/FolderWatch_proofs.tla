-------------------------- MODULE FolderWatch_proofs --------------------------
(***************************************************************************)
(* What holds of FolderWatch for every burst, queue bound and number of    *)
(* folders, changes, clicks and failing passes.                            *)
(***************************************************************************)
EXTENDS FolderWatch, SequenceTheorems, TLAPS

Stages == {"idle", "asked", "ready", "queued", "running", "walked"}
ScanRows == [stage : Stages, gen : Nat]

\* Undelivered events are changes that were made.
BoundsInv ==
  /\ used \in [changes : 0..MaxChanges, clicks : Nat, failures : Nat]
  /\ signals <= used.changes

\* Nobody waits for a turn twice.
QueueInv == \A i, j \in DOMAIN queue : queue[i] = queue[j] => i = j

\* A watcher is closed while its host is not open, and a host that closed its
\* store has nothing admitted.
HostInv ==
  /\ closed <=> host # "open"
  /\ host = "closed" => active = None /\ queue = <<>>

\* What stands for a change is an event, a window or a request of the watcher
\* itself: an operator's pass may be refused without a trace.
Stands(s) ==
  \/ scan[s].stage = "asked"
  \/ scan[s].stage \in {"ready", "queued", "running"} /\ scan[s].gen = generation
LookInv ==
  mode = "recursive" /\ watching /\ ~closed /\ unseen /\ ~lost =>
    \/ signals > 0
    \/ dirty /\ wake # "off"
    \/ waiting = generation
    \/ \E s \in Slots \ {"click"} : Stands(s)

WatchInv == TypeOK /\ BoundsInv /\ OnePassRuns /\ QueueInv /\ HostInv /\ LookInv

-----------------------------------------------------------------------------
(* Types. *)

\* The constants' assumptions in the form the leaves use.
LEMMA ConstantsOK ==
  /\ Burst \in Nat /\ MaxQueue \in Nat /\ MaxChanges \in Nat
  /\ "pass" \in Slots /\ "click" \in Slots /\ None \notin Slots /\ Starts \subseteq Slots
  /\ "pass" \notin Starts /\ "click" \notin Starts
BY FolderWatchAssumption DEF Slots

\* A host starts with every row in its range.
LEMMA TypeInit == Init => TypeOK
<1> SUFFICES ASSUME Init PROVE TypeOK OBVIOUS
<1>1. Idle \in ScanRows /\ Asked \in ScanRows BY DEF Idle, Asked, ScanRows, Stages
<1>2. scan \in [Slots -> ScanRows]
  <2>1. [s \in Slots |-> Idle] \in [Slots -> ScanRows] BY <1>1
  <2> QED BY <1>1, <2>1 DEF Init
<1>3. queue = <<>> /\ queue \in Seq(Slots) /\ Len(queue) = 0 BY DEF Init
<1>4. /\ mode \in Modes /\ watching = TRUE /\ closed = FALSE /\ generation = 1
      /\ dirty = FALSE /\ windowEvents = 0 /\ wake = "off" /\ waiting = None /\ running = "pass"
      /\ active = None /\ host = "open" /\ unseen = TRUE /\ signals = 0 /\ lost = FALSE
  BY DEF Init
<1>5. 0 \in 0..MaxChanges /\ 0 \in 0..Burst /\ 0 <= MaxQueue BY ConstantsOK
<1> QED BY <1>2, <1>3, <1>4, <1>5, ConstantsOK DEF TypeOK, ScanRows, Stages

\* A request is delivered, or retained behind the one under way.
LEMMA NotifyMoves ==
  ASSUME TypeOK, Notify
  PROVE  /\ waiting' \in Nat \cup {None} /\ running' \in Slots \cup {None} /\ scan' \in [Slots -> ScanRows]
         /\ \/ waiting' = generation /\ scan' = scan
            \/ /\ scan["pass"].stage = "idle" /\ waiting' = waiting
               /\ scan' = [scan EXCEPT !["pass"] = Asked]
<1>1. scan \in [Slots -> ScanRows] /\ generation \in Nat /\ waiting \in Nat \cup {None} /\ running \in Slots \cup {None}
  BY DEF TypeOK, ScanRows, Stages
<1>2. Asked \in ScanRows BY <1>1 DEF Asked, ScanRows, Stages
<1>3. CASE Delivering BY <1>1, <1>3 DEF Notify
<1>4. CASE ~Delivering
  <2>1. scan' = [scan EXCEPT !["pass"] = Asked] /\ running' = "pass" /\ waiting' = waiting
    BY <1>4 DEF Notify
  <2>2. scan["pass"].stage = "idle" BY <1>4 DEF Delivering
  <2> QED BY <1>1, <1>2, <2>1, <2>2, ConstantsOK
<1> QED BY <1>3, <1>4

\* A window that closes asks when something is outstanding.
LEMMA CloseWindowMoves ==
  ASSUME TypeOK, NEW outstanding \in BOOLEAN, CloseWindow(outstanding)
  PROVE  /\ windowEvents' = 0 /\ dirty' = FALSE /\ wake' = "off"
         /\ waiting' \in Nat \cup {None} /\ running' \in Slots \cup {None} /\ scan' \in [Slots -> ScanRows]
         /\ IF outstanding THEN Notify ELSE waiting' = waiting /\ scan' = scan
<1>1. CASE outstanding BY <1>1, NotifyMoves DEF CloseWindow
<1>2. CASE ~outstanding BY <1>2 DEF CloseWindow, delivery, TypeOK, ScanRows, Stages
<1> QED BY <1>1, <1>2

\* An event opens the window wider, or fills it.
LEMMA OnEventMoves ==
  ASSUME TypeOK, OnEvent
  PROVE  /\ windowEvents' \in 0..Burst /\ dirty' \in BOOLEAN /\ wake' \in {"off", "fresh", "ripe"}
         /\ waiting' \in Nat \cup {None} /\ running' \in Slots \cup {None} /\ scan' \in [Slots -> ScanRows]
         /\ \/ Notify
            \/ dirty' = TRUE /\ wake' = "fresh" /\ waiting' = waiting /\ scan' = scan
<1>1. CASE windowEvents + 1 > Burst
  <2>1. CloseWindow(TRUE) BY <1>1 DEF OnEvent
  <2>2. windowEvents' = 0 /\ dirty' = FALSE /\ wake' = "off"
        /\ waiting' \in Nat \cup {None} /\ running' \in Slots \cup {None} /\ scan' \in [Slots -> ScanRows] /\ Notify
    BY <2>1, CloseWindowMoves
  <2>3. windowEvents' \in 0..Burst BY <2>2, ConstantsOK
  <2> QED BY Zenon, <2>2, <2>3
<1>2. CASE ~(windowEvents + 1 > Burst)
  <2>1. windowEvents' = windowEvents + 1 /\ dirty' = TRUE /\ wake' = "fresh" /\ UNCHANGED delivery
    BY <1>2 DEF OnEvent
  <2>2. windowEvents' \in 0..Burst BY <1>2, <2>1, ConstantsOK DEF TypeOK
  <2> QED BY <2>1, <2>2 DEF delivery, TypeOK, ScanRows, Stages
<1> QED BY <1>1, <1>2

\* What follows a settled request.
LEMMA SettledMoves ==
  ASSUME TypeOK, NEW s \in Slots, NEW refused \in BOOLEAN, Settled(s, refused)
  PROVE  /\ windowEvents' \in 0..Burst /\ dirty' \in BOOLEAN /\ wake' \in {"off", "fresh", "ripe"}
         /\ waiting' \in Nat \cup {None} /\ running' \in Slots \cup {None} /\ scan' \in [Slots -> ScanRows]
         /\ \E next \in {Idle, Asked} :
              /\ scan' = [scan EXCEPT ![s] = next] /\ next.stage \in {"idle", "asked"} /\ next \in ScanRows
              /\ s = "pass" /\ waiting = generation /\ ~closed => next = Asked
         /\ s # "pass" => waiting' = waiting
         /\ ~refused => dirty' = dirty /\ wake' = wake
         /\ refused /\ s # "click" /\ ~closed /\ watching => dirty' = TRUE /\ wake' = "fresh"
         /\ ~(refused /\ s # "click" /\ ~closed /\ watching) => dirty' = dirty /\ wake' = wake
<1> DEFINE next == IF s = "pass" /\ waiting = generation /\ ~closed THEN Asked ELSE Idle
<1>0. scan \in [Slots -> ScanRows] /\ generation \in Nat /\ waiting \in Nat \cup {None} /\ running \in Slots \cup {None}
  BY DEF TypeOK, ScanRows, Stages
<1>1. next \in {Idle, Asked} /\ next.stage \in {"idle", "asked"} /\ next \in ScanRows
  BY <1>0 DEF Idle, Asked, ScanRows, Stages
<1>2. s = "pass" /\ waiting = generation /\ ~closed => next = Asked OBVIOUS
<1>3. /\ scan' = [scan EXCEPT ![s] = next]
      /\ waiting' = IF s = "pass" THEN None ELSE waiting
      /\ running' = IF next # Idle THEN "pass" ELSE IF running = s THEN None ELSE running
      /\ IF refused /\ s # "click" /\ ~closed /\ watching
         THEN dirty' = TRUE /\ wake' = "fresh" /\ UNCHANGED windowEvents
         ELSE UNCHANGED window
  BY DEF Settled
<1> HIDE DEF next
<1>4. scan' \in [Slots -> ScanRows] BY <1>0, <1>1, <1>3
<1>5. waiting' \in Nat \cup {None} /\ running' \in Slots \cup {None} BY <1>0, <1>3, ConstantsOK
<1>6. windowEvents' \in 0..Burst /\ dirty' \in BOOLEAN /\ wake' \in {"off", "fresh", "ripe"}
  BY <1>3 DEF window, TypeOK
<1>7. /\ ~refused => dirty' = dirty /\ wake' = wake
      /\ refused /\ s # "click" /\ ~closed /\ watching => dirty' = TRUE /\ wake' = "fresh"
      /\ ~(refused /\ s # "click" /\ ~closed /\ watching) => dirty' = dirty /\ wake' = wake
  BY <1>3 DEF window
<1>8. s # "pass" => waiting' = waiting BY <1>3
<1> QED BY <1>1, <1>2, <1>3, <1>4, <1>5, <1>6, <1>7, <1>8

\* A refused request of the watcher's is looked for again.
LEMMA RefusedMoves ==
  ASSUME NEW s \in Slots, NEW refused \in BOOLEAN, Settled(s, refused),
         refused, s # "click", ~closed, watching
  PROVE  dirty' = TRUE /\ wake' = "fresh"
<1>1. IF refused /\ s # "click" /\ ~closed /\ watching
      THEN dirty' = TRUE /\ wake' = "fresh" /\ UNCHANGED windowEvents
      ELSE UNCHANGED window
  BY DEF Settled
<1> QED BY <1>1

\* One slot's request moves on.
LEMMA ScanTypes ==
  ASSUME TypeOK, NEW s \in Slots, NEW stage \in Stages, scan' = [scan EXCEPT ![s].stage = stage]
  PROVE  scan' \in [Slots -> ScanRows] /\ scan' = [scan EXCEPT ![s] = [stage |-> stage, gen |-> scan[s].gen]]
<1>1. scan \in [Slots -> ScanRows] BY DEF TypeOK, ScanRows, Stages
<1>2. scan[s] \in ScanRows BY <1>1
<1>3. [scan[s] EXCEPT !.stage = stage] = [stage |-> stage, gen |-> scan[s].gen] BY <1>2 DEF ScanRows
<1>4. [stage |-> stage, gen |-> scan[s].gen] \in ScanRows BY <1>2 DEF ScanRows
<1>5. scan' = [scan EXCEPT ![s] = [stage |-> stage, gen |-> scan[s].gen]] BY <1>3
<1> QED BY <1>1, <1>4, <1>5

-----------------------------------------------------------------------------
(* What a step does to the scheduler. *)

Outside == {"idle", "asked", "ready"}   \* a slot the scheduler does not know of

\* One slot asks, reads its folder or settles, or its request is admitted, takes its
\* turn, walks.
Asks(s, r)    == r.stage \in Outside /\ scan[s].stage \in Outside /\ UNCHANGED sched
Settles(s, r) == r.stage \in {"idle", "asked"} /\ active = s /\ active' = None /\ queue' = queue
Runs(s, r)    == /\ r.stage = "running" /\ scan[s].stage = "ready" /\ host # "closed"
                 /\ active = None /\ active' = s /\ queue' = queue
Waits(s, r)   == /\ r.stage = "queued" /\ scan[s].stage = "ready" /\ host # "closed"
                 /\ Len(queue) < MaxQueue /\ active' = active /\ queue' = Append(queue, s)
Turns(s, r)   == /\ r.stage = "running" /\ queue # <<>> /\ s = Head(queue) /\ queue' = Tail(queue)
                 /\ active = None /\ active' = s
Walks(s, r)   == r.stage = "walked" /\ scan[s].stage = "running" /\ UNCHANGED sched

SlotStep(s, r) ==
  /\ scan' = [scan EXCEPT ![s] = r]
  /\ Asks(s, r) \/ Settles(s, r) \/ Runs(s, r) \/ Waits(s, r) \/ Turns(s, r) \/ Walks(s, r)

SchedStep == (scan' = scan /\ UNCHANGED sched) \/ \E s \in Slots, r \in ScanRows : SlotStep(s, r)

\* The parts of TypeOK the queue and the slots need.
LEMMA SchedParts ==
  ASSUME TypeOK
  PROVE  /\ scan \in [Slots -> ScanRows] /\ active \in Slots \cup {None}
         /\ queue \in Seq(Slots) /\ Len(queue) \in Nat /\ Len(queue) <= MaxQueue
         /\ generation \in Nat /\ waiting \in Nat \cup {None} /\ running \in Slots \cup {None}
BY DEF TypeOK, ScanRows, Stages

\* Such a step keeps queue and slots in their ranges.
LEMMA SchedTypes ==
  ASSUME TypeOK, SchedStep
  PROVE  scan' \in [Slots -> ScanRows] /\ active' \in Slots \cup {None} /\ queue' \in Seq(Slots) /\ Len(queue') <= MaxQueue
<1> USE SchedParts
<1>1. CASE scan' = scan /\ UNCHANGED sched BY <1>1 DEF sched
<1>2. ASSUME NEW s \in Slots, NEW r \in ScanRows, SlotStep(s, r)
      PROVE  scan' \in [Slots -> ScanRows] /\ active' \in Slots \cup {None} /\ queue' \in Seq(Slots) /\ Len(queue') <= MaxQueue
  <2>1. scan' \in [Slots -> ScanRows] BY <1>2 DEF SlotStep
  <2>2. CASE Asks(s, r) \/ Settles(s, r) \/ Runs(s, r) \/ Walks(s, r)
    BY <2>1, <2>2 DEF Asks, Settles, Runs, Walks, sched
  <2>3. CASE Waits(s, r)
    <3>1. queue' \in Seq(Slots) /\ Len(queue') = Len(queue) + 1 BY <2>3 DEF Waits
    <3>2. Len(queue') <= MaxQueue BY <2>3, <3>1, ConstantsOK DEF Waits
    <3> QED BY <2>1, <2>3, <3>1, <3>2 DEF Waits
  <2>4. CASE Turns(s, r)
    <3>1. queue' \in Seq(Slots) /\ Len(queue') = Len(queue) - 1 BY <2>4, HeadTailProperties DEF Turns
    <3>2. Len(queue') <= MaxQueue BY <3>1, ConstantsOK
    <3> QED BY <2>1, <2>4, <3>1, <3>2 DEF Turns
  <2> QED BY <1>2, <2>2, <2>3, <2>4 DEF SlotStep
<1> QED BY <1>1, <1>2 DEF SchedStep

\* A delivery asks for its slot, if it changes a slot.
LEMMA NotifyIsSchedStep == ASSUME TypeOK, Notify, UNCHANGED sched PROVE SchedStep
<1>1. CASE scan' = scan BY <1>1 DEF SchedStep
<1>2. CASE scan["pass"].stage = "idle" /\ scan' = [scan EXCEPT !["pass"] = Asked]
  <2>1. Asked \in ScanRows /\ Asked.stage = "asked"
    BY SchedParts DEF Asked, ScanRows, Stages
  <2>2. Asks("pass", Asked) BY <1>2, <2>1 DEF Asks, Outside
  <2>3. SlotStep("pass", Asked) BY <1>2, <2>2 DEF SlotStep
  <2> QED BY <2>1, <2>3, ConstantsOK DEF SchedStep
<1> QED BY <1>1, <1>2, NotifyMoves

\* So do an event and a window that closes.
LEMMA WindowIsSchedStep ==
  ASSUME TypeOK, OnEvent \/ CloseWindow(dirty), UNCHANGED sched
  PROVE  SchedStep
<1>1. Notify \/ scan' = scan
  <2>1. dirty \in BOOLEAN BY DEF TypeOK
  <2>2. CASE OnEvent BY <2>2, OnEventMoves
  <2>3. CASE CloseWindow(dirty) BY <2>1, <2>3, CloseWindowMoves
  <2> QED BY <2>2, <2>3
<1>2. CASE Notify BY <1>2, NotifyIsSchedStep
<1>3. CASE scan' = scan BY <1>3 DEF SchedStep
<1> QED BY <1>1, <1>2, <1>3

\* A settled request gives its place in the scheduler back, if it had one.
LEMMA SettledIsSchedStep ==
  ASSUME TypeOK, NEW s \in Slots, NEW refused \in BOOLEAN, Settled(s, refused),
         \/ scan[s].stage \in {"asked", "ready"} /\ UNCHANGED sched
         \/ active = s /\ active' = None /\ queue' = queue
  PROVE  SchedStep
<1> DEFINE next == IF s = "pass" /\ waiting = generation /\ ~closed THEN Asked ELSE Idle
<1>0. next \in ScanRows /\ next.stage \in {"idle", "asked"}
  BY DEF Asked, Idle, ScanRows, Stages, TypeOK
<1>1. scan' = [scan EXCEPT ![s] = next] BY DEF Settled
<1> HIDE DEF next
<1>2. Asks(s, next) \/ Settles(s, next) BY <1>0 DEF Asks, Settles, Outside
<1>3. SlotStep(s, next) BY <1>1, <1>2 DEF SlotStep
<1> QED BY <1>0, <1>1, <1>3 DEF SchedStep

\* A slot that only changes stage.
LEMMA StageIsSchedStep ==
  ASSUME TypeOK, NEW s \in Slots, NEW stage \in Stages, scan' = [scan EXCEPT ![s].stage = stage],
         \A r \in ScanRows : r.stage = stage => Runs(s, r) \/ Waits(s, r) \/ Turns(s, r) \/ Walks(s, r)
  PROVE  SchedStep
<1>1. scan' = [scan EXCEPT ![s] = [stage |-> stage, gen |-> scan[s].gen]] BY ScanTypes
<1>2. scan[s] \in ScanRows BY SchedParts
<1>3. [stage |-> stage, gen |-> scan[s].gen] \in ScanRows BY <1>2 DEF ScanRows
<1>4. SlotStep(s, [stage |-> stage, gen |-> scan[s].gen]) BY <1>1, <1>3 DEF SlotStep
<1> QED BY <1>3, <1>4 DEF SchedStep

\* Every step moves the scheduler in one of these ways.
LEMMA SchedSteps ==
  ASSUME TypeOK, OnePassRuns, [Next]_vars
  PROVE  SchedStep
<1>1. CASE Event \/ Noise
  <2>1. OnEvent /\ UNCHANGED sched BY <1>1 DEF Event, Noise
  <2> QED BY <2>1, WindowIsSchedStep
<1>2. CASE WindowCloses
  <2>1. CloseWindow(dirty) /\ UNCHANGED sched BY <1>2 DEF WindowCloses
  <2> QED BY <2>1, WindowIsSchedStep
<1>3. CASE Tick BY <1>3, NotifyIsSchedStep DEF Tick
<1>4. ASSUME NEW s \in Slots, Admit(s) PROVE SchedStep
  <2>0. scan[s].stage = "ready" BY <1>4 DEF Admit
  <2>1. CASE host \in {"open", "closing"} /\ active = None /\ active' = s
             /\ scan' = [scan EXCEPT ![s].stage = "running"] /\ queue' = queue
    <3>1. \A r \in ScanRows : r.stage = "running" => Runs(s, r) BY <2>0, <2>1 DEF Runs
    <3> QED BY <2>1, <3>1, StageIsSchedStep DEF Stages
  <2>2. CASE host \in {"open", "closing"} /\ Len(queue) < MaxQueue /\ queue' = Append(queue, s)
             /\ scan' = [scan EXCEPT ![s].stage = "queued"] /\ active' = active
    <3>1. \A r \in ScanRows : r.stage = "queued" => Waits(s, r) BY <2>0, <2>2 DEF Waits
    <3> QED BY <2>2, <3>1, StageIsSchedStep DEF Stages
  <2>3. CASE (\E refused \in BOOLEAN : Settled(s, refused)) /\ UNCHANGED sched
    BY <2>0, <2>3, SettledIsSchedStep
  <2> QED BY <1>4, <2>1, <2>2, <2>3 DEF Admit, Refuse
<1>5. CASE Dequeue
  <2>1. /\ active = None /\ queue # <<>> /\ active' = Head(queue) /\ queue' = Tail(queue)
        /\ scan' = [scan EXCEPT ![Head(queue)].stage = "running"]
    BY <1>5 DEF Dequeue
  <2>2. Head(queue) \in Slots BY <2>1, SchedParts, HeadTailProperties
  <2>3. \A r \in ScanRows : r.stage = "running" => Turns(Head(queue), r) BY <2>1 DEF Turns
  <2> QED BY <2>1, <2>2, <2>3, StageIsSchedStep DEF Stages
<1>6. ASSUME NEW s \in Slots, Walk(s) PROVE SchedStep
  <2>1. scan[s].stage = "running" /\ scan' = [scan EXCEPT ![s].stage = "walked"] /\ UNCHANGED sched
    BY <1>6 DEF Walk
  <2>2. \A r \in ScanRows : r.stage = "walked" => Walks(s, r) BY <2>1 DEF Walks
  <2> QED BY <2>1, <2>2, StageIsSchedStep DEF Stages
<1>7. ASSUME NEW s \in Slots, Complete(s) \/ Break(s) PROVE SchedStep
  <2>1. /\ scan[s].stage \in {"ready", "running", "walked"} /\ queue' = queue /\ Settled(s, FALSE)
        /\ active = s => active' = None
        /\ scan[s].stage = "ready" /\ active # s => active' = active
    BY <1>7 DEF Complete, Break
  <2>2. active = s <=> scan[s].stage # "ready" BY <2>1 DEF OnePassRuns
  <2>3. \/ scan[s].stage \in {"asked", "ready"} /\ UNCHANGED sched
        \/ active = s /\ active' = None /\ queue' = queue
    BY <2>1, <2>2 DEF sched
  <2> QED BY <2>1, <2>3, SettledIsSchedStep
<1>8. CASE Click
  <2>1. scan' = [scan EXCEPT !["click"] = Asked] /\ UNCHANGED sched /\ scan["click"].stage = "idle"
    BY <1>8 DEF Click, Idle
  <2>2. Asked \in ScanRows /\ Asked.stage = "asked"
    BY SchedParts DEF Asked, ScanRows, Stages
  <2>3. SlotStep("click", Asked) BY <2>1, <2>2 DEF SlotStep, Asks, Outside
  <2> QED BY <2>2, <2>3, ConstantsOK DEF SchedStep
<1>9. ASSUME NEW s \in Starts, Retarget(s) PROVE SchedStep
  <2>1. UNCHANGED sched /\ generation' = generation + 1 /\ scan[s].stage = "idle" /\ StartScan(s)
    BY <1>9 DEF Retarget, InFlight
  <2>2. PICK t \in Slots : scan' = [scan EXCEPT ![t] = Asked] /\ scan[t].stage = "idle"
    BY <2>1, ConstantsOK DEF StartScan, Delivering
  <2>3. Asked \in ScanRows /\ Asked.stage = "asked"
    BY <2>1, SchedParts DEF Asked, ScanRows, Stages
  <2>4. SlotStep(t, Asked) BY <2>1, <2>2, <2>3 DEF SlotStep, Asks, Outside
  <2> QED BY <2>3, <2>4 DEF SchedStep
<1>10. CASE Change \/ Ripen \/ Untarget \/ Close \/ WatcherClosed \/ StoreCloses \/ UNCHANGED vars
  BY <1>10 DEF Change, Ripen, Untarget, Close, WatcherClosed, StoreCloses, vars, delivery, SchedStep, sched
<1>11. ASSUME NEW s \in Slots, ReadFolder(s) PROVE SchedStep
  <2>0. scan[s].stage = "asked" /\ UNCHANGED sched BY <1>11 DEF ReadFolder
  <2>1. CASE scan' = [scan EXCEPT ![s] = [stage |-> "ready", gen |-> generation]]
    <3>1. [stage |-> "ready", gen |-> generation] \in ScanRows BY SchedParts DEF ScanRows, Stages
    <3>2. SlotStep(s, [stage |-> "ready", gen |-> generation])
      BY <2>0, <2>1 DEF SlotStep, Asks, Outside
    <3> QED BY <3>1, <3>2 DEF SchedStep
  <2>2. CASE Settled(s, FALSE) BY <2>0, <2>2, SettledIsSchedStep
  <2> QED BY <1>11, <2>1, <2>2 DEF ReadFolder
<1> QED BY <1>1, <1>2, <1>3, <1>4, <1>5, <1>6, <1>7, <1>8, <1>9, <1>10, <1>11 DEF Next

\* The rest of the types: window, requests, counters and host.
LEMMA RestTypes ==
  ASSUME TypeOK, BoundsInv, [Next]_vars
  PROVE  /\ mode' \in Modes /\ watching' \in BOOLEAN /\ closed' \in BOOLEAN
         /\ unseen' \in BOOLEAN /\ lost' \in BOOLEAN
         /\ generation' \in Nat /\ signals' \in 0..MaxChanges
         /\ host' \in {"open", "closing", "draining", "closed"}
         /\ dirty' \in BOOLEAN /\ windowEvents' \in 0..Burst /\ wake' \in {"off", "fresh", "ripe"}
         /\ waiting' \in Nat \cup {None} /\ running' \in Slots \cup {None}
         /\ BoundsInv'
<1> USE ConstantsOK
<1> DEFINE Window == dirty' \in BOOLEAN /\ windowEvents' \in 0..Burst /\ wake' \in {"off", "fresh", "ripe"}
           Requests == waiting' \in Nat \cup {None} /\ running' \in Slots \cup {None}
           Flags == /\ mode' \in Modes /\ watching' \in BOOLEAN /\ closed' \in BOOLEAN
                    /\ unseen' \in BOOLEAN /\ lost' \in BOOLEAN
                    /\ host' \in {"open", "closing", "draining", "closed"}
           Counters == generation' \in Nat /\ signals' \in 0..MaxChanges /\ BoundsInv'
<1>1. Flags
  <2>0. /\ mode \in Modes /\ watching \in BOOLEAN /\ closed \in BOOLEAN
        /\ unseen \in BOOLEAN /\ lost \in BOOLEAN
        /\ host \in {"open", "closing", "draining", "closed"}
    BY DEF TypeOK
  <2>1. CASE Change \/ Event \/ Noise \/ Ripen \/ WindowCloses \/ Tick \/ Dequeue \/ Click \/ UNCHANGED vars
    <3>1. /\ UNCHANGED <<mode, watching, closed, host>>
          /\ unseen' \in {unseen, TRUE} /\ lost' \in {lost, FALSE}
      BY <2>1, Zenon DEF Change, Event, Noise, Ripen, WindowCloses, Tick, Dequeue, Click, vars
    <3> QED BY <2>0, <3>1
  <2>2. CASE Untarget \/ Close \/ WatcherClosed \/ StoreCloses
    BY <2>0, <2>2 DEF Untarget, Close, WatcherClosed, StoreCloses, Modes
  <2>3. ASSUME NEW s \in Slots, ReadFolder(s) \/ Admit(s) \/ Complete(s) PROVE Flags
    BY <2>0, <2>3 DEF ReadFolder, Admit, Complete
  <2>4. ASSUME NEW s \in Slots, Break(s) PROVE Flags BY <2>0, <2>4 DEF Break
  <2>5. ASSUME NEW s \in Slots, Walk(s) PROVE Flags
    <3>1. unseen' \in BOOLEAN BY <2>5 DEF Walk
    <3> QED BY <2>0, <2>5, <3>1 DEF Walk
  <2>6. ASSUME NEW s \in Starts, Retarget(s) PROVE Flags BY <2>0, <2>6 DEF Retarget
  <2> HIDE DEF Flags
  <2> QED BY <2>1, <2>2, <2>3, <2>4, <2>5, <2>6 DEF Next
<1>2. Counters
  <2>0. /\ used \in [changes : 0..MaxChanges, clicks : Nat, failures : Nat] /\ signals <= used.changes
        /\ signals \in 0..MaxChanges /\ generation \in Nat
    BY DEF BoundsInv, TypeOK
  <2>1. CASE Change
    <3>1. used' = [used EXCEPT !.changes = @ + 1] /\ used.changes < MaxChanges /\ generation' = generation
          /\ signals' \in {signals, signals + 1}
      BY <2>1 DEF Change
    <3>2. used.changes + 1 \in 0..MaxChanges BY <2>0, <3>1
    <3>3. used' \in [changes : 0..MaxChanges, clicks : Nat, failures : Nat] /\ used'.changes = used.changes + 1
      BY <2>0, <3>1, <3>2
    <3>4. signals' <= used'.changes /\ signals' \in 0..MaxChanges BY <2>0, <3>1, <3>2, <3>3
    <3> QED BY <2>0, <3>1, <3>3, <3>4 DEF BoundsInv
  <2>2. CASE Event
    <3>1. signals' \in 0..MaxChanges /\ signals' <= used'.changes /\ used' = used /\ generation' = generation
      BY <2>0, <2>2 DEF Event
    <3> QED BY <2>0, <3>1 DEF BoundsInv
  <2>3. ASSUME used' \in [changes : 0..MaxChanges, clicks : Nat, failures : Nat], used'.changes = used.changes,
               signals' = signals \/ signals' = 0, generation' \in Nat
        PROVE  Counters
    BY <2>0, <2>3 DEF BoundsInv
  <2>4. CASE Click BY <2>0, <2>3, <2>4 DEF Click
  <2>5. ASSUME NEW s \in Slots, Break(s) PROVE Counters BY <2>0, <2>3, <2>5 DEF Break
  <2>6. CASE UNCHANGED <<used, signals, generation>> BY <2>0, <2>3, <2>6
  <2>7. ASSUME NEW s \in Slots, ReadFolder(s) \/ Admit(s) \/ Walk(s) \/ Complete(s)
        PROVE  UNCHANGED <<used, signals, generation>>
    BY <2>7 DEF ReadFolder, Admit, Walk, Complete
  <2>8. CASE (\E s \in Starts : Retarget(s)) \/ Untarget \/ Close
    BY <2>0, <2>3, <2>8 DEF Retarget, Untarget, Close, Detach
  <2> HIDE DEF Counters
  <2> QED BY <2>1, <2>2, <2>4, <2>5, <2>6, <2>7, <2>8
        DEF Next, Noise, Ripen, WindowCloses, Tick, Dequeue, WatcherClosed, StoreCloses, vars
<1>3. Window /\ Requests
  <2>0. /\ dirty \in BOOLEAN /\ windowEvents \in 0..Burst /\ wake \in {"off", "fresh", "ripe"}
        /\ waiting \in Nat \cup {None} /\ running \in Slots \cup {None}
    BY DEF TypeOK
  <2>1. CASE Event \/ Noise BY <2>1, OnEventMoves DEF Event, Noise
  <2>2. CASE WindowCloses
    <3>1. CloseWindow(dirty) BY <2>2 DEF WindowCloses
    <3>2. windowEvents' = 0 /\ dirty' = FALSE /\ wake' = "off" /\ Requests BY <2>0, <3>1, CloseWindowMoves
    <3>3. windowEvents' \in 0..Burst BY <3>2
    <3> QED BY <3>2, <3>3
  <2>3. CASE Tick BY <2>0, <2>3, NotifyMoves DEF Tick, window
  <2>4. ASSUME NEW s \in Slots, NEW refused \in BOOLEAN, Settled(s, refused) PROVE Window /\ Requests
    BY <2>4, SettledMoves
  <2>5. ASSUME NEW s \in Slots, Admit(s) PROVE Window /\ Requests
    <3>1. CASE UNCHANGED <<waiting, running, window>> BY <2>0, <3>1 DEF window
    <3> QED BY <2>4, <2>5, <3>1 DEF Admit, Refuse
  <2>6. ASSUME NEW s \in Slots, Complete(s) \/ Break(s) PROVE Window /\ Requests
    BY <2>4, <2>6 DEF Complete, Break
  <2>7. ASSUME NEW s \in Slots, Walk(s) PROVE Window /\ Requests BY <2>0, <2>7 DEF Walk, window
  <2>8. ASSUME NEW s \in Starts, Retarget(s) PROVE Window /\ Requests
    <3>1. windowEvents' = 0 /\ dirty' = FALSE /\ wake' = "off" /\ waiting' = waiting /\ running' \in {"pass", s}
      BY <2>8 DEF Retarget, Detach, StartScan
    <3>2. windowEvents' \in 0..Burst BY <3>1
    <3> QED BY <2>0, <2>8, <3>1, <3>2
  <2>9. CASE Change \/ Ripen \/ Dequeue \/ Click \/ WatcherClosed \/ StoreCloses \/ UNCHANGED vars
    BY <2>0, <2>9 DEF Change, Ripen, Dequeue, Click, WatcherClosed, StoreCloses, vars, window, delivery
  <2>10. CASE Untarget \/ Close
    <3>1. windowEvents' = 0 /\ dirty' = FALSE /\ wake' = "off" /\ Requests
      BY <2>0, <2>10 DEF Untarget, Close, Detach, delivery
    <3>2. windowEvents' \in 0..Burst BY <3>1
    <3> QED BY <3>1, <3>2
  <2>11. ASSUME NEW s \in Slots, ReadFolder(s) PROVE Window /\ Requests
    <3>1. CASE UNCHANGED <<waiting, running, window>> BY <2>0, <3>1 DEF window
    <3> QED BY <2>4, <2>11, <3>1 DEF ReadFolder
  <2> QED BY <2>1, <2>2, <2>3, <2>5, <2>6, <2>7, <2>8, <2>9, <2>10, <2>11 DEF Next
<1> QED BY <1>1, <1>2, <1>3

\* No action takes a row, slot or counter out of its range.
LEMMA TypeStep ==
  ASSUME TypeOK, BoundsInv, OnePassRuns, [Next]_vars
  PROVE  TypeOK' /\ BoundsInv'
<1>1. /\ scan' \in [Slots -> ScanRows] /\ active' \in Slots \cup {None}
      /\ queue' \in Seq(Slots) /\ Len(queue') <= MaxQueue
  BY SchedSteps, SchedTypes
<1> QED BY <1>1, RestTypes DEF TypeOK, ScanRows, Stages

-----------------------------------------------------------------------------
(* One pass at a time. *)

\* The scheduler's slot and queue stay what the slots say of themselves.
LEMMA OnePassStep ==
  ASSUME TypeOK, OnePassRuns, QueueInv, SchedStep
  PROVE  OnePassRuns' /\ QueueInv'
<1> USE SchedParts, ConstantsOK
<1> DEFINE In(s) == \E i \in DOMAIN queue : queue[i] = s
<1>0. /\ \A s \in Slots : scan[s].stage \in {"running", "walked"} <=> active = s
      /\ \A s \in Slots : scan[s].stage = "queued" <=> In(s)
      /\ DOMAIN queue = 1..Len(queue)
  BY DEF OnePassRuns
<1>1. CASE scan' = scan /\ UNCHANGED sched BY <1>1 DEF sched, OnePassRuns, QueueInv
<1>2. ASSUME NEW s \in Slots, NEW r \in ScanRows, SlotStep(s, r) PROVE OnePassRuns' /\ QueueInv'
  <2>0. scan'[s] = r /\ \A t \in Slots \ {s} : scan'[t] = scan[t] BY <1>2 DEF SlotStep
  <2>1. ASSUME queue' = queue, active' \in {active, s, None}, scan[s].stage # "queued", r.stage # "queued",
               r.stage \in {"running", "walked"} <=> active' = s,
               \A t \in Slots \ {s} : active' = t <=> active = t
        PROVE  OnePassRuns' /\ QueueInv'
    <3>1. ASSUME NEW t \in Slots
          PROVE  (scan'[t].stage \in {"running", "walked"} <=> active' = t) /\ (scan'[t].stage = "queued" <=> In(t))
      BY <1>0, <2>0, <2>1
    <3> QED BY <2>1, <3>1 DEF OnePassRuns, QueueInv
  <2>2. CASE Asks(s, r)
    <3>1. scan[s].stage \notin {"running", "walked"} BY <2>2 DEF Asks, Outside
    <3> QED BY <1>0, <2>1, <2>2, <3>1 DEF Asks, Outside, sched
  <2>3. CASE Settles(s, r)
    <3>1. scan[s].stage \in {"running", "walked"} BY <1>0, <2>3 DEF Settles
    <3> QED BY <2>1, <2>3, <3>1 DEF Settles
  <2>4. CASE Runs(s, r) BY <2>1, <2>4 DEF Runs
  <2>5. CASE Walks(s, r)
    <3>1. active = s BY <1>0, <2>5 DEF Walks
    <3> QED BY <2>1, <2>5, <3>1 DEF Walks, sched
  <2>6. CASE Waits(s, r)
    <3>1. /\ DOMAIN queue' = 1..(Len(queue) + 1) /\ queue'[Len(queue) + 1] = s
          /\ \A i \in 1..Len(queue) : queue'[i] = queue[i]
      BY <2>6 DEF Waits
    <3>2. ~In(s) /\ active # s BY <1>0, <2>6 DEF Waits
    <3>3. ASSUME NEW t \in Slots
          PROVE  /\ scan'[t].stage \in {"running", "walked"} <=> active' = t
                 /\ scan'[t].stage = "queued" <=> \E i \in DOMAIN queue' : queue'[i] = t
      <4>1. CASE t = s BY <2>0, <2>6, <3>1, <3>2, <4>1 DEF Waits
      <4>2. CASE t # s BY <1>0, <2>0, <2>6, <3>1, <4>2 DEF Waits
      <4> QED BY <4>1, <4>2
    <3>4. QueueInv' BY <1>0, <3>1, <3>2 DEF QueueInv
    <3> QED BY <3>3, <3>4 DEF OnePassRuns
  <2>7. CASE Turns(s, r)
    <3>1. /\ DOMAIN queue' = 1..(Len(queue) - 1) /\ \A i \in 1..(Len(queue) - 1) : queue'[i] = queue[i + 1]
          /\ s = queue[1] /\ Len(queue) >= 1 /\ active = None /\ active' = s /\ r.stage = "running"
      <4>1. queue # <<>> /\ queue' = Tail(queue) /\ s = Head(queue) BY <2>7 DEF Turns
      <4>2. Len(Tail(queue)) = Len(queue) - 1 /\ Tail(queue) \in Seq(Slots)
            /\ \A i \in 1..Len(Tail(queue)) : Tail(queue)[i] = queue[i + 1]
        BY <4>1, HeadTailProperties
      <4> QED BY <2>7, <4>1, <4>2 DEF Turns
    <3>2. \A i \in 1..(Len(queue) - 1) : i + 1 \in DOMAIN queue /\ i + 1 # 1 BY <1>0
    <3>3. ASSUME NEW t \in Slots
          PROVE  /\ scan'[t].stage \in {"running", "walked"} <=> active' = t
                 /\ scan'[t].stage = "queued" <=> \E i \in DOMAIN queue' : queue'[i] = t
      <4>1. CASE t = s
        <5>1. \A i \in DOMAIN queue' : queue'[i] # s
          <6>1. 1 \in DOMAIN queue BY <1>0, <3>1
          <6> QED BY <3>1, <3>2, <6>1 DEF QueueInv
        <5> QED BY <2>0, <3>1, <4>1, <5>1
      <4>2. CASE t # s
        <5>1. In(t) <=> \E i \in DOMAIN queue' : queue'[i] = t
          <6>1. ASSUME NEW i \in DOMAIN queue, queue[i] = t PROVE \E j \in DOMAIN queue' : queue'[j] = t
            <7>1. i # 1 /\ i - 1 \in DOMAIN queue' /\ queue'[i - 1] = queue[i - 1 + 1] /\ i - 1 + 1 = i
              BY <1>0, <3>1, <4>2, <6>1
            <7> QED BY <6>1, <7>1
          <6>2. ASSUME NEW i \in DOMAIN queue', queue'[i] = t PROVE In(t) BY <3>1, <3>2, <6>2
          <6> QED BY <6>1, <6>2
        <5> QED BY <1>0, <2>0, <3>1, <4>2, <5>1
      <4> QED BY <4>1, <4>2
    <3>4. QueueInv'
      <4>1. ASSUME NEW i \in DOMAIN queue', NEW j \in DOMAIN queue', queue'[i] = queue'[j] PROVE i = j
        <5>1. i + 1 \in DOMAIN queue /\ j + 1 \in DOMAIN queue /\ queue[i + 1] = queue[j + 1] /\ i \in Int /\ j \in Int
          BY <3>1, <3>2, <4>1
        <5>2. i + 1 = j + 1 BY <5>1 DEF QueueInv
        <5> QED BY <5>1, <5>2
      <4> QED BY <4>1 DEF QueueInv
    <3> QED BY <3>3, <3>4 DEF OnePassRuns
  <2> QED BY <1>2, <2>2, <2>3, <2>4, <2>5, <2>6, <2>7 DEF SlotStep
<1> QED BY <1>1, <1>2 DEF SchedStep

\* A host closes its store over an empty scheduler, and nothing is admitted after.
LEMMA HostStep ==
  ASSUME TypeOK, OnePassRuns, HostInv, [Next]_vars
  PROVE  HostInv'
<1>1. closed' <=> host' # "open"
  <2>1. CASE Close BY <2>1 DEF Close
  <2>2. CASE WatcherClosed \/ StoreCloses BY <2>2 DEF WatcherClosed, StoreCloses, HostInv
  <2>3. CASE UNCHANGED <<closed, host>> BY <2>3 DEF HostInv
  <2>4. ASSUME NEW s \in Slots, ReadFolder(s) \/ Admit(s) \/ Walk(s) \/ Complete(s) \/ Break(s) PROVE UNCHANGED <<closed, host>>
    BY <2>4 DEF ReadFolder, Admit, Walk, Complete, Break
  <2> QED BY <2>1, <2>2, <2>3, <2>4
        DEF Next, Change, Event, Noise, Ripen, WindowCloses, Tick, Dequeue, Click, Retarget, Untarget, vars
<1>2. ASSUME host' = "closed" PROVE active' = None /\ queue' = <<>>
  <2>1. CASE StoreCloses BY <2>1 DEF StoreCloses, sched
  <2>2. CASE ~StoreCloses
    <3>1. host = "closed"
      BY <1>2, <2>2 DEF Next, Change, Event, Noise, Ripen, WindowCloses, Tick, Dequeue, Click, ReadFolder, Admit, Walk, Complete,
             Break, Retarget, Untarget, Close, WatcherClosed, vars
    <3>2. active = None /\ queue = <<>> BY <3>1 DEF HostInv
    <3>3. \A s \in Slots : scan[s].stage \notin {"running", "walked"} BY <3>2, ConstantsOK DEF OnePassRuns
    <3>4. CASE scan' = scan /\ UNCHANGED sched BY <3>2, <3>4 DEF sched
    <3>5. ASSUME NEW s \in Slots, NEW r \in ScanRows, SlotStep(s, r) PROVE active' = None /\ queue' = <<>>
      BY <3>1, <3>2, <3>3, <3>5 DEF SlotStep, Asks, Settles, Runs, Waits, Turns, Walks, sched
    <3> QED BY <3>4, <3>5, SchedSteps DEF SchedStep
  <2> QED BY <2>1, <2>2
<1> QED BY <1>1, <1>2 DEF HostInv

-----------------------------------------------------------------------------
(* No change is forgotten. *)

Watched == mode = "recursive" /\ watching /\ ~closed /\ unseen /\ ~lost

\* A delivery stands for whatever has not been seen.
LEMMA NotifyLooks ==
  ASSUME TypeOK, Notify, generation' = generation
  PROVE  waiting' = generation' \/ \E s \in Slots \ {"click"} : Stands(s)'
<1>1. CASE waiting' = generation BY <1>1
<1>2. CASE scan' = [scan EXCEPT !["pass"] = Asked]
  <2>1. scan'["pass"] = Asked BY <1>2, SchedParts, ConstantsOK
  <2>2. Stands("pass")' BY <2>1 DEF Stands, Asked
  <2> QED BY <2>2, ConstantsOK
<1> QED BY <1>1, <1>2, NotifyMoves

\* What stands for a change is replaced by something that does too.
LEMMA LookStep ==
  ASSUME TypeOK, BoundsInv, OnePassRuns, HostInv, LookInv, [Next]_vars
  PROVE  LookInv'
<1> DEFINE Pending == \E s \in Slots \ {"click"} : Stands(s)
           Looks == signals > 0 \/ (dirty /\ wake # "off") \/ waiting = generation \/ Pending
<1>0. SUFFICES ASSUME Watched' PROVE Looks' BY DEF LookInv, Watched
<1>1. ASSUME Watched PROVE Looks BY <1>1 DEF LookInv, Watched
<1>2. ASSUME Notify, generation' = generation PROVE Looks' BY <1>2, NotifyLooks
<1>3. ASSUME NEW s \in Slots, scan'[s].gen = scan[s].gen, \A t \in Slots \ {s} : scan'[t] = scan[t],
             generation' = generation, scan[s].stage # "asked", scan'[s].stage \in {"queued", "running"}, Pending
      PROVE  Pending'
  <2>1. PICK t \in Slots \ {"click"} : Stands(t) BY <1>3
  <2>2. Stands(t)' BY <1>3, <2>1 DEF Stands
  <2> QED BY <2>1, <2>2
<1>4. CASE Change
  <2>1. signals' = signals + 1 /\ signals \in Nat BY <1>0, <1>4 DEF Change, Watched, TypeOK
  <2> QED BY <2>1
<1>5. CASE Event \/ Noise
  <2>1. OnEvent /\ generation' = generation BY <1>5 DEF Event, Noise
  <2>2. CASE Notify BY <1>2, <2>1, <2>2
  <2>3. CASE dirty' = TRUE /\ wake' = "fresh" BY <2>3
  <2> QED BY <2>1, <2>2, <2>3, OnEventMoves
<1>6. CASE WindowCloses
  <2>1. CloseWindow(dirty) /\ UNCHANGED <<mode, watching, closed, generation, unseen, signals, lost>>
    BY <1>6 DEF WindowCloses
  <2>2. CASE dirty
    <3>1. Notify BY <2>1, <2>2, CloseWindowMoves DEF TypeOK
    <3> QED BY <1>2, <2>1, <3>1
  <2>3. CASE ~dirty
    <3>1. waiting' = waiting /\ scan' = scan BY <2>1, <2>3, CloseWindowMoves DEF TypeOK
    <3>2. Watched BY <1>0, <2>1 DEF Watched
    <3>3. Looks BY <1>1, <3>2
    <3> QED BY <2>1, <2>3, <3>1, <3>3 DEF Stands
  <2> QED BY <2>2, <2>3
<1>7. CASE Tick BY <1>0, <1>7 DEF Tick, Watched
<1>8. ASSUME NEW s \in Slots, NEW refused \in BOOLEAN, Settled(s, refused),
             UNCHANGED <<mode, watching, closed, generation, signals>>,
             Watched => ~Stands(s) \/ s = "click" \/ refused, Watched
      PROVE  Looks'
  <2>0. Looks /\ ~closed /\ watching BY <1>1, <1>8 DEF Watched
  <2>1. PICK next \in {Idle, Asked} :
          /\ scan' = [scan EXCEPT ![s] = next]
          /\ s = "pass" /\ waiting = generation /\ ~closed => next = Asked
    BY <1>8, SettledMoves
  <2>2. \A t \in Slots \ {s} : scan'[t] = scan[t] BY <2>1, SchedParts
  <2>3. scan'[s] = next BY <2>1, SchedParts
  <2>4. CASE signals > 0 BY <1>8, <2>4
  <2>5. CASE dirty /\ wake # "off"
    <3>1. dirty' /\ wake' # "off" BY <1>8, <2>5, SettledMoves
    <3> QED BY <3>1
  <2>6. CASE waiting = generation
    <3>1. CASE s = "pass"
      <4>1. Stands("pass")' BY <1>8, <2>0, <2>1, <2>3, <2>6, <3>1 DEF Stands, Asked
      <4> QED BY <4>1, ConstantsOK
    <3>2. CASE s # "pass"
      <4>1. waiting' = waiting BY <1>8, <3>2, SettledMoves
      <4> QED BY <1>8, <2>6, <4>1
    <3> QED BY <3>1, <3>2
  <2>7. CASE Pending
    <3>1. PICK t \in Slots \ {"click"} : Stands(t) BY <2>7
    <3>2. CASE t # s
      <4>1. Stands(t)' BY <1>8, <2>2, <3>1, <3>2 DEF Stands
      <4> QED BY <3>1, <4>1
    <3>3. CASE t = s
      <4>1. refused /\ s # "click" BY <1>8, <3>1, <3>3
      <4>2. dirty' = TRUE /\ wake' = "fresh" BY <1>8, <2>0, <4>1, RefusedMoves
      <4> QED BY <4>2
    <3> QED BY <3>2, <3>3
  <2> QED BY <2>0, <2>4, <2>5, <2>6, <2>7
<1>9. ASSUME NEW s \in Slots, Admit(s) PROVE Looks'
  <2>0. /\ UNCHANGED <<mode, watching, closed, generation, unseen, signals, lost, host>>
        /\ Watched /\ scan[s].stage = "ready"
    BY <1>0, <1>9 DEF Admit, Watched
  <2>1. CASE /\ UNCHANGED <<waiting, window>>
             /\ scan' = [scan EXCEPT ![s].stage = "running"] \/ scan' = [scan EXCEPT ![s].stage = "queued"]
    <3>1. /\ \A t \in Slots \ {s} : scan'[t] = scan[t]
          /\ scan'[s].stage \in {"queued", "running"} /\ scan'[s].gen = scan[s].gen
      BY <2>1, SchedParts DEF ScanRows
    <3>2. Pending => Pending' BY <1>3, <2>0, <3>1
    <3> QED BY <1>1, <2>0, <2>1, <3>2 DEF window
  <2>2. CASE Settled(s, TRUE) BY <1>8, <2>0, <2>2
  <2>3. CASE host \in {"draining", "closed"} BY <2>0, <2>3 DEF HostInv, Watched
  <2> QED BY <1>9, <2>1, <2>2, <2>3 DEF Admit, Refuse
<1>10. CASE Dequeue
  <2>0. /\ UNCHANGED <<mode, watching, closed, generation, window, waiting, unseen, signals, lost>>
        /\ queue # <<>> /\ scan' = [scan EXCEPT ![Head(queue)].stage = "running"]
    BY <1>10 DEF Dequeue
  <2>1. Head(queue) \in Slots BY <2>0, SchedParts, HeadTailProperties
  <2>2. /\ \A t \in Slots \ {Head(queue)} : scan'[t] = scan[t]
        /\ scan'[Head(queue)].stage \in {"queued", "running"} /\ scan'[Head(queue)].gen = scan[Head(queue)].gen
    BY <2>0, <2>1, SchedParts DEF ScanRows
  <2>3. Pending => Pending'
    <3>1. Head(queue) = queue[1] /\ 1 \in DOMAIN queue BY <2>0, SchedParts, HeadTailProperties
    <3>2. scan[Head(queue)].stage = "queued" BY <2>1, <3>1 DEF OnePassRuns
    <3> QED BY <1>3, <2>0, <2>1, <2>2, <3>2
  <2>4. Watched BY <1>0, <2>0 DEF Watched
  <2> QED BY <1>1, <2>0, <2>3, <2>4 DEF window
<1>11. ASSUME NEW s \in Slots, Walk(s) PROVE Looks'
  <2>0. /\ UNCHANGED <<mode, watching, closed, generation, window, waiting, signals, lost>>
        /\ scan' = [scan EXCEPT ![s].stage = "walked"] /\ unseen' = (unseen /\ scan[s].gen # generation)
        /\ scan[s].stage = "running"
    BY <1>11 DEF Walk
  <2>1. Watched /\ scan[s].gen # generation BY <1>0, <2>0 DEF Watched
  <2>2. \A t \in Slots \ {s} : scan'[t] = scan[t] BY <2>0, SchedParts
  <2>3. Pending => Pending' BY <2>0, <2>1, <2>2 DEF Stands
  <2> QED BY <1>1, <2>0, <2>1, <2>3 DEF window
<1>12. ASSUME NEW s \in Slots, Complete(s) PROVE Looks'
  <2>0. /\ Settled(s, FALSE) /\ scan[s].stage = "walked"
        /\ UNCHANGED <<mode, watching, closed, generation, unseen, signals, lost>>
    BY <1>12 DEF Complete
  <2>1. ~Stands(s) /\ Watched BY <1>0, <2>0 DEF Stands, Watched
  <2> QED BY <1>8, <2>0, <2>1
<1>13. ASSUME NEW s \in Slots, Break(s) PROVE Looks'
  <2>0. /\ Settled(s, FALSE) /\ UNCHANGED <<mode, watching, closed, generation, signals>>
        /\ IF scan[s].gen = generation /\ (unseen \/ scan[s].stage = "walked")
           THEN unseen' = TRUE /\ lost' = TRUE ELSE UNCHANGED <<unseen, lost>>
        /\ scan[s].stage # "asked"
    BY <1>13 DEF Break
  <2>1. scan[s].gen # generation /\ Watched BY <1>0, <2>0 DEF Watched
  <2>2. ~Stands(s) BY <2>0, <2>1 DEF Stands
  <2> QED BY <1>8, <2>0, <2>1, <2>2
<1>14. CASE Click
  <2>0. /\ UNCHANGED <<mode, watching, closed, generation, window, waiting, unseen, signals, lost>>
        /\ scan' = [scan EXCEPT !["click"] = Asked]
    BY <1>14 DEF Click
  <2>1. \A t \in Slots \ {"click"} : scan'[t] = scan[t] BY <2>0, SchedParts
  <2>2. Watched BY <1>0, <2>0 DEF Watched
  <2> QED BY <1>1, <2>0, <2>1, <2>2 DEF window, Stands
<1>15. ASSUME NEW s \in Starts, Retarget(s) PROVE Looks'
  <2>1. PICK t \in {"pass", s} : scan' = [scan EXCEPT ![t] = Asked]
    BY <1>15 DEF Retarget, StartScan
  <2>2. t \in Slots \ {"click"} /\ scan'[t] = Asked
    BY <2>1, SchedParts, ConstantsOK
  <2>3. Stands(t)' BY <2>2 DEF Stands, Asked
  <2> QED BY <2>2, <2>3
<1>16. CASE Untarget \/ Close BY <1>0, <1>16 DEF Untarget, Close, Watched
<1>17. CASE Ripen
  <2>1. /\ UNCHANGED <<mode, watching, closed, generation, dirty, delivery, unseen, signals, lost>> /\ wake' = "ripe"
    BY <1>17 DEF Ripen
  <2>2. Watched BY <1>0, <2>1 DEF Watched
  <2> QED BY <1>1, <2>1, <2>2 DEF delivery, Stands
<1>18. CASE WatcherClosed \/ StoreCloses \/ UNCHANGED vars
  <2>1. UNCHANGED <<mode, watching, closed, generation, window, delivery, unseen, signals, lost>>
    BY <1>18 DEF WatcherClosed, StoreCloses, vars
  <2>2. Watched BY <1>0, <2>1 DEF Watched
  <2> QED BY <1>1, <2>1, <2>2 DEF window, delivery, Stands
<1>19. ASSUME NEW s \in Slots, ReadFolder(s) PROVE Looks'
  <2>0. UNCHANGED <<mode, watching, closed, generation, unseen, signals, lost, host>> /\ Watched
    BY <1>0, <1>19 DEF ReadFolder, Watched
  <2>1. watching /\ host # "closed" BY <2>0 DEF HostInv, Watched
  <2>2. scan' = [scan EXCEPT ![s] = [stage |-> "ready", gen |-> generation]] /\ UNCHANGED <<waiting, window>>
    BY <1>19, <2>1 DEF ReadFolder
  <2>3. scan'[s] = [stage |-> "ready", gen |-> generation] /\ \A t \in Slots \ {s} : scan'[t] = scan[t]
    BY <2>2, SchedParts
  <2>4. Pending => Pending' BY <2>0, <2>3 DEF Stands
  <2> QED BY <1>1, <2>0, <2>2, <2>4 DEF window
<1> QED
  BY <1>4, <1>5, <1>6, <1>7, <1>9, <1>10, <1>11, <1>12, <1>13, <1>14, <1>15, <1>16, <1>17, <1>18, <1>19 DEF Next

-----------------------------------------------------------------------------
(* Theorems. *)

\* WatchInv is inductive: it holds of every reachable state.
THEOREM WatchInvariant == Spec => []WatchInv
<1>1. Init => WatchInv
  <2> SUFFICES ASSUME Init PROVE WatchInv OBVIOUS
  <2>1. /\ scan = [[s \in Slots |-> Idle] EXCEPT !["pass"] = Asked]
        /\ active = None /\ queue = <<>> /\ host = "open" /\ closed = FALSE /\ generation = 1 /\ signals = 0
        /\ used = [changes |-> 0, clicks |-> 0, failures |-> 0]
    BY DEF Init
  <2>2. \A s \in Slots : scan[s].stage \in {"idle", "asked"} BY <2>1 DEF Idle, Asked
  <2>3. OnePassRuns BY <2>1, <2>2, ConstantsOK DEF OnePassRuns
  <2>4. BoundsInv /\ QueueInv /\ HostInv BY <2>1, ConstantsOK DEF BoundsInv, QueueInv, HostInv
  <2>5. Stands("pass") BY <2>1, ConstantsOK DEF Stands, Asked
  <2>6. LookInv BY <2>5, ConstantsOK DEF LookInv
  <2> QED BY <2>3, <2>4, <2>6, TypeInit DEF WatchInv
<1>2. WatchInv /\ [Next]_vars => WatchInv'
  BY TypeStep, SchedSteps, OnePassStep, HostStep, LookStep DEF WatchInv
<1> QED BY <1>1, <1>2, PTL DEF Spec

\* Slots, window and host stay in their ranges.
THEOREM TypeCorrect == Spec => []TypeOK
<1>1. WatchInv => TypeOK BY DEF WatchInv
<1> QED BY <1>1, WatchInvariant, PTL

\* One pass runs at a time, whoever asked, and the scheduler knows which.
THEOREM PassesAreSingle == Spec => []OnePassRuns
<1>1. WatchInv => OnePassRuns BY DEF WatchInv
<1> QED BY <1>1, WatchInvariant, PTL

\* The store is not closed under an admitted pass.
THEOREM StoreIsClosedLast == Spec => []StoreOutlivesPasses
<1>1. WatchInv => StoreOutlivesPasses
  <2> SUFFICES ASSUME WatchInv, host = "closed", NEW s \in Slots PROVE scan[s].stage \in {"idle", "asked", "ready"}
    BY DEF StoreOutlivesPasses
  <2>1. active = None /\ queue = <<>> BY DEF WatchInv, HostInv
  <2>2. scan[s].stage \in Stages BY SchedParts DEF WatchInv, ScanRows
  <2>3. scan[s].stage \notin {"running", "walked", "queued"} BY <2>1, ConstantsOK DEF WatchInv, OnePassRuns
  <2> QED BY <2>2, <2>3 DEF Stages
<1> QED BY <1>1, WatchInvariant, PTL

\* While the folder differs from what was seen, something stands for the change.
THEOREM ChangesAreRemembered == Spec => []NoChangeIsForgotten
<1>1. WatchInv => NoChangeIsForgotten
  <2> SUFFICES ASSUME WatchInv, Watched PROVE WillLook BY DEF NoChangeIsForgotten, Watched
  <2> QED BY DEF WatchInv, LookInv, Watched, WillLook, Stands
<1> QED BY <1>1, WatchInvariant, PTL

-----------------------------------------------------------------------------
(* After a close. *)

\* A watcher that is closed has nothing left that could ask for a pass.
RestsWhenClosed == closed => waiting = None /\ ~dirty /\ wake = "off" /\ signals = 0

\* What may still move once the watcher is closed.
Drains ==
  \/ Change \/ Dequeue \/ Click \/ WatcherClosed \/ StoreCloses \/ UNCHANGED vars
  \/ \E s \in Slots : ReadFolder(s) \/ Admit(s) \/ Walk(s) \/ Complete(s) \/ Break(s)

\* Events, windows and retargets are over.
LEMMA ClosedDrains ==
  ASSUME HostInv, RestsWhenClosed, closed, [Next]_vars
  PROVE  Drains
<1>1. ~Event /\ ~Noise /\ ~WindowCloses /\ ~Tick BY DEF Event, Noise, WindowCloses, Tick
<1>2. ~Untarget /\ ~Close BY DEF HostInv, Untarget, Close
<1>3. ASSUME NEW s \in Starts, Retarget(s) PROVE FALSE BY <1>3 DEF HostInv, Retarget
<1>4. ~Ripen BY DEF RestsWhenClosed, Ripen
<1> QED BY <1>1, <1>2, <1>3, <1>4 DEF Next, Drains

\* A request that settles then asks for nothing and arms no window.
LEMMA SettledRests ==
  ASSUME TypeOK, closed, NEW s \in Slots, NEW refused \in BOOLEAN, Settled(s, refused)
  PROVE  /\ scan' = [scan EXCEPT ![s] = Idle] /\ UNCHANGED window
         /\ waiting = None => waiting' = None
BY DEF Settled

\* A step of a closed watcher's host asks for nothing, an operator's click aside: a
\* slot that is idle stays idle, and window, events and retained request stay empty.
LEMMA DrainStep ==
  ASSUME TypeOK, OnePassRuns, RestsWhenClosed, closed, Drains
  PROVE  /\ closed' /\ UNCHANGED <<window, signals>> /\ waiting' = None
         /\ \A s \in Slots \ {"click"} : scan[s].stage = "idle" => scan'[s].stage = "idle"
<1> DEFINE Goal == /\ closed' /\ UNCHANGED <<window, signals>> /\ waiting' = None
                   /\ \A s \in Slots \ {"click"} : scan[s].stage = "idle" => scan'[s].stage = "idle"
<1>0. waiting = None /\ scan \in [Slots -> ScanRows] BY SchedParts DEF RestsWhenClosed
<1>1. CASE Change \/ WatcherClosed \/ StoreCloses \/ UNCHANGED vars
  BY <1>0, <1>1 DEF Change, WatcherClosed, StoreCloses, vars, delivery
<1>2. ASSUME NEW s \in Slots, scan[s].stage # "idle",
             \/ \E stage \in Stages : scan' = [scan EXCEPT ![s].stage = stage]
             \/ scan' = [scan EXCEPT ![s] = Idle]
             \/ \E r \in ScanRows : scan' = [scan EXCEPT ![s] = r]
      PROVE  \A t \in Slots : scan[t].stage = "idle" => scan'[t].stage = "idle"
  <2>1. \A t \in Slots \ {s} : scan'[t] = scan[t] BY <1>0, <1>2
  <2> QED BY <1>2, <2>1
<1>3. CASE Dequeue
  <2>1. /\ queue # <<>> /\ scan' = [scan EXCEPT ![Head(queue)].stage = "running"]
        /\ UNCHANGED <<closed, window, signals, waiting>>
    BY <1>3 DEF Dequeue
  <2>2. Head(queue) \in Slots BY <2>1, SchedParts, HeadTailProperties
  <2>3. scan[Head(queue)].stage # "idle"
    <3>1. Head(queue) = queue[1] /\ 1 \in DOMAIN queue BY <2>1, SchedParts, HeadTailProperties
    <3>2. scan[Head(queue)].stage = "queued" BY <2>2, <3>1 DEF OnePassRuns
    <3> QED BY <3>2
  <2>4. \A t \in Slots : scan[t].stage = "idle" => scan'[t].stage = "idle"
    BY <1>2, <2>1, <2>2, <2>3 DEF Stages
  <2> QED BY <1>0, <2>1, <2>4
<1>4. ASSUME NEW s \in Slots, ReadFolder(s) \/ Admit(s) \/ Walk(s) \/ Complete(s) \/ Break(s) PROVE Goal
  <2>1. scan[s].stage # "idle" /\ UNCHANGED <<closed, signals>> BY <1>4 DEF ReadFolder, Admit, Walk, Complete, Break
  <2>2. CASE \E refused \in BOOLEAN : Settled(s, refused)
    <3>1. scan' = [scan EXCEPT ![s] = Idle] /\ UNCHANGED window /\ waiting' = None BY <1>0, <2>2, SettledRests
    <3> QED BY <1>2, <2>1, <3>1
  <2>3. CASE UNCHANGED <<window, waiting>> /\ \E stage \in Stages : scan' = [scan EXCEPT ![s].stage = stage]
    BY <1>0, <1>2, <2>1, <2>3
  <2>4. CASE UNCHANGED <<window, waiting>> /\ scan' = [scan EXCEPT ![s] = [stage |-> "ready", gen |-> generation]]
    <3>1. [stage |-> "ready", gen |-> generation] \in ScanRows BY SchedParts DEF ScanRows, Stages
    <3> QED BY <1>0, <1>2, <2>1, <2>4, <3>1
  <2> QED BY <1>4, <2>2, <2>3, <2>4 DEF ReadFolder, Admit, Walk, Complete, Break, Refuse, Stages
<1>5. CASE Click
  <2>1. /\ scan' = [scan EXCEPT !["click"] = Asked]
        /\ UNCHANGED <<closed, window, signals, waiting>>
    BY <1>5 DEF Click
  <2>2. \A t \in Slots \ {"click"} : scan'[t] = scan[t] BY <1>0, <2>1
  <2> QED BY <1>0, <2>1, <2>2
<1> QED BY <1>1, <1>3, <1>4, <1>5 DEF Drains

\* Once its watcher is closed a host asks for no further pass, whatever a late event,
\* timer or refusal would arm: what a close waits for only gets less.  An operator
\* may still ask, and is refused once the scheduler drains.
THEOREM ClosedWatchersAskNothing ==
  Spec => [][closed => \A s \in Slots \ {"click"} : scan[s].stage = "idle" => scan'[s].stage = "idle"]_vars
<1>1. Init => RestsWhenClosed BY DEF Init, RestsWhenClosed
<1>2. WatchInv /\ RestsWhenClosed /\ [Next]_vars => RestsWhenClosed'
  <2> SUFFICES ASSUME WatchInv, RestsWhenClosed, [Next]_vars, closed'
      PROVE  waiting' = None /\ ~dirty' /\ wake' = "off" /\ signals' = 0
    BY DEF RestsWhenClosed
  <2>1. CASE closed
    <3>1. Drains BY <2>1, ClosedDrains DEF WatchInv
    <3>2. UNCHANGED <<window, signals>> /\ waiting' = None BY <2>1, <3>1, DrainStep DEF WatchInv
    <3> QED BY <2>1, <3>2 DEF RestsWhenClosed, window
  <2>2. CASE ~closed
    <3>1. host = "open" /\ host' # "open"
      <4>1. HostInv /\ HostInv' BY HostStep DEF WatchInv
      <4> QED BY <2>2, <4>1 DEF HostInv
    <3>2. Close
      <4>1. ASSUME NEW s \in Slots, ReadFolder(s) \/ Admit(s) \/ Walk(s) \/ Complete(s) \/ Break(s) PROVE host' = host
        BY <4>1 DEF ReadFolder, Admit, Walk, Complete, Break
      <4>2. ~WatcherClosed /\ ~StoreCloses BY <3>1 DEF WatcherClosed, StoreCloses
      <4> QED BY <3>1, <4>1, <4>2 DEF Next, Change, Event, Noise, Ripen, WindowCloses, Tick, Dequeue, Click,
                Retarget, Untarget, vars
    <3> QED BY <3>2 DEF Close, Detach
  <2> QED BY <2>1, <2>2
<1>3. WatchInv /\ RestsWhenClosed /\ [Next]_vars =>
        [closed => \A s \in Slots \ {"click"} : scan[s].stage = "idle" => scan'[s].stage = "idle"]_vars
  <2> SUFFICES ASSUME WatchInv, RestsWhenClosed, [Next]_vars, closed
      PROVE  \A s \in Slots \ {"click"} : scan[s].stage = "idle" => scan'[s].stage = "idle"
    OBVIOUS
  <2>1. Drains BY ClosedDrains DEF WatchInv
  <2> QED BY <2>1, DrainStep DEF WatchInv
<1> QED BY <1>1, <1>2, <1>3, WatchInvariant, PTL DEF Spec
=============================================================================
