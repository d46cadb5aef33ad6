----------------------------- MODULE FolderWatch -----------------------------
(***************************************************************************)
(* The desktop host's folder watcher and the bounded admission its passes  *)
(* share with an operator's clicks: events become windows, windows become  *)
(* requests for a full pass, at most one in flight and one waiting, and a  *)
(* host that closes waits for what it admitted.                            *)
(*                                                                         *)
(* Abstracted: a folder is the generation it was attached in, so a save of *)
(* the settings and the retarget that follows it are one step; a pass sees *)
(* what changed before it began to walk.  The scheduler and the latest     *)
(* delivery are external (@jarenjs/core) and modelled from their use.      *)
(***************************************************************************)
EXTENDS Integers, Sequences

CONSTANTS Starts,        \* bound: start scans of a retarget, one slot each
          Burst,         \* maxEventsPerWindow
          MaxQueue,      \* FOLDER_ADMISSION.maxQueue
          MaxChanges,    \* bound: changes made to the folder
          MaxClicks,     \* bound: passes an operator asks for
          MaxTargets,    \* bound: folders attached
          MaxFailures,   \* bound: passes that fail
          None

ASSUME FolderWatchAssumption ==
  /\ Burst \in Nat /\ MaxQueue \in Nat
  /\ MaxChanges \in Nat /\ MaxClicks \in Nat /\ MaxFailures \in Nat /\ MaxTargets \in Nat
  /\ Starts \cap {"pass", "click"} = {} /\ None \notin Starts \cup {"pass", "click"}

Slots == {"pass", "click"} \cup Starts   \* who asks: a window, an operator, a retarget

VARIABLES mode,         \* what attach answered: "recursive", "tick" or "unavailable"
          watching,     \* a folder is set
          closed, generation, dirty, windowEvents,
          wake,         \* the debounce window: "off", "fresh" (just re-armed), "ripe"
          waiting,      \* the request latest delivery retains: its generation, or None
          running,      \* the scan a close would await, or None
          scan,         \* per slot: stage, and the generation whose folder it read
          active, queue, \* the scheduler: the slot it runs, those that wait
          host,         \* "open", "closing", "draining", "closed"
          unseen,       \* the folder differs from what the last pass saw
          signals,      \* filesystem events not yet delivered
          lost,         \* the pass that should have seen it failed
          used          \* bounds: changes, clicks, failures so far

window   == <<dirty, windowEvents, wake>>
delivery == <<waiting, running, scan>>
sched    == <<active, queue>>
vars     == <<mode, watching, closed, generation, window, delivery, sched, host, unseen, signals, lost, used>>

-----------------------------------------------------------------------------
Modes == {"recursive", "tick", "unavailable"}

Idle  == [stage |-> "idle", gen |-> 0]
Asked == [stage |-> "asked", gen |-> 0]    \* scan() has yet to read the settings
Delivering == scan["pass"].stage # "idle"
InFlight(s) == scan[s].stage # "idle"

\* A host starts with a full scan beside it: it has seen nothing yet.
Init ==
  /\ mode \in Modes
  /\ watching = TRUE /\ closed = FALSE /\ generation = 1
  /\ dirty = FALSE /\ windowEvents = 0 /\ wake = "off"
  /\ waiting = None /\ running = "pass"
  /\ scan = [[s \in Slots |-> Idle] EXCEPT !["pass"] = Asked]
  /\ active = None /\ queue = <<>> /\ host = "open"
  /\ unseen = TRUE /\ signals = 0 /\ lost = FALSE
  /\ used = [changes |-> 0, clicks |-> 0, failures |-> 0]

\* passes.notify: deliver now, or retain the latest.
Notify ==
  IF Delivering THEN waiting' = generation /\ UNCHANGED <<running, scan>>
  ELSE /\ scan' = [scan EXCEPT !["pass"] = Asked]
       /\ running' = "pass"
       /\ UNCHANGED waiting

\* closeWindow: nothing outstanding is no reason to walk.
CloseWindow(outstanding) ==
  /\ windowEvents' = 0 /\ dirty' = FALSE /\ wake' = "off"
  /\ IF outstanding THEN Notify ELSE UNCHANGED delivery

-----------------------------------------------------------------------------
(* Events and windows. *)

\* Somebody edits the folder.
Change ==
  /\ watching /\ used.changes < MaxChanges
  /\ used' = [used EXCEPT !.changes = @ + 1]
  /\ unseen' = TRUE /\ lost' = FALSE
  /\ signals' = IF mode = "recursive" /\ ~closed THEN signals + 1 ELSE signals
  /\ UNCHANGED <<mode, watching, closed, generation, window, delivery, sched, host>>

\* Mutant: a full window waits for quiet like any other.
OnEvent_NoOverflow ==
  /\ windowEvents' = IF windowEvents > Burst THEN windowEvents ELSE windowEvents + 1
  /\ dirty' = TRUE /\ wake' = "fresh"
  /\ UNCHANGED delivery

\* onEvent: each event pushes the window out, one too many closes it.
OnEvent ==
  IF windowEvents + 1 > Burst
  THEN CloseWindow(TRUE)
  ELSE /\ windowEvents' = windowEvents + 1 /\ dirty' = TRUE /\ wake' = "fresh"
       /\ UNCHANGED delivery

Event ==
  /\ watching /\ ~closed /\ signals > 0
  /\ signals' = signals - 1
  /\ OnEvent
  /\ UNCHANGED <<mode, watching, closed, generation, sched, host, unseen, lost, used>>

\* An event that changes nothing: another file's, or the handle's own error.
Noise ==
  /\ watching /\ ~closed /\ mode = "recursive"
  /\ OnEvent
  /\ UNCHANGED <<mode, watching, closed, generation, sched, host, unseen, signals, lost, used>>

\* The debounce time passes ...
Ripen ==
  /\ wake = "fresh" /\ wake' = "ripe"
  /\ UNCHANGED <<mode, watching, closed, generation, dirty, windowEvents, delivery, sched, host, unseen, signals, lost, used>>

\* ... and the window closes.
WindowCloses ==
  /\ wake = "ripe" /\ ~closed
  /\ CloseWindow(dirty)
  /\ UNCHANGED <<mode, watching, closed, generation, sched, host, unseen, signals, lost, used>>

\* The ticker, where no recursive watch is available.
Tick ==
  /\ mode = "tick" /\ watching /\ ~closed
  /\ Notify
  /\ UNCHANGED <<mode, watching, closed, generation, window, sched, host, unseen, signals, lost, used>>

-----------------------------------------------------------------------------
(* Requests. *)

\* Mutant: the settled scan stays the one a close awaits.
Settled_StillRunning(s, refused) ==
  /\ scan' = [scan EXCEPT ![s] = Idle]
  /\ waiting' = IF s = "pass" THEN None ELSE waiting
  /\ UNCHANGED <<running, window>>

\* What follows a settled request of the watcher: the latest delivery goes on
\* with a request of this generation, and a refused one keeps its change.
Settled(s, refused) ==
  LET next == IF s = "pass" /\ waiting = generation /\ ~closed THEN Asked ELSE Idle
  IN  /\ scan' = [scan EXCEPT ![s] = next]
      /\ waiting' = IF s = "pass" THEN None ELSE waiting
      /\ running' = IF next # Idle THEN "pass" ELSE IF running = s THEN None ELSE running
      /\ IF refused /\ s # "click" /\ ~closed /\ watching
         THEN dirty' = TRUE /\ wake' = "fresh" /\ UNCHANGED windowEvents
         ELSE UNCHANGED window

\* Mutant: a refused pass forgets the change that asked for it.
Refuse_Forgets(s) == Settled(s, FALSE)

Refuse(s) == Settled(s, TRUE)

\* scan() reads which folder is set now, whoever asked and whenever: without one,
\* or without a store to read it from, it ends there.
ReadFolder(s) ==
  /\ scan[s].stage = "asked"
  /\ \/ /\ watching /\ host # "closed"
        /\ scan' = [scan EXCEPT ![s] = [stage |-> "ready", gen |-> generation]]
        /\ UNCHANGED <<waiting, running, window>>
     \/ ~(watching /\ host # "closed") /\ Settled(s, FALSE)
  /\ UNCHANGED <<mode, watching, closed, generation, sched, host, unseen, signals, lost, used>>

\* scheduler.run: run, wait or be refused.
Admit(s) ==
  /\ scan[s].stage = "ready"
  /\ \/ /\ host \in {"open", "closing"} /\ active = None
        /\ active' = s /\ scan' = [scan EXCEPT ![s].stage = "running"]
        /\ UNCHANGED <<queue, waiting, running, window>>
     \/ /\ host \in {"open", "closing"} /\ active # None /\ Len(queue) < MaxQueue
        /\ queue' = Append(queue, s) /\ scan' = [scan EXCEPT ![s].stage = "queued"]
        /\ UNCHANGED <<active, waiting, running, window>>
     \/ /\ host \in {"open", "closing"} /\ active # None /\ Len(queue) >= MaxQueue
        /\ Refuse(s) /\ UNCHANGED sched
     \/ /\ host \in {"draining", "closed"}
        /\ Settled(s, FALSE) /\ UNCHANGED sched
  /\ UNCHANGED <<mode, watching, closed, generation, host, unseen, signals, lost, used>>

\* An admitted request's turn.
Dequeue ==
  /\ active = None /\ queue # <<>>
  /\ active' = Head(queue) /\ queue' = Tail(queue)
  /\ scan' = [scan EXCEPT ![Head(queue)].stage = "running"]
  /\ UNCHANGED <<mode, watching, closed, generation, window, waiting, running, host, unseen, signals, lost, used>>

\* The pass begins to walk its folder.
Walk(s) ==
  /\ scan[s].stage = "running"
  /\ scan' = [scan EXCEPT ![s].stage = "walked"]
  /\ unseen' = (unseen /\ scan[s].gen # generation)
  /\ UNCHANGED <<mode, watching, closed, generation, window, waiting, running, sched, host, signals, lost, used>>

Complete(s) ==
  /\ scan[s].stage = "walked"
  /\ active' = None /\ Settled(s, FALSE)
  /\ UNCHANGED <<mode, watching, closed, generation, queue, host, unseen, signals, lost, used>>

\* No directory there, a configuration that is refused, or a pass that fails:
\* nothing was looked at, or what was is not in the corpus, and nothing asks again.
Break(s) ==
  /\ scan[s].stage \in {"ready", "running", "walked"} /\ used.failures < MaxFailures
  /\ used' = [used EXCEPT !.failures = @ + 1]
  /\ active' = IF active = s THEN None ELSE active
  /\ Settled(s, FALSE)
  /\ IF scan[s].gen = generation /\ (unseen \/ scan[s].stage = "walked")
     THEN unseen' = TRUE /\ lost' = TRUE
     ELSE UNCHANGED <<unseen, lost>>
  /\ UNCHANGED <<mode, watching, closed, generation, queue, host, signals>>

\* An operator asks for a pass.  The dispatcher is closed after the schedulers, so
\* the request may come while the host closes.
Click ==
  /\ host # "closed" /\ scan["click"] = Idle /\ used.clicks < MaxClicks
  /\ used' = [used EXCEPT !.clicks = @ + 1]
  /\ scan' = [scan EXCEPT !["click"] = Asked]
  /\ UNCHANGED <<mode, watching, closed, generation, window, waiting, running, sched, host, unseen, signals, lost>>

-----------------------------------------------------------------------------
(* Retarget and close. *)

Detach == windowEvents' = 0 /\ dirty' = FALSE /\ wake' = "off" /\ signals' = 0

\* Mutant: the new folder's start scan takes the place of a request in flight.
StartScan_Coalesced(s) ==
  IF Delivering THEN UNCHANGED <<waiting, running, scan>>
  ELSE scan' = [scan EXCEPT !["pass"] = Asked] /\ running' = "pass" /\ UNCHANGED waiting

\* The start scan: through the delivery when it is idle, beside it otherwise.
StartScan(s) ==
  IF ~Delivering
  THEN scan' = [scan EXCEPT !["pass"] = Asked] /\ running' = "pass" /\ UNCHANGED waiting
  ELSE scan' = [scan EXCEPT ![s] = Asked] /\ running' = s /\ UNCHANGED waiting

Retarget(s) ==
  /\ host = "open" /\ ~InFlight(s)
  /\ generation < MaxTargets
  /\ generation' = generation + 1 /\ watching' = TRUE
  /\ Detach /\ mode' \in Modes /\ unseen' = TRUE /\ lost' = FALSE
  /\ StartScan(s)
  /\ UNCHANGED <<closed, sched, host, used>>

\* No folder is set any more.
Untarget ==
  /\ host = "open" /\ watching
  /\ generation < MaxTargets
  /\ generation' = generation + 1 /\ watching' = FALSE
  /\ Detach /\ mode' = "unavailable" /\ unseen' = FALSE /\ lost' = FALSE
  /\ UNCHANGED <<closed, delivery, sched, host, used>>

\* watcher.close: nothing is asked any more, the scan in `running' is awaited.
Close ==
  /\ host = "open" /\ host' = "closing"
  /\ closed' = TRUE /\ Detach /\ waiting' = None
  /\ generation' = generation + 1
  /\ UNCHANGED <<mode, watching, running, scan, sched, unseen, lost, used>>

WatcherClosed ==
  /\ host = "closing" /\ running = None /\ host' = "draining"
  /\ UNCHANGED <<mode, watching, closed, generation, window, delivery, sched, unseen, signals, lost, used>>

\* Mutant: the store is closed when the watcher is.
StoreCloses_Undrained ==
  /\ host = "draining" /\ host' = "closed"
  /\ UNCHANGED <<mode, watching, closed, generation, window, delivery, sched, unseen, signals, lost, used>>

\* The schedulers drain what they admitted; the store closes last.
StoreCloses ==
  /\ host = "draining" /\ active = None /\ queue = <<>>
  /\ host' = "closed"
  /\ UNCHANGED <<mode, watching, closed, generation, window, delivery, sched, unseen, signals, lost, used>>

-----------------------------------------------------------------------------
Next ==
  \/ Change \/ Event \/ Noise \/ Ripen \/ WindowCloses \/ Tick \/ Dequeue \/ Click
  \/ \E s \in Slots : ReadFolder(s) \/ Admit(s) \/ Walk(s) \/ Complete(s) \/ Break(s)
  \/ \E s \in Starts : Retarget(s)
  \/ Untarget \/ Close \/ WatcherClosed \/ StoreCloses

Spec == Init /\ [][Next]_vars

\* Timers fire, events arrive, passes go on; nobody need click, edit or close.
Fairness ==
  /\ WF_vars(Event) /\ WF_vars(Ripen) /\ WF_vars(WindowCloses) /\ WF_vars(Tick) /\ WF_vars(Dequeue)
  /\ \A s \in Slots : WF_vars(ReadFolder(s)) /\ WF_vars(Admit(s)) /\ WF_vars(Walk(s)) /\ WF_vars(Complete(s))
  /\ WF_vars(WatcherClosed) /\ WF_vars(StoreCloses)

FairSpec == Spec /\ Fairness

-----------------------------------------------------------------------------
(* Properties. *)

\* Slots, window and host stay in their ranges.
TypeOK ==
  /\ mode \in Modes /\ watching \in BOOLEAN /\ closed \in BOOLEAN /\ dirty \in BOOLEAN
  /\ unseen \in BOOLEAN /\ lost \in BOOLEAN
  /\ generation \in Nat /\ signals \in 0..MaxChanges /\ windowEvents \in 0..Burst
  /\ wake \in {"off", "fresh", "ripe"}
  /\ waiting \in Nat \cup {None} /\ running \in Slots \cup {None}
  /\ scan \in [Slots -> [stage : {"idle", "asked", "ready", "queued", "running", "walked"}, gen : Nat]]
  /\ active \in Slots \cup {None}
  /\ queue \in Seq(Slots) /\ Len(queue) <= MaxQueue
  /\ host \in {"open", "closing", "draining", "closed"}

\* No change is forgotten: while the folder differs from what was seen, an
\* event, a window, a retained request or a pass that has yet to walk stands
\* for it, unless the pass that stood for it failed.  A request that has not read
\* the settings will read this folder, one that has may be at another.
WillLook ==
  \/ signals > 0
  \/ dirty /\ wake # "off"
  \/ waiting = generation
  \/ \E s \in Slots : \/ scan[s].stage = "asked"
                      \/ scan[s].stage \in {"ready", "queued", "running"} /\ scan[s].gen = generation
NoChangeIsForgotten ==
  mode = "recursive" /\ watching /\ ~closed /\ unseen => lost \/ WillLook

\* One pass runs at a time, whoever asked, and the scheduler knows which.
OnePassRuns ==
  \A s \in Slots :
    /\ scan[s].stage \in {"running", "walked"} <=> active = s
    /\ scan[s].stage = "queued" <=> \E i \in DOMAIN queue : queue[i] = s

\* The store is not closed under an admitted pass.
StoreOutlivesPasses ==
  host = "closed" => \A s \in Slots : scan[s].stage \in {"idle", "asked", "ready"}

\* Every change is seen by a pass, while the folder is watched, however many
\* events keep coming and also where only the ticker asks; after a pass that
\* failed, a ticker asks again and a recursive watch waits for the next event.
\* Where attach found no way to watch, only the start scan and clicks look.
ChangesAreScanned ==
  unseen ~> (~unseen \/ (lost /\ mode = "recursive") \/ mode = "unavailable" \/ closed)

\* A host that closes gets there.
CloseEnds == (host = "closing") ~> (host = "closed")
=============================================================================
