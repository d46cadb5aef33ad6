--------------------------- MODULE MasNodes_proofs ---------------------------
(***************************************************************************)
(* What holds of MasNodes for every workflow graph, any number of          *)
(* executors, outputs and claims.                                          *)
(***************************************************************************)
EXTENDS MasNodes, FiniteSetTheorems, TLAPS

-----------------------------------------------------------------------------
(* The inductive invariant. *)

Pcs   == {"idle", "begun", "ready", "paused", "executed", "failing", "done", "failed"}
Lives == [pc : Pcs, n : Epochs, base : [Keys -> Values], out : Values, calls : Nat,
          fail : {"none", "failed", "aborted", "uncertain"}]
Rows  == [status : RowStatuses, output : Values, seq : Nat]

LifeTyped   == life \in [Executors -> [Keys -> Lives]]
RowsTyped   == row \in [Keys -> [1..MaxClaims -> Rows]]
CountsTyped == /\ runStatus \in Statuses /\ claimSeq \in Epochs /\ traceSeq \in Nat /\ spent \in Nat
               /\ last \in [Keys -> Epochs] /\ held \in [Executors -> Epochs]
               /\ account \in [Executors -> Nat]
RecordsTyped == /\ messages \subseteq [from : Keys, payload : Outputs, seq : Nat, files : Nat]
                /\ revisions \in Seq([member : Keys, seq : Nat, value : [Keys -> Values]])

\* TypeOK falls into four parts, so that a leaf cites only the one it needs.
LEMMA TypeParts == TypeOK <=> LifeTyped /\ RowsTyped /\ CountsTyped /\ RecordsTyped
<1>1. LifeTyped <=> life \in [Executors -> [Keys ->
       [pc : {"idle", "begun", "ready", "paused", "executed", "failing", "done", "failed"},
        n : Epochs, base : [Keys -> Values], out : Values, calls : Nat,
        fail : {"none", "failed", "aborted", "uncertain"}]]]
  BY Zenon DEF LifeTyped, Lives, Pcs
<1>2. RowsTyped <=> row \in [Keys -> [1..MaxClaims -> [status : RowStatuses, output : Values, seq : Nat]]]
  BY Zenon DEF RowsTyped, Rows
<1> QED BY Zenon, <1>1, <1>2 DEF TypeOK, CountsTyped, RecordsTyped

Active == {"begun", "ready", "executed", "failing"}

\* A key has at most one attempt per claim epoch, epochs of executors at work
\* differ, and a walk of the current epoch has not begun what it holds idle.
EpochInv ==
  /\ \A k \in Keys : last[k] <= claimSeq
  /\ \A w \in Executors : held[w] <= claimSeq
  /\ \A v, w \in Executors : v # w /\ Walking(v) /\ Walking(w) => held[v] # held[w]
  /\ \A w \in Executors, k \in Keys :
       Walking(w) /\ Fenced(w) /\ life[w][k].pc = "idle" => last[k] < claimSeq

\* An invocation under way knows its attempt, and what it works with is there.
Sound(me, lastOf) ==
  /\ me.pc \in Active   => me.n \in 1..lastOf
  /\ me.pc = "executed" => me.out \in Outputs
  /\ me.pc = "failing"  => me.fail \in {"failed", "aborted", "uncertain"}

LifeInv ==
  \A w \in Executors, k \in Keys :
    /\ Sound(life[w][k], last[k])
    /\ life[w][k].pc \in Active => InputsReady(w, k)

NodesInv == /\ TypeOK /\ EpochInv /\ LifeInv
            /\ LatestAttemptDecides /\ MessagesMatchCompletions /\ WalksSeeCommitted

\* The constants' assumptions in the form the leaves use.
LEMMA ConstantsOK ==
  /\ None \notin Outputs /\ Needs \in [Keys -> SUBSET Keys] /\ Pushers \subseteq Keys
  /\ Limit \in Nat /\ MaxClaims \in Nat /\ 1 <= MaxClaims
BY NodesAssumption

\* An invocation at rest or refused, and the initial state, are well typed.
LEMMA RestIsLife == Rest \in Lives /\ Refused \in Lives /\ InitialState \in [Keys -> Values]
BY ConstantsOK DEF Rest, Refused, InitialState, Lives, Pcs, Epochs, Values

\* With no claim, attempt or message the invariant holds.
LEMMA NodesInit == Init => NodesInv
<1> SUFFICES ASSUME Init PROVE NodesInv OBVIOUS
<1> USE ConstantsOK
<1>1. TypeOK
  <2>1. NoRow \in Rows BY DEF NoRow, Rows, RowStatuses, Values
  <2>2. RowsTyped BY <2>1 DEF Init, RowsTyped
  <2>3. LifeTyped BY RestIsLife DEF Init, LifeTyped
  <2>4. CountsTyped BY DEF Init, CountsTyped, Statuses, Epochs
  <2>5. RecordsTyped BY DEF Init, RecordsTyped
  <2> QED BY <2>2, <2>3, <2>4, <2>5, TypeParts
<1>2. \A w \in Executors, k \in Keys : life[w][k] = Rest /\ Rest.pc = "idle" BY DEF Init, Rest
<1>0. \A k \in Keys : last[k] = 0 BY DEF Init
<1>3. ASSUME NEW k \in Keys PROVE last[k] = 0 /\ ~Completed(k)
  <2>1. ~(last[k] > 0) BY <1>0
  <2> QED BY Zenon, <1>0, <2>1 DEF Completed
<1>4. EpochInv BY <1>2, <1>3 DEF Init, EpochInv, Walking, Fenced
<1>5. LifeInv BY <1>2 DEF LifeInv, Sound, Active
<1>6. LatestAttemptDecides BY DEF Init, NoRow, LatestAttemptDecides
<1>7. MessagesMatchCompletions BY <1>3 DEF Init, MessagesMatchCompletions
<1>8. WalksSeeCommitted BY <1>2 DEF WalksSeeCommitted
<1> QED BY <1>1, <1>4, <1>5, <1>6, <1>7, <1>8 DEF NodesInv

-----------------------------------------------------------------------------
(* What a step makes of the invocations. *)

\* A step of one invocation sets that invocation only.
LEMMA StepMoves ==
  ASSUME LifeTyped, NEW w \in Executors, NEW k \in Keys, NEW rec \in Lives, Step(w, k, rec)
  PROVE  /\ LifeTyped' /\ life'[w][k] = rec
         /\ \A v \in Executors, j \in Keys : v # w \/ j # k => life'[v][j] = life[v][j]
         /\ \A v \in Executors : v # w => life'[v] = life[v]
BY DEF LifeTyped, Step

\* An executor that leaves forgets its own walk only.
LEMMA LeaveMoves ==
  ASSUME LifeTyped, NEW w \in Executors, Leave(w)
  PROVE  /\ LifeTyped'
         /\ \A k \in Keys : life'[w][k] = Rest
         /\ \A v \in Executors : v # w => life'[v] = life[v]
BY RestIsLife DEF LifeTyped, Leave

\* A step of a node's invocation leaves the others alone, is no step of one
\* that is done, and leaves its own in a sound place.
Moved(w, k) ==
  /\ LifeTyped'
  /\ \A v \in Executors, j \in Keys : v # w \/ j # k => life'[v][j] = life[v][j]
  /\ \A v \in Executors : v # w => life'[v] = life[v]
  /\ life[w][k].pc # "done"
  /\ Sound(life'[w][k], last'[k])
  /\ life'[w][k].pc \in Active => InputsReady(w, k)
  /\ life'[w][k].pc # "idle"

\* Every action of runNode moves its invocation as Moved says.
LEMMA NodeMoves ==
  ASSUME NodesInv, NEW w \in Executors, NEW k \in Keys, Node(w, k)
  PROVE  Moved(w, k)
<1> DEFINE me == life[w][k]
<1>0. LifeTyped /\ CountsTyped /\ RowsTyped /\ RecordsTyped BY TypeParts DEF NodesInv
<1>1. me \in Lives /\ Sound(me, last[k]) /\ (me.pc \in Active => InputsReady(w, k))
  BY <1>0 DEF NodesInv, LifeInv, LifeTyped
<1>2. ASSUME NEW rec \in Lives, Step(w, k, rec), me.pc # "done", rec.pc # "idle",
             Sound(rec, last'[k]), rec.pc \in Active => InputsReady(w, k)
      PROVE  Moved(w, k)
  BY <1>0, <1>2, StepMoves DEF Moved
<1> HIDE DEF me
<1>3. CASE Begin(w, k)
  <2>1. me.pc = "idle" /\ InputsReady(w, k) BY <1>3 DEF Begin, me
  <2>2. Refused.pc = "failed" BY DEF Refused, Rest
  <2>3. CASE Step(w, k, Refused)
    BY <1>2, <2>1, <2>2, <2>3, RestIsLife DEF Sound, Active
  <2>4. CASE Completed(k) /\ Step(w, k, [Rest EXCEPT !.pc = "done", !.out = row[k][last[k]].output])
    <3>1. last[k] \in 1..MaxClaims BY <1>0, <2>4, ConstantsOK DEF Completed, CountsTyped, Epochs
    <3>2. row[k][last[k]].output \in Values BY <1>0, <3>1 DEF RowsTyped, Rows
    <3> DEFINE rec == [Rest EXCEPT !.pc = "done", !.out = row[k][last[k]].output]
    <3>3. rec \in Lives /\ rec.pc = "done" BY <3>2, RestIsLife DEF Lives, Rest, Pcs
    <3> HIDE DEF rec
    <3>4. Sound(rec, last'[k]) BY <3>3 DEF Sound, Active
    <3>5. Step(w, k, rec) BY <2>4 DEF rec
    <3> QED BY <1>2, <2>1, <3>3, <3>4, <3>5 DEF Active
  <2>5. CASE /\ Walking(w) /\ Fenced(w) /\ last' = [last EXCEPT ![k] = @ + 1]
             /\ Step(w, k, [Rest EXCEPT !.pc = "begun", !.n = last[k] + 1])
    <3> DEFINE n == last[k] + 1
    <3>1. last[k] < claimSeq BY <2>1, <2>5 DEF NodesInv, EpochInv, me
    <3>2. n \in 1..MaxClaims /\ n \in Epochs /\ last'[k] = n
      BY <1>0, <2>5, <3>1, ConstantsOK DEF CountsTyped, Epochs
    <3> DEFINE rec == [Rest EXCEPT !.pc = "begun", !.n = n]
    <3>5. Step(w, k, rec) BY <2>5
    <3> HIDE DEF n
    <3>3. rec \in Lives /\ rec.pc = "begun" /\ rec.n = n
      BY <3>2, RestIsLife DEF Lives, Rest, Pcs
    <3> HIDE DEF rec
    <3>4. Sound(rec, last'[k]) BY <3>2, <3>3 DEF Sound
    <3> QED BY <1>2, <2>1, <3>3, <3>4, <3>5
  <2> QED BY <1>3, <2>3, <2>4, <2>5 DEF Begin
<1>4. CASE ReadState(w, k)
  <2>1. LatestState \in [Keys -> Values]
    <3> DEFINE S == [member : Keys, seq : Nat, value : [Keys -> Values]]
    <3>1. ASSUME revisions # <<>> PROVE revisions[Len(revisions)] \in S
      <4>1. revisions \in Seq(S) BY <1>0 DEF RecordsTyped
      <4> HIDE DEF S
      <4> QED BY <3>1, <4>1
    <3> QED BY <3>1, RestIsLife DEF LatestState
  <2> DEFINE base == IF k \in Pushers THEN LatestState ELSE me.base
  <2>2. base \in [Keys -> Values] BY <1>1, <2>1 DEF Lives
  <2>3. Step(w, k, [me EXCEPT !.pc = "ready", !.base = base]) BY <1>4 DEF ReadState, me
  <2> HIDE DEF base
  <2> DEFINE rec == [me EXCEPT !.pc = "ready", !.base = base]
  <2>4. rec \in Lives /\ rec.pc = "ready" /\ rec.n = me.n BY <1>1, <2>2 DEF Lives, Pcs
  <2>5. me.pc = "begun" /\ last' = last BY <1>4 DEF ReadState, store, me
  <2> HIDE DEF rec
  <2>6. Sound(rec, last'[k]) BY <1>1, <2>4, <2>5 DEF Sound, Active
  <2> QED BY <1>1, <1>2, <2>3, <2>4, <2>5, <2>6 DEF Active, rec
<1>5. CASE Call(w, k)
  <2> DEFINE rec == [me EXCEPT !.calls = @ + 1]
  <2>1. rec \in Lives /\ rec.pc = me.pc /\ rec.n = me.n BY <1>1 DEF Lives
  <2>2. me.pc = "ready" /\ last' = last /\ Step(w, k, rec) BY <1>5 DEF Call, store, me
  <2> HIDE DEF rec
  <2>3. Sound(rec, last'[k]) BY <1>1, <2>1, <2>2 DEF Sound, Active
  <2> QED BY <1>1, <1>2, <2>1, <2>2, <2>3 DEF Active
<1>6. ASSUME NEW output \in Outputs, Produce(w, k, output) PROVE Moved(w, k)
  <2> DEFINE rec == [me EXCEPT !.pc = "executed", !.out = output]
  <2>1. rec \in Lives /\ rec.pc = "executed" /\ rec.n = me.n /\ rec.out = output
    BY <1>1 DEF Lives, Pcs, Values
  <2>2. me.pc = "ready" /\ last' = last /\ Step(w, k, rec) BY <1>6 DEF Produce, store, me
  <2> HIDE DEF rec
  <2>3. Sound(rec, last'[k]) BY <1>1, <2>1, <2>2 DEF Sound, Active
  <2> QED BY <1>1, <1>2, <2>1, <2>2, <2>3 DEF Active
<1>7. ASSUME NEW outcome \in {"failed", "aborted", "uncertain"}, Step(w, k, [me EXCEPT !.pc = "failing", !.fail = outcome]),
             me.pc \in Active, last' = last
      PROVE  Moved(w, k)
  <2> DEFINE rec == [me EXCEPT !.pc = "failing", !.fail = outcome]
  <2>1. rec \in Lives /\ rec.pc = "failing" /\ rec.n = me.n /\ rec.fail = outcome
    BY <1>1 DEF Lives, Pcs
  <2>2. Step(w, k, rec) BY <1>7
  <2> HIDE DEF rec
  <2>3. Sound(rec, last'[k]) BY <1>1, <1>7, <2>1 DEF Sound, Active
  <2> QED BY <1>1, <1>2, <1>7, <2>1, <2>2, <2>3 DEF Active
<1>8. ASSUME NEW outcome \in {"failed", "aborted", "uncertain"}, Break(w, k, outcome) PROVE Moved(w, k)
  BY <1>7, <1>8 DEF Break, store, me, Active
<1>9. CASE RefuseCommit(w, k)
  BY <1>7, <1>9 DEF RefuseCommit, store, me, Active
<1>10. CASE Pause(w, k)
  <2> DEFINE rec == [Rest EXCEPT !.pc = "paused"]
  <2>1. rec \in Lives /\ rec.pc = "paused" BY RestIsLife DEF Lives, Rest, Pcs
  <2>2. me.pc = "ready" /\ Step(w, k, rec) BY <1>10 DEF Pause, me
  <2> HIDE DEF rec
  <2>3. Sound(rec, last'[k]) BY <2>1 DEF Sound, Active
  <2> QED BY <1>2, <2>1, <2>2, <2>3 DEF Active
<1>11. CASE Commit(w, k)
  <2> DEFINE rec == [Rest EXCEPT !.pc = "done", !.out = me.out]
  <2>1. rec \in Lives /\ rec.pc = "done" BY <1>1, RestIsLife DEF Lives, Rest, Pcs
  <2>2. me.pc = "executed" /\ Step(w, k, rec) BY <1>11 DEF Commit, me
  <2> HIDE DEF rec
  <2>3. Sound(rec, last'[k]) BY <2>1 DEF Sound, Active
  <2> QED BY <1>2, <2>1, <2>2, <2>3 DEF Active
<1>12. CASE Fail(w, k)
  <2>1. me.pc = "failing" /\ Step(w, k, Refused) BY <1>12 DEF Fail, me
  <2>2. Refused.pc = "failed" BY DEF Refused, Rest
  <2> QED BY <1>2, <2>1, <2>2, RestIsLife DEF Sound, Active
<1> QED BY <1>3, <1>4, <1>5, <1>6, <1>8, <1>9, <1>10, <1>11, <1>12 DEF Node

-----------------------------------------------------------------------------
(* What a step does to the rows: it opens an attempt, completes the latest   *)
(* one with its message, ends the latest one otherwise, or does nothing.     *)

\* Only the latest attempt of a key can be the running one it concerns.
Opens(w, k) ==
  /\ Walking(w) /\ Fenced(w) /\ life[w][k].pc = "idle" /\ ~Completed(k)
  /\ last[k] > 0 => row[k][last[k]].status # "uncertain"
  /\ last' = [last EXCEPT ![k] = @ + 1]
  /\ row' = [row EXCEPT ![k] = RowsOnBegin(k)]
  /\ life'[w][k].pc = "begun"
  /\ UNCHANGED messages

Ends(w, k) ==
  LET me == life[w][k]
  IN  /\ me.n \in 1..last[k] /\ row[k][me.n].status = "running"
      /\ me.fail \in {"failed", "aborted", "uncertain"}
      /\ row' = [row EXCEPT ![k][me.n].status = me.fail]
      /\ UNCHANGED <<last, messages>>

Completes(w, k) ==
  LET me == life[w][k]
  IN  /\ me.n \in 1..last[k] /\ row[k][me.n].status = "running"
      /\ me.out \in Outputs /\ InputsReady(w, k)
      /\ row' = [row EXCEPT ![k][me.n] = [@ EXCEPT !.status = "completed", !.output = me.out]]
      /\ \E files \in Nat :
           messages' = messages \cup
             {[from |-> k, payload |-> me.out, seq |-> traceSeq + 1, files |-> files]}
      /\ life'[w][k].pc = "done" /\ life'[w][k].out = me.out
      /\ UNCHANGED last

Quiet == UNCHANGED <<row, last, messages>>

\* Every step of the system does one of these to the store.
LEMMA StoreSteps ==
  ASSUME NodesInv, [Next]_vars
  PROVE  Quiet \/ \E w \in Executors, k \in Keys : Opens(w, k) \/ Ends(w, k) \/ Completes(w, k)
<1>0. LifeTyped BY TypeParts DEF NodesInv
<1>1. CASE UNCHANGED vars BY <1>1 DEF vars, Quiet
<1>2. CASE Resume \/ Cancel BY <1>2 DEF Resume, Cancel, Quiet
<1>3. ASSUME NEW w \in Executors,
             Claim(w) \/ Crash(w) \/ \E outcome \in {"completed", "waiting", "failed"} : Settle(w, outcome)
      PROVE  Quiet
  BY <1>3 DEF Claim, Crash, Settle, store, Quiet
<1>4. ASSUME NEW w \in Executors, NEW k \in Keys, Node(w, k)
      PROVE  Quiet \/ Opens(w, k) \/ Ends(w, k) \/ Completes(w, k)
  <2>0. Sound(life[w][k], last[k]) /\ (life[w][k].pc \in Active => InputsReady(w, k))
    BY DEF NodesInv, LifeInv
  <2>1. CASE Begin(w, k)
    <3>1. CASE UNCHANGED <<traceSeq, row, last>> BY <2>1, <3>1 DEF Begin, Quiet
    <3>2. CASE /\ Fenced(w) /\ ~Completed(k)
               /\ last[k] > 0 => row[k][last[k]].status # "uncertain"
               /\ last' = [last EXCEPT ![k] = @ + 1]
               /\ row' = [row EXCEPT ![k] = RowsOnBegin(k)]
               /\ Step(w, k, [Rest EXCEPT !.pc = "begun", !.n = last[k] + 1])
      <4>1. life'[w][k].pc = "begun" BY <1>0, <3>2 DEF LifeTyped, Step, Rest
      <4> QED BY <2>1, <3>2, <4>1 DEF Begin, Opens
    <3> QED BY <2>1, <3>1, <3>2 DEF Begin
  <2>2. CASE ReadState(w, k) \/ Call(w, k) \/ Pause(w, k) \/ RefuseCommit(w, k)
    BY <2>2 DEF ReadState, Call, Pause, RefuseCommit, store, Quiet
  <2>3. CASE \/ \E output \in Outputs : Produce(w, k, output)
             \/ \E outcome \in {"failed", "aborted", "uncertain"} : Break(w, k, outcome)
    BY <2>3 DEF Produce, Break, store, Quiet
  <2>4. CASE Commit(w, k)
    <3>1. life'[w][k].pc = "done" /\ life'[w][k].out = life[w][k].out
      BY <1>0, <2>4 DEF LifeTyped, Step, Rest, Commit
    <3> QED BY <2>0, <2>4, <3>1 DEF Commit, MayCommit, Completes, Sound, Active
  <2>5. CASE Fail(w, k) BY <2>0, <2>5 DEF Fail, MayCommit, Ends, Sound, Active, Quiet
  <2> QED BY <1>4, <2>1, <2>2, <2>3, <2>4, <2>5 DEF Node
<1> QED BY <1>1, <1>2, <1>3, <1>4 DEF Next

-----------------------------------------------------------------------------
(* Attempts. *)

RowTypes == RowsTyped /\ last \in [Keys -> Epochs]

Updates(k, n, rec) == row' = [row EXCEPT ![k][n] = rec]

\* Replacing one row of one key leaves all others as they were.
LEMMA UpdateMoves ==
  ASSUME RowTypes, NEW k \in Keys, NEW n \in 1..MaxClaims, NEW rec \in Rows, Updates(k, n, rec)
  PROVE  /\ row'[k][n] = rec /\ RowsTyped'
         /\ \A j \in Keys, m \in 1..MaxClaims : j # k \/ m # n => row'[j][m] = row[j][m]
BY DEF Updates, RowTypes, RowsTyped

\* The attempt a step ends or completes was the latest, and only its row changes.
LEMMA LatestRow ==
  ASSUME RowTypes, LatestAttemptDecides, NEW w \in Executors, NEW k \in Keys,
         Ends(w, k) \/ Completes(w, k)
  PROVE  /\ last[k] \in 1..MaxClaims /\ last' = last
         /\ row[k][last[k]].status = "running"
         /\ \E rec \in Rows :
              /\ Updates(k, last[k], rec)
              /\ Ends(w, k) => rec.status \in {"failed", "aborted", "uncertain"}
              /\ Completes(w, k) => rec.status = "completed" /\ rec.output = life[w][k].out
<1> DEFINE n == life[w][k].n
<1>1. n \in 1..last[k] /\ row[k][n].status = "running" /\ last' = last BY DEF Ends, Completes
<1>2. n \in 1..MaxClaims /\ last[k] \in 1..MaxClaims
  BY <1>1, ConstantsOK DEF RowTypes, Epochs
<1>3. n = last[k] BY <1>1, <1>2 DEF LatestAttemptDecides
<1>4. row[k][n] \in Rows BY <1>2 DEF RowTypes, RowsTyped
<1>5. CASE Ends(w, k)
  <2> DEFINE rec == [row[k][n] EXCEPT !.status = life[w][k].fail]
  <2>1. rec \in Rows /\ rec.status = life[w][k].fail BY <1>4, <1>5 DEF Ends, Rows, RowStatuses
  <2>2. row' = [row EXCEPT ![k][n] = rec] BY <1>2, <1>5 DEF Ends, RowTypes, RowsTyped
  <2>3. rec.status \in {"failed", "aborted", "uncertain"} BY <1>5, <2>1 DEF Ends
  <2>4. ~Completes(w, k)
    <3>1. row'[k][n].status = life[w][k].fail BY <1>2, <2>1, <2>2 DEF RowTypes, RowsTyped
    <3>2. ASSUME Completes(w, k) PROVE row'[k][n].status = "completed"
      BY <1>2, <1>4, <3>2 DEF Completes, RowTypes, RowsTyped, Rows
    <3> QED BY <1>5, <3>1, <3>2 DEF Ends
  <2> HIDE DEF rec
  <2> QED BY <1>1, <1>2, <1>3, <2>1, <2>2, <2>3, <2>4 DEF Updates
<1>6. CASE Completes(w, k)
  <2> DEFINE rec == [row[k][n] EXCEPT !.status = "completed", !.output = life[w][k].out]
  <2>1. rec \in Rows /\ rec.status = "completed" /\ rec.output = life[w][k].out
    BY <1>4, <1>6 DEF Completes, Rows, RowStatuses, Values
  <2>2. row' = [row EXCEPT ![k][n] = rec] BY <1>2, <1>6 DEF Completes, RowTypes, RowsTyped
  <2>3. ~Ends(w, k)
    <3>1. row'[k][n].status = "completed" BY <1>2, <2>1, <2>2 DEF RowTypes, RowsTyped
    <3>2. ASSUME Ends(w, k) PROVE row'[k][n].status \in {"failed", "aborted", "uncertain"}
      BY <1>2, <1>4, <3>2 DEF Ends, RowTypes, RowsTyped, Rows
    <3> QED BY <3>1, <3>2
  <2> HIDE DEF rec
  <2> QED BY <1>1, <1>2, <1>3, <2>1, <2>2, <2>3 DEF Updates
<1> QED BY <1>5, <1>6

\* Neither a new attempt nor the end of one leaves an older attempt deciding.
LEMMA AttemptStep ==
  ASSUME NodesInv, [Next]_vars, last' \in [Keys -> Epochs]
  PROVE  LatestAttemptDecides' /\ RowsTyped'
<1>0. RowTypes /\ LatestAttemptDecides /\ CountsTyped BY TypeParts DEF NodesInv, CountsTyped, RowTypes
<1>1. CASE Quiet BY <1>0, <1>1 DEF Quiet, LatestAttemptDecides, RowTypes, RowsTyped
<1>2. ASSUME NEW w \in Executors, NEW k \in Keys, Ends(w, k) \/ Completes(w, k)
      PROVE  LatestAttemptDecides' /\ RowsTyped'
  <2>1. last[k] \in 1..MaxClaims /\ last' = last /\ row[k][last[k]].status = "running"
    BY <1>0, <1>2, LatestRow
  <2>2. PICK rec \in Rows : Updates(k, last[k], rec) BY <1>0, <1>2, LatestRow
  <2>3. /\ RowsTyped'
        /\ \A j \in Keys, n \in 1..MaxClaims : j # k \/ n # last[k] => row'[j][n] = row[j][n]
    BY <1>0, <2>1, <2>2, UpdateMoves
  <2>4. ASSUME NEW j \in Keys, NEW n \in 1..MaxClaims,
               row'[j][n].status \in {"running", "completed", "uncertain"}
        PROVE  n = last'[j]
    <3>1. CASE j = k /\ n = last[k] BY <2>1, <3>1
    <3>2. CASE j # k \/ n # last[k] BY <1>0, <2>1, <2>3, <2>4, <3>2 DEF LatestAttemptDecides
    <3> QED BY <3>1, <3>2
  <2> QED BY <2>3, <2>4 DEF LatestAttemptDecides
<1>3. ASSUME NEW w \in Executors, NEW k \in Keys, Opens(w, k)
      PROVE  LatestAttemptDecides' /\ RowsTyped'
  <2>1. \A n \in 1..MaxClaims : row'[k][n] = RowsOnBegin(k)[n]
    BY <1>0, <1>3 DEF Opens, RowTypes, RowsTyped
  <2>2. \A j \in Keys : j # k => row'[j] = row[j] /\ last'[j] = last[j]
    BY <1>0, <1>3 DEF Opens, RowTypes, RowsTyped
  <2>3. last'[k] = last[k] + 1 /\ last[k] \in Nat
    BY <1>0, <1>3, ConstantsOK DEF Opens, RowTypes, Epochs
  <2>4. ASSUME NEW n \in 1..MaxClaims
        PROVE  /\ RowsOnBegin(k)[n] \in Rows
               /\ RowsOnBegin(k)[n].status \in {"running", "completed", "uncertain"} => n = last[k] + 1
    <3>1. row[k][n] \in Rows BY <1>0 DEF RowTypes, RowsTyped
    <3>2. CASE n = last[k] + 1
      <4>1. [status |-> "running", output |-> None, seq |-> traceSeq + 1] \in Rows
        BY <1>0 DEF Rows, RowStatuses, Values, CountsTyped
      <4> QED BY <3>2, <4>1 DEF RowsOnBegin
    <3>3. CASE n # last[k] + 1 /\ n = last[k] /\ row[k][n].status = "running"
      <4>1. RowsOnBegin(k)[n] = [row[k][n] EXCEPT !.status = "aborted"] BY <3>3 DEF RowsOnBegin
      <4> QED BY <3>1, <4>1 DEF Rows, RowStatuses
    <3>4. CASE n # last[k] + 1 /\ ~(n = last[k] /\ row[k][n].status = "running")
      <4>1. RowsOnBegin(k)[n] = row[k][n] BY <3>4 DEF RowsOnBegin
      <4>2. row[k][n].status \notin {"running", "completed", "uncertain"}
        <5>1. CASE n # last[k] BY <1>0, <5>1 DEF LatestAttemptDecides
        <5>2. CASE n = last[k] BY <1>3, <2>3, <3>4, <5>2 DEF Opens, Completed
        <5> QED BY <5>1, <5>2
      <4> QED BY <3>1, <4>1, <4>2
    <3> QED BY <3>2, <3>3, <3>4
  <2>5. RowsTyped'
    <3>1. RowsOnBegin(k) \in [1..MaxClaims -> Rows] BY <2>4 DEF RowsOnBegin
    <3> QED BY <1>0, <1>3, <3>1 DEF Opens, RowTypes, RowsTyped
  <2>6. ASSUME NEW j \in Keys, NEW n \in 1..MaxClaims,
               row'[j][n].status \in {"running", "completed", "uncertain"}
        PROVE  n = last'[j]
    <3>1. CASE j = k BY <2>1, <2>3, <2>4, <2>6, <3>1
    <3>2. CASE j # k BY <1>0, <2>2, <2>6, <3>2 DEF LatestAttemptDecides
    <3> QED BY <3>1, <3>2
  <2> QED BY <2>5, <2>6 DEF LatestAttemptDecides
<1> QED BY <1>1, <1>2, <1>3, StoreSteps

-----------------------------------------------------------------------------
(* Completions: nothing but Completes changes what keys are committed with. *)

SameCommitted(k) == (Completed(k) <=> Completed(k)') /\ Committed(k)' = Committed(k)

\* A key whose rows do not change stays as committed as it was.
LEMMA SameRowSame ==
  ASSUME NEW k \in Keys, row'[k] = row[k], last'[k] = last[k]
  PROVE  SameCommitted(k)
BY DEF SameCommitted, Completed, Committed

\* A step commits one key that was not committed, with its message, or
\* changes no commitment at all.
LEMMA CommittedEffects ==
  ASSUME NodesInv, [Next]_vars
  PROVE  \/ messages' = messages /\ \A k \in Keys : SameCommitted(k)
         \/ \E w \in Executors, k \in Keys :
              /\ Completes(w, k) /\ ~Completed(k) /\ Committed(k) = None
              /\ Completed(k)' /\ Committed(k)' = life[w][k].out
              /\ \A j \in Keys : j # k => SameCommitted(j)
<1>0. RowTypes /\ LatestAttemptDecides BY TypeParts DEF NodesInv, CountsTyped, RowTypes
<1>1. CASE Quiet BY <1>1, SameRowSame DEF Quiet
<1>2. ASSUME NEW w \in Executors, NEW k \in Keys, Opens(w, k) \/ Ends(w, k) \/ Completes(w, k)
      PROVE  \A j \in Keys : j # k => SameCommitted(j)
  <2> SUFFICES ASSUME NEW j \in Keys, j # k PROVE SameCommitted(j) OBVIOUS
  <2>1. row'[j] = row[j] /\ last'[j] = last[j]
    BY <1>0, <1>2 DEF Opens, Ends, Completes, RowTypes, RowsTyped
  <2> QED BY <2>1, SameRowSame
<1>3. ASSUME NEW w \in Executors, NEW k \in Keys, Opens(w, k)
      PROVE  SameCommitted(k)
  <2> DEFINE n == last[k] + 1
  <2>1. last'[k] = n BY <1>0, <1>3 DEF Opens, RowTypes
  <2>2. ~Completed(k)' 
    <3>1. CASE n \in 1..MaxClaims
      <4>1. row'[k][n] = RowsOnBegin(k)[n] BY <1>0, <1>3 DEF Opens, RowTypes, RowsTyped
      <4>2. RowsOnBegin(k)[n].status = "running" BY <3>1 DEF RowsOnBegin
      <4> QED BY <2>1, <4>1, <4>2 DEF Completed
    <3>2. CASE n \notin 1..MaxClaims
      <4>1. last[k] < claimSeq /\ claimSeq <= MaxClaims /\ last[k] \in Nat
        BY <1>3, TypeParts, ConstantsOK DEF Opens, NodesInv, EpochInv, CountsTyped, Epochs
      <4> QED BY <3>2, <4>1, ConstantsOK, TypeParts DEF NodesInv, CountsTyped, Epochs
    <3> QED BY <3>1, <3>2
  <2> QED BY <1>3, <2>2 DEF Opens, SameCommitted, Committed
<1>4. ASSUME NEW w \in Executors, NEW k \in Keys, Ends(w, k) \/ Completes(w, k)
      PROVE  /\ last'[k] = last[k] /\ ~Completed(k) /\ Committed(k) = None
             /\ Ends(w, k) => ~Completed(k)'
             /\ Completes(w, k) => Completed(k)' /\ Committed(k)' = life[w][k].out
  <2>1. last[k] \in 1..MaxClaims /\ last' = last /\ row[k][last[k]].status = "running"
    BY <1>0, <1>4, LatestRow
  <2>2. PICK rec \in Rows :
          /\ Updates(k, last[k], rec)
          /\ Ends(w, k) => rec.status \in {"failed", "aborted", "uncertain"}
          /\ Completes(w, k) => rec.status = "completed" /\ rec.output = life[w][k].out
    BY <1>0, <1>4, LatestRow
  <2>3. row'[k][last[k]] = rec BY <1>0, <2>1, <2>2, UpdateMoves
  <2>4. ~Completed(k) BY <2>1 DEF Completed
  <2>5. Ends(w, k) => ~Completed(k)' BY <2>1, <2>2, <2>3 DEF Completed
  <2>6. Completes(w, k) => Completed(k)' BY <2>1, <2>2, <2>3 DEF Completed
  <2>7. Completes(w, k) => Committed(k)' = life[w][k].out
    BY <2>1, <2>2, <2>3, <2>6 DEF Committed
  <2> QED BY <2>1, <2>4, <2>5, <2>6, <2>7 DEF Committed
<1>5. ASSUME NEW w \in Executors, NEW k \in Keys, Ends(w, k)
      PROVE  SameCommitted(k)
  BY <1>4, <1>5 DEF SameCommitted, Committed
<1>7. ASSUME NEW w \in Executors, NEW k \in Keys, Opens(w, k) \/ Ends(w, k)
      PROVE  messages' = messages /\ \A j \in Keys : SameCommitted(j)
  BY <1>2, <1>3, <1>5, <1>7, Zenon DEF Opens, Ends
<1> QED BY <1>1, <1>2, <1>4, <1>7, StoreSteps

\* What a completion sends.
LEMMA CompletionMessage ==
  ASSUME NEW w \in Executors, NEW k \in Keys, Completes(w, k)
  PROVE  \E m : /\ messages' = messages \cup {m}
                /\ m.from = k /\ m.payload = life[w][k].out /\ m.seq = traceSeq + 1
<1>1. PICK files \in Nat :
        messages' = messages \cup {[from |-> k, payload |-> life[w][k].out, seq |-> traceSeq + 1, files |-> files]}
  BY DEF Completes
<1> DEFINE m == [from |-> k, payload |-> life[w][k].out, seq |-> traceSeq + 1, files |-> files]
<1>2. m.from = k /\ m.payload = life[w][k].out /\ m.seq = traceSeq + 1 OBVIOUS
<1>3. messages' = messages \cup {m} BY <1>1
<1> HIDE DEF m
<1> QED BY <1>2, <1>3

\* A message is added only with the completion it belongs to.
LEMMA MessageStep ==
  ASSUME NodesInv, [Next]_vars
  PROVE  MessagesMatchCompletions'
<1>0. MessagesMatchCompletions /\ RecordsTyped /\ CountsTyped BY TypeParts DEF NodesInv
<1>1. CASE messages' = messages /\ \A k \in Keys : SameCommitted(k)
  BY <1>0, <1>1 DEF MessagesMatchCompletions, SameCommitted, RecordsTyped
<1>2. ASSUME NEW w \in Executors, NEW k \in Keys,
             Completes(w, k), ~Completed(k), Completed(k)', Committed(k)' = life[w][k].out,
             \A j \in Keys : j # k => SameCommitted(j)
      PROVE  MessagesMatchCompletions'
  <2>1. PICK m : messages' = messages \cup {m} /\ m.from = k /\ m.payload = life[w][k].out
    BY <1>2, CompletionMessage
  <2>2. \A o \in messages : o.from # k /\ o.from \in Keys
    BY <1>0, <1>2 DEF MessagesMatchCompletions, RecordsTyped
  <2>3. \A j \in Keys : Completed(j)' <=> \E o \in messages' : o.from = j
    BY <1>0, <1>2, <2>1, <2>2 DEF MessagesMatchCompletions, SameCommitted
  <2>4. \A o \in messages' : o.payload = Committed(o.from)'
    BY <1>0, <1>2, <2>1, <2>2 DEF MessagesMatchCompletions, SameCommitted
  <2>5. \A o, p \in messages' : o.from = p.from => o = p
    BY <1>0, <2>1, <2>2 DEF MessagesMatchCompletions
  <2> QED BY <2>3, <2>4, <2>5 DEF MessagesMatchCompletions
<1> QED BY <1>1, <1>2, CommittedEffects

-----------------------------------------------------------------------------
(* Epochs, invocations and types. *)

\* Only a claim makes an epoch, and an attempt is begun under a new one.
LEMMA EpochStep ==
  ASSUME NodesInv, [Next]_vars
  PROVE  EpochInv' /\ last' \in [Keys -> Epochs]
<1>0. LifeTyped /\ CountsTyped /\ EpochInv BY TypeParts DEF NodesInv
<1>1. CASE UNCHANGED vars
  BY <1>0, <1>1 DEF vars, run, CountsTyped, EpochInv, Walking, Fenced
<1>2. CASE Resume \/ Cancel
  BY <1>0, <1>2 DEF Resume, Cancel, CountsTyped, EpochInv, Walking, Fenced
<1>3. ASSUME NEW w \in Executors, Claim(w) PROVE EpochInv' /\ last' \in [Keys -> Epochs]
  <2>1. /\ claimSeq' = claimSeq + 1 /\ held'[w] = claimSeq + 1 /\ claimSeq \in Nat
        /\ \A v \in Executors : v # w => held'[v] = held[v]
        /\ UNCHANGED <<last, life>>
    BY <1>0, <1>3, ConstantsOK DEF Claim, CountsTyped, Epochs
  <2>2. \A v \in Executors : held[v] \in Nat /\ held[v] <= claimSeq
    BY <1>0, ConstantsOK DEF CountsTyped, EpochInv, Epochs
  <2>3. \A k \in Keys : last[k] \in Nat /\ last[k] <= claimSeq
    BY <1>0, ConstantsOK DEF CountsTyped, EpochInv, Epochs
  <2>4. \A v \in Executors : held'[v] <= claimSeq' BY <2>1, <2>2
  <2>5. \A u, v \in Executors : u # v /\ held'[u] # 0 /\ held'[v] # 0 => held'[u] # held'[v]
    BY <1>0, <2>1, <2>2 DEF EpochInv, Walking
  <2>6. \A k \in Keys : last'[k] < claimSeq' BY <2>1, <2>3
  <2>7. \A k \in Keys : last'[k] <= claimSeq' BY <2>1, <2>3
  <2> QED BY <1>0, <2>1, <2>4, <2>5, <2>6, <2>7 DEF EpochInv, Walking, Fenced, CountsTyped
<1>4. ASSUME NEW w \in Executors,
             Crash(w) \/ \E outcome \in {"completed", "waiting", "failed"} : Settle(w, outcome)
      PROVE  EpochInv' /\ last' \in [Keys -> Epochs]
  <2>1. Leave(w) /\ UNCHANGED <<claimSeq, last>> BY <1>4 DEF Crash, Settle, store, run
  <2>2. held'[w] = 0 /\ \A v \in Executors : v # w => held'[v] = held[v] /\ life'[v] = life[v]
    BY <1>0, <2>1 DEF Leave, CountsTyped, LifeTyped
  <2>3. claimSeq \in Nat BY <1>0, ConstantsOK DEF CountsTyped, Epochs
  <2> QED BY <1>0, <2>1, <2>2, <2>3 DEF EpochInv, Walking, Fenced, CountsTyped
<1>5. ASSUME NEW w \in Executors, NEW k \in Keys, Node(w, k)
      PROVE  EpochInv' /\ last' \in [Keys -> Epochs]
  <2>1. UNCHANGED <<claimSeq, held>>
    BY <1>5, Zenon DEF Node, Begin, ReadState, Call, Pause, Commit, RefuseCommit, Fail, Produce, Break, store, run
  <2>2. Moved(w, k) BY <1>5, NodeMoves
  <2>3. \/ last' = last
        \/ /\ Walking(w) /\ Fenced(w) /\ life[w][k].pc = "idle"
           /\ last' = [last EXCEPT ![k] = @ + 1]
    BY <1>5, Zenon DEF Node, Begin, ReadState, Call, Pause, Commit, RefuseCommit, Fail, Produce, Break, store
  <2>4. CASE last' = last
    BY <1>0, <2>1, <2>2, <2>4 DEF Moved, EpochInv, Walking, Fenced, CountsTyped
  <2>5. CASE /\ Walking(w) /\ Fenced(w) /\ life[w][k].pc = "idle"
             /\ last' = [last EXCEPT ![k] = @ + 1]
    <3>1. last[k] < claimSeq /\ last[k] \in Nat /\ claimSeq \in 0..MaxClaims
      BY <1>0, <2>5, ConstantsOK DEF EpochInv, CountsTyped, Epochs
    <3>2. last'[k] = last[k] + 1 /\ last'[k] <= claimSeq /\ last'[k] \in Epochs
      BY <1>0, <2>5, <3>1, ConstantsOK DEF CountsTyped, Epochs
    <3>3. \A j \in Keys : j # k => last'[j] = last[j] BY <1>0, <2>5 DEF CountsTyped
    <3>4. last' \in [Keys -> Epochs] BY <1>0, <2>5, <3>2 DEF CountsTyped
    <3>5. ASSUME NEW v \in Executors, NEW j \in Keys, held[v] # 0, held[v] = claimSeq,
                 life'[v][j].pc = "idle"
          PROVE  last'[j] < claimSeq
      <4>1. v = w BY <1>0, <2>5, <3>5 DEF EpochInv, Walking, Fenced
      <4>2. j # k BY <2>2, <3>5, <4>1 DEF Moved
      <4>3. life[v][j].pc = "idle" BY <2>2, <3>5, <4>2 DEF Moved
      <4> QED BY <1>0, <3>3, <3>5, <4>2, <4>3 DEF EpochInv, Walking, Fenced
    <3> QED BY <1>0, <2>1, <3>2, <3>3, <3>4, <3>5 DEF EpochInv, Walking, Fenced
  <2> QED BY <2>3, <2>4, <2>5
<1> QED BY <1>1, <1>2, <1>3, <1>4, <1>5 DEF Next

\* Every step leaves the invocations alone, drops one executor's, or moves one.
LEMMA LifeSteps ==
  ASSUME NodesInv, [Next]_vars
  PROVE  \/ UNCHANGED <<life, last>>
         \/ \E w \in Executors : Leave(w) /\ UNCHANGED last
         \/ \E w \in Executors, k \in Keys : Node(w, k) /\ Moved(w, k)
<1>1. CASE UNCHANGED vars BY <1>1 DEF vars
<1>2. CASE Resume \/ Cancel \/ \E w \in Executors : Claim(w) BY <1>2 DEF Resume, Cancel, Claim
<1>3. ASSUME NEW w \in Executors,
             Crash(w) \/ \E outcome \in {"completed", "waiting", "failed"} : Settle(w, outcome)
      PROVE  Leave(w) /\ UNCHANGED last
  BY <1>3 DEF Crash, Settle, store
<1> QED BY <1>1, <1>2, <1>3, NodeMoves DEF Next

\* Attempts are never removed.
LEMMA LastGrows ==
  ASSUME NodesInv, [Next]_vars, NEW k \in Keys
  PROVE  last[k] \in Nat /\ last'[k] \in Nat /\ last[k] <= last'[k]
<1>0. last \in [Keys -> Epochs] BY TypeParts DEF NodesInv, CountsTyped
<1>1. last[k] \in Nat BY <1>0, ConstantsOK DEF Epochs
<1>2. CASE last' = last BY <1>1, <1>2
<1>3. ASSUME NEW w \in Executors, NEW j \in Keys, Opens(w, j)
      PROVE  last'[k] \in {last[k], last[k] + 1}
  <2>1. last' = [last EXCEPT ![j] = @ + 1] BY <1>3 DEF Opens
  <2> QED BY <1>0, <2>1
<1>4. last' = last \/ \E w \in Executors, j \in Keys : Opens(w, j)
  BY StoreSteps, ZenonT(20) DEF Quiet, Ends, Completes
<1> QED BY <1>1, <1>2, <1>3, <1>4

\* Every invocation keeps its attempt and its inputs until it leaves.
LEMMA LifeStep ==
  ASSUME NodesInv, [Next]_vars
  PROVE  LifeInv' /\ LifeTyped'
<1>0. LifeTyped /\ LifeInv BY TypeParts DEF NodesInv
<1>1. \A k \in Keys : last[k] \in Nat /\ last'[k] \in Nat /\ last[k] <= last'[k] BY LastGrows
<1>3. ASSUME NEW w \in Executors, NEW k \in Keys, Sound(life[w][k], last[k])
      PROVE  Sound(life[w][k], last'[k])
  BY <1>1, <1>3 DEF Sound
<1>4. CASE UNCHANGED <<life, last>> BY <1>0, <1>4 DEF LifeInv, LifeTyped, InputsReady
<1>5. ASSUME NEW w \in Executors, Leave(w) PROVE LifeInv' /\ LifeTyped'
  <2>1. /\ LifeTyped' /\ \A k \in Keys : life'[w][k] = Rest
        /\ \A v \in Executors : v # w => life'[v] = life[v]
    BY <1>0, <1>5, LeaveMoves
  <2>2. Rest.pc = "idle" BY DEF Rest
  <2>3. ASSUME NEW v \in Executors, NEW k \in Keys
        PROVE  /\ Sound(life'[v][k], last'[k])
               /\ life'[v][k].pc \in Active => InputsReady(v, k)'
    <3>1. CASE v = w BY <2>1, <2>2, <3>1 DEF Sound, Active
    <3>2. CASE v # w BY <1>0, <1>3, <2>1, <3>2 DEF LifeInv, InputsReady
    <3> QED BY <3>1, <3>2
  <2> QED BY <2>1, <2>3 DEF LifeInv
<1>6. ASSUME NEW w \in Executors, NEW k \in Keys, Moved(w, k) PROVE LifeInv' /\ LifeTyped'
  <2>1. ASSUME NEW v \in Executors, NEW j \in Keys, InputsReady(v, j) PROVE InputsReady(v, j)'
    <3>1. ASSUME NEW i \in Needs[j] PROVE life'[v][i].pc = "done"
      <4>1. i \in Keys /\ life[v][i].pc = "done"
        BY <2>1, <3>1, ConstantsOK DEF InputsReady
      <4> QED BY <1>6, <4>1 DEF Moved
    <3> QED BY <3>1 DEF InputsReady
  <2>2. ASSUME NEW v \in Executors, NEW j \in Keys
        PROVE  /\ Sound(life'[v][j], last'[j])
               /\ life'[v][j].pc \in Active => InputsReady(v, j)'
    <3>1. CASE v = w /\ j = k BY <1>6, <2>1, <3>1 DEF Moved
    <3>2. CASE v # w \/ j # k
      <4>1. life'[v][j] = life[v][j] BY <1>6, <3>2 DEF Moved
      <4> QED BY <1>0, <1>3, <2>1, <4>1 DEF LifeInv
    <3> QED BY <3>1, <3>2
  <2> QED BY <1>6, <2>2 DEF LifeInv, Moved
<1> QED BY <1>4, <1>5, <1>6, LifeSteps

\* What a completion writes is a number of records.
LEMMA RecordsAreCounted ==
  ASSUME NEW k \in Keys
  PROVE  /\ Sent(k) \in Nat /\ Sent(k) = Extra[k] + 1 /\ Extra[k] \in Nat /\ Pushed(k) \in {0, 1}
         /\ \A files \in 0..Files[k] :
              files \in Nat /\ RecordsOf(k, files) \in Nat /\ RecordsOf(k, files) = Sent(k) + Pushed(k) + files
<1>1. Extra[k] \in Nat /\ Files[k] \in Nat BY NodesAssumption
<1>2. Sent(k) \in Nat /\ Sent(k) = Extra[k] + 1 BY <1>1 DEF Sent
<1>3. Pushed(k) \in {0, 1} BY DEF Pushed
<1>4. ASSUME NEW files \in 0..Files[k]
      PROVE  /\ files \in Nat /\ RecordsOf(k, files) \in Nat
             /\ RecordsOf(k, files) = Sent(k) + Pushed(k) + files
  BY <1>1, <1>2, <1>3 DEF RecordsOf
<1> QED BY <1>1, <1>2, <1>3, <1>4

\* No action takes a row, account or invocation out of its range.
LEMMA TypeStep ==
  ASSUME NodesInv, [Next]_vars
  PROVE  TypeOK'
<1>0. LifeTyped /\ CountsTyped /\ RecordsTyped /\ RowsTyped BY TypeParts DEF NodesInv
<1>1. LifeTyped' BY LifeStep
<1>2. last' \in [Keys -> Epochs] BY EpochStep
<1>3. RowsTyped' BY <1>2, AttemptStep
<1>4. \A w \in Executors, k \in Keys : life[w][k] \in Lives /\ Sound(life[w][k], last[k])
  BY <1>0 DEF LifeTyped, NodesInv, LifeInv
<1>5. CountsTyped'
  <2>1. CASE UNCHANGED vars BY <1>0, <2>1 DEF vars, run, CountsTyped
  <2>2. CASE Resume \/ Cancel
    BY <1>0, <2>2 DEF Resume, Cancel, CountsTyped, Statuses, Terminal
  <2>3. ASSUME NEW w \in Executors, Claim(w) PROVE CountsTyped'
    <3>1. claimSeq + 1 \in Epochs
      BY <1>0, <2>3, ConstantsOK DEF Claim, CountsTyped, Epochs
    <3> QED BY <1>0, <2>3, <3>1 DEF Claim, CountsTyped, Statuses
  <2>4. ASSUME NEW w \in Executors,
               Crash(w) \/ \E outcome \in {"completed", "waiting", "failed"} : Settle(w, outcome)
        PROVE  CountsTyped'
    <3>1. 0 \in Epochs BY ConstantsOK DEF Epochs
    <3>2. held' \in [Executors -> Epochs] /\ account' \in [Executors -> Nat]
      BY <1>0, <2>4, <3>1 DEF Crash, Settle, Leave, CountsTyped
    <3>3. account[w] \in Nat BY <1>0 DEF CountsTyped
    <3>4. /\ runStatus' \in Statuses /\ spent' \in Nat
          /\ UNCHANGED <<claimSeq, traceSeq, last>>
      BY <1>0, <2>4, <3>3 DEF Crash, Settle, store, run, CountsTyped, Statuses, Terminal
    <3> QED BY <1>0, <3>2, <3>4 DEF CountsTyped
  <2>5. ASSUME NEW w \in Executors, NEW k \in Keys, Node(w, k) PROVE CountsTyped'
    <3>1. UNCHANGED <<runStatus, claimSeq, held>>
      BY <2>5, Zenon DEF Node, Begin, ReadState, Call, Pause, Commit, RefuseCommit, Fail, Produce, Break, store, run
    <3>2. life[w][k].calls \in Nat BY <1>4 DEF Lives
    <3>3. spent' = spent \/ spent' = spent + life[w][k].calls
      BY <2>5, Zenon DEF Node, Begin, ReadState, Call, Pause, Commit, RefuseCommit, Fail, Produce, Break, store, run
    <3>4. \/ traceSeq' = traceSeq \/ traceSeq' = traceSeq + 1
          \/ \E files \in 0..Files[k] : traceSeq' = traceSeq + RecordsOf(k, files)
      BY <2>5, Zenon DEF Node, Begin, ReadState, Call, Pause, Commit, RefuseCommit, Fail, Produce, Break, store, run
    <3>5. account' = account \/ account' = [account EXCEPT ![w] = @ + 1]
      BY <2>5, Zenon DEF Node, Begin, ReadState, Call, Pause, Commit, RefuseCommit, Fail, Produce, Break, store
    <3>6. \A files \in 0..Files[k] : RecordsOf(k, files) \in Nat BY RecordsAreCounted
    <3>7. spent' \in Nat /\ traceSeq' \in Nat BY <1>0, <3>2, <3>3, <3>4, <3>6 DEF CountsTyped
    <3>8. account' \in [Executors -> Nat] BY <1>0, <3>5 DEF CountsTyped
    <3> QED BY <1>0, <1>2, <3>1, <3>7, <3>8 DEF CountsTyped
  <2> QED BY <2>1, <2>2, <2>3, <2>4, <2>5 DEF Next
<1>6. RecordsTyped'
  <2>1. ASSUME NEW w \in Executors, NEW k \in Keys, Commit(w, k) PROVE RecordsTyped'
    <3> DEFINE me == life[w][k]
    <3>1. me \in Lives /\ me.out \in Outputs BY <1>4, <2>1 DEF Commit, Sound
    <3>2. messages' \subseteq [from : Keys, payload : Outputs, seq : Nat, files : Nat]
      <4>0. PICK files \in 0..Files[k] : messages' = messages \cup
              {[from |-> k, payload |-> me.out, seq |-> traceSeq + 1, files |-> files]}
        BY <2>1 DEF Commit
      <4> DEFINE sent == [from |-> k, payload |-> me.out, seq |-> traceSeq + 1, files |-> files]
      <4>1. files \in Nat BY RecordsAreCounted
      <4>2. sent \in [from : Keys, payload : Outputs, seq : Nat, files : Nat]
        BY <1>0, <3>1, <4>1 DEF CountsTyped
      <4> HIDE DEF sent
      <4> QED BY <1>0, <4>0, <4>2 DEF RecordsTyped, sent
    <3>3. [me.base EXCEPT ![k] = me.out] \in [Keys -> Values] BY <3>1 DEF Lives, Values
    <3> DEFINE S == [member : Keys, seq : Nat, value : [Keys -> Values]]
               r == [member |-> k, seq |-> traceSeq + Sent(k) + 1, value |-> [me.base EXCEPT ![k] = me.out]]
    <3>4. r \in S BY <1>0, <3>3, RecordsAreCounted DEF CountsTyped
    <3>5. revisions' = revisions \/ revisions' = Append(revisions, r) BY <2>1 DEF Commit
    <3>6. revisions \in Seq(S) BY <1>0 DEF RecordsTyped
    <3> HIDE DEF r, S, me
    <3>7. revisions' \in Seq(S) BY <3>4, <3>5, <3>6
    <3> QED BY <3>2, <3>7 DEF RecordsTyped, S
  <2>2. CASE UNCHANGED <<messages, revisions>> BY <1>0, <2>2 DEF RecordsTyped
  <2>3. CASE UNCHANGED vars \/ Resume \/ Cancel BY <2>2, <2>3 DEF vars, Resume, Cancel
  <2>4. ASSUME NEW w \in Executors,
               Claim(w) \/ Crash(w) \/ \E outcome \in {"completed", "waiting", "failed"} : Settle(w, outcome)
        PROVE  UNCHANGED <<messages, revisions>>
    BY <2>4 DEF Claim, Crash, Settle, store
  <2>5. ASSUME NEW w \in Executors, NEW k \in Keys, Node(w, k), ~Commit(w, k)
        PROVE  UNCHANGED <<messages, revisions>>
    BY <2>5, Zenon DEF Node, Begin, ReadState, Call, Pause, RefuseCommit, Fail, Produce, Break, store
  <2> QED BY <2>1, <2>2, <2>3, <2>4, <2>5 DEF Next
<1>7. (TypeOK <=> LifeTyped /\ RowsTyped /\ CountsTyped /\ RecordsTyped)'
  BY TypeParts, PTL
<1> QED BY <1>1, <1>3, <1>5, <1>6, <1>7

-----------------------------------------------------------------------------
(* What walks see, and the invariant. *)

\* What a walk holds as done was committed, and stays so.
LEMMA WalkStep ==
  ASSUME NodesInv, [Next]_vars
  PROVE  WalksSeeCommitted'
<1>0. LifeTyped /\ WalksSeeCommitted BY TypeParts DEF NodesInv
<1>1. ASSUME NEW v \in Executors, NEW j \in Keys, Completed(j), life[v][j].out = Committed(j),
             life'[v][j] = life[v][j]
      PROVE  Completed(j)' /\ life'[v][j].out = Committed(j)'
  <2>1. SameCommitted(j) BY <1>1, CommittedEffects
  <2> QED BY <1>1, <2>1 DEF SameCommitted
<1>2. CASE UNCHANGED life BY <1>0, <1>1, <1>2 DEF WalksSeeCommitted
<1>3. ASSUME NEW w \in Executors, Leave(w) PROVE WalksSeeCommitted'
  <2>1. /\ \A k \in Keys : life'[w][k] = Rest
        /\ \A v \in Executors : v # w => life'[v] = life[v]
    BY <1>0, <1>3, LeaveMoves
  <2>2. Rest.pc = "idle" BY DEF Rest
  <2> QED BY <1>0, <1>1, <2>1, <2>2 DEF WalksSeeCommitted
<1>4. ASSUME NEW w \in Executors, NEW k \in Keys, Node(w, k), Moved(w, k), life'[w][k].pc = "done"
      PROVE  Completed(k)' /\ life'[w][k].out = Committed(k)'
  <2>1. CASE Begin(w, k)
    <3>1. CASE /\ Completed(k) /\ UNCHANGED <<row, last>>
               /\ Step(w, k, [Rest EXCEPT !.pc = "done", !.out = row[k][last[k]].output])
      <4>1. life'[w][k].out = row[k][last[k]].output BY <1>0, <3>1 DEF LifeTyped, Step, Rest
      <4>2. SameCommitted(k) BY <3>1, SameRowSame
      <4> QED BY <3>1, <4>1, <4>2 DEF SameCommitted, Committed
    <3>2. CASE Step(w, k, Refused)
      <4>1. life'[w][k].pc = "failed" BY <1>0, <3>2 DEF LifeTyped, Step, Refused, Rest
      <4> QED BY <1>4, <4>1
    <3>3. CASE Step(w, k, [Rest EXCEPT !.pc = "begun", !.n = last[k] + 1])
      <4>1. life'[w][k].pc = "begun" BY <1>0, <3>3 DEF LifeTyped, Step, Rest
      <4> QED BY <1>4, <4>1
    <3> QED BY <2>1, <3>1, <3>2, <3>3 DEF Begin
  <2>2. CASE Commit(w, k)
    <3>1. life'[w][k].out = life[w][k].out BY <1>0, <2>2 DEF LifeTyped, Step, Rest, Commit
    <3>2. Completes(w, k)
      <4>1. Sound(life[w][k], last[k]) /\ (life[w][k].pc \in Active => InputsReady(w, k))
        BY DEF NodesInv, LifeInv
      <4> QED BY <1>4, <2>2, <3>1, <4>1 DEF Commit, MayCommit, Completes, Sound, Active
    <3>3. messages' # messages
      <4>1. ~Completed(k)
        <5>1. RowTypes /\ LatestAttemptDecides BY TypeParts DEF NodesInv, CountsTyped, RowTypes
        <5> QED BY <3>2, <5>1, LatestRow DEF Completed
      <4>2. \A m \in messages : m.from # k BY <4>1 DEF NodesInv, MessagesMatchCompletions
      <4>3. PICK sent \in messages' : sent.from = k BY <3>2, CompletionMessage
      <4> QED BY <4>2, <4>3
    <3>4. PICK v \in Executors, j \in Keys :
             /\ Completes(v, j) /\ ~Completed(j)
             /\ Completed(j)' /\ Committed(j)' = life[v][j].out
             /\ \A i \in Keys : i # j => SameCommitted(i)
      BY <3>3, CommittedEffects
    <3>5. PICK m : messages' = messages \cup {m} /\ m.from = j /\ m.payload = life[v][j].out
      BY <3>4, CompletionMessage
    <3>6. PICK o : messages' = messages \cup {o} /\ o.from = k /\ o.payload = life[w][k].out
      BY <3>2, CompletionMessage
    <3>7. \A p \in messages : p.from # j BY <3>4 DEF NodesInv, MessagesMatchCompletions
    <3>8. j = k /\ life[v][j].out = life[w][k].out BY <3>3, <3>5, <3>6
    <3> QED BY <3>1, <3>4, <3>8
  <2>3. ASSUME ~Begin(w, k), ~Commit(w, k) PROVE life'[w][k].pc # "done"
    <3> DEFINE me == life[w][k]
    <3>1. me \in Lives BY <1>0 DEF LifeTyped
    <3>0. ASSUME NEW rec, Step(w, k, rec) PROVE life'[w][k] = rec
      BY <1>0, <3>0 DEF LifeTyped, Step
    <3>2. CASE Fail(w, k) \/ Pause(w, k)
      BY <1>0, <3>2 DEF Fail, Pause, LifeTyped, Step, Rest, Refused
    <3>3. CASE ReadState(w, k)
      <4> DEFINE base == IF k \in Pushers THEN LatestState ELSE me.base
      <4>1. Step(w, k, [me EXCEPT !.pc = "ready", !.base = base]) BY <3>3 DEF ReadState
      <4> HIDE DEF base
      <4>2. [me EXCEPT !.pc = "ready", !.base = base].pc = "ready" BY <3>1 DEF Lives
      <4> HIDE DEF me
      <4> QED BY <3>0, <4>1, <4>2
    <3>4. CASE Call(w, k)
      <4>1. Step(w, k, [me EXCEPT !.calls = @ + 1]) /\ me.pc = "ready" BY <3>4 DEF Call
      <4>2. [me EXCEPT !.calls = @ + 1].pc = me.pc BY <3>1 DEF Lives
      <4> HIDE DEF me
      <4> QED BY <3>0, <4>1, <4>2
    <3>5. ASSUME NEW output \in Outputs, Produce(w, k, output) PROVE life'[w][k].pc # "done"
      <4>1. Step(w, k, [me EXCEPT !.pc = "executed", !.out = output]) BY <3>5 DEF Produce
      <4>2. [me EXCEPT !.pc = "executed", !.out = output].pc = "executed" BY <3>1 DEF Lives
      <4> HIDE DEF me
      <4> QED BY <3>0, <4>1, <4>2
    <3>6. ASSUME NEW outcome, Step(w, k, [me EXCEPT !.pc = "failing", !.fail = outcome])
          PROVE  life'[w][k].pc # "done"
      <4>1. [me EXCEPT !.pc = "failing", !.fail = outcome].pc = "failing" BY <3>1 DEF Lives
      <4> HIDE DEF me
      <4> QED BY <3>0, <3>6, <4>1
    <3>7. CASE RefuseCommit(w, k) BY <3>6, <3>7 DEF RefuseCommit
    <3>8. ASSUME NEW outcome \in {"failed", "aborted", "uncertain"}, Break(w, k, outcome)
          PROVE  life'[w][k].pc # "done"
      BY <3>6, <3>8 DEF Break
    <3> QED BY <1>4, <2>3, <3>2, <3>3, <3>4, <3>5, <3>7, <3>8 DEF Node
  <2> QED BY <1>4, <2>1, <2>2, <2>3
<1>5. ASSUME NEW w \in Executors, NEW k \in Keys, Node(w, k), Moved(w, k) PROVE WalksSeeCommitted'
  <2>1. ASSUME NEW v \in Executors, NEW j \in Keys, life'[v][j].pc = "done"
        PROVE  Completed(j)' /\ life'[v][j].out = Committed(j)'
    <3>1. CASE v = w /\ j = k BY <1>4, <1>5, <2>1, <3>1
    <3>2. CASE v # w \/ j # k
      <4>1. life'[v][j] = life[v][j] BY <1>5, <3>2 DEF Moved
      <4> QED BY <1>0, <1>1, <2>1, <4>1 DEF WalksSeeCommitted
    <3> QED BY <3>1, <3>2
  <2> QED BY <2>1 DEF WalksSeeCommitted
<1> QED BY <1>2, <1>3, <1>5, LifeSteps

\* Rows, epochs, invocations and completions stay related as NodesInv says, for
\* any graph and any number of executors and claims.
THEOREM NodesInvariant == Spec => []NodesInv
<1>1. NodesInv /\ [Next]_vars => NodesInv'
  BY TypeStep, EpochStep, LifeStep, AttemptStep, MessageStep, WalkStep DEF NodesInv
<1> QED BY <1>1, NodesInit, PTL DEF Spec

\* The store's rows, the accounts and the walks in memory stay in their ranges.
THEOREM TypeCorrect == Spec => []TypeOK
<1>1. NodesInv => TypeOK BY DEF NodesInv
<1> QED BY <1>1, NodesInvariant, PTL

\* Only a key's latest attempt can be open, completed or uncertain: a zombie
\* never completes a replaced attempt and nothing is begun after a completion.
THEOREM LatestAttemptsDecide == Spec => []LatestAttemptDecides
<1>1. NodesInv => LatestAttemptDecides BY DEF NodesInv
<1> QED BY <1>1, NodesInvariant, PTL

\* A completion and its message are committed together, once.
THEOREM MessagesAreCommitted == Spec => []MessagesMatchCompletions
<1>1. NodesInv => MessagesMatchCompletions BY DEF NodesInv
<1> QED BY <1>1, NodesInvariant, PTL

\* No walk, current or stale, builds on an output that was not committed.
THEOREM WalksAgree == Spec => []WalksSeeCommitted
<1>1. NodesInv => WalksSeeCommitted BY DEF NodesInv
<1> QED BY <1>1, NodesInvariant, PTL

-----------------------------------------------------------------------------
(* Fences and refinement. *)

\* A node's step under an epoch that is not current leaves the store as it was.
LEMMA StaleNode ==
  ASSUME NEW w, NEW k, Node(w, k), ~Fenced(w)
  PROVE  UNCHANGED <<row, last, messages, revisions, traceSeq, spent>>
<1>1. CASE Begin(w, k) BY <1>1 DEF Begin
<1>2. CASE Commit(w, k) \/ Fail(w, k) BY <1>2 DEF Commit, Fail, MayCommit
<1>3. CASE ReadState(w, k) \/ Call(w, k) \/ Pause(w, k) \/ RefuseCommit(w, k)
  BY <1>3 DEF ReadState, Call, Pause, RefuseCommit, store, run
<1>4. CASE \/ \E output \in Outputs : Produce(w, k, output)
           \/ \E outcome \in {"failed", "aborted", "uncertain"} : Break(w, k, outcome)
  BY <1>4, Zenon DEF Produce, Break, store, run
<1> QED BY <1>1, <1>2, <1>3, <1>4 DEF Node

\* A step of an executor that does not hold the current epoch leaves the store
\* as it was.
THEOREM StaleIsHarmless == Spec => StaleExecutorsWriteNothing
<1>1. ASSUME NodesInv, [Next]_vars, NEW w \in Executors, life'[w] # life[w], held[w] # claimSeq
      PROVE  UNCHANGED <<row, last, messages, revisions, traceSeq, spent>>
  <2>0. LifeTyped BY <1>1, TypeParts DEF NodesInv
  <2>1. CASE UNCHANGED vars \/ Resume \/ Cancel BY <1>1, <2>1 DEF vars, Resume, Cancel
  <2>2. ASSUME NEW v \in Executors, Claim(v) PROVE FALSE BY <1>1, <2>2 DEF Claim
  <2>3. ASSUME NEW v \in Executors,
               Crash(v) \/ \E outcome \in {"completed", "waiting", "failed"} : Settle(v, outcome)
        PROVE  UNCHANGED <<row, last, messages, revisions, traceSeq, spent>>
    <3>1. Leave(v) BY <2>3 DEF Crash, Settle
    <3>2. v = w BY <1>1, <2>0, <3>1, LeaveMoves
    <3> QED BY <1>1, <2>3, <3>2 DEF Crash, Settle, Fenced, store, run
  <2>4. ASSUME NEW v \in Executors, NEW k \in Keys, Node(v, k)
        PROVE  UNCHANGED <<row, last, messages, revisions, traceSeq, spent>>
    <3>1. Moved(v, k) BY <1>1, <2>4, NodeMoves
    <3>2. v = w BY <1>1, <3>1 DEF Moved
    <3>3. ~Fenced(v) BY <1>1, <3>2 DEF Fenced
    <3> QED BY <2>4, <3>3, StaleNode
  <2> QED BY <1>1, <2>1, <2>2, <2>3, <2>4 DEF Next
<1>2. NodesInv /\ [Next]_vars =>
        [ \A w \in Executors : life'[w] # life[w] /\ held[w] # claimSeq =>
            UNCHANGED <<row, last, messages, revisions, traceSeq, spent>> ]_vars
  BY <1>1
<1> QED BY <1>2, NodesInvariant, PTL DEF Spec, StaleExecutorsWriteNothing

\* The store implements SemanticCommit: each node completes once, after the
\* nodes it needs, with an output that never changes.
THEOREM RefinesSemanticCommit == Spec => ImplementsSemanticCommit
<1> DEFINE committed == [k \in Keys |-> Committed(k)]
<1>1. Init => Semantic!Init
  <2>1. Init => \A k \in Keys : last[k] = 0 BY DEF Init
  <2>2. ASSUME Init, NEW k \in Keys PROVE Committed(k) = None
    <3>1. ~(last[k] > 0) BY <2>1, <2>2
    <3>2. ~Completed(k) BY Zenon, <3>1 DEF Completed
    <3> QED BY <3>2 DEF Committed
  <2> QED BY <2>2 DEF Semantic!Init
<1>2. ASSUME NodesInv, [Next]_vars PROVE [Semantic!Next]_committed
  <2>1. CASE \A k \in Keys : SameCommitted(k) BY <2>1 DEF SameCommitted
  <2>2. ASSUME NEW w \in Executors, NEW k \in Keys,
               Completes(w, k), Committed(k) = None, Committed(k)' = life[w][k].out,
               \A j \in Keys : j # k => SameCommitted(j)
        PROVE  Semantic!Next
    <3>1. life[w][k].out \in Outputs /\ InputsReady(w, k) BY <2>2 DEF Completes
    <3>2. ASSUME NEW j \in Needs[k] PROVE committed[j] # None
      <4>1. j \in Keys /\ life[w][j].pc = "done"
        BY <3>1, <3>2, ConstantsOK DEF InputsReady
      <4>2. Completed(j) BY <1>2, <4>1 DEF NodesInv, WalksSeeCommitted
      <4>3. PICK m \in messages : m.from = j
        BY <1>2, <4>1, <4>2 DEF NodesInv, MessagesMatchCompletions
      <4>4. m.payload = Committed(j) BY <1>2, <4>3 DEF NodesInv, MessagesMatchCompletions
      <4>5. m.payload \in Outputs BY <1>2, <4>3, TypeParts DEF NodesInv, RecordsTyped
      <4> QED BY <4>1, <4>4, <4>5, ConstantsOK
    <3>3. committed' = [committed EXCEPT ![k] = life[w][k].out]
      BY <2>2 DEF SameCommitted
    <3>4. Semantic!Commit(k, life[w][k].out) BY <2>2, <3>2, <3>3 DEF Semantic!Commit
    <3> QED BY <3>1, <3>4 DEF Semantic!Next
  <2> QED BY <1>2, <2>1, <2>2, CommittedEffects
<1> QED BY <1>1, <1>2, NodesInvariant, PTL DEF Spec, ImplementsSemanticCommit, Semantic!Spec

\* A commitment stands: a node that is completed stays so, with its output,
\* whoever claims the run, closes attempts or replays them later.
THEOREM CommitsAreFinal ==
  Spec => [][\A k \in Keys : Completed(k) => Completed(k)' /\ Committed(k)' = Committed(k)]_vars
<1>1. NodesInv /\ [Next]_vars =>
        [\A k \in Keys : Completed(k) => Completed(k)' /\ Committed(k)' = Committed(k)]_vars
  <2> SUFFICES ASSUME NodesInv, [Next]_vars, NEW k \in Keys, Completed(k)
      PROVE  Completed(k)' /\ Committed(k)' = Committed(k)
    OBVIOUS
  <2>1. CASE SameCommitted(k) BY <2>1 DEF SameCommitted
  <2>2. ASSUME NEW j \in Keys, ~Completed(j), \A i \in Keys : i # j => SameCommitted(i)
        PROVE  SameCommitted(k)
    BY <2>2
  <2> QED BY <2>1, <2>2, CommittedEffects
<1> QED BY <1>1, NodesInvariant, PTL DEF Spec

-----------------------------------------------------------------------------
(* Trace sequence numbers. *)

\* A step hands out the next numbers, if any, each to one record.
Numbers ==
  \E New :
    /\ Records' \subseteq Records \cup New /\ traceSeq <= traceSeq'
    /\ \A x, y \in New : x[1] \in (traceSeq + 1)..traceSeq' /\ (x[1] = y[1] => x = y)

LEMMA NoNumbers ==
  ASSUME Records' \subseteq Records, traceSeq \in Nat, traceSeq' = traceSeq
  PROVE  Numbers
<1> DEFINE New == {}
<1>1. /\ Records' \subseteq Records \cup New /\ traceSeq <= traceSeq'
      /\ \A x, y \in New : x[1] \in (traceSeq + 1)..traceSeq' /\ (x[1] = y[1] => x = y)
  OBVIOUS
<1> HIDE DEF New
<1> QED BY <1>1 DEF Numbers

\* Rows that keep their numbers are the same records.
LEMMA SameAttempts ==
  ASSUME \A j \in Keys, m \in 1..MaxClaims : row'[j][m].seq = row[j][m].seq
  PROVE  AttemptRecords' = AttemptRecords
BY DEF AttemptRecords

\* A new attempt takes the next number, and the attempt it aborts keeps its own.
LEMMA BeginNumbers ==
  ASSUME NodesInv, NEW w \in Executors, NEW k \in Keys, Begin(w, k)
  PROVE  Numbers
<1>0. RowsTyped /\ CountsTyped BY TypeParts DEF NodesInv
<1>1. MessageRecords' = MessageRecords /\ StateRecords' = StateRecords /\ ArtifactRecords' = ArtifactRecords
  BY DEF Begin, MessageRecords, StateRecords, ArtifactRecords
<1>2. CASE UNCHANGED <<traceSeq, row>>
  <2>1. AttemptRecords' = AttemptRecords BY <1>2, SameAttempts
  <2> QED BY <1>0, <1>1, <1>2, <2>1, NoNumbers DEF Records, CountsTyped
<1>3. CASE traceSeq' = traceSeq + 1 /\ row' = [row EXCEPT ![k] = RowsOnBegin(k)]
  <2> DEFINE x == <<traceSeq + 1, "attempt", k, last[k] + 1>>
  <2>1. ASSUME NEW j \in Keys, NEW m \in 1..MaxClaims, j # k \/ m # last[k] + 1
        PROVE  row'[j][m].seq = row[j][m].seq
    <3>1. CASE j # k BY <1>0, <1>3, <3>1 DEF RowsTyped
    <3>2. CASE j = k
      <4>1. row'[k][m] = IF m = last[k] /\ row[k][m].status = "running"
                         THEN [row[k][m] EXCEPT !.status = "aborted"] ELSE row[k][m]
        BY <1>0, <1>3, <2>1, <3>2 DEF RowsTyped, RowsOnBegin
      <4>2. row[k][m] \in Rows BY <1>0 DEF RowsTyped
      <4> QED BY <3>2, <4>1, <4>2 DEF Rows
    <3> QED BY <3>1, <3>2
  <2>2. last[k] + 1 \in 1..MaxClaims => row'[k][last[k] + 1].seq = traceSeq + 1
    BY <1>0, <1>3 DEF RowsTyped, RowsOnBegin
  <2>3. AttemptRecords' \subseteq AttemptRecords \cup {x}
    <3>1. SUFFICES ASSUME NEW j \in Keys, NEW m \in 1..MaxClaims
                   PROVE  <<row'[j][m].seq, "attempt", j, m>> \in AttemptRecords \cup {x}
      BY DEF AttemptRecords
    <3>2. CASE j = k /\ m = last[k] + 1 BY <2>2, <3>2
    <3>3. CASE ~(j = k /\ m = last[k] + 1) BY <2>1, <3>3 DEF AttemptRecords
    <3> QED BY <3>2, <3>3
  <2>4. Records' \subseteq Records \cup {x} BY <1>1, <2>3 DEF Records
  <2>5. x[1] = traceSeq + 1 OBVIOUS
  <2> HIDE DEF x
  <2> DEFINE New == {x}
  <2>6. /\ Records' \subseteq Records \cup New /\ traceSeq <= traceSeq'
        /\ \A y, z \in New : y[1] \in (traceSeq + 1)..traceSeq' /\ (y[1] = z[1] => y = z)
    BY <1>0, <1>3, <2>4, <2>5 DEF CountsTyped
  <2> HIDE DEF New
  <2> QED BY <2>6 DEF Numbers
<1> QED BY <1>2, <1>3 DEF Begin

\* A completion numbers its messages, then its revision, then its artifacts.
LEMMA CommitNumbers ==
  ASSUME NodesInv, NEW w \in Executors, NEW k \in Keys, Commit(w, k)
  PROVE  Numbers
<1> DEFINE me == life[w][k]
           S == [member : Keys, seq : Nat, value : [Keys -> Values]]
           rev == [member |-> k, seq |-> traceSeq + Sent(k) + 1, value |-> [me.base EXCEPT ![k] = me.out]]
<1>0. RowsTyped /\ RecordsTyped /\ CountsTyped BY TypeParts DEF NodesInv
<1>1. AttemptRecords' = AttemptRecords
  <2>1. ASSUME NEW j \in Keys, NEW m \in 1..MaxClaims PROVE row'[j][m].seq = row[j][m].seq
    <3>1. row[j][m] \in Rows BY <1>0 DEF RowsTyped
    <3> QED BY <1>0, <3>1 DEF Commit, RowsTyped, Rows
  <2> QED BY <2>1, SameAttempts
<1>2. PICK files \in 0..Files[k] :
        /\ messages' = messages \cup
             {[from |-> k, payload |-> me.out, seq |-> traceSeq + 1, files |-> files]}
        /\ traceSeq' = traceSeq + RecordsOf(k, files)
  BY DEF Commit
<1> DEFINE sent   == [from |-> k, payload |-> me.out, seq |-> traceSeq + 1, files |-> files]
           msgs   == {<<traceSeq + 1 + i, "message", k, i>> : i \in 0..Extra[k]}
           pushed == {x \in {<<traceSeq + Sent(k) + 1, "state", k, Len(revisions) + 1>>} : k \in Pushers}
           arts   == {<<traceSeq + 1 + Sent(k) + Pushed(k) + i, "artifact", k, i>> : i \in 0..(files - 1)}
           New    == msgs \cup pushed \cup arts
<1>3. MessageRecords' \subseteq MessageRecords \cup msgs /\ ArtifactRecords' \subseteq ArtifactRecords \cup arts
  <2>1. sent.from = k /\ sent.seq = traceSeq + 1 /\ sent.files = files OBVIOUS
  <2>2. messages' = messages \cup {sent} BY <1>2
  <2> HIDE DEF sent
  <2>3. MessageRecords' \subseteq MessageRecords \cup msgs BY <2>1, <2>2 DEF MessageRecords
  <2>4. ArtifactRecords' \subseteq ArtifactRecords \cup arts BY <2>1, <2>2 DEF ArtifactRecords
  <2> QED BY <2>3, <2>4
<1>4. StateRecords' \subseteq StateRecords \cup pushed
  <2>1. CASE k \notin Pushers BY <2>1 DEF Commit, StateRecords
  <2>2. CASE k \in Pushers
    <3>1. revisions' = Append(revisions, rev) BY <2>2 DEF Commit
    <3>2. rev.seq = traceSeq + Sent(k) + 1 /\ rev.member = k OBVIOUS
    <3>3. revisions \in Seq(S) BY <1>0 DEF RecordsTyped
    <3> HIDE DEF rev, S
    <3>4. /\ DOMAIN revisions' = 1..(Len(revisions) + 1) /\ DOMAIN revisions = 1..Len(revisions)
          /\ Len(revisions) \in Nat /\ revisions'[Len(revisions) + 1] = rev
          /\ \A i \in 1..Len(revisions) : revisions'[i] = revisions[i]
      BY <3>1, <3>3
    <3>5. SUFFICES ASSUME NEW i \in 1..(Len(revisions) + 1)
                   PROVE  <<revisions'[i].seq, "state", revisions'[i].member, i>> \in StateRecords \cup pushed
      BY <3>4 DEF StateRecords
    <3>6. CASE i = Len(revisions) + 1 BY <2>2, <3>2, <3>4, <3>6
    <3>7. CASE i \in 1..Len(revisions) BY <3>4, <3>7 DEF StateRecords
    <3> QED BY <3>4, <3>6, <3>7
  <2> QED BY <2>1, <2>2
<1>5. Records' \subseteq Records \cup New BY <1>1, <1>3, <1>4 DEF Records
<1>6. /\ traceSeq \in Nat /\ Extra[k] \in Nat /\ Sent(k) = Extra[k] + 1 /\ files \in Nat
      /\ Pushed(k) \in {0, 1} /\ (k \in Pushers => Pushed(k) = 1)
      /\ traceSeq' = traceSeq + Sent(k) + Pushed(k) + files
  BY <1>0, <1>2, RecordsAreCounted DEF CountsTyped, Pushed
<1>7. \A x \in msgs : x[1] \in (traceSeq + 1)..(traceSeq + Sent(k)) /\ x = <<x[1], "message", k, x[1] - traceSeq - 1>>
  BY <1>6
<1>8. \A x \in pushed : /\ k \in Pushers /\ x[1] = traceSeq + Sent(k) + 1
                        /\ x = <<x[1], "state", k, Len(revisions) + 1>>
  OBVIOUS
<1>9. \A x \in arts : /\ x[1] \in (traceSeq + Sent(k) + Pushed(k) + 1)..traceSeq'
                      /\ x = <<x[1], "artifact", k, x[1] - traceSeq - 1 - Sent(k) - Pushed(k)>>
  BY <1>6
<1> HIDE DEF msgs, pushed, arts
<1>10. ASSUME NEW x \in New, NEW y \in New
       PROVE  x[1] \in (traceSeq + 1)..traceSeq' /\ (x[1] = y[1] => x = y)
  <2>1. ASSUME NEW z \in New
        PROVE  \/ z \in msgs   /\ z[1] \in (traceSeq + 1)..(traceSeq + Sent(k))
               \/ z \in pushed /\ z[1] = traceSeq + Sent(k) + 1 /\ Pushed(k) = 1
               \/ z \in arts   /\ z[1] \in (traceSeq + Sent(k) + Pushed(k) + 1)..traceSeq'
    BY <1>6, <1>7, <1>8, <1>9
  <2>2. ASSUME NEW z \in New PROVE z[1] \in (traceSeq + 1)..traceSeq' BY <1>6, <2>1
  <2>3. ASSUME x[1] = y[1] PROVE x = y
    <3>1. CASE x \in msgs /\ y \in msgs BY <1>7, <2>3, <3>1
    <3>2. CASE x \in pushed /\ y \in pushed BY <1>8, <2>3, <3>2
    <3>3. CASE x \in arts /\ y \in arts BY <1>9, <2>3, <3>3
    <3>4. ASSUME NEW p \in msgs, NEW q \in pushed PROVE p[1] # q[1]
      <4>1. p[1] \in (traceSeq + 1)..(traceSeq + Sent(k)) /\ q[1] = traceSeq + Sent(k) + 1
        BY <1>7, <1>8
      <4> QED BY <1>6, <4>1
    <3>5. ASSUME NEW p \in msgs, NEW q \in arts PROVE p[1] # q[1]
      <4>1. /\ p[1] \in (traceSeq + 1)..(traceSeq + Sent(k))
            /\ q[1] \in (traceSeq + Sent(k) + Pushed(k) + 1)..traceSeq'
        BY <1>7, <1>9
      <4> QED BY <1>6, <4>1
    <3>6. ASSUME NEW p \in pushed, NEW q \in arts PROVE p[1] # q[1]
      <4>1. /\ p[1] = traceSeq + Sent(k) + 1 /\ Pushed(k) = 1
            /\ q[1] \in (traceSeq + Sent(k) + Pushed(k) + 1)..traceSeq'
        BY <1>6, <1>8, <1>9
      <4> QED BY <1>6, <4>1
    <3> QED BY <2>3, <3>1, <3>2, <3>3, <3>4, <3>5, <3>6
  <2> QED BY <2>2, <2>3
<1> HIDE DEF New
<1>11. traceSeq <= traceSeq' BY <1>6
<1> QED BY <1>5, <1>10, <1>11 DEF Numbers

\* No other step gives a number out.
LEMMA StepNumbers ==
  ASSUME NodesInv, [Next]_vars
  PROVE  Numbers
<1>0. RowsTyped /\ CountsTyped BY TypeParts DEF NodesInv
<1>1. CASE UNCHANGED <<traceSeq, row, messages, revisions>>
  <2>1. Records' = Records
    BY <1>1 DEF Records, AttemptRecords, MessageRecords, StateRecords, ArtifactRecords
  <2> QED BY <1>0, <1>1, <2>1, NoNumbers DEF CountsTyped
<1>2. CASE UNCHANGED vars \/ Resume \/ Cancel BY <1>1, <1>2 DEF vars, run, Resume, Cancel
<1>3. ASSUME NEW w \in Executors,
             Claim(w) \/ Crash(w) \/ \E outcome \in {"completed", "waiting", "failed"} : Settle(w, outcome)
      PROVE  Numbers
  BY <1>1, <1>3 DEF Claim, Crash, Settle, store, run
<1>4. ASSUME NEW w \in Executors, NEW k \in Keys, Fail(w, k) PROVE Numbers
  <2>1. ASSUME NEW j \in Keys, NEW m \in 1..MaxClaims PROVE row'[j][m].seq = row[j][m].seq
    <3>1. row[j][m] \in Rows BY <1>0 DEF RowsTyped
    <3>2. CASE UNCHANGED row BY <3>2
    <3>3. CASE row' = [row EXCEPT ![k][life[w][k].n].status = life[w][k].fail]
      <4>1. CASE j = k /\ m = life[w][k].n
        <5>1. row'[j][m] = [row[j][m] EXCEPT !.status = life[w][k].fail] BY <1>0, <3>3, <4>1 DEF RowsTyped
        <5> QED BY <3>1, <5>1 DEF Rows
      <4>2. CASE j # k \/ m # life[w][k].n
        <5>1. row'[j][m] = row[j][m] BY <1>0, <3>3, <4>2 DEF RowsTyped
        <5> QED BY <5>1
      <4> QED BY <4>1, <4>2
    <3> QED BY <1>4, <3>2, <3>3 DEF Fail
  <2>2. AttemptRecords' = AttemptRecords BY <2>1, SameAttempts
  <2>3. UNCHANGED <<traceSeq, messages, revisions>> BY <1>4 DEF Fail
  <2>4. Records' = Records BY <2>2, <2>3 DEF Records, MessageRecords, StateRecords, ArtifactRecords
  <2> QED BY <1>0, <2>3, <2>4, NoNumbers DEF CountsTyped
<1>5. ASSUME NEW w \in Executors, NEW k \in Keys, Node(w, k), ~Begin(w, k), ~Commit(w, k), ~Fail(w, k)
      PROVE  Numbers
  BY <1>1, <1>5 DEF Node, ReadState, Call, Pause, RefuseCommit, Produce, Break, store, run
<1> QED BY <1>2, <1>3, <1>4, <1>5, BeginNumbers, CommitNumbers DEF Next

\* No two records of a run ever share a trace sequence number.
THEOREM RecordsAreNumberedApart == Spec => []TraceSeqsDistinct
<1>1. Init => TraceSeqsDistinct
  <2> SUFFICES ASSUME Init PROVE TraceSeqsDistinct OBVIOUS
  <2>1. \A k \in Keys, n \in 1..MaxClaims : row[k][n].seq = 0 BY DEF Init, NoRow
  <2>2. messages = {} /\ DOMAIN revisions = {} BY DEF Init
  <2>3. Records = {} BY <2>1, <2>2 DEF Records, AttemptRecords, MessageRecords, StateRecords, ArtifactRecords
  <2> QED BY <2>3 DEF TraceSeqsDistinct
<1>2. TraceSeqsDistinct /\ NodesInv /\ [Next]_vars => TraceSeqsDistinct'
  <2> SUFFICES ASSUME TraceSeqsDistinct, NodesInv, [Next]_vars PROVE TraceSeqsDistinct' OBVIOUS
  <2>1. traceSeq \in Nat BY TypeParts DEF NodesInv, CountsTyped
  <2>2. \A x \in Records : x[1] <= traceSeq BY DEF TraceSeqsDistinct
  <2>3. \A x, y \in Records : x[1] = y[1] => x = y BY DEF TraceSeqsDistinct
  <2>4. Numbers BY StepNumbers
  <2>5. \A x \in Records : x[1] \in Nat
    <3>1. RowsTyped /\ RecordsTyped BY TypeParts DEF NodesInv
    <3>2. \A x \in AttemptRecords : x[1] \in Nat
      <4>1. ASSUME NEW k \in Keys, NEW n \in 1..MaxClaims PROVE row[k][n].seq \in Nat
        <5>1. row[k][n] \in Rows BY <3>1 DEF RowsTyped
        <5> QED BY <5>1 DEF Rows
      <4> QED BY <4>1 DEF AttemptRecords
    <3>3. \A x \in MessageRecords \cup ArtifactRecords : x[1] \in Nat
      <4>1. ASSUME NEW m \in messages
            PROVE  m.seq \in Nat /\ m.files \in Nat /\ Extra[m.from] \in Nat /\ Sent(m.from) \in Nat /\ Pushed(m.from) \in Nat
        <5>1. m.seq \in Nat /\ m.files \in Nat /\ m.from \in Keys BY <3>1 DEF RecordsTyped
        <5>2. Extra[m.from] \in Nat /\ Sent(m.from) \in Nat /\ Pushed(m.from) \in {0, 1}
          BY <5>1, RecordsAreCounted
        <5> QED BY <5>1, <5>2
      <4>2. ASSUME NEW m \in messages, NEW i \in 0..Extra[m.from] PROVE m.seq + i \in Nat BY <4>1
      <4>3. ASSUME NEW m \in messages, NEW i \in 0..(m.files - 1)
            PROVE  m.seq + Sent(m.from) + Pushed(m.from) + i \in Nat
        BY <4>1
      <4> QED BY <4>2, <4>3 DEF MessageRecords, ArtifactRecords
    <3>4. \A x \in StateRecords : x[1] \in Nat
      <4> DEFINE S == [member : Keys, seq : Nat, value : [Keys -> Values]]
      <4>1. revisions \in Seq(S) BY <3>1 DEF RecordsTyped
      <4>2. \A s \in S : s.seq \in Nat OBVIOUS
      <4> HIDE DEF S
      <4>3. \A i \in DOMAIN revisions : revisions[i] \in S BY <4>1
      <4> QED BY <4>2, <4>3 DEF StateRecords
    <3> QED BY <3>2, <3>3, <3>4 DEF Records
  <2>6. PICK New :
          /\ Records' \subseteq Records \cup New /\ traceSeq <= traceSeq'
          /\ \A x, y \in New : x[1] \in (traceSeq + 1)..traceSeq' /\ (x[1] = y[1] => x = y)
    BY <2>4 DEF Numbers
  <2>7. traceSeq' \in Nat BY TypeStep, TypeParts DEF TypeOK
  <2>8. ASSUME NEW x \in Records', NEW y \in Records' PROVE x[1] <= traceSeq' /\ (x[1] = y[1] => x = y)
    <3>1. CASE x \in Records /\ y \in Records BY <2>1, <2>2, <2>3, <2>5, <2>6, <2>7, <3>1
    <3>2. CASE x \in New /\ y \in New BY <2>1, <2>6, <2>7, <3>2
    <3>3. ASSUME NEW a \in Records, NEW c \in New PROVE a[1] # c[1] /\ a[1] <= traceSeq' /\ c[1] <= traceSeq'
      <4>1. a[1] \in Nat /\ a[1] <= traceSeq BY <2>2, <2>5
      <4>2. c[1] \in (traceSeq + 1)..traceSeq' BY <2>6
      <4> QED BY <2>1, <2>6, <2>7, <4>1, <4>2
    <3> QED BY <2>6, <3>1, <3>2, <3>3
  <2> QED BY <2>8 DEF TraceSeqsDistinct
<1> QED BY <1>1, <1>2, NodesInvariant, PTL DEF Spec

\* The trace order of messages is the order of the edges: every message was
\* recorded after a message of each node its node consumes, so a reader that
\* replays the trace in sequence order never meets an output before its inputs.
MessagesAreCausal ==
  \A m \in messages : \A j \in Needs[m.from] : \E o \in messages : o.from = j /\ o.seq < m.seq

\* No message has a number that was not handed out yet.
LEMMA MessagesAreNumbered ==
  ASSUME TraceSeqsDistinct, TypeOK, NEW m \in messages
  PROVE  m.seq \in Nat /\ m.seq <= traceSeq
<1>0. m.seq \in Nat /\ traceSeq \in Nat BY TypeParts DEF RecordsTyped, CountsTyped
<1>1. CASE m.seq > 0
  <2> DEFINE x == <<m.seq, "message", m.from, 0>>
  <2>1. x \in MessageRecords
    <3>1. 0 \in 0..Extra[m.from] /\ m.seq = m.seq + 0
      BY <1>0, TypeParts, RecordsAreCounted DEF RecordsTyped
    <3> QED BY <3>1 DEF MessageRecords
  <2>2. x[1] = m.seq OBVIOUS
  <2> HIDE DEF x
  <2>3. x \in Records BY <1>1, <2>1, <2>2 DEF Records
  <2>4. x[1] <= traceSeq BY <2>3 DEF TraceSeqsDistinct
  <2> QED BY <1>0, <2>2, <2>4
<1> QED BY <1>0, <1>1

\* A commit takes the next number, and what it consumed is recorded already.
LEMMA CausalStep ==
  ASSUME NodesInv, TraceSeqsDistinct, MessagesAreCausal, [Next]_vars
  PROVE  MessagesAreCausal'
<1>0. TypeOK /\ MessagesMatchCompletions /\ WalksSeeCommitted /\ traceSeq \in Nat
  BY TypeParts DEF NodesInv, CountsTyped
<1>1. CASE messages' = messages BY <1>1 DEF MessagesAreCausal
<1>2. ASSUME NEW w \in Executors, NEW k \in Keys, Completes(w, k)
      PROVE  MessagesAreCausal'
  <2>1. PICK m : messages' = messages \cup {m} /\ m.from = k /\ m.seq = traceSeq + 1
    BY <1>2, CompletionMessage
  <2>2. ASSUME NEW j \in Needs[k] PROVE \E o \in messages : o.from = j /\ o.seq < m.seq
    <3>1. j \in Keys /\ life[w][j].pc = "done" BY <1>2, <2>2, ConstantsOK DEF Completes, InputsReady
    <3>2. Completed(j) BY <1>0, <3>1 DEF WalksSeeCommitted
    <3>3. PICK o \in messages : o.from = j BY <1>0, <3>1, <3>2 DEF MessagesMatchCompletions
    <3>4. o.seq \in Nat /\ o.seq <= traceSeq BY <1>0, <3>3, MessagesAreNumbered
    <3>5. o.seq < m.seq BY <1>0, <2>1, <3>4
    <3> QED BY <3>3, <3>5
  <2> QED BY <2>1, <2>2 DEF MessagesAreCausal
<1> QED BY <1>1, <1>2, CommittedEffects

\* Messages are recorded in an order of the graph's edges, for every graph and
\* whichever executors committed them.
THEOREM TraceFollowsEdges == Spec => []MessagesAreCausal
<1>1. Init => MessagesAreCausal BY DEF Init, MessagesAreCausal
<1>2. NodesInv /\ TraceSeqsDistinct /\ MessagesAreCausal /\ [Next]_vars => MessagesAreCausal'
  BY CausalStep
<1> QED BY <1>1, <1>2, NodesInvariant, RecordsAreNumberedApart, PTL DEF Spec

-----------------------------------------------------------------------------
(* State revisions of nodes that never run concurrently. *)

\* An executor that holds no claim has nothing under way.
RestInv == \A w \in Executors, k \in Keys : ~Walking(w) => life[w][k] = Rest

\* What a node of the current walk will commit over is the latest state.
BaseInv ==
  \A w \in Executors, k \in Pushers :
    Walking(w) /\ Fenced(w) /\ life[w][k].pc \in {"ready", "executed"} => life[w][k].base = LatestState

\* A step of a node's invocation is taken by an executor that walks.
LEMMA NodesWalk ==
  ASSUME RestInv, NEW w \in Executors, NEW k \in Keys, Node(w, k)
  PROVE  Walking(w)
<1>1. CASE Begin(w, k) BY <1>1 DEF Begin
<1>2. CASE ~Begin(w, k)
  <2>1. life[w][k].pc # "idle"
    BY <1>2, Zenon DEF Node, ReadState, Call, Pause, Commit, RefuseCommit, Fail, Produce, Break
  <2> QED BY <2>1 DEF RestInv, Rest
<1> QED BY <1>1, <1>2

\* A step leaves claims and walks alone, opens a claim at rest, gives one up,
\* or moves one invocation of a walk.
LEMMA WalkSteps ==
  ASSUME NodesInv, RestInv, [Next]_vars
  PROVE  \/ UNCHANGED <<claimSeq, held, life, account, spent, revisions>>
         \/ \E w \in Executors :
              /\ ~Walking(w) /\ claimSeq' = claimSeq + 1 /\ held' = [held EXCEPT ![w] = claimSeq + 1]
              /\ account' = [account EXCEPT ![w] = spent] /\ UNCHANGED <<life, spent, revisions>>
         \/ \E w \in Executors :
              /\ Walking(w) /\ Leave(w) /\ UNCHANGED <<claimSeq, revisions>>
              /\ spent' = spent \/ (Fenced(w) /\ spent' = account[w])
         \/ \E w \in Executors, k \in Keys :
              Node(w, k) /\ Walking(w) /\ Moved(w, k) /\ UNCHANGED <<claimSeq, held>>
<1>1. CASE UNCHANGED vars \/ Resume \/ Cancel BY <1>1 DEF vars, run, Resume, Cancel
<1>2. ASSUME NEW w \in Executors, Claim(w)
      PROVE  /\ ~Walking(w) /\ claimSeq' = claimSeq + 1 /\ held' = [held EXCEPT ![w] = claimSeq + 1]
             /\ account' = [account EXCEPT ![w] = spent] /\ UNCHANGED <<life, spent, revisions>>
  BY <1>2 DEF Claim
<1>3. ASSUME NEW w \in Executors,
             Crash(w) \/ \E outcome \in {"completed", "waiting", "failed"} : Settle(w, outcome)
      PROVE  /\ Walking(w) /\ Leave(w) /\ UNCHANGED <<claimSeq, revisions>>
             /\ spent' = spent \/ (Fenced(w) /\ spent' = account[w])
  BY <1>3 DEF Crash, Settle, store, run
<1>4. ASSUME NEW w \in Executors, NEW k \in Keys, Node(w, k)
      PROVE  Walking(w) /\ Moved(w, k) /\ UNCHANGED <<claimSeq, held>>
  <2>1. UNCHANGED <<claimSeq, held>>
    BY <1>4, Zenon DEF Node, Begin, ReadState, Call, Pause, Commit, RefuseCommit, Fail, Produce, Break, store, run
  <2> QED BY <1>4, <2>1, NodeMoves, NodesWalk
<1> QED BY <1>1, <1>2, <1>3, <1>4 DEF Next

\* Who holds the current epoch after a claim or a departure.
LEMMA FencesMove ==
  ASSUME NodesInv, NEW w \in Executors, NEW v \in Executors, Walking(v)', Fenced(v)'
  PROVE  /\ claimSeq' = claimSeq + 1 /\ held' = [held EXCEPT ![w] = claimSeq + 1] => v = w
         /\ claimSeq' = claimSeq /\ held' = [held EXCEPT ![w] = 0] => v # w /\ Walking(v) /\ Fenced(v)
         /\ UNCHANGED <<claimSeq, held>> => Walking(v) /\ Fenced(v) /\ (Walking(w) /\ Fenced(w) => v = w)
<1>1. held \in [Executors -> Epochs] /\ claimSeq \in Nat /\ held[v] \in Nat /\ held[v] <= claimSeq
  BY TypeParts, ConstantsOK DEF NodesInv, EpochInv, CountsTyped, Epochs
<1>2. v # w /\ Walking(v) /\ Walking(w) => held[v] # held[w] BY DEF NodesInv, EpochInv
<1>3. ASSUME claimSeq' = claimSeq + 1, held' = [held EXCEPT ![w] = claimSeq + 1] PROVE v = w
  BY <1>1, <1>3 DEF Fenced
<1>4. ASSUME claimSeq' = claimSeq, held' = [held EXCEPT ![w] = 0] PROVE v # w /\ Walking(v) /\ Fenced(v)
  BY <1>1, <1>4 DEF Fenced, Walking
<1>5. ASSUME UNCHANGED <<claimSeq, held>>
      PROVE  Walking(v) /\ Fenced(v) /\ (Walking(w) /\ Fenced(w) => v = w)
  BY <1>2, <1>5 DEF Fenced, Walking
<1> QED BY <1>3, <1>4, <1>5

\* An executor is at rest before its claim and after its departure.
LEMMA RestStep == ASSUME NodesInv, RestInv, [Next]_vars PROVE RestInv'
<1>0. LifeTyped /\ held \in [Executors -> Epochs] /\ claimSeq \in Nat
  BY TypeParts, ConstantsOK DEF NodesInv, CountsTyped, Epochs
<1>1. CASE UNCHANGED <<held, life>> BY <1>1 DEF RestInv, Walking
<1>2. ASSUME NEW w \in Executors, ~Walking(w), held' = [held EXCEPT ![w] = claimSeq + 1], UNCHANGED life
      PROVE  RestInv'
  BY <1>0, <1>2 DEF RestInv, Walking
<1>3. ASSUME NEW w \in Executors, Leave(w) PROVE RestInv'
  <2>1. /\ \A k \in Keys : life'[w][k] = Rest
        /\ \A v \in Executors : v # w => life'[v] = life[v] /\ held'[v] = held[v]
    BY <1>0, <1>3, LeaveMoves DEF Leave
  <2> QED BY <2>1 DEF RestInv, Walking
<1>4. ASSUME NEW w \in Executors, NEW k \in Keys, Walking(w), Moved(w, k), UNCHANGED held PROVE RestInv'
  BY <1>4 DEF RestInv, Walking, Moved
<1> QED BY <1>1, <1>2, <1>3, <1>4, WalkSteps

\* An invocation reads the latest state, keeps it until its commit, or has none.
LEMMA BaseMoves ==
  ASSUME LifeTyped, NEW w \in Executors, NEW k \in Keys, Node(w, k), ~Commit(w, k),
         life'[w][k].pc \in {"ready", "executed"}, k \in Pushers
  PROVE  \/ life'[w][k].base = LatestState
         \/ life[w][k].pc = "ready" /\ life'[w][k].base = life[w][k].base
<1>0. life[w][k] \in Lives BY DEF LifeTyped
<1>1. ASSUME NEW rec, Step(w, k, rec) PROVE life'[w][k] = rec BY <1>1 DEF Step, LifeTyped
<1>2. CASE Begin(w, k)
  <2>1. \/ life'[w][k] = Refused \/ life'[w][k] = [Rest EXCEPT !.pc = "begun", !.n = last[k] + 1]
        \/ life'[w][k] = [Rest EXCEPT !.pc = "done", !.out = row[k][last[k]].output]
    BY <1>1, <1>2 DEF Begin
  <2> QED BY <2>1 DEF Rest, Refused
<1>3. CASE ReadState(w, k)
  <2>1. life'[w][k] = [life[w][k] EXCEPT !.pc = "ready", !.base = LatestState] BY <1>1, <1>3 DEF ReadState
  <2> HIDE DEF LatestState
  <2> QED BY <1>0, <2>1 DEF Lives
<1>4. CASE Call(w, k)
  <2>1. life'[w][k] = [life[w][k] EXCEPT !.calls = life[w][k].calls + 1] /\ life[w][k].pc = "ready"
    BY <1>1, <1>4 DEF Call
  <2> QED BY <1>0, <2>1 DEF Lives
<1>5. CASE Pause(w, k) \/ Fail(w, k) BY <1>1, <1>5 DEF Pause, Fail, Rest, Refused
<1>6. ASSUME NEW output, Produce(w, k, output)
      PROVE  life[w][k].pc = "ready" /\ life'[w][k].base = life[w][k].base
  <2>1. life'[w][k] = [life[w][k] EXCEPT !.pc = "executed", !.out = output] /\ life[w][k].pc = "ready"
    BY <1>1, <1>6 DEF Produce
  <2> QED BY <1>0, <2>1 DEF Lives
<1>7. ASSUME NEW outcome, Break(w, k, outcome) PROVE life'[w][k].pc = "failing"
  <2>1. life'[w][k] = [life[w][k] EXCEPT !.pc = "failing", !.fail = outcome] BY <1>1, <1>7 DEF Break
  <2> QED BY <1>0, <2>1 DEF Lives
<1>8. CASE RefuseCommit(w, k)
  <2>1. life'[w][k] = [life[w][k] EXCEPT !.pc = "failing", !.fail = "failed"] BY <1>1, <1>8 DEF RefuseCommit
  <2> QED BY <1>0, <2>1 DEF Lives
<1> QED BY <1>2, <1>3, <1>4, <1>5, <1>6, <1>7, <1>8 DEF Node

\* Of two nodes that push state one consumes the other.
PushersOrdered == \A j, k \in Pushers : j # k => j \in Needs[k] \/ k \in Needs[j]

\* With pushers in order nobody commits between a node's read and its commit.
LEMMA BaseStep ==
  ASSUME PushersOrdered, NodesInv, RestInv, BaseInv, [Next]_vars
  PROVE  BaseInv'
<1>0. LifeTyped /\ LifeInv /\ Pushers \subseteq Keys BY TypeParts, ConstantsOK DEF NodesInv
<1>1. SUFFICES ASSUME NEW v \in Executors, NEW j \in Pushers, Walking(v)', Fenced(v)',
                      life'[v][j].pc \in {"ready", "executed"}
               PROVE  life'[v][j].base = LatestState'
  BY DEF BaseInv
<1>2. CASE UNCHANGED <<claimSeq, held, life, revisions>>
  BY <1>1, <1>2 DEF BaseInv, Walking, Fenced, LatestState
<1>3. ASSUME NEW w \in Executors, ~Walking(w), claimSeq' = claimSeq + 1,
             held' = [held EXCEPT ![w] = claimSeq + 1], UNCHANGED life
      PROVE  FALSE
  <2>1. v = w BY <1>1, <1>3, FencesMove
  <2> QED BY <1>0, <1>1, <1>3, <2>1 DEF RestInv, Rest
<1>4. ASSUME NEW w \in Executors, Leave(w), UNCHANGED <<claimSeq, revisions>>
      PROVE  life'[v][j].base = LatestState'
  <2>1. v # w /\ Walking(v) /\ Fenced(v) BY <1>1, <1>4, FencesMove DEF Leave
  <2>2. life'[v] = life[v] BY <1>0, <1>4, <2>1, LeaveMoves
  <2> QED BY <1>1, <1>4, <2>1, <2>2 DEF BaseInv, LatestState
<1>5. ASSUME NEW w \in Executors, NEW k \in Keys, Node(w, k), Walking(w), Moved(w, k), UNCHANGED <<claimSeq, held>>
      PROVE  life'[v][j].base = LatestState'
  <2>1. Walking(v) /\ Fenced(v) /\ (Fenced(w) => v = w) BY <1>1, <1>5, FencesMove
  <2>2. CASE ~Commit(w, k)
    <3>1. UNCHANGED revisions
      BY <1>5, <2>2, Zenon DEF Node, Begin, ReadState, Call, Pause, RefuseCommit, Fail, Produce, Break, store
    <3>2. LatestState' = LatestState BY <3>1 DEF LatestState
    <3>3. CASE v = w /\ j = k
      <4>1. \/ life'[w][k].base = LatestState
            \/ life[w][k].pc = "ready" /\ life'[w][k].base = life[w][k].base
        BY <1>0, <1>1, <1>5, <2>2, <3>3, BaseMoves
      <4> QED BY <2>1, <3>2, <3>3, <4>1 DEF BaseInv
    <3>4. CASE v # w \/ j # k
      <4>1. life'[v][j] = life[v][j] BY <1>0, <1>5, <3>4 DEF Moved
      <4> QED BY <1>1, <2>1, <3>2, <4>1 DEF BaseInv
    <3> QED BY <3>3, <3>4
  <2>3. CASE Commit(w, k)
    <3>1. Fenced(w) /\ life[w][k].pc = "executed" BY <2>3 DEF Commit, MayCommit
    <3>2. v = w BY <2>1, <3>1
    <3>3. j # k
      <4>1. life'[w][k] = [Rest EXCEPT !.pc = "done", !.out = life[w][k].out]
        BY <1>0, <2>3 DEF Commit, Step, LifeTyped
      <4> QED BY <1>1, <3>2, <4>1 DEF Rest
    <3>4. life'[v][j] = life[v][j] BY <1>0, <1>5, <3>3 DEF Moved
    <3>5. k \notin Pushers
      <4>1. SUFFICES ASSUME k \in Pushers PROVE FALSE OBVIOUS
      <4>2. InputsReady(w, k) BY <1>0, <3>1 DEF LifeInv, Active
      <4>3. InputsReady(w, j) BY <1>0, <1>1, <3>2, <3>4 DEF LifeInv, Active
      <4>4. j \in Needs[k] \/ k \in Needs[j] BY <3>3, <4>1 DEF PushersOrdered
      <4> QED BY <1>1, <3>1, <3>2, <3>4, <4>2, <4>3, <4>4 DEF InputsReady
    <3>6. UNCHANGED revisions BY <2>3, <3>5 DEF Commit
    <3> QED BY <1>1, <2>1, <3>4, <3>6 DEF BaseInv, LatestState
  <2> QED BY <2>2, <2>3
<1> QED BY <1>2, <1>3, <1>4, <1>5, WalkSteps

\* A revision is the previous one with the pushed member replaced.
LEMMA RevisionStep ==
  ASSUME NodesInv, RestInv, BaseInv, RevisionChangesOnlyItsMembers, [Next]_vars
  PROVE  RevisionChangesOnlyItsMembers'
<1>0. LifeTyped /\ RecordsTyped BY TypeParts DEF NodesInv
<1>1. CASE UNCHANGED revisions BY <1>1 DEF RevisionChangesOnlyItsMembers
<1>2. ASSUME NEW w \in Executors, NEW k \in Keys, Commit(w, k), k \in Pushers, Walking(w)
      PROVE  RevisionChangesOnlyItsMembers'
  <2> DEFINE S == [member : Keys, seq : Nat, value : [Keys -> Values]]
             me == life[w][k]
             rev == [member |-> k, seq |-> traceSeq + Sent(k) + 1, value |-> [me.base EXCEPT ![k] = me.out]]
  <2>1. revisions' = Append(revisions, rev) BY <1>2 DEF Commit
  <2>2. me.base = LatestState BY <1>2 DEF Commit, MayCommit, BaseInv
  <2>3. me.base \in [Keys -> Values] BY <1>0 DEF LifeTyped, Lives
  <2>4. rev.member = k /\ \A j \in Keys : j # k => rev.value[j] = me.base[j] BY <2>3
  <2>5. revisions \in Seq(S) BY <1>0 DEF RecordsTyped
  <2> HIDE DEF rev, S, me
  <2>6. /\ Len(revisions') = Len(revisions) + 1 /\ Len(revisions) \in Nat
        /\ revisions'[Len(revisions) + 1] = rev
        /\ \A i \in 1..Len(revisions) : revisions'[i] = revisions[i]
    BY <2>1, <2>5
  <2>7. ASSUME NEW i \in 2..Len(revisions'), NEW j \in Keys, j # revisions'[i].member
        PROVE  revisions'[i].value[j] = revisions'[i - 1].value[j]
    <3>1. CASE i = Len(revisions) + 1
      <4>1. revisions # <<>> /\ i - 1 = Len(revisions) /\ i - 1 \in 1..Len(revisions) BY <2>5, <2>6, <2>7, <3>1
      <4>2. revisions'[i - 1] = revisions[Len(revisions)] BY <2>6, <4>1
      <4>3. me.base = revisions[Len(revisions)].value BY <2>2, <4>1 DEF LatestState
      <4> QED BY <2>4, <2>6, <2>7, <3>1, <4>2, <4>3
    <3>2. CASE i \in 2..Len(revisions)
      <4>1. i - 1 \in 1..Len(revisions) /\ i \in 1..Len(revisions) BY <2>6, <3>2
      <4>2. revisions'[i] = revisions[i] /\ revisions'[i - 1] = revisions[i - 1] BY <2>6, <4>1
      <4> QED BY <2>7, <3>2, <4>2 DEF RevisionChangesOnlyItsMembers
    <3> QED BY <2>6, <2>7, <3>1, <3>2
  <2> QED BY <2>7 DEF RevisionChangesOnlyItsMembers
<1>3. ASSUME NEW w \in Executors, NEW k \in Keys, Node(w, k), ~(Commit(w, k) /\ k \in Pushers)
      PROVE  UNCHANGED revisions
  BY <1>3, Zenon DEF Node, Begin, ReadState, Call, Pause, Commit, RefuseCommit, Fail, Produce, Break, store
<1> QED BY <1>1, <1>2, <1>3, WalkSteps

\* When the nodes that push state are ordered by their edges, a revision
\* changes only the member it names, whatever executors interleave.
THEOREM OrderedPushesKeepState ==
  ASSUME PushersOrdered PROVE Spec => []RevisionChangesOnlyItsMembers
<1> DEFINE StateInv == RestInv /\ BaseInv /\ RevisionChangesOnlyItsMembers
<1>1. Init => StateInv
  <2> SUFFICES ASSUME Init PROVE StateInv OBVIOUS
  <2>1. \A w \in Executors, k \in Keys : life[w][k] = Rest BY DEF Init
  <2>2. \A w \in Executors : ~Walking(w) BY DEF Init, Walking
  <2>3. Len(revisions) = 0 BY DEF Init
  <2> QED BY <2>1, <2>2, <2>3 DEF RestInv, BaseInv, RevisionChangesOnlyItsMembers
<1>2. NodesInv /\ StateInv /\ [Next]_vars => StateInv' BY RestStep, BaseStep, RevisionStep
<1>3. StateInv => RevisionChangesOnlyItsMembers OBVIOUS
<1> QED BY <1>1, <1>2, <1>3, NodesInvariant, PTL DEF Spec

-----------------------------------------------------------------------------
(* The recorded spend. *)

\* The account of whoever may still write covers what is recorded and what
\* his open attempts will charge.
SpendInv ==
  /\ spent <= Limit /\ \A w \in Executors : account[w] <= Limit
  /\ \A w \in Executors :
       /\ IsFiniteSet(Uncharged(w))
       /\ Walking(w) /\ Fenced(w) => spent + Cardinality(Uncharged(w)) <= account[w]

\* Charging an attempt takes its calls, and no others, off the uncharged ones.
LEMMA ChargeMoves ==
  ASSUME NEW S, IsFiniteSet(S), NEW k, NEW n \in Nat, {k} \X (1..n) \subseteq S
  PROVE  /\ IsFiniteSet(S \ ({k} \X (1..n)))
         /\ Cardinality(S \ ({k} \X (1..n))) = Cardinality(S) - n
<1> DEFINE own == {k} \X (1..n)
           f == [c \in 1..n |-> <<k, c>>]
<1>1. IsFiniteSet(1..n) /\ Cardinality(1..n) = n
  <2> HIDE DEF own, f
  <2>1. IsFiniteSet(1..n) /\ Cardinality(1..n) = IF 1 > n THEN 0 ELSE n - 1 + 1 BY FS_Interval
  <2>2. (IF 1 > n THEN 0 ELSE n - 1 + 1) = n OBVIOUS
  <2> QED BY <2>1, <2>2
<1>2. f \in Bijection(1..n, own)
  <2>1. f \in [1..n -> own] OBVIOUS
  <2>2. \A a, b \in 1..n : f[a] = f[b] => a = b OBVIOUS
  <2>3. \A x \in own : \E c \in 1..n : f[c] = x
    <3>1. ASSUME NEW x \in own PROVE x[2] \in 1..n /\ f[x[2]] = x OBVIOUS
    <3> QED BY <3>1
  <2> HIDE DEF f, own
  <2> QED BY <2>1, <2>2, <2>3 DEF Bijection, Injection, Surjection, IsInjective
<1>3. ExistsBijection(1..n, own) BY <1>2 DEF ExistsBijection
<1>4. Cardinality(own) = n BY <1>1, <1>3, FS_Bijection
<1>5. S \cap own = own OBVIOUS
<1> HIDE DEF own
<1>6. IsFiniteSet(S \ own) /\ Cardinality(S \ own) = Cardinality(S) - Cardinality(S \cap own)
  BY FS_Difference
<1>7. IsFiniteSet(S \ own) /\ Cardinality(S \ own) = Cardinality(S) - n BY <1>4, <1>5, <1>6
<1> QED BY <1>7 DEF own

\* The elements of Uncharged, before and after a step.
LEMMA UnchargedIs ==
  ASSUME NEW w \in Executors
  PROVE  /\ LifeTyped => Uncharged(w) = {x \in Keys \X Nat : x[2] \in 1..life[w][x[1]].calls}
         /\ LifeTyped' => Uncharged(w)' = {x \in Keys \X Nat : x[2] \in 1..life'[w][x[1]].calls}
<1>1. ASSUME LifeTyped
      PROVE  Uncharged(w) = {x \in Keys \X Nat : x[2] \in 1..life[w][x[1]].calls}
  <2>1. \A k \in Keys : life[w][k].calls \in Nat BY <1>1 DEF LifeTyped, Lives
  <2> QED BY <2>1 DEF Uncharged
<1>2. ASSUME LifeTyped'
      PROVE  Uncharged(w)' = {x \in Keys \X Nat : x[2] \in 1..life'[w][x[1]].calls}
  <2>1. \A k \in Keys : life'[w][k].calls \in Nat BY <1>2 DEF LifeTyped, Lives
  <2> QED BY <2>1 DEF Uncharged
<1> QED BY <1>1, <1>2

\* What an invocation's step does to its uncharged calls.
LEMMA UnchargedMoves ==
  ASSUME LifeTyped, LifeTyped', NEW w \in Executors, NEW k \in Keys,
         \A j \in Keys : j # k => life'[w][j] = life[w][j]
  PROVE  /\ life'[w][k].calls <= life[w][k].calls => Uncharged(w)' \subseteq Uncharged(w)
         /\ life'[w][k].calls = life[w][k].calls + 1 =>
              Uncharged(w)' = Uncharged(w) \cup {<<k, life[w][k].calls + 1>>}
         /\ life'[w][k].calls = 0 => Uncharged(w)' = Uncharged(w) \ ({k} \X (1..life[w][k].calls))
         /\ {k} \X (1..life[w][k].calls) \subseteq Uncharged(w)
<1>1. \A j \in Keys : life[w][j].calls \in Nat /\ life'[w][j].calls \in Nat BY DEF LifeTyped, Lives
<1> QED BY <1>1, UnchargedIs

\* A step of an invocation charges nothing, counts a call, or charges what it
\* made and has none left.  Only a refused failure drops calls it made.
LEMMA NodeSpends ==
  ASSUME LifeTyped, LifeTyped', NEW w \in Executors, NEW k \in Keys, Node(w, k)
  PROVE  \/ UNCHANGED <<spent, account>> /\ life'[w][k].calls = life[w][k].calls
         \/ /\ UNCHANGED <<spent, account>> /\ life'[w][k].calls = 0
            /\ \/ life[w][k].pc = "idle" \/ life[w][k].calls = 0
               \/ life[w][k].pc = "failing" /\ ~MayCommit(w, k)
         \/ /\ account[w] < Limit /\ account' = [account EXCEPT ![w] = @ + 1] /\ UNCHANGED spent
            /\ life'[w][k].calls = life[w][k].calls + 1
         \/ /\ Fenced(w) /\ UNCHANGED account /\ spent' = spent + life[w][k].calls
            /\ life'[w][k].calls = 0
<1>0. life[w][k] \in Lives /\ life[w][k].calls \in Nat BY DEF LifeTyped, Lives
<1>1. ASSUME NEW rec, Step(w, k, rec) PROVE life'[w][k] = rec BY <1>1 DEF Step, LifeTyped
<1>2. Rest.calls = 0 /\ Refused.calls = 0 BY DEF Rest, Refused
<1>3. CASE Begin(w, k)
  <2>1. /\ \/ life'[w][k] = Refused \/ life'[w][k] = [Rest EXCEPT !.pc = "begun", !.n = last[k] + 1]
           \/ life'[w][k] = [Rest EXCEPT !.pc = "done", !.out = row[k][last[k]].output]
        /\ UNCHANGED <<spent, account>>
    BY <1>1, <1>3 DEF Begin
  <2>2. life'[w][k].calls = 0 BY <2>1 DEF Rest, Refused
  <2>3. life[w][k].pc = "idle" BY <1>3 DEF Begin
  <2> QED BY <2>1, <2>2, <2>3
<1>4. CASE ReadState(w, k)
  <2>1. life'[w][k] = [life[w][k] EXCEPT !.pc = "ready", !.base = IF k \in Pushers THEN LatestState ELSE @]
        /\ UNCHANGED <<spent, account>>
    BY <1>1, <1>4 DEF ReadState, store, run
  <2> HIDE DEF LatestState
  <2>2. life'[w][k].calls = life[w][k].calls BY <1>0, <2>1 DEF Lives
  <2> QED BY <1>0, <2>1, <2>2
<1>5. CASE Call(w, k)
  <2>1. life'[w][k] = [life[w][k] EXCEPT !.calls = @ + 1] BY <1>1, <1>5 DEF Call
  <2>2. life'[w][k].calls = life[w][k].calls + 1 BY <1>0, <2>1 DEF Lives
  <2> QED BY <1>5, <2>2 DEF Call, store, run
<1>6. CASE Pause(w, k)
  <2>1. life'[w][k] = [Rest EXCEPT !.pc = "paused"] /\ UNCHANGED <<spent, account>>
    BY <1>1, <1>6 DEF Pause, store, run
  <2>2. life'[w][k].calls = 0 /\ life[w][k].calls = 0 BY <1>6, <2>1 DEF Pause, Rest
  <2> QED BY <2>1, <2>2
<1>7. CASE Fail(w, k)
  <2>1. life'[w][k].calls = 0 /\ UNCHANGED account BY <1>1, <1>2, <1>7 DEF Fail
  <2>2. life[w][k].pc = "failing" BY <1>7 DEF Fail
  <2>3. CASE MayCommit(w, k) BY <1>7, <2>1, <2>3 DEF Fail, MayCommit
  <2>4. CASE ~MayCommit(w, k) BY <1>7, <2>1, <2>2, <2>4 DEF Fail
  <2> QED BY <2>3, <2>4
<1>8. CASE Commit(w, k)
  <2>1. /\ life'[w][k] = [Rest EXCEPT !.pc = "done", !.out = life[w][k].out] /\ UNCHANGED account
        /\ Fenced(w) /\ spent' = spent + life[w][k].calls
    BY <1>1, <1>8 DEF Commit, MayCommit
  <2>2. life'[w][k].calls = 0 BY <2>1 DEF Rest
  <2> QED BY <2>1, <2>2
<1>9. ASSUME NEW rec, Step(w, k, rec), UNCHANGED <<spent, account>>, rec.calls = life[w][k].calls
      PROVE  UNCHANGED <<spent, account>> /\ life'[w][k].calls = life[w][k].calls
  BY <1>1, <1>9
<1>10. CASE RefuseCommit(w, k)
  <2>1. [life[w][k] EXCEPT !.pc = "failing", !.fail = "failed"].calls = life[w][k].calls BY <1>0 DEF Lives
  <2> QED BY <1>9, <1>10, <2>1 DEF RefuseCommit, store, run
<1>11. ASSUME NEW output, Produce(w, k, output)
       PROVE  UNCHANGED <<spent, account>> /\ life'[w][k].calls = life[w][k].calls
  <2>1. [life[w][k] EXCEPT !.pc = "executed", !.out = output].calls = life[w][k].calls BY <1>0 DEF Lives
  <2> QED BY <1>9, <1>11, <2>1 DEF Produce, store, run
<1>12. ASSUME NEW outcome, Break(w, k, outcome)
       PROVE  UNCHANGED <<spent, account>> /\ life'[w][k].calls = life[w][k].calls
  <2>1. [life[w][k] EXCEPT !.pc = "failing", !.fail = outcome].calls = life[w][k].calls BY <1>0 DEF Lives
  <2> QED BY <1>9, <1>12, <2>1 DEF Break, store, run
<1> QED BY <1>3, <1>4, <1>5, <1>6, <1>7, <1>8, <1>10, <1>11, <1>12 DEF Node

\* No step counts a call away or charges more than was counted.
LEMMA SpendStep ==
  ASSUME NodesInv, RestInv, SpendInv, [Next]_vars
  PROVE  SpendInv'
<1>0. /\ LifeTyped /\ Limit \in Nat /\ spent \in Nat /\ account \in [Executors -> Nat]
      /\ held \in [Executors -> Epochs]
  BY TypeParts, ConstantsOK DEF NodesInv, CountsTyped
<1>1. ASSUME NEW w \in Executors PROVE Cardinality(Uncharged(w)) \in Nat
  BY FS_CardinalityType DEF SpendInv
<1>2. CASE UNCHANGED <<claimSeq, held, life, account, spent, revisions>>
  BY <1>2 DEF SpendInv, Uncharged, Walking, Fenced
<1>3. ASSUME NEW w \in Executors, ~Walking(w), claimSeq' = claimSeq + 1,
             held' = [held EXCEPT ![w] = claimSeq + 1],
             account' = [account EXCEPT ![w] = spent], UNCHANGED <<life, spent, revisions>>
      PROVE  SpendInv'
  <2>1. account'[w] = spent /\ \A v \in Executors : account'[v] \in {spent, account[v]} BY <1>0, <1>3
  <2>2. \A v \in Executors : Uncharged(v)' = Uncharged(v) BY <1>3 DEF Uncharged
  <2>3. Uncharged(w) = {} BY <1>3 DEF RestInv, Rest, Uncharged
  <2>4. ASSUME NEW v \in Executors, Walking(v)', Fenced(v)'
        PROVE  spent' + Cardinality(Uncharged(v)') <= account'[v]
    <3>1. v = w BY <1>3, <2>4, FencesMove
    <3>2. Uncharged(v)' = {} BY <2>2, <2>3, <3>1
    <3>3. Cardinality(Uncharged(v)') = 0 BY <3>2, FS_EmptySet
    <3> QED BY <1>0, <1>3, <2>1, <3>1, <3>3
  <2> QED BY <1>3, <2>1, <2>2, <2>4 DEF SpendInv
<1>4. ASSUME NEW w \in Executors, Leave(w), UNCHANGED <<claimSeq, revisions>>,
             Walking(w), spent' = spent \/ (Fenced(w) /\ spent' = account[w])
      PROVE  SpendInv'
  <2>1. account'[w] = 0 /\ \A v \in Executors : v # w => account'[v] = account[v] /\ life'[v] = life[v]
    BY <1>0, <1>4, LeaveMoves DEF Leave
  <2>2. \A k \in Keys : life'[w][k].calls = 0 BY <1>0, <1>4, LeaveMoves DEF Rest
  <2>3. Uncharged(w)' = {} /\ IsFiniteSet({}) BY <2>2, FS_EmptySet DEF Uncharged
  <2>4. \A v \in Executors : v # w => Uncharged(v)' = Uncharged(v) BY <2>1 DEF Uncharged
  <2>5. ASSUME NEW v \in Executors, Walking(v)', Fenced(v)'
        PROVE  spent' + Cardinality(Uncharged(v)') <= account'[v]
    <3>1. v # w /\ Walking(v) /\ Fenced(v) BY <1>4, <2>5, FencesMove DEF Leave
    <3>2. CASE spent' = spent BY <2>1, <2>4, <3>1, <3>2 DEF SpendInv
    <3>3. CASE Fenced(w) BY <1>4, <3>1, <3>3 DEF NodesInv, EpochInv, Fenced
    <3> QED BY <1>4, <3>2, <3>3
  <2> QED BY <1>0, <1>4, <2>1, <2>3, <2>4, <2>5 DEF SpendInv
<1>5. ASSUME NEW w \in Executors, NEW k \in Keys, Node(w, k), Walking(w), Moved(w, k), UNCHANGED <<claimSeq, held>>
      PROVE  SpendInv'
  <2> DEFINE U == Uncharged(w)
             n == life[w][k].calls
  <2>0. LifeTyped' /\ n \in Nat BY <1>0, <1>5 DEF Moved, LifeTyped, Lives
  <2>1. \A j \in Keys : j # k => life'[w][j] = life[w][j] BY <1>5 DEF Moved
  <2>2. \A v \in Executors : v # w => Uncharged(v)' = Uncharged(v) BY <1>5 DEF Moved, Uncharged
  <2>3. IsFiniteSet(U) /\ Cardinality(U) \in Nat BY <1>1 DEF SpendInv
  <2>4. Fenced(w) => spent + Cardinality(U) <= account[w] BY <1>5 DEF SpendInv
  <2>5. ASSUME account'[w] <= Limit, \A v \in Executors : v # w => account'[v] = account[v],
               spent' <= Limit, spent' = spent \/ Fenced(w), IsFiniteSet(Uncharged(w)'),
               Fenced(w) => spent' + Cardinality(Uncharged(w)') <= account'[w]
        PROVE  SpendInv'
    <3>1. \A v \in Executors : account'[v] <= Limit BY <2>5 DEF SpendInv
    <3>2. \A v \in Executors : IsFiniteSet(Uncharged(v)') BY <2>2, <2>5 DEF SpendInv
    <3>3. ASSUME NEW v \in Executors, Walking(v)', Fenced(v)'
          PROVE  spent' + Cardinality(Uncharged(v)') <= account'[v]
      <4>1. Walking(v) /\ Fenced(v) /\ (Fenced(w) => v = w) BY <1>5, <3>3, FencesMove
      <4>2. CASE v = w BY <2>5, <4>1, <4>2
      <4>3. CASE v # w
        <5>1. spent' = spent /\ account'[v] = account[v] /\ Uncharged(v)' = Uncharged(v)
          BY <2>2, <2>5, <4>1, <4>3
        <5> QED BY <4>1, <5>1 DEF SpendInv
      <4> QED BY <4>2, <4>3
    <3> QED BY <2>5, <3>1, <3>2, <3>3 DEF SpendInv
  <2>6. CASE UNCHANGED <<spent, account>> /\ life'[w][k].calls \in {n, 0}
    <3>1. Uncharged(w)' \subseteq U BY <1>0, <2>0, <2>1, <2>6, UnchargedMoves
    <3>2. /\ IsFiniteSet(Uncharged(w)') /\ Cardinality(Uncharged(w)') \in Nat
          /\ Cardinality(Uncharged(w)') <= Cardinality(U)
      BY <2>3, <3>1, FS_Subset, FS_CardinalityType
    <3> HIDE DEF U
    <3> QED BY <1>0, <2>3, <2>4, <2>5, <2>6, <3>2 DEF SpendInv
  <2>7. CASE /\ account[w] < Limit /\ account' = [account EXCEPT ![w] = @ + 1] /\ UNCHANGED spent
             /\ life'[w][k].calls = n + 1
    <3>1. Uncharged(w)' = U \cup {<<k, n + 1>>} BY <1>0, <2>0, <2>1, <2>7, UnchargedMoves
    <3>2. /\ IsFiniteSet(Uncharged(w)') /\ Cardinality(Uncharged(w)') \in Nat
          /\ Cardinality(Uncharged(w)') <= Cardinality(U) + 1
      <4> DEFINE x == <<k, n + 1>>
      <4> HIDE DEF x, U
      <4>1. Uncharged(w)' = U \cup {x} BY <3>1 DEF x
      <4>2. IsFiniteSet(U \cup {x}) /\ Cardinality(U \cup {x}) = IF x \in U THEN Cardinality(U) ELSE Cardinality(U) + 1
        BY <2>3, FS_AddElement
      <4> QED BY <2>3, <4>1, <4>2
    <3>3. account'[w] = account[w] + 1 /\ account[w] \in Nat /\ \A v \in Executors : v # w => account'[v] = account[v]
      BY <1>0, <2>7
    <3> HIDE DEF U
    <3> QED BY <1>0, <2>3, <2>4, <2>5, <2>7, <3>2, <3>3 DEF SpendInv
  <2>8. CASE Fenced(w) /\ UNCHANGED account /\ spent' = spent + n /\ life'[w][k].calls = 0
    <3>1. Uncharged(w)' = U \ ({k} \X (1..n)) /\ {k} \X (1..n) \subseteq U
      BY <1>0, <2>0, <2>1, <2>8, UnchargedMoves
    <3>2. IsFiniteSet(Uncharged(w)') /\ Cardinality(Uncharged(w)') = Cardinality(U) - n
      <4> HIDE DEF U, n
      <4>1. /\ IsFiniteSet(U \ ({k} \X (1..n)))
            /\ Cardinality(U \ ({k} \X (1..n))) = Cardinality(U) - n
        BY <2>0, <2>3, <3>1, ChargeMoves
      <4> QED BY <3>1, <4>1
    <3>3. Cardinality(Uncharged(w)') \in Nat BY <3>2, FS_CardinalityType
    <3>4. account[w] \in Nat /\ account[w] <= Limit BY <1>0 DEF SpendInv
    <3> HIDE DEF U, n
    <3> QED BY <1>0, <2>0, <2>3, <2>4, <2>5, <2>8, <3>2, <3>3, <3>4
  <2> QED BY <1>0, <1>5, <2>0, <2>6, <2>7, <2>8, NodeSpends
<1> QED BY <1>2, <1>3, <1>4, <1>5, WalkSteps

\* At first nothing is spent and nothing is open.
LEMMA SpendInit == Init => RestInv /\ SpendInv
<1> SUFFICES ASSUME Init PROVE RestInv /\ SpendInv OBVIOUS
<1>1. \A w \in Executors, k \in Keys : life[w][k] = Rest /\ Rest.calls = 0 BY DEF Init, Rest
<1>2. \A w \in Executors : ~Walking(w) /\ account[w] = 0 BY DEF Init, Walking
<1>3. \A w \in Executors : Uncharged(w) = {} BY <1>1 DEF Uncharged
<1>4. spent = 0 /\ Limit \in Nat BY ConstantsOK DEF Init
<1> QED BY <1>1, <1>2, <1>3, <1>4, FS_EmptySet DEF RestInv, SpendInv

\* The recorded spend never exceeds the call limit, whoever spends and charges.
THEOREM SpendIsBounded == Spec => []SpendWithinLimit
<1> DEFINE I == RestInv /\ SpendInv
<1>1. Init => I BY SpendInit
<1>2. NodesInv /\ I /\ [Next]_vars => I' BY RestStep, SpendStep
<1>3. I => SpendWithinLimit BY DEF SpendInv, SpendWithinLimit
<1> QED BY <1>1, <1>2, <1>3, NodesInvariant, PTL DEF Spec

-----------------------------------------------------------------------------
(* The account and the receipts. *)

Spending == {"ready", "executed", "failing"}

\* Only an invocation that runs has calls to charge; one of the current epoch
\* works on the key's latest attempt, which is open.
OpenInv ==
  \A w \in Executors, k \in Keys :
    /\ life[w][k].pc \notin Spending => life[w][k].calls = 0
    /\ Walking(w) /\ Fenced(w) /\ life[w][k].pc \in Active =>
         life[w][k].n = last[k] /\ row[k][last[k]].status = "running"

\* A step leaves walks, rows and the spend alone, is a claim, ends a walk, or
\* is a node's.
LEMMA RunSteps ==
  ASSUME NodesInv, RestInv, [Next]_vars
  PROVE  \/ /\ UNCHANGED <<claimSeq, held, life, account, spent, row, last>>
            /\ runStatus' = "running" => runStatus = "running"
         \/ \E w \in Executors : Claim(w)
         \/ \E w \in Executors :
              /\ Walking(w) /\ Leave(w) /\ UNCHANGED <<claimSeq, row, last>>
              /\ UNCHANGED <<runStatus, spent>> \/ Fenced(w)
         \/ \E w \in Executors, k \in Keys :
              Node(w, k) /\ Walking(w) /\ Moved(w, k) /\ UNCHANGED <<claimSeq, held, runStatus>>
<1>1. CASE UNCHANGED vars \/ Resume \/ Cancel BY <1>1 DEF vars, run, Resume, Cancel, Terminal
<1>2. ASSUME NEW w \in Executors,
             Crash(w) \/ \E outcome \in {"completed", "waiting", "failed"} : Settle(w, outcome)
      PROVE  /\ Walking(w) /\ Leave(w) /\ UNCHANGED <<claimSeq, row, last>>
             /\ UNCHANGED <<runStatus, spent>> \/ Fenced(w)
  BY <1>2 DEF Crash, Settle, store, run
<1>3. ASSUME NEW w \in Executors, NEW k \in Keys, Node(w, k)
      PROVE  Walking(w) /\ Moved(w, k) /\ UNCHANGED <<claimSeq, held, runStatus>>
  <2>1. UNCHANGED <<claimSeq, held, runStatus>>
    BY <1>3, Zenon DEF Node, Begin, ReadState, Call, Pause, Commit, RefuseCommit, Fail, Produce, Break, store, run
  <2> QED BY <1>3, <2>1, NodeMoves, NodesWalk
<1> QED BY <1>1, <1>2, <1>3 DEF Next

\* A node's step begins an attempt that is open and latest, goes on with the
\* one it has, or is out of it; no other key's attempts change.
NodeOpened(w, k) ==
  /\ life'[w][k].pc \notin Spending => life'[w][k].calls = 0
  /\ life'[w][k].pc \in Active =>
       \/ life'[w][k].n = last'[k] /\ row'[k][last'[k]].status = "running"
       \/ life[w][k].pc \in Active /\ life'[w][k].n = life[w][k].n /\ UNCHANGED <<row, last>>

LEMMA NodeOpens ==
  ASSUME NodesInv, TypeOK', NEW w \in Executors, NEW k \in Keys, Node(w, k)
  PROVE  NodeOpened(w, k)
<1>0. /\ LifeTyped /\ RowsTyped /\ CountsTyped /\ last'[k] \in Epochs /\ life[w][k] \in Lives
  <2>1. last' \in [Keys -> Epochs] BY DEF TypeOK
  <2> QED BY <2>1, TypeParts DEF NodesInv, LifeTyped
<1>1. ASSUME NEW rec, Step(w, k, rec) PROVE life'[w][k] = rec BY <1>0, <1>1 DEF Step, LifeTyped
<1>2. ASSUME NEW rec, Step(w, k, rec), rec.pc \notin Active, rec.calls = 0 PROVE NodeOpened(w, k)
  BY <1>1, <1>2 DEF NodeOpened
<1>3. ASSUME NEW rec, Step(w, k, rec), rec.pc \in Spending, rec.n = life[w][k].n,
             life[w][k].pc \in Active, UNCHANGED <<row, last>>
      PROVE  NodeOpened(w, k)
  BY <1>1, <1>3 DEF NodeOpened
<1>4. /\ Refused.pc = "failed" /\ Refused.calls = 0 /\ Rest.calls = 0
  BY DEF Refused, Rest
<1>5. ASSUME NEW out, Step(w, k, [Rest EXCEPT !.pc = "done", !.out = out]) PROVE NodeOpened(w, k)
  <2> DEFINE rec == [Rest EXCEPT !.pc = "done", !.out = out]
  <2>1. Step(w, k, rec) BY <1>5
  <2>2. rec.pc = "done" /\ rec.calls = 0 BY DEF Rest
  <2> HIDE DEF rec
  <2> QED BY <1>2, <2>1, <2>2 DEF Active
<1>6. CASE Begin(w, k)
  <2>1. CASE Step(w, k, Refused) BY <1>2, <1>4, <2>1 DEF Active
  <2>2. CASE Step(w, k, [Rest EXCEPT !.pc = "done", !.out = row[k][last[k]].output])
    BY <1>5, <2>2
  <2>3. CASE /\ last' = [last EXCEPT ![k] = @ + 1] /\ row' = [row EXCEPT ![k] = RowsOnBegin(k)]
             /\ Step(w, k, [Rest EXCEPT !.pc = "begun", !.n = last[k] + 1])
    <3>1. life'[w][k] = [Rest EXCEPT !.pc = "begun", !.n = last[k] + 1] BY <1>1, <2>3
    <3>2. life'[w][k].n = last[k] + 1 /\ life'[w][k].calls = 0 BY <3>1 DEF Rest
    <3>3. last'[k] = last[k] + 1 /\ last'[k] \in 1..MaxClaims
      BY <1>0, <2>3, ConstantsOK DEF CountsTyped, Epochs
    <3>4. row'[k][last'[k]].status = "running" BY <1>0, <2>3, <3>3 DEF RowsTyped, RowsOnBegin
    <3> QED BY <3>2, <3>3, <3>4 DEF NodeOpened
  <2> QED BY <1>6, <2>1, <2>2, <2>3 DEF Begin
<1>7. CASE ReadState(w, k)
  <2> DEFINE base == IF k \in Pushers THEN LatestState ELSE life[w][k].base
             rec == [life[w][k] EXCEPT !.pc = "ready", !.base = base]
  <2>1. Step(w, k, rec) /\ life[w][k].pc = "begun" /\ UNCHANGED <<row, last>> BY <1>7 DEF ReadState, store
  <2> HIDE DEF base
  <2>2. rec.pc = "ready" /\ rec.n = life[w][k].n BY <1>0 DEF Lives
  <2> HIDE DEF rec
  <2> QED BY <1>3, <2>1, <2>2 DEF Active, Spending
<1>8. CASE Call(w, k)
  <2> DEFINE rec == [life[w][k] EXCEPT !.calls = @ + 1]
  <2>1. Step(w, k, rec) /\ life[w][k].pc = "ready" /\ UNCHANGED <<row, last>> BY <1>8 DEF Call, store
  <2>2. rec.pc = life[w][k].pc /\ rec.n = life[w][k].n BY <1>0 DEF Lives
  <2> HIDE DEF rec
  <2> QED BY <1>3, <2>1, <2>2 DEF Active, Spending
<1>9. ASSUME NEW output, Produce(w, k, output) PROVE NodeOpened(w, k)
  <2> DEFINE rec == [life[w][k] EXCEPT !.pc = "executed", !.out = output]
  <2>1. Step(w, k, rec) /\ life[w][k].pc = "ready" /\ UNCHANGED <<row, last>> BY <1>9 DEF Produce, store
  <2>2. rec.pc = "executed" /\ rec.n = life[w][k].n BY <1>0 DEF Lives
  <2> HIDE DEF rec
  <2> QED BY <1>3, <2>1, <2>2 DEF Active, Spending
<1>10. ASSUME NEW outcome, Step(w, k, [life[w][k] EXCEPT !.pc = "failing", !.fail = outcome]),
             life[w][k].pc \in Active, UNCHANGED <<row, last>>
      PROVE  NodeOpened(w, k)
  <2> DEFINE rec == [life[w][k] EXCEPT !.pc = "failing", !.fail = outcome]
  <2>1. rec.pc = "failing" /\ rec.n = life[w][k].n BY <1>0 DEF Lives
  <2> HIDE DEF rec
  <2>2. Step(w, k, rec) BY <1>10 DEF rec
  <2> QED BY <1>3, <1>10, <2>1, <2>2 DEF Spending
<1>11. ASSUME NEW outcome, Break(w, k, outcome) PROVE NodeOpened(w, k)
  BY <1>10, <1>11 DEF Break, store, Active
<1>12. CASE RefuseCommit(w, k) BY <1>10, <1>12 DEF RefuseCommit, store, Active
<1>13. CASE Pause(w, k)
  <2>1. life'[w][k] = [Rest EXCEPT !.pc = "paused"] BY <1>1, <1>13 DEF Pause
  <2>2. life'[w][k].pc = "paused" /\ life'[w][k].calls = 0 BY <2>1 DEF Rest
  <2> QED BY <2>2 DEF NodeOpened, Active
<1>14. CASE Commit(w, k) BY <1>14, <1>5 DEF Commit
<1>15. CASE Fail(w, k) BY <1>2, <1>4, <1>15 DEF Fail, Active
<1> QED BY <1>6, <1>7, <1>8, <1>9, <1>11, <1>12, <1>13, <1>14, <1>15 DEF Node

\* A node's step writes to its own key's attempts.
LEMMA NodeRows ==
  ASSUME NodesInv, NEW w \in Executors, NEW k \in Keys, Node(w, k), NEW j \in Keys, j # k
  PROVE  row'[j] = row[j] /\ last'[j] = last[j]
<1>0. RowsTyped /\ CountsTyped BY TypeParts DEF NodesInv
<1>1. CASE Begin(w, k) BY <1>0, <1>1 DEF Begin, RowsTyped, CountsTyped
<1>2. CASE Commit(w, k)
  <2>1. last' = last BY <1>2 DEF Commit
  <2> QED BY <1>0, <1>2, <2>1 DEF Commit, RowsTyped
<1>3. CASE Fail(w, k) BY <1>0, <1>3 DEF Fail, RowsTyped
<1>4. CASE ReadState(w, k) \/ Call(w, k) \/ Pause(w, k) \/ RefuseCommit(w, k)
  BY <1>4 DEF ReadState, Call, Pause, RefuseCommit, store
<1>5. CASE \/ \E output \in Outputs : Produce(w, k, output)
           \/ \E outcome \in {"failed", "aborted", "uncertain"} : Break(w, k, outcome)
  BY <1>5, Zenon DEF Produce, Break, store
<1> QED BY <1>1, <1>2, <1>3, <1>4, <1>5 DEF Node

\* The current epoch's open attempts stay the latest of their keys.
LEMMA OpenStep ==
  ASSUME NodesInv, RestInv, OpenInv, [Next]_vars
  PROVE  OpenInv'
<1>0. LifeTyped /\ TypeOK' /\ Rest.pc = "idle" /\ Rest.calls = 0
  BY TypeParts, TypeStep DEF NodesInv, Rest
<1>1. CASE UNCHANGED <<claimSeq, held, life, account, spent, row, last>>
  BY <1>1 DEF OpenInv, Walking, Fenced
<1>2. ASSUME NEW w \in Executors, Claim(w) PROVE OpenInv'
  <2>1. /\ \A k \in Keys : life[w][k].pc \notin Active
        /\ UNCHANGED <<life, row, last>>
        /\ claimSeq' = claimSeq + 1 /\ held' = [held EXCEPT ![w] = claimSeq + 1]
    BY <1>0, <1>2 DEF Claim, RestInv, Active
  <2>2. \A v \in Executors : Walking(v)' /\ Fenced(v)' => v = w BY <2>1, FencesMove
  <2> QED BY <2>1, <2>2 DEF OpenInv
<1>3. ASSUME NEW w \in Executors, Walking(w), Leave(w), UNCHANGED <<claimSeq, row, last>> PROVE OpenInv'
  <2>1. /\ \A k \in Keys : life'[w][k] = Rest
        /\ \A v \in Executors : v # w => life'[v] = life[v]
        /\ held' = [held EXCEPT ![w] = 0]
    BY <1>0, <1>3, LeaveMoves DEF Leave
  <2>2. \A v \in Executors : Walking(v)' /\ Fenced(v)' => v # w /\ Walking(v) /\ Fenced(v)
    BY <1>3, <2>1, FencesMove
  <2>3. ASSUME NEW v \in Executors, v # w PROVE life'[v] = life[v] BY <2>1, <2>3
  <2> QED BY <1>0, <1>3, <2>1, <2>2, <2>3 DEF OpenInv, Active
<1>4. ASSUME NEW w \in Executors, NEW k \in Keys, Node(w, k), Walking(w), Moved(w, k), UNCHANGED <<claimSeq, held>>
      PROVE  OpenInv'
  <2>1. NodeOpened(w, k) BY <1>0, <1>4, NodeOpens
  <2>2. ASSUME NEW v \in Executors, NEW j \in Keys, v # w \/ j # k PROVE life'[v][j] = life[v][j]
    BY <1>4, <2>2 DEF Moved
  <2>3. \A v \in Executors, j \in Keys : life'[v][j].pc \notin Spending => life'[v][j].calls = 0
    BY <2>1, <2>2 DEF OpenInv, NodeOpened
  <2>4. ASSUME NEW v \in Executors, NEW j \in Keys, Walking(v)', Fenced(v)', life'[v][j].pc \in Active
        PROVE  life'[v][j].n = last'[j] /\ row'[j][last'[j]].status = "running"
    <3>1. Walking(v) /\ Fenced(v) /\ (Fenced(w) => v = w) BY <1>4, <2>4, FencesMove
    <3>2. CASE v = w /\ j = k BY <2>1, <2>4, <3>1, <3>2 DEF OpenInv, NodeOpened
    <3>3. CASE v # w \/ j # k
      <4>1. row'[j] = row[j] /\ last'[j] = last[j]
        <5>1. CASE j # k BY <1>4, <5>1, NodeRows
        <5>2. CASE v # w BY <1>4, <3>1, <5>2, StaleNode
        <5> QED BY <3>3, <5>1, <5>2
      <4>2. life'[v][j] = life[v][j] BY <2>2, <3>3
      <4> QED BY <2>4, <3>1, <4>1, <4>2 DEF OpenInv
    <3> QED BY <3>2, <3>3
  <2> QED BY <2>3, <2>4 DEF OpenInv
<1> QED BY <1>1, <1>2, <1>3, <1>4, RunSteps

\* Charging, claiming and leaving keep the account equal to its receipts.
LEMMA ReceiptStep ==
  ASSUME NodesInv, RestInv, SpendInv, OpenInv, AccountIsReceipts, [Next]_vars
  PROVE  AccountIsReceipts'
<1>0. /\ LifeTyped /\ spent \in Nat /\ account \in [Executors -> Nat]
      /\ \A w \in Executors : IsFiniteSet(Uncharged(w)) /\ Cardinality(Uncharged(w)) \in Nat
  BY TypeParts, FS_CardinalityType DEF NodesInv, CountsTyped, SpendInv
<1>1. CASE /\ UNCHANGED <<claimSeq, held, life, account, spent, row, last>>
           /\ runStatus' = "running" => runStatus = "running"
  BY <1>1 DEF AccountIsReceipts, Uncharged, Walking, Fenced
<1>2. ASSUME NEW w \in Executors, Claim(w) PROVE AccountIsReceipts'
  <2>1. /\ account' = [account EXCEPT ![w] = spent] /\ spent' = spent /\ life' = life
        /\ claimSeq' = claimSeq + 1 /\ held' = [held EXCEPT ![w] = claimSeq + 1] /\ ~Walking(w)
    BY <1>2 DEF Claim
  <2>2. Uncharged(w)' = {}
    <3>1. \A k \in Keys : life'[w][k].calls = 0 BY <2>1 DEF RestInv, Rest
    <3> QED BY <3>1 DEF Uncharged
  <2>3. account'[w] = spent' + Cardinality(Uncharged(w)') BY <1>0, <2>1, <2>2, FS_EmptySet
  <2>4. \A v \in Executors : Walking(v)' /\ Fenced(v)' => v = w BY <2>1, FencesMove
  <2> QED BY <2>3, <2>4 DEF AccountIsReceipts
<1>3. ASSUME NEW w \in Executors, Walking(w), Leave(w), UNCHANGED <<claimSeq, row, last>>,
             UNCHANGED <<runStatus, spent>> \/ Fenced(w)
      PROVE  AccountIsReceipts'
  <2>1. held' = [held EXCEPT ![w] = 0] BY <1>3 DEF Leave
  <2>2. ASSUME NEW v \in Executors, Fenced(v)', Walking(v)', runStatus' = "running"
        PROVE  account'[v] = spent' + Cardinality(Uncharged(v)')
    <3>1. v # w /\ Walking(v) /\ Fenced(v) BY <1>3, <2>1, <2>2, FencesMove
    <3>2. ~Fenced(w) BY <1>3, <3>1 DEF NodesInv, EpochInv, Fenced
    <3>3. life'[v] = life[v] BY <1>0, <1>3, <3>1, LeaveMoves
    <3>4. account'[v] = account[v] BY <1>0, <1>3, <3>1 DEF Leave
    <3>5. Uncharged(v)' = Uncharged(v) BY <3>3 DEF Uncharged
    <3> QED BY <1>3, <2>2, <3>1, <3>2, <3>4, <3>5 DEF AccountIsReceipts
  <2> QED BY <2>2 DEF AccountIsReceipts
<1>4. ASSUME NEW w \in Executors, NEW k \in Keys, Node(w, k), Walking(w), Moved(w, k),
             UNCHANGED <<claimSeq, held, runStatus>>
      PROVE  AccountIsReceipts'
  <2>0. LifeTyped' /\ life[w][k].calls \in Nat BY <1>0, <1>4 DEF Moved, LifeTyped, Lives
  <2>1. \A j \in Keys : j # k => life'[w][j] = life[w][j] BY <1>4 DEF Moved
  <2>2. ASSUME NEW v \in Executors, Fenced(v)', Walking(v)', runStatus' = "running", v # w
        PROVE  account'[v] = spent' + Cardinality(Uncharged(v)')
    <3>1. Walking(v) /\ Fenced(v) /\ ~Fenced(w) BY <1>4, <2>2, FencesMove
    <3>2. life'[v] = life[v] BY <1>4, <2>2 DEF Moved
    <3>3. Uncharged(v)' = Uncharged(v) BY <3>2 DEF Uncharged
    <3>4. account'[v] = account[v] BY <1>0, <1>4, <2>0, <2>2, NodeSpends
    <3>5. spent' = spent BY <1>4, <3>1, StaleNode
    <3> QED BY <1>4, <2>2, <3>1, <3>3, <3>4, <3>5 DEF AccountIsReceipts
  <2>3. ASSUME Fenced(w), runStatus = "running"
        PROVE  account'[w] = spent' + Cardinality(Uncharged(w)')
    <3> DEFINE U == Uncharged(w)
               n == life[w][k].calls
    <3>1. account[w] = spent + Cardinality(U) BY <1>4, <2>3 DEF AccountIsReceipts
    <3>2. IsFiniteSet(U) /\ Cardinality(U) \in Nat /\ account[w] \in Nat BY <1>0
    <3>3. CASE UNCHANGED <<spent, account>> /\ life'[w][k].calls = n
      <4>1. \A j \in Keys : life'[w][j].calls = life[w][j].calls BY <2>1, <3>3
      <4>2. Uncharged(w)' = U
        <5> DEFINE V == Uncharged(w)'
        <5>1. \A x \in Keys \X Nat : x[1] \in Keys /\ life'[w][x[1]].calls = life[w][x[1]].calls BY <4>1
        <5>2. U = {x \in Keys \X Nat : x[2] \in 1..life[w][x[1]].calls} BY <1>0, UnchargedIs
        <5>3. V = {x \in Keys \X Nat : x[2] \in 1..life'[w][x[1]].calls} BY <2>0, UnchargedIs
        <5> HIDE DEF U, V
        <5>4. \A x : x \in U <=> x \in V BY <5>1, <5>2, <5>3
        <5>5. U = V BY <5>4
        <5> QED BY <5>5 DEF V
      <4> QED BY <3>1, <3>3, <4>2
    <3>4. CASE account' = [account EXCEPT ![w] = @ + 1] /\ UNCHANGED spent /\ life'[w][k].calls = n + 1
      <4> DEFINE x == <<k, n + 1>>
      <4>1. Uncharged(w)' = U \cup {x} BY <1>0, <2>0, <2>1, <3>4, UnchargedMoves
      <4>2. x \notin U BY <1>0, <2>0, UnchargedIs
      <4> HIDE DEF x, U
      <4>3. Cardinality(U \cup {x}) = Cardinality(U) + 1 BY <3>2, <4>2, FS_AddElement
      <4>4. account'[w] = account[w] + 1 BY <1>0, <3>4
      <4> QED BY <1>0, <3>1, <3>2, <3>4, <4>1, <4>3, <4>4
    <3>5. CASE UNCHANGED account /\ spent' = spent + n /\ life'[w][k].calls = 0
      <4>1. Uncharged(w)' = U \ ({k} \X (1..n)) /\ {k} \X (1..n) \subseteq U
        BY <1>0, <2>0, <2>1, <3>5, UnchargedMoves
      <4> HIDE DEF U, n
      <4>2. Cardinality(U \ ({k} \X (1..n))) = Cardinality(U) - n BY <2>0, <3>2, <4>1, ChargeMoves DEF n
      <4> QED BY <1>0, <2>0, <3>1, <3>2, <3>5, <4>1, <4>2 DEF n
    <3>6. (life[w][k].pc = "idle" => n = 0) /\ (life[w][k].pc = "failing" => MayCommit(w, k))
      BY <1>4, <2>3 DEF OpenInv, MayCommit, Spending, Active
    <3> QED BY <1>0, <1>4, <2>0, <3>3, <3>4, <3>5, <3>6, NodeSpends
  <2>4. Fenced(w)' /\ runStatus' = "running" => Fenced(w) /\ runStatus = "running" BY <1>4 DEF Fenced
  <2> QED BY <2>2, <2>3, <2>4 DEF AccountIsReceipts
<1> QED BY <1>1, <1>2, <1>3, <1>4, RunSteps

\* The account of whoever may still write is the recorded spend plus the calls
\* no row was charged for: claims, crashes and settlements lose and double none.
THEOREM AccountsAreReceipts == Spec => []AccountIsReceipts
<1> DEFINE I == RestInv /\ SpendInv /\ OpenInv /\ AccountIsReceipts
<1>1. Init => I
  <2> SUFFICES ASSUME Init PROVE I OBVIOUS
  <2>1. \A w \in Executors, k \in Keys : life[w][k] = Rest /\ Rest.pc = "idle" /\ Rest.calls = 0
    BY Zenon DEF Init, Rest
  <2>2. \A w \in Executors : ~Walking(w) BY DEF Init, Walking
  <2>3. SpendInv BY SpendInit
  <2> QED BY <2>1, <2>2, <2>3 DEF RestInv, OpenInv, AccountIsReceipts, Active
<1>2. NodesInv /\ I /\ [Next]_vars => I' BY RestStep, SpendStep, OpenStep, ReceiptStep
<1>3. I => AccountIsReceipts OBVIOUS
<1> QED BY <1>1, <1>2, <1>3, NodesInvariant, PTL DEF Spec
=============================================================================
