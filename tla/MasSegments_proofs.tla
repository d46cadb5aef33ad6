------------------------ MODULE MasSegments_proofs ------------------------
(***************************************************************************)
(* Proofs about MasSegments, for every number of workers, reconcilers,     *)
(* interactions and leases.                                                *)
(*                                                                         *)
(* Most actions leave the run row alone.  RunStep names the seven ways a   *)
(* step can change the status, the segment or an interaction; NextIsRunStep*)
(* shows that every step is one of them, and the invariants of the run row,*)
(* the finality of its outcomes and the refinement follow from RunStep.    *)
(***************************************************************************)
EXTENDS MasSegments, FiniteSetTheorems, TLAPS

-----------------------------------------------------------------------------
(* What a step may do to the run row and its interactions. *)

Starts ==
  /\ status \in {"queued", "running"} /\ status' = "running"
  /\ UNCHANGED <<segment, inter>>

Settles ==
  /\ status = "running" /\ status' \in {"completed", "waiting_for_input"}
  /\ UNCHANGED <<segment, inter>>

Stops ==
  /\ status \notin Terminal /\ status' \in {"failed", "cancelled"}
  /\ UNCHANGED <<segment, inter>>

Resolves(i, outcome) ==
  /\ inter[i].status = "waiting" /\ status \notin Terminal
  /\ inter' = [inter EXCEPT ![i].status = outcome]
  /\ status' = "failed" /\ UNCHANGED segment

Answers(i) ==
  /\ inter[i].status = "waiting" /\ status = "waiting_for_input"
  /\ inter' = [inter EXCEPT ![i] = [status |-> "responded", resume |-> segment + 1]]
  /\ status' = "resume_pending" /\ UNCHANGED segment

Asks(i) ==
  /\ inter[i].status = "absent"
  /\ inter' = [inter EXCEPT ![i].status = "waiting"]
  /\ UNCHANGED <<status, segment>>

Requeues ==
  /\ status = "resume_pending" /\ status' = "queued" /\ segment' = segment + 1
  /\ UNCHANGED inter

RunStep ==
  \/ Starts \/ Settles \/ Stops \/ Requeues
  \/ \E i \in Interactions :
       Answers(i) \/ Asks(i) \/ \E outcome \in {"cancelled", "expired"} : Resolves(i, outcome)
  \/ UNCHANGED <<status, segment, inter>>

\* Every action of the component changes the run row in one of those ways.
LEMMA NextIsRunStep == ASSUME [Next]_vars PROVE RunStep
<1> USE DEF From, Terminal, Statuses, run
<1>1. ASSUME EnqueueFirst PROVE RunStep
  BY <1>1 DEF EnqueueFirst, RunStep
<1>2. ASSUME NEW i \in Interactions, Respond(i) PROVE RunStep
  BY <1>2 DEF Respond, RunStep, Answers
<1>3. ASSUME NEW i \in Interactions, NEW o \in {"cancelled", "expired"}, Terminate(i, o)
      PROVE  RunStep
  BY <1>3 DEF Terminate, RunStep, Resolves
<1>4. ASSUME Cancel PROVE RunStep
  BY <1>4 DEF Cancel, RunStep, Stops
<1>5. ASSUME NEW w \in Workers, Handler(w) PROVE RunStep
  <2>1. CASE Inspect(w) BY <2>1 DEF Inspect, RunStep
  <2>2. CASE ClaimRun(w) BY <2>2 DEF ClaimRun, Claimable, RunStep, Starts
  <2>3. CASE Settle(w) BY <2>3 DEF Settle, RunStep, Settles
  <2>4. CASE WalkFails(w) BY <2>4 DEF WalkFails, RunStep
  <2>5. CASE FailRun(w) BY <2>5 DEF FailRun, RunStep, Stops
  <2>6. CASE CloseJob(w) BY <2>6 DEF CloseJob, RunStep
  <2>7. CASE Throw(w) BY <2>7 DEF Throw, RunStep
  <2>8. ASSUME NEW i \in Interactions,
               BeginInteraction(w, i) \/ ReadInteraction(w, i) \/ CommitResponse(w, i)
        PROVE  RunStep
    BY <2>8 DEF BeginInteraction, ReadInteraction, CommitResponse, RunStep
  <2>9. ASSUME NEW i \in Interactions, CreateInteraction(w, i) PROVE RunStep
    BY <2>9 DEF CreateInteraction, RunStep, Asks
  <2> QED BY <1>5, <2>1, <2>2, <2>3, <2>4, <2>5, <2>6, <2>7, <2>8, <2>9 DEF Handler
<1>6. ASSUME NEW w \in Workers, Crash(w) \/ \E s \in Segments : LeaseJob(w, s) PROVE RunStep
  BY <1>6 DEF Crash, LeaseJob, RunStep
<1>7. ASSUME NEW s \in Segments, Exhaust(s) PROVE RunStep
  BY <1>7 DEF Exhaust, RunStep
<1>8. ASSUME NEW r \in Reconcilers, Reconcile(r) \/ CrashReconciler(r) PROVE RunStep
  BY <1>8 DEF Reconcile, Scan, EnqueueReserved, Advance, CrashReconciler, RunStep, Requeues
<1>9. ASSUME UNCHANGED vars PROVE RunStep
  BY <1>9 DEF vars, RunStep
<1> QED BY <1>1, <1>2, <1>3, <1>4, <1>5, <1>6, <1>7, <1>8, <1>9 DEF Next, Host

-----------------------------------------------------------------------------
(* Resumption. *)

RunTypes ==
  /\ status \in Statuses /\ segment \in Nat
  /\ inter \in [Interactions -> [status : InterStatuses, resume : Nat]]

\* The inductive invariant: accepted responses are counted by the segment,
\* reserve distinct segments, and a pending run has its response.
ResumeInv == RunTypes /\ ResumeExactlyOnce /\ ReservationsDistinct /\ PendingIsListed

\* With no response accepted the invariant holds.
LEMMA ResumeInit == Init => ResumeInv
<1> SUFFICES ASSUME Init PROVE ResumeInv OBVIOUS
<1>1. Responded = {} BY DEF Init, Responded
<1>2. Cardinality(Responded) = 0 BY <1>1, FS_EmptySet
<1>3. RunTypes BY DEF Init, RunTypes, Statuses, InterStatuses
<1>4. ResumeExactlyOnce BY <1>2 DEF Init, ResumeExactlyOnce
<1> QED BY <1>1, <1>3, <1>4 DEF Init, ResumeInv, ReservationsDistinct, PendingIsListed

\* Only Answers changes the set of accepted responses, and by one element.
LEMMA RespondedStep ==
  ASSUME RunTypes, RunStep
  PROVE  /\ \A i \in Interactions : Answers(i) =>
              /\ Responded' = Responded \cup {i} /\ i \notin Responded
         /\ (\A i \in Interactions : ~Answers(i)) =>
              /\ Responded' = Responded
              /\ \A j \in Responded : inter'[j] = inter[j]
<1>1. ASSUME NEW i \in Interactions, Answers(i)
      PROVE  Responded' = Responded \cup {i} /\ i \notin Responded
  BY <1>1 DEF RunTypes, Answers, Responded
<1>2. ASSUME \A i \in Interactions : ~Answers(i)
      PROVE  Responded' = Responded /\ \A j \in Responded : inter'[j] = inter[j]
  <2>1. CASE UNCHANGED inter BY <2>1 DEF Responded
  <2>2. ASSUME NEW i \in Interactions, Asks(i) \/ \E o \in {"cancelled", "expired"} : Resolves(i, o)
        PROVE  Responded' = Responded /\ \A j \in Responded : inter'[j] = inter[j]
    BY <2>2 DEF RunTypes, Asks, Resolves, Responded
  <2> QED BY <1>2, <2>1, <2>2 DEF RunStep, Starts, Settles, Stops, Requeues
<1> QED BY <1>1, <1>2

\* Each thing that can happen to a run keeps the resumption invariant.
LEMMA ResumeStep == ASSUME ResumeInv, RunStep PROVE ResumeInv'
<1> USE DEF ResumeInv
<1>1. CASE \E i \in Interactions : Answers(i)
  <2>1. PICK i \in Interactions : Answers(i) BY <1>1
  <2>2. Responded' = Responded \cup {i} /\ i \notin Responded BY <2>1, RespondedStep
  <2>3. IsFiniteSet(Responded) BY FS_Subset, SegmentsAssumption DEF Responded
  <2>4. Cardinality(Responded') = Cardinality(Responded) + 1
    BY <2>2, <2>3, FS_AddElement
  <2>5. Cardinality(Responded) = segment BY <2>1 DEF Answers, ResumeExactlyOnce
  <2>6. RunTypes' BY <2>1 DEF RunTypes, Answers, Statuses, InterStatuses, Terminal
  <2>7. ResumeExactlyOnce' BY <2>1, <2>4, <2>5 DEF Answers, ResumeExactlyOnce
  <2>8. ASSUME NEW j \in Responded PROVE inter[j].resume \in 1..segment
    <3>1. /\ inter[j].resume \in 1..(segment + 1) /\ segment \in Nat
          /\ inter[j].resume = segment + 1 => status \in {"resume_pending", "failed", "cancelled"}
      BY DEF ReservationsDistinct, RunTypes
    <3>2. inter[j].resume # segment + 1 BY <2>1, <3>1 DEF Answers
    <3> QED BY <3>1, <3>2
  <2>9. /\ inter'[i].resume = segment + 1
        /\ \A j \in Responded : inter'[j] = inter[j]
    BY <2>1, <2>2 DEF Answers, RunTypes, Responded
  <2>10. ReservationsDistinct'
    BY <2>1, <2>2, <2>8, <2>9 DEF Answers, ReservationsDistinct, RunTypes
  <2>11. PendingIsListed'
    BY <2>1, <2>2, <2>9 DEF Answers, PendingIsListed
  <2> QED BY <2>6, <2>7, <2>10, <2>11
<1>2. CASE \A i \in Interactions : ~Answers(i)
  <2>1. Responded' = Responded /\ \A j \in Responded : inter'[j] = inter[j]
    BY <1>2, RespondedStep
  <2>2. /\ UNCHANGED segment /\ (status' = status \/ status' # "resume_pending")
        \/ Requeues
    BY <1>2 DEF RunStep, Starts, Settles, Stops, Resolves, Asks
  <2>3. RunTypes'
    BY <1>2 DEF RunStep, Starts, Settles, Stops, Resolves, Asks, Requeues,
                RunTypes, Statuses, InterStatuses, Terminal
  <2>4. ResumeExactlyOnce'
    BY <1>2, <2>1 DEF RunStep, Starts, Settles, Stops, Resolves, Asks, Requeues,
                      ResumeExactlyOnce, RunTypes, Statuses, Terminal
  <2>5. ReservationsDistinct'
    BY <1>2, <2>1 DEF RunStep, Starts, Settles, Stops, Resolves, Asks, Requeues,
                      ReservationsDistinct, RunTypes, Statuses, Terminal, Responded
  <2>6. PendingIsListed'
    BY <1>2, <2>1, <2>2 DEF Requeues, PendingIsListed
  <2> QED BY <2>3, <2>4, <2>5, <2>6
<1> QED BY <1>1, <1>2

\* Every reachable state counts and orders its accepted responses this way.
THEOREM ResumeInvariant == Spec => []ResumeInv
<1>1. Init => ResumeInv BY ResumeInit
<1>2. ResumeInv /\ [Next]_vars => ResumeInv' BY NextIsRunStep, ResumeStep
<1> QED BY <1>1, <1>2, PTL DEF Spec

\* An accepted response buys exactly one segment.
THEOREM ResumeIsExactlyOnce == Spec => []ResumeExactlyOnce
<1>1. ResumeInv => ResumeExactlyOnce BY DEF ResumeInv
<1> QED BY <1>1, ResumeInvariant, PTL

\* Responses reserve distinct segments, none beyond the next one.
THEOREM ReservationsAreDistinct == Spec => []ReservationsDistinct
<1>1. ResumeInv => ReservationsDistinct BY DEF ResumeInv
<1> QED BY <1>1, ResumeInvariant, PTL

\* The reconciler always finds the response of a pending run.
THEOREM PendingRunsAreListed == Spec => []PendingIsListed
<1>1. ResumeInv => PendingIsListed BY DEF ResumeInv
<1> QED BY <1>1, ResumeInvariant, PTL

-----------------------------------------------------------------------------
(* Finality and refinement. *)

\* Finished runs and resolved interactions never change.
THEOREM OutcomesAreFinal == Spec => Final
<1> DEFINE Kept == /\ status \in Terminal => status' = status /\ segment' = segment
                   /\ \A i \in Interactions :
                        inter[i].status \in {"responded", "cancelled", "expired"} => inter'[i] = inter[i]
<1>1. ASSUME ResumeInv, [Next]_vars PROVE Kept
  <2>1. RunStep BY <1>1, NextIsRunStep
  <2>2. status \in Terminal => status' = status /\ segment' = segment
    BY <2>1 DEF RunStep, Starts, Settles, Stops, Resolves, Answers, Asks, Requeues, Terminal
  <2>3. ASSUME NEW i \in Interactions,
               inter[i].status \in {"responded", "cancelled", "expired"}
        PROVE  inter'[i] = inter[i]
    BY <1>1, <2>1, <2>3 DEF ResumeInv, RunTypes, RunStep, Starts, Settles, Stops, Resolves, Answers, Asks, Requeues
  <2> QED BY <2>2, <2>3
<1>2. ResumeInv /\ [Next]_vars => [Kept]_vars BY <1>1
<1> QED BY <1>2, ResumeInvariant, PTL DEF Spec, Final, Kept

\* A step of the component is a step of the life cycle, or invisible to it.
LEMMA StepRefines == ASSUME ResumeInv, RunStep PROVE [Lifecycle!Next]_(Lifecycle!vars)
<1> USE DEF Lifecycle!vars, Lifecycle!Next
<1>1. CASE \E i \in Interactions : Answers(i)
  <2>1. PICK i \in Interactions : Answers(i) BY <1>1
  <2>2. Responded' = Responded \cup {i} /\ i \notin Responded
    BY <2>1, RespondedStep DEF ResumeInv
  <2>3. IsFiniteSet(Responded) BY FS_Subset, SegmentsAssumption DEF Responded
  <2>4. Cardinality(Responded') = Cardinality(Responded) + 1 BY <2>2, <2>3, FS_AddElement
  <2>5. Lifecycle!Answer BY <2>1, <2>4 DEF Answers, Lifecycle!Answer
  <2> QED BY <2>5
<1>2. CASE \A i \in Interactions : ~Answers(i)
  <2>1. Cardinality(Responded)' = Cardinality(Responded)
    BY <1>2, RespondedStep DEF ResumeInv
  <2>2. CASE Starts BY <2>1, <2>2 DEF Starts, Lifecycle!Start
  <2>3. CASE Settles BY <2>1, <2>3 DEF Settles, Lifecycle!Settle
  <2>4. CASE Stops
    BY <2>1, <2>4 DEF Stops, Lifecycle!Stop, Lifecycle!Live, ResumeInv, RunTypes, Statuses, Terminal
  <2>5. ASSUME NEW i \in Interactions, NEW o \in {"cancelled", "expired"}, Resolves(i, o)
        PROVE  Lifecycle!Stop
    BY <2>1, <2>5 DEF Resolves, Lifecycle!Stop, Lifecycle!Live, ResumeInv, RunTypes, Statuses, Terminal
  <2>6. CASE Requeues
    BY <2>1, <2>6 DEF Requeues, Lifecycle!Requeue, ResumeInv, ResumeExactlyOnce
  <2>7. ASSUME NEW i \in Interactions, Asks(i) PROVE UNCHANGED Lifecycle!vars
    BY <2>1, <2>7 DEF Asks
  <2>8. CASE UNCHANGED <<status, segment, inter>> BY <2>1, <2>8
  <2> QED BY <1>2, <2>2, <2>3, <2>4, <2>5, <2>6, <2>7, <2>8 DEF RunStep
<1> QED BY <1>1, <1>2

\* The run, queue, workers and reconcilers implement the run life cycle.
THEOREM RefinesLifecycle == Spec => ImplementsLifecycle
<1>1. Init => Lifecycle!Init
  <2>1. ASSUME Init PROVE Responded = {} BY <2>1 DEF Init, Responded
  <2>2. ASSUME Init PROVE Cardinality(Responded) = 0 BY <2>1, <2>2, FS_EmptySet
  <2> QED BY <2>2 DEF Init, Lifecycle!Init
<1>2. ResumeInv /\ [Next]_vars => [Lifecycle!Next]_(Lifecycle!vars)
  BY NextIsRunStep, StepRefines
<1> QED BY <1>1, <1>2, ResumeInvariant, PTL DEF Spec, ImplementsLifecycle, Lifecycle!Spec

-----------------------------------------------------------------------------
(* Types of the queue rows, handlers and reconcilers. *)

\* The segments are bounded by the responses, so the rows named exist.
LEMMA SegmentBound ==
  ASSUME ResumeInv
  PROVE  /\ segment \in Segments
         /\ segment <= Cardinality(Interactions)
         /\ status = "resume_pending" => segment + 1 <= Cardinality(Interactions)
         /\ Cardinality(Interactions) \in Nat
<1>1. /\ IsFiniteSet(Interactions) /\ Responded \subseteq Interactions
  BY SegmentsAssumption DEF Responded
<1>2. /\ Cardinality(Responded) <= Cardinality(Interactions)
      /\ Cardinality(Interactions) \in Nat /\ Cardinality(Responded) \in Nat
  BY <1>1, FS_Subset, FS_CardinalityType
<1>3. Cardinality(Responded) >= segment
  BY DEF ResumeInv, RunTypes, ResumeExactlyOnce, Statuses, Terminal
<1> QED BY <1>2, <1>3 DEF ResumeInv, RunTypes, ResumeExactlyOnce, Segments

\* Every row, job and program counter starts in its range.
LEMMA TypeInit == Init => TypeOK
<1> SUFFICES ASSUME Init PROVE TypeOK OBVIOUS
<1>1. Cardinality(Interactions) \in Nat BY SegmentsAssumption, FS_CardinalityType
<1>2. 0 \in Segments /\ 0 \in 0..MaxLeases /\ 0 \in Nat
  BY <1>1, SegmentsAssumption DEF Segments
<1>3. Idle \in Invocations BY <1>2 DEF Idle, Invocations, Pcs, Places, Nowhere
<1>4. NoJob \in Jobs BY <1>2 DEF NoJob, Jobs
<1> QED BY <1>2, <1>3, <1>4 DEF Init, TypeOK, Statuses, InterStatuses, Resting

\* What the handlers do to their own record keeps it an invocation.
LEMMA InvocationUpdates ==
  ASSUME worker \in [Workers -> Invocations], NEW w \in Workers
  PROVE  /\ \A pc \in Pcs : Goto(w, pc) => worker' \in [Workers -> Invocations]
         /\ \A pc \in Pcs, e \in Nat : Leave(w, pc, e) => worker' \in [Workers -> Invocations]
         /\ \A i \in Interactions, p \in Places : Visit(w, i, p) => worker' \in [Workers -> Invocations]
         /\ \A i \in Interactions : FailVisit(w, i) => worker' \in [Workers -> Invocations]
         /\ worker[w].claim \in Nat
<1>0. worker[w] \in Invocations OBVIOUS
<1>1. \A r \in Invocations : [worker EXCEPT ![w] = r] \in [Workers -> Invocations]
  OBVIOUS
<1>2. \A pc \in Pcs : [worker[w] EXCEPT !.pc = pc] \in Invocations BY <1>0 DEF Invocations
<1>3. \A pc \in Pcs, e \in Nat :
        [worker[w] EXCEPT !.pc = pc, !.claim = e, !.failed = FALSE, !.visit = Nowhere] \in Invocations
  BY <1>0 DEF Invocations, Nowhere, Places
<1>4. \A i \in Interactions, p \in Places :
        [worker[w] EXCEPT !.visit = [worker[w].visit EXCEPT ![i] = p]] \in Invocations
  BY <1>0 DEF Invocations
<1>5. \A i \in Interactions :
        [worker[w] EXCEPT !.visit = [worker[w].visit EXCEPT ![i] = "none"], !.failed = TRUE] \in Invocations
  BY <1>0 DEF Invocations, Places
<1>6. \A pc \in Pcs : Goto(w, pc) => worker' \in [Workers -> Invocations]
  BY <1>1, <1>2 DEF Goto
<1>7. ASSUME NEW pc \in Pcs, NEW e \in Nat, Leave(w, pc, e) PROVE worker' \in [Workers -> Invocations]
  <2> DEFINE r == [worker[w] EXCEPT !.pc = pc, !.claim = e, !.failed = FALSE, !.visit = Nowhere]
  <2>1. worker' = [worker EXCEPT ![w] = r] BY <1>7 DEF Leave
  <2>2. r \in Invocations BY <1>3
  <2> HIDE DEF r
  <2> QED BY <1>1, <2>1, <2>2
<1>8. \A i \in Interactions, p \in Places : Visit(w, i, p) => worker' \in [Workers -> Invocations]
  BY <1>1, <1>4 DEF Visit
<1>9. ASSUME NEW i \in Interactions, FailVisit(w, i) PROVE worker' \in [Workers -> Invocations]
  <2> DEFINE r == [worker[w] EXCEPT !.visit = [worker[w].visit EXCEPT ![i] = "none"], !.failed = TRUE]
  <2>1. worker' = [worker EXCEPT ![w] = r] BY <1>9 DEF FailVisit
  <2>2. r \in Invocations BY <1>5
  <2> HIDE DEF r
  <2> QED BY <1>1, <2>1, <2>2
<1> QED BY <1>0, <1>6, <1>7, <1>8, <1>9 DEF Invocations

\* No action takes a row, job or program counter out of its range; the
\* segment bound needs the resumption invariant.
LEMMA TypeStep == ASSUME TypeOK, ResumeInv, ResumeInv', [Next]_vars PROVE TypeOK'
<1>1. /\ segment + 1 \in Segments /\ 0 \in Segments /\ 0 \in Nat
      /\ status = "resume_pending" => segment + 1 \in Segments
  BY SegmentBound DEF Segments, ResumeInv, RunTypes
<1>2. status' \in Statuses BY DEF ResumeInv, RunTypes
<1>3. segment' \in Segments
  BY <1>1, NextIsRunStep DEF TypeOK, RunStep, Starts, Settles, Stops, Resolves, Asks, Answers, Requeues
<1>4. Idle \in Invocations
  BY <1>1, SegmentsAssumption DEF Idle, Invocations, Pcs, Places, Nowhere
<1>5. /\ \A w \in Workers : [worker EXCEPT ![w] = Idle] \in [Workers -> Invocations]
      /\ \A w \in Workers : worker[w].job \in Segments /\ worker[w].lease \in 0..MaxLeases
  BY <1>4 DEF TypeOK, Invocations
<1>6. \A s \in Segments, j \in Jobs : [job EXCEPT ![s] = j] \in [Segments -> Jobs]
  BY DEF TypeOK
<1>7. \A s \in Segments, t \in {"pending", "dead", "done"} : [job[s] EXCEPT !.state = t] \in Jobs
  BY DEF TypeOK, Jobs
<1>8. \A s : Enqueue(s) => job' \in [Segments -> Jobs]
  <2> SUFFICES ASSUME NEW s, Enqueue(s) PROVE job' \in [Segments -> Jobs] OBVIOUS
  <2>1. CASE s \in Segments
    <3>1. [job[s] EXCEPT !.state = IF @ = "absent" THEN "pending" ELSE @] \in Jobs
      BY <2>1 DEF TypeOK, Jobs
    <3> QED BY <2>1, <3>1, <1>6 DEF Enqueue
  <2>2. CASE s \notin Segments
    BY <2>2 DEF Enqueue, TypeOK
  <2> QED BY <2>1, <2>2
<1>9. CASE EnqueueFirst BY <1>2, <1>3, <1>8, <1>9 DEF EnqueueFirst, run, TypeOK
<1>10. ASSUME NEW i \in Interactions, Respond(i) PROVE TypeOK'
  BY <1>1, <1>2, <1>3, <1>10 DEF Respond, InterStatuses, TypeOK
<1>11. ASSUME NEW i \in Interactions, NEW o \in {"cancelled", "expired"}, Terminate(i, o) PROVE TypeOK'
  BY <1>2, <1>3, <1>11 DEF Terminate, InterStatuses, TypeOK
<1>12. CASE Cancel BY <1>2, <1>3, <1>12 DEF Cancel, TypeOK
<1>13. ASSUME NEW w \in Workers, Handler(w) PROVE TypeOK'
  <2> USE <1>1, <1>2, <1>3, <1>5, InvocationUpdates DEF TypeOK, run, Pcs
  <2>1. CASE Inspect(w) BY <2>1 DEF Inspect
  <2>2. CASE ClaimRun(w)
    <3>1. worker[w] \in Invocations /\ claim + 1 \in Nat OBVIOUS
    <3>2. [worker[w] EXCEPT !.pc = "walk", !.claim = claim + 1] \in Invocations
      BY <3>1 DEF Invocations
    <3>3. \A r \in Invocations : [worker EXCEPT ![w] = r] \in [Workers -> Invocations]
      OBVIOUS
    <3>4. Goto(w, "throw") => worker' \in [Workers -> Invocations] OBVIOUS
    <3>5. worker' \in [Workers -> Invocations] /\ claim' \in Nat
      BY <2>2, <3>1, <3>2, <3>3, <3>4 DEF ClaimRun
    <3> QED BY <2>2, <3>5 DEF ClaimRun
  <2>3. CASE Settle(w) BY <2>3 DEF Settle
  <2>4. CASE WalkFails(w) BY <2>4 DEF WalkFails
  <2>5. CASE FailRun(w) BY <2>5 DEF FailRun
  <2>6. CASE CloseJob(w)
    <3>1. [job EXCEPT ![worker[w].job].state = "done"] \in [Segments -> Jobs]
      BY <1>6, <1>7
    <3>2. Goto(w, "throw") => worker' \in [Workers -> Invocations] OBVIOUS
    <3>3. worker' \in [Workers -> Invocations] BY <2>6, <3>2 DEF CloseJob
    <3>4. job' \in [Segments -> Jobs] BY <2>6, <3>1 DEF CloseJob
    <3>5. UNCHANGED <<run, inter, attempt, recon>> BY <2>6 DEF CloseJob
    <3> QED BY <3>3, <3>4, <3>5
  <2>7. CASE Throw(w) BY <2>7, <1>6, <1>7 DEF Throw, Released
  <2>8. ASSUME NEW i \in Interactions, BeginInteraction(w, i) PROVE TypeOK'
    BY <2>8 DEF BeginInteraction, Places
  <2>9. ASSUME NEW i \in Interactions, ReadInteraction(w, i) PROVE TypeOK'
    BY <2>9 DEF ReadInteraction, Places
  <2>10. ASSUME NEW i \in Interactions, CreateInteraction(w, i) PROVE TypeOK'
    <3>1. worker' \in [Workers -> Invocations] BY <2>10 DEF CreateInteraction, Places
    <3>2. inter' = inter \/ inter' = [inter EXCEPT ![i].status = "waiting"] BY <2>10 DEF CreateInteraction
    <3>3. inter' \in [Interactions -> [status : InterStatuses, resume : Segments]]
      BY <3>2 DEF InterStatuses
    <3>4. UNCHANGED <<run, attempt, job, recon>> BY <2>10 DEF CreateInteraction
    <3> QED BY <3>1, <3>3, <3>4
  <2>11. ASSUME NEW i \in Interactions, CommitResponse(w, i) PROVE TypeOK'
    BY <2>11 DEF CommitResponse, Places
  <2> QED BY <1>13, <2>1, <2>2, <2>3, <2>4, <2>5, <2>6, <2>7, <2>8, <2>9, <2>10, <2>11 DEF Handler
<1>14. ASSUME NEW w \in Workers, Crash(w) PROVE TypeOK'
  BY <1>2, <1>3, <1>5, <1>14 DEF Crash, TypeOK, run
<1>15. ASSUME NEW w \in Workers, NEW s \in Segments, LeaseJob(w, s) PROVE TypeOK'
  <2>1. job[s] \in Jobs /\ job[s].leases + 1 \in 0..MaxLeases
    BY <1>15, SegmentsAssumption DEF LeaseJob, TypeOK, Jobs
  <2>2. [state |-> "leased", leases |-> job[s].leases + 1] \in Jobs
    BY <2>1 DEF Jobs
  <2>3. [Idle EXCEPT !.pc = "inspect", !.job = s, !.lease = job[s].leases + 1] \in Invocations
    BY <1>4, <2>1 DEF Invocations, Pcs
  <2> QED BY <1>2, <1>3, <1>6, <1>15, <2>2, <2>3 DEF LeaseJob, TypeOK, run
<1>16. ASSUME NEW s \in Segments, Exhaust(s) PROVE TypeOK'
  BY <1>2, <1>3, <1>6, <1>7, <1>16 DEF Exhaust, run, TypeOK
<1>17. ASSUME NEW r \in Reconcilers, Reconcile(r) \/ CrashReconciler(r) PROVE TypeOK'
  BY <1>1, <1>2, <1>3, <1>8, <1>17
     DEF Reconcile, Scan, EnqueueReserved, Advance, CrashReconciler, Rest, Resting, run, TypeOK
<1>18. CASE UNCHANGED vars BY <1>18 DEF vars, TypeOK
<1> QED BY <1>9, <1>10, <1>11, <1>12, <1>13, <1>14, <1>15, <1>16, <1>17, <1>18 DEF Next, Host

\* The component's state stays in its ranges.
THEOREM TypeCorrect == Spec => []TypeOK
<1>1. Init => TypeOK BY TypeInit
<1>2. TypeOK /\ ResumeInv /\ ResumeInv' /\ [Next]_vars => TypeOK' BY TypeStep
<1> QED BY <1>1, <1>2, ResumeInvariant, PTL DEF Spec

-----------------------------------------------------------------------------
(* Job rows. *)

\* A segment the run has reached, or the one a pending response reserved.
Reserved(s) == s <= segment \/ (s = segment + 1 /\ status \in {"resume_pending", "failed", "cancelled"})

\* A segment that reached its outcome.
OverAt(s, seg, st) == s < seg \/ (s = seg /\ st \in Settled)
Over(s) == OverAt(s, segment, status)

\* The inductive invariant behind closed jobs: only reserved segments have a
\* row; whoever walks under a claim holds a job of a segment already reached,
\* and whoever is about to close a job holds one of a segment that is over.
JobInv ==
  /\ \A s \in Segments : job[s].state # "absent" => Reserved(s)
  /\ \A w \in Workers :
       /\ worker[w].pc # "idle" => job[worker[w].job].state # "absent"
       /\ worker[w].pc \in {"walk", "failrun"} => worker[w].job <= segment
       /\ worker[w].pc = "close" => Over(worker[w].job)
  /\ \A s \in Segments : job[s].state = "done" => Over(s)

\* A settlement of the run ends the segment its job was queued for.
LEMMA SettledIsOver ==
  ASSUME NEW s \in Nat, NEW st \in Settled, segment \in Nat, s <= segment
  PROVE  OverAt(s, segment, st)
BY DEF OverAt

\* A segment, once reserved or over, stays so.
LEMMA ReservedIsStable ==
  ASSUME ResumeInv, RunStep
  PROVE  \A s \in Segments : (Reserved(s) => Reserved(s)') /\ (Over(s) => Over(s)')
                              /\ (s <= segment => s <= segment')
BY DEF RunStep, Starts, Settles, Stops, Resolves, Answers, Asks, Requeues,
       ResumeInv, RunTypes, Reserved, Over, OverAt, Settled, Terminal, Statuses, Segments

\* How the handler's moves change the two fields JobInv reads.
LEMMA HandlerMoves ==
  ASSUME worker \in [Workers -> Invocations], NEW w \in Workers
  PROVE  /\ \A pc \in Pcs : Goto(w, pc) \/ (\E e \in Nat : Leave(w, pc, e)) =>
              /\ \A v \in Workers \ {w} : worker'[v] = worker[v]
              /\ worker'[w].pc = pc /\ worker'[w].job = worker[w].job
         /\ \A i \in Interactions :
              FailVisit(w, i) \/ (\E p \in Places : Visit(w, i, p)) =>
                \A v \in Workers : worker'[v].pc = worker[v].pc /\ worker'[v].job = worker[v].job
<1>0. worker[w] \in Invocations OBVIOUS
<1>1. ASSUME NEW pc \in Pcs, Goto(w, pc)
      PROVE  /\ \A v \in Workers \ {w} : worker'[v] = worker[v]
             /\ worker'[w].pc = pc /\ worker'[w].job = worker[w].job
  BY <1>0, <1>1 DEF Goto, Invocations
<1>2. ASSUME NEW pc \in Pcs, NEW e \in Nat, Leave(w, pc, e)
      PROVE  /\ \A v \in Workers \ {w} : worker'[v] = worker[v]
             /\ worker'[w].pc = pc /\ worker'[w].job = worker[w].job
  <2> DEFINE r == [worker[w] EXCEPT !.pc = pc, !.claim = e, !.failed = FALSE, !.visit = Nowhere]
  <2>1. worker' = [worker EXCEPT ![w] = r] BY <1>2 DEF Leave
  <2>2. r.pc = pc /\ r.job = worker[w].job BY <1>0 DEF Invocations
  <2> HIDE DEF r
  <2> QED BY <2>1, <2>2
<1>3. ASSUME NEW i \in Interactions, NEW p \in Places, Visit(w, i, p)
      PROVE  \A v \in Workers : worker'[v].pc = worker[v].pc /\ worker'[v].job = worker[v].job
  BY <1>0, <1>3 DEF Visit, Invocations
<1>4. ASSUME NEW i \in Interactions, FailVisit(w, i)
      PROVE  \A v \in Workers : worker'[v].pc = worker[v].pc /\ worker'[v].job = worker[v].job
  BY <1>0, <1>4 DEF FailVisit, Invocations
<1> QED BY <1>1, <1>2, <1>3, <1>4

\* A step that leaves the job rows alone, and moves at most one handler to a
\* place it may be in, keeps the invariant.
LEMMA JobFrame ==
  ASSUME TypeOK, ResumeInv, RunStep, JobInv, UNCHANGED job,
         \A w \in Workers :
           \/ worker'[w].pc = worker[w].pc /\ worker'[w].job = worker[w].job
           \/ worker'[w].pc = "idle"
           \/ /\ worker[w].pc # "idle" /\ worker'[w].job = worker[w].job
              /\ \/ worker'[w].pc \in {"inspect", "claim", "throw"}
                 \/ worker'[w].pc \in {"walk", "failrun"} /\ worker[w].job <= segment'
                 \/ worker'[w].pc = "close" /\ OverAt(worker[w].job, segment', status')
  PROVE  JobInv'
<1>1. \A s \in Segments : (Reserved(s) => Reserved(s)') /\ (Over(s) => Over(s)')
                              /\ (s <= segment => s <= segment')
  BY ReservedIsStable
<1>2. \A w \in Workers : worker[w].job \in Segments BY DEF TypeOK, Invocations
<1>3. \A s \in Segments : (job[s].state # "absent" => Reserved(s))' BY <1>1 DEF JobInv
<1>4. \A s \in Segments : (job[s].state = "done" => Over(s))' BY <1>1 DEF JobInv
<1>5. ASSUME NEW w \in Workers
      PROVE  /\ worker'[w].pc # "idle" => job'[worker'[w].job].state # "absent"
             /\ worker'[w].pc \in {"walk", "failrun"} => worker'[w].job <= segment'
             /\ worker'[w].pc = "close" => OverAt(worker'[w].job, segment', status')
  BY <1>1, <1>2 DEF JobInv, Over
<1> QED BY <1>3, <1>4, <1>5 DEF JobInv, Over

\* With no job and no segment the invariant holds.
LEMMA JobInit == Init => JobInv
<1> SUFFICES ASSUME Init PROVE JobInv OBVIOUS
<1>1. \A s \in Segments : job[s].state = "absent" BY DEF Init, NoJob
<1>2. \A w \in Workers : worker[w].pc = "idle" BY DEF Init, Idle
<1> QED BY <1>1, <1>2 DEF JobInv

\* No step closes a job whose segment is not over.
LEMMA JobStep == ASSUME TypeOK, ResumeInv, JobInv, [Next]_vars PROVE JobInv'
<1>1. RunStep BY NextIsRunStep
<1>2. \A s \in Segments : (Reserved(s) => Reserved(s)') /\ (Over(s) => Over(s)')
                              /\ (s <= segment => s <= segment')
  BY <1>1, ReservedIsStable
<1>3. /\ \A w \in Workers : worker[w].job \in Segments
      /\ segment \in Nat /\ Segments \subseteq Nat
      /\ \A w \in Workers : worker[w].claim \in Nat
  BY DEF TypeOK, Invocations, Segments, ResumeInv, RunTypes
<1>4. \A w \in Workers : [worker EXCEPT ![w] = Idle][w].pc = "idle"
                         /\ \A v \in Workers \ {w} : [worker EXCEPT ![w] = Idle][v] = worker[v]
  BY DEF TypeOK, Idle
<1>5. CASE UNCHANGED worker /\ UNCHANGED job BY <1>1, <1>5, JobFrame
<1>6. ASSUME NEW s \in Segments, Reserved(s), Enqueue(s), UNCHANGED worker PROVE JobInv'
  <2>1. \A t \in Segments : /\ job'[t].state = "absent" => job[t].state = "absent"
                            /\ job'[t].state = "done" => job[t].state = "done"
                            /\ t # s => job'[t] = job[t]
    BY <1>6 DEF Enqueue, TypeOK, Jobs
  <2>2. \A t \in Segments : (job[t].state # "absent" => Reserved(t))'
    BY <1>2, <1>6, <2>1 DEF JobInv
  <2>3. \A t \in Segments : (job[t].state = "done" => Over(t))'
    BY <1>2, <2>1 DEF JobInv
  <2>4. \A w \in Workers : /\ worker[w].pc \in {"walk", "failrun"} => worker[w].job <= segment'
                           /\ worker[w].pc = "close" => OverAt(worker[w].job, segment', status')
                           /\ worker[w].pc # "idle" => job'[worker[w].job].state # "absent"
    BY <1>2, <1>3, <2>1 DEF JobInv, Over
  <2> QED BY <1>6, <2>2, <2>3, <2>4 DEF JobInv, Over
<1>7. CASE EnqueueFirst
  <2>1. 0 \in Segments /\ Reserved(0) BY <1>3, SegmentBound DEF Segments, Reserved
  <2> QED BY <1>6, <1>7, <2>1 DEF EnqueueFirst
<1>8. ASSUME NEW r \in Reconcilers, Reconcile(r) \/ CrashReconciler(r) PROVE JobInv'
  <2>1. CASE UNCHANGED job BY <1>5, <1>8, <2>1 DEF Reconcile, Scan, EnqueueReserved, Advance, CrashReconciler
  <2>2. CASE EnqueueReserved(r) /\ job' # job
    <3>1. PICK i \in Responded : inter[i].resume = recon[r].segment + 1
      BY <2>2 DEF EnqueueReserved
    <3>2. /\ inter[i].resume \in 1..(segment + 1)
          /\ inter[i].resume = segment + 1 => status \in {"resume_pending", "failed", "cancelled"}
      BY <3>1 DEF ResumeInv, ReservationsDistinct
    <3>3. recon[r].segment + 1 \in Segments
      BY <1>3, <3>1, <3>2, SegmentBound DEF Segments
    <3>4. Reserved(recon[r].segment + 1) BY <1>3, <3>1, <3>2 DEF Reserved
    <3>5. Enqueue(recon[r].segment + 1) /\ UNCHANGED worker BY <2>2 DEF EnqueueReserved
    <3> QED BY <1>6, <3>3, <3>4, <3>5
  <2> QED BY <1>8, <2>1, <2>2 DEF Reconcile, Scan, Advance, CrashReconciler
<1>9. ASSUME NEW w \in Workers, Handler(w) PROVE JobInv'
  <2> USE HandlerMoves, JobFrame, <1>1, <1>3 DEF TypeOK, Pcs
  <2>0. {"waiting_for_input", "completed", "failed"} \subseteq Settled BY DEF Settled, Terminal
  <2>1. CASE Inspect(w)
    <3>1. worker[w].pc = "inspect" /\ UNCHANGED <<job, status, segment>>
      BY <2>1 DEF Inspect, run
    <3>2. CASE segment = worker[w].job /\ status \in Settled
      BY <2>1, <3>1, <3>2 DEF Inspect, Closes, OverAt
    <3>3. CASE ~(segment = worker[w].job /\ status \in Settled)
      BY <2>1, <3>1, <3>3 DEF Inspect, Closes
    <3> QED BY <3>2, <3>3
  <2>2. CASE ClaimRun(w)
    <3>1. job[worker[w].job].state # "absent" /\ worker[w].pc = "claim" /\ UNCHANGED <<segment, job>>
      BY <2>2 DEF ClaimRun, JobInv
    <3>2. CASE status \in {"queued", "running"}
      <4>1. worker[w].job <= segment BY <1>3, <3>1, <3>2 DEF JobInv, Reserved
      <4>2. worker' = [worker EXCEPT ![w].pc = "walk", ![w].claim = claim + 1]
        BY <2>2, <3>2 DEF ClaimRun, Claimable, From
      <4>3. /\ worker'[w].pc = "walk" /\ worker'[w].job = worker[w].job
            /\ \A v \in Workers \ {w} : worker'[v] = worker[v]
        BY <4>2 DEF Invocations
      <4> QED BY <3>1, <4>1, <4>3
    <3>3. CASE status \notin {"queued", "running"}
      BY <2>2, <3>1, <3>3 DEF ClaimRun, Claimable, From
    <3> QED BY <3>2, <3>3
  <2>3. CASE Settle(w)
    <3>1. worker[w].pc = "walk" /\ worker[w].job <= segment /\ UNCHANGED <<segment, job>>
      BY <2>3 DEF Settle, Walking, JobInv
    <3>2. CASE Leave(w, "failrun", worker[w].claim) BY <3>1, <3>2
    <3>3. CASE Leave(w, "close", 0) /\ status' \in {"waiting_for_input", "completed"}
      <4>1. OverAt(worker[w].job, segment', status') BY <1>3, <3>1, <3>3, <2>0, SettledIsOver
      <4> QED BY <3>1, <3>3, <4>1
    <3> QED BY <2>3, <3>2, <3>3 DEF Settle
  <2>4. CASE WalkFails(w)
    <3>1. worker[w].pc = "walk" /\ Leave(w, "failrun", worker[w].claim) /\ UNCHANGED <<status, segment, job>>
      BY <2>4 DEF WalkFails, Walking, run
    <3>2. worker[w].job <= segment BY <3>1 DEF JobInv
    <3> QED BY <3>1, <3>2
  <2>5. CASE FailRun(w)
    <3>1. worker[w].pc = "failrun" /\ worker[w].job <= segment /\ UNCHANGED <<segment, job>>
      BY <2>5 DEF FailRun, JobInv
    <3>2. CASE Leave(w, "throw", 0) BY <3>1, <3>2
    <3>3. CASE Leave(w, "close", 0) /\ status' = "failed"
      <4>1. OverAt(worker[w].job, segment', status') BY <1>3, <3>1, <3>3, <2>0, SettledIsOver
      <4> QED BY <3>1, <3>3, <4>1
    <3> QED BY <2>5, <3>2, <3>3 DEF FailRun
  <2>6. CASE CloseJob(w) \/ Throw(w)
    <3>1. CASE Goto(w, "throw") /\ UNCHANGED job /\ worker[w].pc # "idle" BY <3>1
    <3>2. CASE worker' = [worker EXCEPT ![w] = Idle] /\ worker[w].pc # "idle"
      <4>1. /\ worker'[w].pc = "idle"
            /\ \A v \in Workers \ {w} : worker'[v] = worker[v]
        BY <1>4, <3>2
      <4>2. /\ job[worker[w].job].state # "absent"
            /\ UNCHANGED <<status, segment>>
        BY <2>6, <3>2 DEF JobInv, CloseJob, Throw, run
      <4>3. \A t \in Segments :
              /\ job'[t].state = "absent" <=> job[t].state = "absent"
              /\ job'[t].state = "done" => job[t].state = "done" \/ Over(t)
        <5>1. CASE CloseJob(w)
          <6>1. Over(worker[w].job) BY <5>1 DEF CloseJob, JobInv
          <6> QED BY <4>2, <5>1, <6>1 DEF CloseJob, Jobs
        <5>2. CASE Throw(w) BY <4>2, <5>2 DEF Throw, Released, HoldsLease, Jobs
        <5> QED BY <2>6, <5>1, <5>2
      <4>4. \A t \in Segments : (job[t].state # "absent" => Reserved(t))'
        BY <4>2, <4>3 DEF JobInv, Reserved
      <4>5. \A t \in Segments : (job[t].state = "done" => Over(t))'
        BY <4>2, <4>3 DEF JobInv, Over
      <4>6. ASSUME NEW v \in Workers
            PROVE  /\ worker'[v].pc # "idle" => job'[worker'[v].job].state # "absent"
                   /\ worker'[v].pc \in {"walk", "failrun"} => worker'[v].job <= segment'
                   /\ worker'[v].pc = "close" => OverAt(worker'[v].job, segment', status')
        <5>1. CASE v = w BY <4>1, <5>1
        <5>2. CASE v # w
          <6>1. worker'[v] = worker[v] /\ worker[v].job \in Segments BY <1>3, <4>1, <5>2
          <6>2. /\ worker[v].pc # "idle" => job[worker[v].job].state # "absent"
                /\ worker[v].pc \in {"walk", "failrun"} => worker[v].job <= segment
                /\ worker[v].pc = "close" => OverAt(worker[v].job, segment, status)
            BY DEF JobInv, Over
          <6> QED BY <4>2, <4>3, <6>1, <6>2
        <5> QED BY <5>1, <5>2
      <4> QED BY <4>4, <4>5, <4>6 DEF JobInv, Over
    <3> QED BY <2>6, <3>1, <3>2 DEF CloseJob, Throw
  <2>7. ASSUME NEW i \in Interactions,
               \/ BeginInteraction(w, i) \/ ReadInteraction(w, i)
               \/ CreateInteraction(w, i) \/ CommitResponse(w, i)
        PROVE  JobInv'
    <3>1. UNCHANGED job /\ (FailVisit(w, i) \/ \E p \in Places : Visit(w, i, p))
      BY <2>7 DEF BeginInteraction, ReadInteraction, CreateInteraction, CommitResponse, Places
    <3> QED BY <3>1
  <2> QED BY <1>9, <2>1, <2>2, <2>3, <2>4, <2>5, <2>6, <2>7 DEF Handler
<1>10. ASSUME NEW w \in Workers, Crash(w) PROVE JobInv'
  BY <1>1, <1>4, <1>10, JobFrame DEF Crash
<1>11. ASSUME NEW w \in Workers, NEW s \in Segments, LeaseJob(w, s) PROVE JobInv'
  <2>1. \A t \in Segments : /\ job'[t].state = "absent" <=> job[t].state = "absent"
                            /\ job'[t].state = "done" => job[t].state = "done"
    BY <1>11 DEF LeaseJob, TypeOK, Jobs
  <2>2. /\ worker'[w].pc = "inspect" /\ worker'[w].job = s /\ job[s].state # "absent"
        /\ \A v \in Workers \ {w} : worker'[v] = worker[v]
        /\ UNCHANGED <<status, segment>>
    BY <1>11 DEF LeaseJob, TypeOK, Idle, run
  <2>3. \A t \in Segments : (job[t].state # "absent" => Reserved(t))' BY <2>1, <2>2 DEF JobInv, Reserved
  <2>4. \A t \in Segments : (job[t].state = "done" => Over(t))' BY <2>1, <2>2 DEF JobInv, Over
  <2>5. ASSUME NEW v \in Workers
        PROVE  /\ worker'[v].pc # "idle" => job'[worker'[v].job].state # "absent"
               /\ worker'[v].pc \in {"walk", "failrun"} => worker'[v].job <= segment'
               /\ worker'[v].pc = "close" => OverAt(worker'[v].job, segment', status')
    <3>1. CASE v = w BY <2>1, <2>2, <3>1
    <3>2. CASE v # w
      <4>1. worker'[v] = worker[v] /\ worker[v].job \in Segments BY <1>3, <2>2, <3>2
      <4>2. /\ worker[v].pc # "idle" => job[worker[v].job].state # "absent"
            /\ worker[v].pc \in {"walk", "failrun"} => worker[v].job <= segment
            /\ worker[v].pc = "close" => OverAt(worker[v].job, segment, status)
        BY DEF JobInv, Over
      <4> QED BY <2>1, <2>2, <4>1, <4>2
    <3> QED BY <3>1, <3>2
  <2> QED BY <2>3, <2>4, <2>5 DEF JobInv, Over
<1>12. ASSUME NEW s \in Segments, Exhaust(s) PROVE JobInv'
  <2>1. \A t \in Segments : /\ job'[t].state = "absent" <=> job[t].state = "absent"
                            /\ job'[t].state = "done" => job[t].state = "done"
    BY <1>12 DEF Exhaust, TypeOK, Jobs
  <2>2. UNCHANGED <<worker, status, segment>> BY <1>12 DEF Exhaust, run
  <2> QED BY <1>3, <2>1, <2>2 DEF JobInv, Over, Reserved
<1> QED BY <1>5, <1>7, <1>8, <1>9, <1>10, <1>11, <1>12
        DEF Next, Host, Respond, Terminate, Cancel, vars

\* Reachable states keep their job rows reserved and their closed jobs over.
THEOREM JobInvariant == Spec => []JobInv
<1>1. Init => JobInv BY JobInit
<1>2. TypeOK /\ ResumeInv /\ JobInv /\ [Next]_vars => JobInv' BY JobStep
<1> QED BY <1>1, <1>2, TypeCorrect, ResumeInvariant, PTL DEF Spec

\* A job is never closed before its segment reached an outcome.
THEOREM ClosedJobsAreOver == Spec => []DoneMeansSettled
<1>1. JobInv => DoneMeansSettled BY DEF JobInv, DoneMeansSettled, Over, OverAt
<1> QED BY <1>1, JobInvariant, PTL

-----------------------------------------------------------------------------
(* Questions and answers. *)

\* A walk whose steps the fence still lets through.
Live(w) == status = "running" /\ worker[w].claim = claim

\* What a visit may rely on: its attempt was begun, an answer it read stays,
\* and while its walk is live nobody answered the question it holds open.
VisitInv(w, i) ==
  LET v == worker[w].visit[i]
  IN  /\ v # "none" => worker[w].pc = "walk" /\ attempt[i] # "none"
      /\ v = "answered" => inter[i].status = "responded"
      /\ v = "open" /\ Live(w) => inter[i].status = "waiting"
      /\ v = "missing" /\ Live(w) => inter[i].status \in {"absent", "waiting"}

\* Nothing is asked before its attempt was begun.
AskedInv == \A i \in Interactions : inter[i].status # "absent" => attempt[i] # "none"

ClaimsInv == \A w \in Workers : worker[w].claim <= claim

QuestionsInv == AskedInv /\ ConsumedWasAnswered /\ WaitingIsAnswerable /\ CompletedLeavesNobodyWaiting

\* The inductive invariant behind the three properties of questions.
AskInv ==
  /\ ClaimsInv
  /\ \A w \in Workers, i \in Interactions : VisitInv(w, i)
  /\ QuestionsInv

\* A step keeps or raises the claim, makes a run running only by claiming it,
\* and never forgets that an attempt was begun.
LEMMA RunMoves ==
  ASSUME TypeOK, [Next]_vars
  PROVE  /\ claim' = claim \/ (claim' = claim + 1 /\ UNCHANGED <<inter, attempt>>)
         /\ status' = "running" => status = "running" \/ claim' = claim + 1
         /\ \A j \in Interactions : attempt[j] # "none" => attempt'[j] # "none"
<1> USE DEF From, run
<1>1. CASE EnqueueFirst BY <1>1 DEF EnqueueFirst
<1>2. ASSUME NEW i \in Interactions,
             Respond(i) \/ \E o \in {"cancelled", "expired"} : Terminate(i, o)
      PROVE  status' # "running" /\ UNCHANGED <<claim, attempt>>
  BY <1>2 DEF Respond, Terminate
<1>3. CASE Cancel BY <1>3 DEF Cancel
<1>4. ASSUME NEW w \in Workers, Inspect(w) \/ WalkFails(w) \/ CloseJob(w) \/ Throw(w) \/ Crash(w)
      PROVE  UNCHANGED <<run, attempt>>
  BY <1>4 DEF Inspect, WalkFails, CloseJob, Throw, Crash
<1>5. ASSUME NEW w \in Workers, ClaimRun(w)
      PROVE  UNCHANGED <<inter, attempt>> /\ (claim' = claim + 1 \/ UNCHANGED <<claim, status>>)
  BY <1>5 DEF ClaimRun
<1>6. ASSUME NEW w \in Workers, Settle(w) \/ FailRun(w)
      PROVE  UNCHANGED <<claim, attempt>> /\ (status' # "running" \/ UNCHANGED status)
  BY <1>6 DEF Settle, FailRun
<1>7. ASSUME NEW w \in Workers, NEW i \in Interactions,
             ReadInteraction(w, i) \/ CreateInteraction(w, i)
      PROVE  UNCHANGED <<run, attempt>>
  BY <1>7 DEF ReadInteraction, CreateInteraction
<1>8. ASSUME NEW w \in Workers, NEW i \in Interactions,
             BeginInteraction(w, i) \/ CommitResponse(w, i)
      PROVE  UNCHANGED run /\ \A j \in Interactions : attempt[j] # "none" => attempt'[j] # "none"
  BY <1>8 DEF BeginInteraction, CommitResponse, TypeOK
<1>9. ASSUME NEW s \in Segments, Exhaust(s) \/ \E w \in Workers : LeaseJob(w, s)
      PROVE  UNCHANGED <<run, attempt>>
  BY <1>9 DEF Exhaust, LeaseJob
<1>10. ASSUME NEW r \in Reconcilers, Reconcile(r) \/ CrashReconciler(r)
       PROVE  UNCHANGED <<claim, attempt>> /\ (status' # "running" \/ UNCHANGED status)
  BY <1>10 DEF Reconcile, Scan, EnqueueReserved, Advance, CrashReconciler
<1>11. CASE UNCHANGED vars BY <1>11 DEF vars
<1> QED BY <1>1, <1>2, <1>3, <1>4, <1>5, <1>6, <1>7, <1>8, <1>9, <1>10, <1>11 DEF Next, Host, Handler

\* An answer stays, and while the run goes on a question stays open.
LEMMA QuestionsStay ==
  ASSUME ResumeInv, RunStep, NEW i \in Interactions
  PROVE  /\ inter[i].status = "responded" => inter'[i] = inter[i]
         /\ inter[i].status # "absent" => inter'[i].status # "absent"
         /\ status = "running" /\ status' = "running" =>
              /\ inter[i].status = "waiting" => inter'[i].status = "waiting"
              /\ inter[i].status = "absent" => inter'[i].status \in {"absent", "waiting"}
BY DEF RunStep, Starts, Settles, Stops, Resolves, Answers, Asks, Requeues, ResumeInv, RunTypes, Terminal

\* A handler that keeps its claim keeps what its visit relies on, unless the
\* visit itself moved.
LEMMA VisitStays ==
  ASSUME TypeOK, ResumeInv, AskInv, [Next]_vars, NEW w \in Workers, NEW i \in Interactions,
         \/ worker'[w].visit[i] = "none"
         \/ worker'[w].visit[i] = worker[w].visit[i] /\ worker'[w].pc = worker[w].pc
            /\ worker'[w].claim = worker[w].claim
  PROVE  VisitInv(w, i)'
<1>1. CASE worker'[w].visit[i] = "none" BY <1>1 DEF VisitInv
<1>2. CASE /\ worker'[w].visit[i] = worker[w].visit[i] /\ worker'[w].pc = worker[w].pc
           /\ worker'[w].claim = worker[w].claim
  <2>1. RunStep BY NextIsRunStep
  <2>2. /\ inter[i].status = "responded" => inter'[i] = inter[i]
        /\ status = "running" /\ status' = "running" =>
              /\ inter[i].status = "waiting" => inter'[i].status = "waiting"
              /\ inter[i].status = "absent" => inter'[i].status \in {"absent", "waiting"}
    BY <2>1, QuestionsStay
  <2>3. Live(w)' => Live(w) /\ status' = "running"
    <3>1. worker[w].claim \in Nat /\ claim \in Nat /\ worker[w].claim <= claim
      BY DEF TypeOK, Invocations, AskInv, ClaimsInv
    <3>2. claim' = claim \/ claim' = claim + 1 BY RunMoves
    <3>3. status' = "running" => status = "running" \/ claim' = claim + 1 BY RunMoves
    <3> QED BY <1>2, <3>1, <3>2, <3>3 DEF Live
  <2>4. attempt[i] # "none" => attempt'[i] # "none" BY RunMoves
  <2>5. VisitInv(w, i) BY DEF AskInv
  <2>6. Live(w) => status = "running" BY DEF Live
  <2> QED BY <1>2, <2>2, <2>3, <2>4, <2>5, <2>6 DEF VisitInv
<1> QED BY <1>1, <1>2

\* The handlers a step leaves alone.
LEMMA OthersStay ==
  ASSUME TypeOK, ResumeInv, AskInv, [Next]_vars,
         NEW w \in Workers, \A v \in Workers \ {w} : worker'[v] = worker[v],
         worker'[w].claim <= claim', \A i \in Interactions : VisitInv(w, i)'
  PROVE  ClaimsInv' /\ \A v \in Workers, i \in Interactions : VisitInv(v, i)'
<1>1. claim \in Nat /\ \A v \in Workers : worker[v].claim \in Nat /\ worker[v].claim <= claim
  BY DEF TypeOK, Invocations, AskInv, ClaimsInv
<1>2. claim' = claim \/ claim' = claim + 1 BY RunMoves
<1>3. ClaimsInv' BY <1>1, <1>2 DEF ClaimsInv
<1>4. ASSUME NEW v \in Workers, NEW i \in Interactions PROVE VisitInv(v, i)'
  <2>1. CASE v = w BY <2>1
  <2>2. CASE v # w BY <2>2, VisitStays
  <2> QED BY <2>1, <2>2
<1> QED BY <1>3, <1>4

\* What the handler's moves do to its claim and its visits.
LEMMA VisitMoves ==
  ASSUME worker \in [Workers -> Invocations], NEW w \in Workers
  PROVE  /\ \A pc \in Pcs : Goto(w, pc) =>
              /\ \A v \in Workers \ {w} : worker'[v] = worker[v]
              /\ worker'[w].visit = worker[w].visit /\ worker'[w].claim = worker[w].claim
         /\ \A pc \in Pcs, e \in Nat : Leave(w, pc, e) =>
              /\ \A v \in Workers \ {w} : worker'[v] = worker[v]
              /\ worker'[w].visit = Nowhere /\ worker'[w].claim = e
<1>0. worker[w] \in Invocations OBVIOUS
<1>1. ASSUME NEW pc \in Pcs, Goto(w, pc)
      PROVE  /\ \A v \in Workers \ {w} : worker'[v] = worker[v]
             /\ worker'[w].visit = worker[w].visit /\ worker'[w].claim = worker[w].claim
  BY <1>0, <1>1 DEF Goto, Invocations
<1>2. ASSUME NEW pc \in Pcs, NEW e \in Nat, Leave(w, pc, e)
      PROVE  /\ \A v \in Workers \ {w} : worker'[v] = worker[v]
             /\ worker'[w].visit = Nowhere /\ worker'[w].claim = e
  <2> DEFINE r == [worker[w] EXCEPT !.pc = pc, !.claim = e, !.failed = FALSE, !.visit = Nowhere]
  <2>1. worker' = [worker EXCEPT ![w] = r] BY <1>2 DEF Leave
  <2>2. r.visit = Nowhere /\ r.claim = e BY <1>0 DEF Invocations
  <2> HIDE DEF r
  <2> QED BY <2>1, <2>2
<1> QED BY <1>1, <1>2

\* A step of a walk moves one visit.
LEMMA WalkMoves ==
  ASSUME worker \in [Workers -> Invocations], NEW w \in Workers, NEW i \in Interactions,
         NEW p \in Places, Visit(w, i, p) \/ (FailVisit(w, i) /\ p = "none")
  PROVE  /\ \A v \in Workers \ {w} : worker'[v] = worker[v]
         /\ worker'[w].pc = worker[w].pc /\ worker'[w].claim = worker[w].claim
         /\ worker'[w].visit[i] = p
         /\ \A j \in Interactions : j # i => worker'[w].visit[j] = worker[w].visit[j]
<1>0. worker[w] \in Invocations /\ worker[w].visit \in [Interactions -> Places] BY DEF Invocations
<1>1. CASE Visit(w, i, p)
  <2>1. /\ \A v \in Workers \ {w} : worker'[v] = worker[v]
        /\ worker'[w].pc = worker[w].pc /\ worker'[w].claim = worker[w].claim
        /\ worker'[w].visit = [worker[w].visit EXCEPT ![i] = p]
    BY <1>0, <1>1 DEF Visit, Invocations
  <2> QED BY <1>0, <2>1
<1>2. CASE FailVisit(w, i) /\ p = "none"
  <2> DEFINE r == [worker[w] EXCEPT !.visit[i] = "none", !.failed = TRUE]
  <2>1. worker' = [worker EXCEPT ![w] = r] BY <1>2 DEF FailVisit
  <2>2. r.pc = worker[w].pc /\ r.claim = worker[w].claim
        /\ r.visit = [worker[w].visit EXCEPT ![i] = "none"] BY <1>0 DEF Invocations
  <2> HIDE DEF r
  <2> QED BY <1>0, <1>2, <2>1, <2>2
<1> QED BY <1>1, <1>2

\* No step breaks what a visit relies on.
LEMMA VisitStep ==
  ASSUME TypeOK, ResumeInv, AskInv, [Next]_vars
  PROVE  ClaimsInv' /\ \A w \in Workers, i \in Interactions : VisitInv(w, i)'
<1> DEFINE Goal == ClaimsInv' /\ \A w \in Workers, i \in Interactions : VisitInv(w, i)'
<1>0. /\ worker \in [Workers -> Invocations] /\ claim \in Nat
      /\ \A v \in Workers : worker[v].claim \in Nat /\ worker[v].claim <= claim
  BY DEF TypeOK, Invocations, AskInv, ClaimsInv
<1>1. claim' \in Nat /\ claim <= claim' BY <1>0, RunMoves
<1>2. ASSUME UNCHANGED worker PROVE Goal
  <2>1. \A w \in Workers, i \in Interactions : VisitInv(w, i)' BY <1>2, VisitStays
  <2> QED BY <1>0, <1>1, <1>2, <2>1 DEF ClaimsInv
<1>3. ASSUME NEW w \in Workers, \A v \in Workers \ {w} : worker'[v] = worker[v],
             worker'[w].claim <= claim', \A i \in Interactions : worker'[w].visit[i] = "none"
      PROVE  Goal
  BY <1>3, VisitStays, OthersStay
<1>4. ASSUME NEW w \in Workers, worker[w].pc # "walk" PROVE \A i \in Interactions : worker[w].visit[i] = "none"
  BY <1>4 DEF AskInv, VisitInv
<1>5. ASSUME NEW w \in Workers, NEW pc \in Pcs, NEW e \in Nat, Leave(w, pc, e), e <= claim PROVE Goal
  BY <1>0, <1>1, <1>3, <1>5, VisitMoves DEF Nowhere
<1>6. ASSUME NEW w \in Workers, NEW pc \in Pcs, Goto(w, pc), worker[w].pc # "walk" PROVE Goal
  BY <1>0, <1>1, <1>3, <1>4, <1>6, VisitMoves
<1>7. ASSUME NEW w \in Workers, worker' = [worker EXCEPT ![w] = Idle] PROVE Goal
  <2>1. Idle.claim = 0 /\ Idle.visit = Nowhere BY DEF Idle
  <2>2. worker'[w] = Idle /\ \A v \in Workers \ {w} : worker'[v] = worker[v] BY <1>0, <1>7
  <2> HIDE DEF Goal
  <2> QED BY <1>1, <1>3, <2>1, <2>2 DEF Nowhere
<1>8. ASSUME NEW w \in Workers, NEW i \in Interactions,
             \/ BeginInteraction(w, i) \/ ReadInteraction(w, i)
             \/ CreateInteraction(w, i) \/ CommitResponse(w, i)
      PROVE  Goal
  <2>1. worker[w].pc = "walk" /\ (FailVisit(w, i) \/ \E p \in Places : Visit(w, i, p))
    BY <1>8 DEF BeginInteraction, ReadInteraction, CreateInteraction, CommitResponse, Places, Walking
  <2>2. /\ \A v \in Workers \ {w} : worker'[v] = worker[v]
        /\ worker'[w].pc = worker[w].pc /\ worker'[w].claim = worker[w].claim
        /\ \A j \in Interactions : j # i => worker'[w].visit[j] = worker[w].visit[j]
    <3>1. PICK p \in Places : Visit(w, i, p) \/ (FailVisit(w, i) /\ p = "none") BY <2>1 DEF Places
    <3> QED BY <1>0, <3>1, WalkMoves
  <2>3. UNCHANGED run /\ VisitInv(w, i) /\ worker[w].visit[i] \in Places
    BY <1>0, <1>8 DEF BeginInteraction, ReadInteraction, CreateInteraction, CommitResponse, AskInv, run, Invocations
  <2>4. FailVisit(w, i) => worker'[w].visit[i] = "none" BY <1>0, WalkMoves DEF Places
  <2>5. \A p \in Places : Visit(w, i, p) => worker'[w].visit[i] = p BY <1>0, WalkMoves
  <2>6. Live(w)' = Live(w) BY <2>2, <2>3 DEF Live, run
  <2>7. VisitInv(w, i)'
    <3>1. CASE FailVisit(w, i) BY <2>4, <3>1 DEF VisitInv
    <3>2. CASE BeginInteraction(w, i) /\ Visit(w, i, "begun")
      <4>1. worker'[w].visit[i] = "begun" BY <2>5, <3>2 DEF Places
      <4>2. attempt'[i] # "none" BY <2>4, <3>2, <4>1 DEF BeginInteraction, TypeOK
      <4> QED BY <2>1, <2>2, <4>1, <4>2 DEF VisitInv
    <3>3. CASE ReadInteraction(w, i) /\ ~FailVisit(w, i)
      <4>1. worker[w].visit[i] = "begun" /\ UNCHANGED <<inter, attempt>> BY <3>3 DEF ReadInteraction
      <4>2. \/ inter[i].status = "absent" /\ worker'[w].visit[i] = "missing"
            \/ inter[i].status = "waiting" /\ worker'[w].visit[i] = "open"
            \/ inter[i].status = "responded" /\ worker'[w].visit[i] = "answered"
        BY <2>5, <3>3 DEF ReadInteraction, Places
      <4> QED BY <2>1, <2>2, <2>3, <4>1, <4>2 DEF VisitInv
    <3>4. CASE CreateInteraction(w, i) /\ ~FailVisit(w, i)
      <4>1. worker[w].visit[i] = "missing" /\ UNCHANGED attempt /\ worker'[w].visit[i] = "open"
        BY <2>5, <3>4 DEF CreateInteraction, Places
      <4>2. Live(w) => inter'[i].status = "waiting"
        BY <2>3, <3>4, <4>1 DEF CreateInteraction, VisitInv, TypeOK
      <4> QED BY <2>1, <2>2, <2>3, <2>6, <4>1, <4>2 DEF VisitInv
    <3>5. CASE CommitResponse(w, i) /\ ~FailVisit(w, i)
      <4>1. worker'[w].visit[i] = "none" BY <2>5, <3>5 DEF CommitResponse, Places
      <4> QED BY <4>1 DEF VisitInv
    <3> QED BY <1>8, <3>1, <3>2, <3>3, <3>4, <3>5 DEF BeginInteraction
  <2>8. \A j \in Interactions : VisitInv(w, j)' BY <2>2, <2>7, VisitStays
  <2> QED BY <1>0, <1>1, <2>2, <2>8, OthersStay
<1>9. ASSUME NEW w \in Workers, Handler(w) PROVE Goal
  <2> USE DEF Pcs
  <2>1. CASE Inspect(w) BY <1>6, <2>1 DEF Inspect
  <2>2. CASE ClaimRun(w)
    <3>1. worker[w].pc # "walk" BY <2>2 DEF ClaimRun
    <3>2. CASE Goto(w, "throw") BY <1>6, <3>1, <3>2
    <3>3. CASE worker' = [worker EXCEPT ![w].pc = "walk", ![w].claim = claim + 1] /\ claim' = claim + 1
      <4>1. /\ worker'[w].claim = claim + 1 /\ worker'[w].visit = worker[w].visit
            /\ \A v \in Workers \ {w} : worker'[v] = worker[v]
        BY <1>0, <3>3 DEF Invocations
      <4>2. worker'[w].claim <= claim' BY <1>0, <3>3, <4>1
      <4>3. \A i \in Interactions : worker'[w].visit[i] = "none" BY <1>4, <3>1, <4>1
      <4> HIDE DEF Goal
      <4> QED BY <1>3, <4>1, <4>2, <4>3
    <3> QED BY <2>2, <3>2, <3>3 DEF ClaimRun
  <2>3. CASE Settle(w) BY <1>0, <1>5, <2>3 DEF Settle
  <2>4. CASE WalkFails(w) BY <1>0, <1>5, <2>4 DEF WalkFails
  <2>5. CASE FailRun(w) BY <1>0, <1>5, <2>5 DEF FailRun
  <2>6. CASE CloseJob(w) BY <1>6, <1>7, <2>6 DEF CloseJob
  <2>7. CASE Throw(w) BY <1>7, <2>7 DEF Throw
  <2> QED BY <1>8, <1>9, <2>1, <2>2, <2>3, <2>4, <2>5, <2>6, <2>7 DEF Handler
<1>10. ASSUME NEW w \in Workers, Crash(w) PROVE Goal BY <1>7, <1>10 DEF Crash
<1>11. ASSUME NEW w \in Workers, NEW s \in Segments, LeaseJob(w, s) PROVE Goal
  <2> DEFINE r == [Idle EXCEPT !.pc = "inspect", !.job = s, !.lease = job[s].leases + 1]
  <2>1. worker' = [worker EXCEPT ![w] = r] BY <1>11 DEF LeaseJob
  <2>2. r.claim = 0 /\ r.visit = Nowhere BY DEF Idle
  <2> HIDE DEF r, Goal
  <2>3. worker'[w] = r /\ \A v \in Workers \ {w} : worker'[v] = worker[v] BY <1>0, <2>1
  <2> QED BY <1>1, <1>3, <2>2, <2>3 DEF Nowhere
<1> QED BY <1>2, <1>9, <1>10, <1>11
        DEF Next, Host, EnqueueFirst, Respond, Terminate, Cancel, Exhaust, Reconcile, Scan, EnqueueReserved,
            Advance, CrashReconciler, vars

\* Questions are asked, answered and used in order, and a run waits or
\* completes accordingly.
LEMMA QuestionStep ==
  ASSUME TypeOK, ResumeInv, AskInv, [Next]_vars
  PROVE  QuestionsInv'
<1> USE DEF From, run, QuestionsInv
<1>0. /\ RunStep /\ AskedInv /\ ConsumedWasAnswered /\ WaitingIsAnswerable /\ CompletedLeavesNobodyWaiting
      /\ \A w \in Workers, i \in Interactions : VisitInv(w, i)
  BY NextIsRunStep DEF AskInv
<1>1. \A i \in Interactions : /\ inter[i].status = "responded" => inter'[i] = inter[i]
                              /\ inter[i].status # "absent" => inter'[i].status # "absent"
                              /\ attempt[i] # "none" => attempt'[i] # "none"
  BY <1>0, QuestionsStay, RunMoves
<1>2. segment \in Nat /\ segment' \in Nat /\ segment' >= segment
  BY <1>0 DEF RunStep, Starts, Settles, Stops, Resolves, Answers, Asks, Requeues, ResumeInv, RunTypes
\* Steps that neither ask nor use an answer nor settle the walk.
<1>3. ASSUME /\ \A i \in Interactions : (attempt'[i] = "completed" <=> attempt[i] = "completed")
             /\ \/ UNCHANGED <<status, inter>>
                \/ /\ status' \notin {"waiting_for_input", "completed"}
                   /\ \A i \in Interactions : inter[i].status = "absent" => inter'[i].status = "absent"
      PROVE  QuestionsInv'
  <2>1. AskedInv' BY <1>0, <1>1, <1>3 DEF AskedInv
  <2>2. ConsumedWasAnswered' 
    <3>1. \A i \in Interactions : inter[i].resume \in Nat BY DEF ResumeInv, RunTypes
    <3>2. ASSUME NEW i \in Interactions, attempt[i] = "completed"
          PROVE  inter'[i].status = "responded" /\ inter'[i].resume <= segment'
      <4>1. inter[i].status = "responded" /\ inter[i].resume <= segment
        BY <1>0, <3>2 DEF ConsumedWasAnswered, Consumed, Responded
      <4> QED BY <1>1, <1>2, <3>1, <4>1
    <3> QED BY <1>3, <3>2 DEF ConsumedWasAnswered, Consumed, Responded
  <2>3. WaitingIsAnswerable' BY <1>0, <1>3 DEF WaitingIsAnswerable
  <2>4. CompletedLeavesNobodyWaiting' BY <1>0, <1>3 DEF CompletedLeavesNobodyWaiting, Consumed, Responded
  <2> QED BY <2>1, <2>2, <2>3, <2>4
<1>4. ASSUME NEW w \in Workers, Settle(w), ~UNCHANGED status
      PROVE  QuestionsInv'
  <2>1. /\ Drained(w) /\ (Waits(w) \/ Revisited(w)) /\ Live(w) /\ UNCHANGED <<inter, attempt, segment>>
        /\ status' = IF Waits(w) THEN "waiting_for_input" ELSE "completed"
    BY <1>4 DEF Settle, Fenced, Live
  <2>2. AskedInv' /\ ConsumedWasAnswered' BY <1>0, <2>1 DEF AskedInv, ConsumedWasAnswered, Consumed, Responded
  <2>3. WaitingIsAnswerable'
    BY <1>0, <2>1 DEF WaitingIsAnswerable, Waits, VisitInv
  <2>4. CompletedLeavesNobodyWaiting'
    <3>1. ASSUME NEW i \in Interactions, status' = "completed", inter[i].status # "absent"
          PROVE  i \in Responded /\ i \in Consumed
      <4>1. Revisited(w) /\ worker[w].visit[i] # "open" BY <2>1, <3>1 DEF Waits
      <4>2. attempt[i] # "none" /\ attempt[i] # "running" BY <1>0, <3>1, <4>1 DEF AskedInv, Revisited
      <4>3. attempt[i] = "completed" BY <4>2 DEF TypeOK
      <4> QED BY <1>0, <4>3 DEF Consumed, ConsumedWasAnswered
    <3> QED BY <2>1, <3>1 DEF CompletedLeavesNobodyWaiting, Responded, Consumed
  <2> QED BY <2>2, <2>3, <2>4
<1>5. ASSUME NEW w \in Workers, NEW i \in Interactions, CreateInteraction(w, i), ~UNCHANGED inter
      PROVE  QuestionsInv'
  <2>1. /\ worker[w].visit[i] = "missing" /\ inter[i].status = "absent" /\ status \notin Terminal
        /\ inter' = [inter EXCEPT ![i].status = "waiting"] /\ UNCHANGED <<run, attempt>>
    BY <1>5 DEF CreateInteraction
  <2>2. /\ inter'[i].status = "waiting"
        /\ \A j \in Interactions : j # i => inter'[j] = inter[j]
    BY <2>1 DEF TypeOK
  <2>3. attempt[i] # "none" BY <1>0, <2>1 DEF VisitInv
  <2>4. AskedInv' BY <1>0, <2>1, <2>2, <2>3 DEF AskedInv
  <2>5. ConsumedWasAnswered' BY <1>0, <1>1, <2>1 DEF ConsumedWasAnswered, Consumed, Responded
  <2>6. WaitingIsAnswerable' BY <2>2 DEF WaitingIsAnswerable
  <2>7. CompletedLeavesNobodyWaiting' BY <2>1 DEF CompletedLeavesNobodyWaiting, Terminal
  <2> QED BY <2>4, <2>5, <2>6, <2>7
<1>6. ASSUME NEW w \in Workers, NEW i \in Interactions, CommitResponse(w, i), ~UNCHANGED attempt
      PROVE  QuestionsInv'
  <2>1. /\ worker[w].visit[i] = "answered" /\ status = "running"
        /\ attempt' = [attempt EXCEPT ![i] = "completed"] /\ UNCHANGED <<run, inter>>
    BY <1>6 DEF CommitResponse
  <2>2. inter[i].status = "responded" BY <1>0, <2>1 DEF VisitInv
  <2>3. inter[i].resume <= segment /\ i \in Responded
    <3>1. i \in Responded BY <2>2 DEF Responded
    <3>2. inter[i].resume \in 1..(segment + 1) /\ inter[i].resume # segment + 1
      BY <2>1, <3>1 DEF ResumeInv, ReservationsDistinct
    <3> QED BY <1>2, <3>1, <3>2
  <2>4. Consumed' \subseteq Consumed \cup {i} BY <2>1 DEF Consumed, TypeOK
  <2>5. ConsumedWasAnswered' BY <1>0, <2>1, <2>3, <2>4 DEF ConsumedWasAnswered, Responded
  <2>6. AskedInv' BY <1>0, <1>1, <2>1 DEF AskedInv
  <2>7. WaitingIsAnswerable' /\ CompletedLeavesNobodyWaiting'
    BY <2>1 DEF WaitingIsAnswerable, CompletedLeavesNobodyWaiting
  <2> QED BY <2>5, <2>6, <2>7
<1>7. ASSUME NEW w \in Workers, NEW i \in Interactions, BeginInteraction(w, i)
      PROVE  QuestionsInv'
  <2>1. \A j \in Interactions : (attempt'[j] = "completed" <=> attempt[j] = "completed")
    BY <1>7 DEF BeginInteraction, Consumed, TypeOK
  <2> QED BY <1>3, <1>7, <2>1 DEF BeginInteraction
<1>8. ASSUME NEW i \in Interactions, Respond(i) \/ \E o \in {"cancelled", "expired"} : Terminate(i, o)
      PROVE  QuestionsInv'
  <2>1. \A j \in Interactions : inter[j].status = "absent" => inter'[j].status = "absent"
    BY <1>8 DEF Respond, Terminate, TypeOK
  <2>2. status' \in {"resume_pending", "failed"} /\ UNCHANGED attempt BY <1>8 DEF Respond, Terminate
  <2> QED BY <1>3, <2>1, <2>2
<1>9. ASSUME NEW w \in Workers, ClaimRun(w)
      PROVE  QuestionsInv'
  BY <1>3, <1>9 DEF ClaimRun
<1>10. ASSUME NEW r \in Reconcilers, Advance(r)
       PROVE  QuestionsInv'
  BY <1>3, <1>10 DEF Advance
<1>11. CASE Cancel BY <1>3, <1>11 DEF Cancel
<1>12. ASSUME NEW w \in Workers, FailRun(w)
       PROVE  QuestionsInv'
  BY <1>3, <1>12 DEF FailRun
<1>13. CASE UNCHANGED <<status, inter, attempt>> BY <1>3, <1>13
<1>14. ASSUME NEW w \in Workers, Handler(w) \/ Crash(w) \/ \E s \in Segments : LeaseJob(w, s)
       PROVE  QuestionsInv'
  <2>1. CASE Settle(w)
    <3>1. UNCHANGED <<inter, attempt>> BY <2>1 DEF Settle
    <3> QED BY <1>4, <1>13, <2>1, <3>1
  <2>2. ASSUME NEW i \in Interactions, CreateInteraction(w, i) \/ CommitResponse(w, i) \/ ReadInteraction(w, i)
        PROVE  QuestionsInv'
    <3>1. CASE CreateInteraction(w, i)
      <4>1. UNCHANGED <<status, attempt>> BY <3>1 DEF CreateInteraction
      <4> QED BY <1>5, <1>13, <3>1, <4>1
    <3>2. CASE CommitResponse(w, i)
      <4>1. UNCHANGED <<status, inter>> BY <3>2 DEF CommitResponse
      <4> QED BY <1>6, <1>13, <3>2, <4>1
    <3>3. CASE ReadInteraction(w, i)
      <4>1. UNCHANGED <<status, inter, attempt>> BY <3>3 DEF ReadInteraction
      <4> QED BY <1>13, <4>1
    <3> QED BY <2>2, <3>1, <3>2, <3>3
  <2>3. CASE Inspect(w) \/ WalkFails(w) \/ CloseJob(w) \/ Throw(w) \/ Crash(w) \/ \E s \in Segments : LeaseJob(w, s)
    <3>1. UNCHANGED <<status, inter, attempt>>
      BY <2>3 DEF Inspect, WalkFails, CloseJob, Throw, Crash, LeaseJob
    <3> QED BY <1>13, <3>1
  <2> QED BY <1>7, <1>9, <1>12, <1>14, <2>1, <2>2, <2>3 DEF Handler
<1>15. ASSUME NEW r \in Reconcilers, Reconcile(r) \/ CrashReconciler(r)
       PROVE  QuestionsInv'
  BY <1>10, <1>13, <1>15 DEF Reconcile, Scan, EnqueueReserved, CrashReconciler
<1>16. CASE EnqueueFirst \/ UNCHANGED vars \/ \E s \in Segments : Exhaust(s)
  BY <1>13, <1>16 DEF EnqueueFirst, vars, Exhaust
<1> QED BY <1>8, <1>11, <1>14, <1>15, <1>16 DEF Next, Host

\* Every reachable state keeps its questions, answers and visits in order.
THEOREM AskInvariant == Spec => []AskInv
<1>1. Init => AskInv
  <2> SUFFICES ASSUME Init PROVE AskInv OBVIOUS
  <2>1. \A w \in Workers, i \in Interactions : worker[w].visit[i] = "none" /\ worker[w].claim = 0
    BY DEF Init, Idle, Nowhere
  <2>2. \A w \in Workers : worker[w].claim = 0 BY DEF Init, Idle
  <2>3. \A w \in Workers, i \in Interactions : VisitInv(w, i) BY <2>1 DEF VisitInv
  <2> QED BY <2>2, <2>3 DEF Init, AskInv, ClaimsInv, QuestionsInv, AskedInv, ConsumedWasAnswered, Consumed,
                            WaitingIsAnswerable, CompletedLeavesNobodyWaiting
<1>2. TypeOK /\ ResumeInv /\ AskInv /\ [Next]_vars => AskInv'
  <2> SUFFICES ASSUME TypeOK, ResumeInv, AskInv, [Next]_vars PROVE AskInv' OBVIOUS
  <2> QED BY VisitStep, QuestionStep DEF AskInv
<1> QED BY <1>1, <1>2, TypeCorrect, ResumeInvariant, PTL DEF Spec

\* An interaction node completes only with an answer accepted before its segment.
THEOREM AnswersAreAcceptedFirst == Spec => []ConsumedWasAnswered
<1>1. AskInv => ConsumedWasAnswered BY DEF AskInv, QuestionsInv
<1> QED BY <1>1, AskInvariant, PTL

\* A waiting run has a question somebody can answer.
THEOREM WaitsCanEnd == Spec => []WaitingIsAnswerable
<1>1. AskInv => WaitingIsAnswerable BY DEF AskInv, QuestionsInv
<1> QED BY <1>1, AskInvariant, PTL

\* A completed run used every answer and leaves no question open.
THEOREM CompletionLeavesNobodyWaiting == Spec => []CompletedLeavesNobodyWaiting
<1>1. AskInv => CompletedLeavesNobodyWaiting BY DEF AskInv, QuestionsInv
<1> QED BY <1>1, AskInvariant, PTL

-----------------------------------------------------------------------------
(* One reconciler at a time. *)

\* While a call is under way nobody else advances the run, and it advances
\* the run only after the reserved job's row is there.
ReconInv ==
  /\ QueuedHasJob
  /\ \A r \in Reconcilers :
       /\ recon[r].pc # "idle" => segment = recon[r].segment
       /\ recon[r].pc = "advance" => job[recon[r].segment + 1].state # "absent"

\* A row, once there, stays.
LEMMA RowsStay ==
  ASSUME TypeOK, [Next]_vars, NEW s \in Segments, job[s].state # "absent"
  PROVE  job'[s].state # "absent"
<1>1. ASSUME NEW t, Enqueue(t) PROVE job'[s].state # "absent"
  BY <1>1 DEF Enqueue, TypeOK, Jobs
<1>2. ASSUME NEW w \in Workers, CloseJob(w) \/ Throw(w) PROVE job'[s].state # "absent"
  <2>1. CASE UNCHANGED job BY <2>1
  <2>2. CASE job' = [job EXCEPT ![worker[w].job].state = "done"] BY <2>2 DEF TypeOK, Jobs
  <2>3. CASE job' = [job EXCEPT ![worker[w].job] = Released(@)]
    <3>1. \A j \in Jobs : Released(j).state # "absent" BY DEF Released, Jobs
    <3> HIDE DEF Released
    <3> QED BY <2>3, <3>1 DEF TypeOK
  <2> QED BY <1>2, <2>1, <2>2, <2>3 DEF CloseJob, Throw
<1>3. ASSUME NEW t \in Segments, Exhaust(t) \/ \E w \in Workers : LeaseJob(w, t)
      PROVE  job'[s].state # "absent"
  BY <1>3 DEF Exhaust, LeaseJob, TypeOK, Jobs
<1>4. CASE UNCHANGED job BY <1>4
<1>5. ASSUME NEW r \in Reconcilers, Reconcile(r) \/ CrashReconciler(r) PROVE job'[s].state # "absent"
  BY <1>1, <1>4, <1>5 DEF Reconcile, Scan, EnqueueReserved, Advance, CrashReconciler
<1>6. ASSUME NEW w \in Workers, Handler(w) \/ Crash(w) PROVE job'[s].state # "absent"
  BY <1>2, <1>4, <1>6 DEF Handler, Crash, Inspect, ClaimRun, Settle, WalkFails, FailRun, BeginInteraction,
                          ReadInteraction, CreateInteraction, CommitResponse
<1>7. CASE Host \/ UNCHANGED vars
  BY <1>1, <1>4, <1>7 DEF Host, EnqueueFirst, Respond, Terminate, Cancel, vars
<1> QED BY <1>3, <1>5, <1>6, <1>7 DEF Next

\* With one reconciler at a time no step queues a run without its job.
LEMMA ReconStep ==
  ASSUME \A r, q \in Reconcilers : r = q, TypeOK, ResumeInv, ReconInv, [Next]_vars
  PROVE  ReconInv'
<1>0. /\ segment \in Nat /\ segment \in Segments /\ segment + 1 \in Segments
      /\ recon \in [Reconcilers -> [pc : {"idle", "enqueue", "advance"}, segment : Segments]]
  BY SegmentBound DEF TypeOK, Segments, ResumeInv, RunTypes
<1>1. \A s \in Segments : job[s].state # "absent" => job'[s].state # "absent" BY RowsStay
<1>2. ASSUME NEW r \in Reconcilers, Rest(r)
      PROVE  \A q \in Reconcilers : recon'[q].pc = "idle"
  BY <1>0, <1>2 DEF Rest, Resting
<1>3. ASSUME UNCHANGED segment, status' \in {"queued", "running"} => status \in {"queued", "running"}
      PROVE  QueuedHasJob'
  BY <1>0, <1>1, <1>3 DEF ReconInv, QueuedHasJob
<1>4. ASSUME NEW r \in Reconcilers, Advance(r) PROVE ReconInv'
  <2>1. \A q \in Reconcilers : recon'[q].pc = "idle" BY <1>2, <1>4 DEF Advance
  <2>2. CASE UNCHANGED <<status, segment>> BY <1>3, <2>1, <2>2 DEF ReconInv
  <2>3. CASE status' = "queued" /\ segment' = segment + 1
    <3>1. job[segment + 1].state # "absent" /\ UNCHANGED job BY <1>4 DEF ReconInv, Advance
    <3> QED BY <2>1, <2>3, <3>1 DEF ReconInv, QueuedHasJob
  <2> QED BY <1>4, <2>2, <2>3 DEF Advance
<1>5. ASSUME NEW r \in Reconcilers, Scan(r) PROVE ReconInv'
  <2>1. UNCHANGED <<status, segment, job>> BY <1>5 DEF Scan, run
  <2>2. recon'[r].pc = "enqueue" /\ recon'[r].segment = segment BY <1>0, <1>5 DEF Scan
  <2>3. \A q \in Reconcilers : q = r OBVIOUS
  <2> QED BY <1>3, <2>1, <2>2, <2>3 DEF ReconInv
<1>6. ASSUME NEW r \in Reconcilers, EnqueueReserved(r) PROVE ReconInv'
  <2>1. UNCHANGED <<status, segment>> /\ recon[r].segment = segment BY <1>6 DEF EnqueueReserved, run, ReconInv
  <2>2. CASE Rest(r) BY <1>2, <1>3, <2>1, <2>2 DEF ReconInv
  <2>3. CASE Enqueue(segment + 1) /\ recon' = [recon EXCEPT ![r].pc = "advance"]
    <3>1. job'[segment + 1].state # "absent" BY <1>0, <2>3 DEF Enqueue, TypeOK, Jobs
    <3>2. recon'[r].pc = "advance" /\ recon'[r].segment = segment BY <1>0, <2>1, <2>3
    <3>3. \A q \in Reconcilers : q = r OBVIOUS
    <3> QED BY <1>3, <2>1, <3>1, <3>2, <3>3 DEF ReconInv
  <2> QED BY <1>6, <2>1, <2>2, <2>3 DEF EnqueueReserved
<1>7. ASSUME NEW r \in Reconcilers, CrashReconciler(r) PROVE ReconInv'
  BY <1>2, <1>3, <1>7 DEF CrashReconciler, ReconInv, run
<1>8. ASSUME UNCHANGED <<segment, recon>>, status' \in {"queued", "running"} => status \in {"queued", "running"}
      PROVE  ReconInv'
  <2>1. ASSUME NEW r \in Reconcilers, recon[r].pc = "advance" PROVE job'[recon[r].segment + 1].state # "absent"
    BY <1>0, <1>1, <2>1 DEF ReconInv
  <2> QED BY <1>3, <1>8, <2>1 DEF ReconInv
<1>9. ASSUME NEW w \in Workers, Handler(w) \/ Crash(w) \/ \E s \in Segments : LeaseJob(w, s) PROVE ReconInv'
  <2>1. CASE Crash(w) \/ \E s \in Segments : LeaseJob(w, s)
    BY <1>8, <2>1 DEF Crash, LeaseJob, run
  <2>2. CASE Inspect(w) \/ ClaimRun(w) \/ Settle(w) \/ WalkFails(w) \/ FailRun(w) \/ CloseJob(w) \/ Throw(w)
    BY <1>8, <2>2 DEF Inspect, ClaimRun, Claimable, Settle, WalkFails, FailRun, CloseJob, Throw, From, run
  <2>3. ASSUME NEW i \in Interactions,
               \/ BeginInteraction(w, i) \/ ReadInteraction(w, i)
               \/ CreateInteraction(w, i) \/ CommitResponse(w, i)
        PROVE  ReconInv'
    BY <1>8, <2>3 DEF BeginInteraction, ReadInteraction, CreateInteraction, CommitResponse, run
  <2> QED BY <1>9, <2>1, <2>2, <2>3 DEF Handler
<1>10. CASE Host \/ UNCHANGED vars \/ \E s \in Segments : Exhaust(s)
  BY <1>8, <1>10 DEF Host, EnqueueFirst, Respond, Terminate, Cancel, Exhaust, vars, run
<1> QED BY <1>4, <1>5, <1>6, <1>7, <1>9, <1>10 DEF Next, Reconcile

\* With one reconciler at a time a run on a later segment always has its job.
THEOREM QueuedRunsHaveJobs ==
  ASSUME \A r, q \in Reconcilers : r = q PROVE Spec => []QueuedHasJob
<1>1. Init => ReconInv
  BY DEF Init, ReconInv, QueuedHasJob, Resting
<1>2. TypeOK /\ ResumeInv /\ ReconInv /\ [Next]_vars => ReconInv' BY ReconStep
<1>3. ReconInv => QueuedHasJob BY DEF ReconInv
<1> QED BY <1>1, <1>2, <1>3, TypeCorrect, ResumeInvariant, PTL DEF Spec
=============================================================================
