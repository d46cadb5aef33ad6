----------------------------- MODULE MasSegments -----------------------------
(***************************************************************************)
(* One durable MAS run driven by queue workers, a host answering its       *)
(* interactions, and the resume reconciler that joins the two.             *)
(*                                                                         *)
(* Every action is one store transaction, one queue operation or one read  *)
(* a handler acts on later: between two of them any other actor may run.   *)
(* A worker that lost its lease keeps going (a zombie) until a fence stops *)
(* it, and Crash drops a process between any two of its steps.             *)
(*                                                                         *)
(* Abstracted: the nodes a segment executes (module MasNodes and MasLoop), *)
(* documents, budgets, response bytes and keys; the interactions a walk    *)
(* meets are chosen nondeterministically from `Interactions'.              *)
(* External (@jarenjs/db job queue, from its use here): enqueue by id is a *)
(* no-op on an existing row, an expired lease can be taken over, complete  *)
(* and fail are fenced by the lease, MaxLeases leases exhaust a job.       *)
(***************************************************************************)
EXTENDS Integers, FiniteSets

CONSTANTS Workers,       \* queue worker processes
          Reconcilers,   \* concurrent ensurePendingMasSegments calls
          Interactions,  \* interaction invocation paths of the workflow
          MaxLeases      \* the queue's maxAttempts for one job

ASSUME SegmentsAssumption ==
  /\ IsFiniteSet(Interactions)
  /\ MaxLeases \in Nat \ {0}

VARIABLES status, segment, claim,   \* the mas_runs row: status, segment, claim.seq
          inter,                    \* mas_interactions rows by path
          attempt,                  \* the interaction nodes' attempt rows
          job,                      \* _jaren_jobs rows by segment number
          worker,                   \* handler invocations, one per worker process
          recon                     \* ensurePendingMasSegments invocations

run  == <<status, segment, claim>>
vars == <<status, segment, claim, inter, attempt, job, worker, recon>>

-----------------------------------------------------------------------------
(* The run and interaction life cycles. *)

Terminal == {"completed", "failed", "cancelled"}
Statuses == {"queued", "running", "waiting_for_input", "resume_pending"} \cup Terminal

\* RUN_TRANSITIONS: the statuses each command is legal from.
From == [ start           |-> {"queued"},
          complete        |-> {"running"},
          fail            |-> Statuses \ Terminal,
          wait            |-> {"running"},
          resume_pending  |-> {"waiting_for_input"},
          queue_segment   |-> {"resume_pending"},
          cancel          |-> Statuses \ Terminal ]

\* Statuses under which a segment's own job is closed without executing it.
Settled == Terminal \cup {"waiting_for_input", "resume_pending"}

InterStatuses == {"absent", "waiting", "responded", "cancelled", "expired"}
Responded     == {i \in Interactions : inter[i].status = "responded"}
Consumed      == {i \in Interactions : attempt[i] = "completed"}

\* A response reserves one segment, so these numbers suffice; one more is kept
\* so that a segment nobody reserved would be a visible state.
Segments == 0..(Cardinality(Interactions) + 1)

-----------------------------------------------------------------------------
(* Queue rows: a lease is the number of times the job has been leased. *)

NoJob == [state |-> "absent", leases |-> 0]

\* _jaren_jobs: enqueue under a derived id changes nothing when the row exists.
Enqueue(s) ==
  job' = [job EXCEPT ![s].state = IF @ = "absent" THEN "pending" ELSE @]

\* complete, fail and the checkpoint store all refuse a lease that was taken over.
HoldsLease(w) ==
  LET j == job[worker[w].job]
  IN  j.state = "leased" /\ j.leases = worker[w].lease

\* failClaimedSegment: another attempt, or dead when none is left.
Released(j) ==
  [j EXCEPT !.state = IF j.leases < MaxLeases THEN "pending" ELSE "dead"]

-----------------------------------------------------------------------------
(* A handler invocation: the leased job, the claim epoch it works under, and *)
(* where its walk stands with each interaction.  Sibling subgraphs visit     *)
(* their interactions concurrently.                                          *)
Nowhere == [i \in Interactions |-> "none"]
Idle == [pc |-> "idle", job |-> 0, lease |-> 0, claim |-> 0,
         failed |-> FALSE, visit |-> Nowhere]

Resting == [pc |-> "idle", segment |-> 0]

Init ==
  /\ status = "queued" /\ segment = 0 /\ claim = 0
  /\ inter = [i \in Interactions |-> [status |-> "absent", resume |-> 0]]
  /\ attempt = [i \in Interactions |-> "none"]
  /\ job = [s \in Segments |-> NoJob]
  /\ worker = [w \in Workers |-> Idle]
  /\ recon = [r \in Reconcilers |-> Resting]

Goto(w, pc) == worker' = [worker EXCEPT ![w].pc = pc]

-----------------------------------------------------------------------------
(* The host: it starts the run, answers or resolves interactions, cancels. *)

\* enqueueMasSegment(segment 0); hosts repeat it until the run has left segment 0.
EnqueueFirst ==
  /\ segment = 0 /\ job[0].state = "absent"
  /\ Enqueue(0)
  /\ UNCHANGED <<run, inter, attempt, worker, recon>>

\* Mutant: a response is accepted whatever the run's status.
Respond_AnyStatus(i) ==
  /\ inter[i].status = "waiting" /\ status \notin Terminal
  /\ inter' = [inter EXCEPT ![i] = [status |-> "responded", resume |-> segment + 1]]
  /\ status' = "resume_pending"
  /\ UNCHANGED <<segment, claim, attempt, job, worker, recon>>

\* Mutant: the response reserves the segment it was asked in.
Respond_SameSegment(i) ==
  /\ inter[i].status = "waiting"
  /\ status \in From.resume_pending
  /\ inter' = [inter EXCEPT ![i] = [status |-> "responded", resume |-> segment]]
  /\ status' = "resume_pending"
  /\ UNCHANGED <<segment, claim, attempt, job, worker, recon>>

\* respondInteraction inside its deadline: the response, its reserved segment
\* and the run's resume_pending are one transaction.
Respond(i) ==
  /\ inter[i].status = "waiting"
  /\ status \in From.resume_pending
  /\ inter' = [inter EXCEPT ![i] = [status |-> "responded", resume |-> segment + 1]]
  /\ status' = "resume_pending"
  /\ UNCHANGED <<segment, claim, attempt, job, worker, recon>>

\* resolveInteraction, and a response that arrives past the deadline: the
\* interaction ends and the run fails in the same transaction.
Terminate(i, outcome) ==
  /\ inter[i].status = "waiting"
  /\ status \in From.fail
  /\ inter' = [inter EXCEPT ![i].status = outcome]
  /\ status' = "failed"
  /\ UNCHANGED <<segment, claim, attempt, job, worker, recon>>

\* transitionRun(cancel): not fenced, so it may land inside a running segment.
Cancel ==
  /\ status \in From.cancel
  /\ status' = "cancelled"
  /\ UNCHANGED <<segment, claim, inter, attempt, job, worker, recon>>

-----------------------------------------------------------------------------
(* The queue worker and the segment handler. *)

\* Mutant: attempts are not counted against the limit.
LeaseJob_Unbounded(w, s) ==
  /\ worker[w].pc = "idle"
  /\ job[s].state \in {"pending", "leased"}
  /\ job' = [job EXCEPT ![s] = [state |-> "leased", leases |-> @.leases + 1]]
  /\ worker' = [worker EXCEPT ![w] =
                  [Idle EXCEPT !.pc = "inspect", !.job = s, !.lease = job[s].leases + 1]]
  /\ UNCHANGED <<run, inter, attempt, recon>>

\* A worker leases a pending job, or one whose holder let its lease expire.
LeaseJob(w, s) ==
  /\ worker[w].pc = "idle"
  /\ job[s].state \in {"pending", "leased"}
  /\ job[s].leases < MaxLeases
  /\ job' = [job EXCEPT ![s] = [state |-> "leased", leases |-> @.leases + 1]]
  /\ worker' = [worker EXCEPT ![w] =
                  [Idle EXCEPT !.pc = "inspect", !.job = s, !.lease = job[s].leases + 1]]
  /\ UNCHANGED <<run, inter, attempt, recon>>

\* The last lease expires: no attempt is left.
Exhaust(s) ==
  /\ job[s] = [state |-> "leased", leases |-> MaxLeases]
  /\ job' = [job EXCEPT ![s].state = "dead"]
  /\ UNCHANGED <<run, inter, attempt, worker, recon>>

\* Mutants: a job is closed whatever its segment, or whatever the status.
Closes_AnySegment(s) == status \in Settled
Closes_AnyStatus(s)  == s = segment

Closes(s) == s = segment /\ status \in Settled

\* The handler reads the run and decides what to do with its job.
Inspect(w) ==
  /\ worker[w].pc = "inspect"
  /\ Goto(w, IF Closes(worker[w].job) THEN "close" ELSE "claim")
  /\ UNCHANGED <<run, inter, attempt, job, recon>>

\* Mutant: any run can be claimed.
Claimable_Always == TRUE

Claimable == status \in From.start \cup {"running"}

\* claimRunSegment: compares the status, not the segment the job was queued for.
ClaimRun(w) ==
  /\ worker[w].pc = "claim"
  /\ \/ /\ Claimable
        /\ status' = "running"
        /\ claim' = claim + 1
        /\ worker' = [worker EXCEPT ![w].pc = "walk", ![w].claim = claim + 1]
     \/ /\ ~Claimable
        /\ Goto(w, "throw")
        /\ UNCHANGED <<status, claim>>
  /\ UNCHANGED <<segment, inter, attempt, job, recon>>

-----------------------------------------------------------------------------
(* The segment executor, as far as interactions and settlement go. *)

Fenced(w)  == claim = worker[w].claim   \* else TMAS2005
Walking(w) == worker[w].pc = "walk"

Visit(w, i, to) == worker' = [worker EXCEPT ![w].visit[i] = to]

\* A refused step fails its region; the walk drains and then fails the run.
FailVisit(w, i) ==
  worker' = [worker EXCEPT ![w].visit[i] = "none", ![w].failed = TRUE]

\* beginNodeAttempt of the interaction node: fenced by the claim epoch.  A
\* committed response replays and the walk goes on (no state changes).
BeginInteraction(w, i) ==
  /\ Walking(w) /\ worker[w].visit[i] = "none" /\ ~worker[w].failed
  /\ \/ /\ Fenced(w) /\ status = "running" /\ i \notin Consumed
        /\ attempt' = [attempt EXCEPT ![i] = "running"]
        /\ Visit(w, i, "begun")
     \/ /\ ~(Fenced(w) /\ (status = "running" \/ i \in Consumed))
        /\ FailVisit(w, i) /\ UNCHANGED attempt
  /\ UNCHANGED <<run, inter, job, recon>>

\* Mutant: a row that exists is taken for an open question.
ReadInteraction_ExistingIsOpen(w, i) ==
  /\ Walking(w) /\ worker[w].visit[i] = "begun"
  /\ Visit(w, i, IF inter[i].status = "absent" THEN "missing" ELSE "open")
  /\ UNCHANGED <<run, inter, attempt, job, recon>>

\* Mutant: a row that exists is taken for a response.
ReadInteraction_ExistingIsAnswer(w, i) ==
  /\ Walking(w) /\ worker[w].visit[i] = "begun"
  /\ Visit(w, i, IF inter[i].status = "absent" THEN "missing" ELSE "answered")
  /\ UNCHANGED <<run, inter, attempt, job, recon>>

\* getInteraction: the walk acts on this reading in a later step.
ReadInteraction(w, i) ==
  /\ Walking(w) /\ worker[w].visit[i] = "begun"
  /\ \/ inter[i].status = "absent"    /\ Visit(w, i, "missing")
     \/ inter[i].status = "waiting"   /\ Visit(w, i, "open")
     \/ inter[i].status = "responded" /\ Visit(w, i, "answered")
     \/ inter[i].status \in {"cancelled", "expired"} /\ FailVisit(w, i)
  /\ UNCHANGED <<run, inter, attempt, job, recon>>

\* createInteraction: not fenced; an existing row is returned whatever its
\* status, a terminal run refuses a new one, and the walk reports a wait.
CreateInteraction(w, i) ==
  /\ Walking(w) /\ worker[w].visit[i] = "missing"
  /\ \/ /\ inter[i].status = "absent" /\ status \notin Terminal
        /\ inter' = [inter EXCEPT ![i].status = "waiting"]
        /\ Visit(w, i, "open")
     \/ /\ inter[i].status # "absent"
        /\ Visit(w, i, "open") /\ UNCHANGED inter
     \/ /\ inter[i].status = "absent" /\ status \in Terminal
        /\ FailVisit(w, i) /\ UNCHANGED inter
  /\ UNCHANGED <<run, attempt, job, recon>>

\* commitNodeCompletion of the interaction node with the stored response.
CommitResponse(w, i) ==
  /\ Walking(w) /\ worker[w].visit[i] = "answered"
  /\ \/ /\ Fenced(w) /\ status = "running"
        /\ attempt' = [attempt EXCEPT ![i] = "completed"]
        /\ Visit(w, i, "none")
     \/ ~(Fenced(w) /\ status = "running") /\ FailVisit(w, i) /\ UNCHANGED attempt
  /\ UNCHANGED <<run, inter, job, recon>>

Drained(w) == \A i \in Interactions : worker[w].visit[i] \in {"none", "open"}

\* Mutant: the walk completes over its open questions.
Waits_Never(w) == FALSE

Waits(w) == \E i \in Interactions : worker[w].visit[i] = "open"

\* The walk is replayed from committed outputs: one that reaches the end met
\* again every interaction an earlier walk began and did not complete.  One that
\* stops at an open question may not have come to them yet.
Revisited(w) ==
  \A i \in Interactions : attempt[i] = "running" => worker[w].visit[i] = "open"

\* The walk is over: what it held in memory is out of scope.
Leave(w, pc, epoch) ==
  worker' = [worker EXCEPT ![w] =
               [@ EXCEPT !.pc = pc, !.claim = epoch, !.failed = FALSE, !.visit = Nowhere]]

\* transitionRun with a settlement: legal from the status, then claim-fenced;
\* the trace byte budget may roll a complete or a wait back (TMAS2009).
Settle(w) ==
  /\ Walking(w) /\ Drained(w) /\ ~worker[w].failed
  /\ \/ /\ Waits(w) \/ Revisited(w)
        /\ status = "running" /\ Fenced(w)
        /\ status' = IF Waits(w) THEN "waiting_for_input" ELSE "completed"
        /\ Leave(w, "close", 0)
     \/ Leave(w, "failrun", worker[w].claim) /\ UNCHANGED status
  /\ UNCHANGED <<segment, claim, inter, attempt, job, recon>>

\* The walk reports a failure: a node failed, or a step above was refused.
WalkFails(w) ==
  /\ Walking(w) /\ Drained(w)
  /\ Leave(w, "failrun", worker[w].claim)
  /\ UNCHANGED <<run, inter, attempt, job, recon>>

\* failRun: a refused failure transition is an infrastructure crash.
FailRun(w) ==
  /\ worker[w].pc = "failrun"
  /\ \/ /\ status \in From.fail /\ Fenced(w)
        /\ status' = "failed"
        /\ Leave(w, "close", 0)
     \/ /\ ~(status \in From.fail /\ Fenced(w))
        /\ Leave(w, "throw", 0)
        /\ UNCHANGED status
  /\ UNCHANGED <<segment, claim, inter, attempt, job, recon>>

\* completeSegment: the suite checkpoint complete marks the job done, or
\* refuses a lost lease.
CloseJob(w) ==
  /\ worker[w].pc = "close"
  /\ \/ /\ HoldsLease(w)
        /\ job' = [job EXCEPT ![worker[w].job].state = "done"]
        /\ worker' = [worker EXCEPT ![w] = Idle]
     \/ ~HoldsLease(w) /\ Goto(w, "throw") /\ UNCHANGED job
  /\ UNCHANGED <<run, inter, attempt, recon>>

\* The handler threw: the worker fails its job; a fence refusal is swallowed.
Throw(w) ==
  /\ worker[w].pc = "throw"
  /\ job' = IF HoldsLease(w) THEN [job EXCEPT ![worker[w].job] = Released(@)] ELSE job
  /\ worker' = [worker EXCEPT ![w] = Idle]
  /\ UNCHANGED <<run, inter, attempt, recon>>

\* The process dies between two steps; its lease stays until it expires.
Crash(w) ==
  /\ worker[w].pc # "idle"
  /\ worker' = [worker EXCEPT ![w] = Idle]
  /\ UNCHANGED <<run, inter, attempt, job, recon>>

-----------------------------------------------------------------------------
(* ensurePendingMasSegments. *)

Rest(r) == recon' = [recon EXCEPT ![r] = Resting]

\* listResumePendingRuns: the row is read once and kept.
Scan(r) ==
  /\ recon[r].pc = "idle" /\ status = "resume_pending"
  /\ recon' = [recon EXCEPT ![r] = [pc |-> "enqueue", segment |-> segment]]
  /\ UNCHANGED <<run, inter, attempt, job, worker>>

\* Mutant: the run is advanced without its queue row.
EnqueueReserved_NoJob(r) ==
  /\ recon[r].pc = "enqueue"
  /\ recon' = [recon EXCEPT ![r].pc = "advance"]
  /\ UNCHANGED <<run, inter, attempt, job, worker>>

\* readTrace for the reserved response, then the idempotent enqueue.
EnqueueReserved(r) ==
  /\ recon[r].pc = "enqueue"
  /\ \/ /\ \E i \in Responded : inter[i].resume = recon[r].segment + 1
        /\ Enqueue(recon[r].segment + 1)
        /\ recon' = [recon EXCEPT ![r].pc = "advance"]
     \/ /\ \A i \in Responded : inter[i].resume # recon[r].segment + 1
        /\ Rest(r)
        /\ UNCHANGED job
  /\ UNCHANGED <<run, inter, attempt, worker>>

\* Mutant: the status is not compared.
Advance_AnyStatus(r) ==
  /\ recon[r].pc = "advance"
  /\ status' = "queued"
  /\ segment' = segment + 1
  /\ Rest(r)
  /\ UNCHANGED <<claim, inter, attempt, job, worker>>

\* Mutant: the run is queued again under the segment it was on.
Advance_SameSegment(r) ==
  /\ recon[r].pc = "advance"
  /\ status' = IF status \in From.queue_segment THEN "queued" ELSE status
  /\ Rest(r)
  /\ UNCHANGED <<segment, claim, inter, attempt, job, worker>>

\* transitionRun(queue-segment): compares the status only.
Advance(r) ==
  /\ recon[r].pc = "advance"
  /\ \/ /\ status \in From.queue_segment
        /\ status' = "queued"
        /\ segment' = segment + 1
     \/ /\ status \notin From.queue_segment
        /\ UNCHANGED <<status, segment>>
  /\ Rest(r)
  /\ UNCHANGED <<claim, inter, attempt, job, worker>>

CrashReconciler(r) ==
  /\ recon[r].pc # "idle"
  /\ Rest(r)
  /\ UNCHANGED <<run, inter, attempt, job, worker>>

-----------------------------------------------------------------------------
Host ==
  \/ EnqueueFirst
  \/ \E i \in Interactions :
       Respond(i) \/ \E outcome \in {"cancelled", "expired"} : Terminate(i, outcome)
  \/ Cancel

Handler(w) ==
  \/ Inspect(w) \/ ClaimRun(w) \/ Settle(w) \/ WalkFails(w)
  \/ FailRun(w) \/ CloseJob(w) \/ Throw(w)
  \/ \E i \in Interactions :
       BeginInteraction(w, i) \/ ReadInteraction(w, i) \/ CreateInteraction(w, i) \/ CommitResponse(w, i)

Reconcile(r) == Scan(r) \/ EnqueueReserved(r) \/ Advance(r)

Next ==
  \/ Host
  \/ \E w \in Workers : Handler(w) \/ Crash(w) \/ \E s \in Segments : LeaseJob(w, s)
  \/ \E s \in Segments : Exhaust(s)
  \/ \E r \in Reconcilers : Reconcile(r) \/ CrashReconciler(r)

Spec == Init /\ [][Next]_vars

\* Workers poll and finish their handlers, the queue expires leases, the host
\* enqueues segment 0 and keeps reconciling.  Nobody owes an answer, a cancel,
\* a failure of the walk or a crash, and reconciler crashes stop in the end
\* (worker crashes are bounded by the leases).  Ending a call is no crash when
\* a living reconciler would have ended it too.
Fairness ==
  /\ WF_vars(EnqueueFirst)
  /\ \A w \in Workers : WF_vars(Handler(w))
  /\ \A w \in Workers, s \in Segments : WF_vars(LeaseJob(w, s))
  /\ \A s \in Segments : WF_vars(Exhaust(s))
  /\ \A r \in Reconcilers : WF_vars(Reconcile(r))
  /\ <>[][\A r \in Reconcilers : CrashReconciler(r) => Reconcile(r)]_vars

FairSpec == Spec /\ Fairness

-----------------------------------------------------------------------------
(* Properties. *)

Pcs == {"idle", "inspect", "claim", "walk", "failrun", "close", "throw"}
Places == {"none", "begun", "missing", "open", "answered"}
Jobs == [state : {"absent", "pending", "leased", "done", "dead"}, leases : 0..MaxLeases]
Invocations == [pc : Pcs, job : Segments, lease : 0..MaxLeases, claim : Nat,
                failed : BOOLEAN, visit : [Interactions -> Places]]

\* Every row, lease and program counter stays in its range: in particular no
\* segment beyond the reserved ones is ever named by the run or by a queue row.
TypeOK ==
  /\ status \in Statuses /\ segment \in Segments /\ claim \in Nat
  /\ inter \in [Interactions -> [status : InterStatuses, resume : Segments]]
  /\ attempt \in [Interactions -> {"none", "running", "completed"}]
  /\ job \in [Segments -> Jobs]
  /\ worker \in [Workers -> Invocations]
  /\ recon \in [Reconcilers -> [pc : {"idle", "enqueue", "advance"}, segment : Segments]]

\* An accepted response buys exactly one segment, whatever the number of
\* reconcilers, zombies and crashes: the run's segment counts the responses
\* accepted, less the one still waiting for its reconciler.  (A run stopped
\* while it was resume_pending keeps its unused response.)
ResumeExactlyOnce ==
  LET accepted == Cardinality(Responded)
  IN  /\ status = "resume_pending" => accepted = segment + 1
      /\ status \in {"failed", "cancelled"} => accepted \in {segment, segment + 1}
      /\ status \in {"queued", "running", "waiting_for_input", "completed"} => accepted = segment

\* Reserved segments are distinct, and no response reserves one beyond the
\* segment the run is about to enter: two responses never race for one job row.
ReservationsDistinct ==
  \A i, j \in Responded :
    /\ inter[i].resume \in 1..(segment + 1)
    /\ inter[i].resume = segment + 1 => status \in {"resume_pending", "failed", "cancelled"}
    /\ i # j => inter[i].resume # inter[j].resume

\* A run in resume_pending always has the response its reconciler looks for, so
\* ensurePendingMasSegments never skips it for good.
PendingIsListed ==
  status = "resume_pending" => \E i \in Responded : inter[i].resume = segment + 1

\* The scan that lists a run reserves its job before it advances it: a run on a
\* later segment always has the queue row that will execute it.
QueuedHasJob ==
  status \in {"queued", "running"} /\ segment > 0 => job[segment].state # "absent"

\* A job is closed only for a segment that reached its outcome, though any
\* worker holding any job of the run may be the one executing the segment: a
\* job closed early would leave the run with nobody to execute it.
DoneMeansSettled ==
  \A s \in Segments :
    job[s].state = "done" => s < segment \/ (s = segment /\ status \in Settled)

\* A waiting run has an interaction somebody can answer, though a walk acts on
\* interaction rows it read earlier and createInteraction is not fenced: a
\* wait on a row that was answered meanwhile would never end.
WaitingIsAnswerable ==
  status = "waiting_for_input" => \E i \in Interactions : inter[i].status = "waiting"

\* The interaction node completes only with a response that was accepted in an
\* earlier segment, and that response stays in place.
ConsumedWasAnswered ==
  \A i \in Consumed : i \in Responded /\ inter[i].resume <= segment

\* A completed run used every accepted response and leaves no person with an
\* open question, though the creation of an interaction is not fenced and a
\* zombie may be about to do it.
CompletedLeavesNobodyWaiting ==
  status = "completed" =>
    \A i \in Interactions :
      inter[i].status = "absent" \/ (i \in Responded /\ i \in Consumed)

\* A finished run and a resolved interaction never change again: no zombie,
\* late response, operator or reconciler revives one.
Final ==
  [][ /\ status \in Terminal => status' = status /\ segment' = segment
      /\ \A i \in Interactions :
           inter[i].status \in {"responded", "cancelled", "expired"} => inter'[i] = inter[i] ]_vars

\* The run life cycle its host sees, with one segment per accepted response.
Lifecycle == INSTANCE MasRunLifecycle WITH answered <- Cardinality(Responded)
ImplementsLifecycle == Lifecycle!Spec

\* Every accepted response is eventually consumed by its node, through crashes
\* of the reconciler and takeovers of its segment, unless the run is over, its
\* queue row is exhausted, or it has gone on to ask another person.
ResponsesAreUsed ==
  \A i \in Interactions :
    i \in Responded ~> \/ i \in Consumed \/ status \in Terminal \/ job[segment].state = "dead"
                       \/ status = "waiting_for_input" /\ \E j \in Interactions : inter[j].status = "waiting"

\* A runnable segment ends, waits for a person, or exhausts its queue row,
\* which then needs an operator: the run is never just forgotten.
SegmentsEnd ==
  status \in {"queued", "running"} ~> (status \in Settled \/ job[segment].state = "dead")
=============================================================================
