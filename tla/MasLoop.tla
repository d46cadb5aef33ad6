------------------------------ MODULE MasLoop ------------------------------
(***************************************************************************)
(* One bounded loop region of a durable run: its control machine is held   *)
(* in memory by the executor and persisted on the run row, its bodies are  *)
(* committed one iteration at a time, and an executor may crash or lose    *)
(* its claim between any two transactions.                                 *)
(*                                                                         *)
(* putRunFsm is not fenced by the claim epoch, so an executor whose claim  *)
(* was taken over still writes its machine's state.                        *)
(*                                                                         *)
(* Abstracted: a body is one node that commits or fails (its attempts are  *)
(* MasNodes'); an output is the iteration that produced it, `stops' is     *)
(* what the termination query answers about it; carry, init and feedback   *)
(* mappings and bodies that wait for a person are left out.                *)
(***************************************************************************)
EXTENDS Integers

CONSTANTS Executors,   \* segment executors (handler invocations)
          Cap,         \* region.maxIterations
          MaxClaims    \* bound on the claims of one run

ASSUME LoopAssumption == Cap \in Nat \ {0} /\ MaxClaims \in Nat \ {0}

Iterations == 1..(Cap + 1)   \* one more than the cap, which no body may reach

VARIABLES runStatus, claimSeq,   \* the mas_runs row
          fsm,                   \* run.fsm[controlId]: machine state and context
          attempt,               \* the loop node's latest attempt row
          body,                  \* the body's attempt status by iteration
          stops,                 \* iterations whose output ends the loop
          executor               \* executeSegment invocations

store == <<runStatus, claimSeq, fsm, attempt, body, stops>>
vars  == <<runStatus, claimSeq, fsm, attempt, body, stops, executor>>

-----------------------------------------------------------------------------
Ready == [state |-> "ready", iteration |-> 0, last |-> 0]
Idle  == [pc |-> "idle", claim |-> 0, machine |-> Ready]

Init ==
  /\ runStatus = "queued" /\ claimSeq = 0
  /\ fsm = Ready
  /\ attempt = [status |-> "absent", claim |-> 0, output |-> 0]
  /\ body = [i \in Iterations |-> "absent"]
  /\ stops = {}
  /\ executor = [w \in Executors |-> Idle]

At(w, pc)   == executor[w].pc = pc
Goto(w, pc) == executor' = [executor EXCEPT ![w].pc = pc]
Fenced(w)   == executor[w].claim = claimSeq
Holds(w)    == Fenced(w) /\ runStatus = "running"

-----------------------------------------------------------------------------
(* The segment around the loop. *)

Claim(w) ==
  /\ At(w, "idle")
  /\ runStatus \in {"queued", "running"} /\ claimSeq < MaxClaims
  /\ runStatus' = "running" /\ claimSeq' = claimSeq + 1
  /\ executor' = [executor EXCEPT ![w] = [pc |-> "begin", claim |-> claimSeq + 1, machine |-> Ready]]
  /\ UNCHANGED <<fsm, attempt, body, stops>>

\* transitionRun with a settlement; a refusal is an infrastructure crash.
Settle(w) ==
  /\ At(w, "complete") \/ At(w, "failrun")
  /\ runStatus' = IF ~Holds(w) THEN runStatus
                  ELSE IF At(w, "complete") THEN "completed" ELSE "failed"
  /\ executor' = [executor EXCEPT ![w] = Idle]
  /\ UNCHANGED <<claimSeq, fsm, attempt, body, stops>>

Crash(w) ==
  /\ ~At(w, "idle")
  /\ executor' = [executor EXCEPT ![w] = Idle]
  /\ UNCHANGED store

Cancel ==
  /\ runStatus \in {"queued", "running"}
  /\ runStatus' = "cancelled"
  /\ UNCHANGED <<claimSeq, fsm, attempt, body, stops, executor>>

-----------------------------------------------------------------------------
(* beginControlAttempt and controlMachine. *)

\* Mutant: a completed loop is begun again.
BeginLoop_Reopens(w) ==
  /\ At(w, "begin")
  /\ IF Holds(w)
     THEN /\ attempt' = [status |-> "running", claim |-> executor[w].claim, output |-> 0]
          /\ Goto(w, "load")
     ELSE Goto(w, "failrun") /\ UNCHANGED attempt
  /\ UNCHANGED <<runStatus, claimSeq, fsm, body, stops>>

BeginLoop(w) ==
  /\ At(w, "begin")
  /\ \/ /\ Fenced(w) /\ attempt.status = "completed"
        /\ Goto(w, "complete") /\ UNCHANGED attempt
     \/ /\ Holds(w) /\ attempt.status # "completed"
        /\ attempt' = [status |-> "running", claim |-> executor[w].claim, output |-> 0]
        /\ Goto(w, "load")
     \/ /\ ~Fenced(w) \/ (attempt.status # "completed" /\ runStatus # "running")
        /\ Goto(w, "failrun") /\ UNCHANGED attempt
  /\ UNCHANGED <<runStatus, claimSeq, fsm, body, stops>>

\* The machine resumes from the persisted snapshot, whatever its state is.
Load(w) ==
  /\ At(w, "load")
  /\ executor' = [executor EXCEPT ![w].machine = fsm, ![w].pc = "loop"]
  /\ UNCHANGED store

\* machine.send, then machine.persist (putRunFsm): an equal snapshot is a
\* no-op, a run that no longer runs is an infrastructure crash, and the trace
\* byte budget may roll the write back, which fails the loop.
Save(w, machine, next) ==
  \/ /\ runStatus = "running" \/ fsm = machine
     /\ fsm' = machine
     /\ executor' = [executor EXCEPT ![w].machine = machine, ![w].pc = next]
  \/ /\ runStatus # "running" /\ fsm # machine
     /\ executor' = [executor EXCEPT ![w] = Idle]
     /\ UNCHANGED fsm
  \/ /\ runStatus = "running" /\ fsm # machine
     /\ executor' = [executor EXCEPT ![w].pc = "failloop"]
     /\ UNCHANGED fsm

-----------------------------------------------------------------------------
(* runLoopRegion. *)

Machine(w)  == executor[w].machine
InLoop(w, state) == At(w, "loop") /\ Machine(w).state = state

Dispatch(w) ==
  /\ InLoop(w, "ready")
  /\ Save(w, [state |-> "body", iteration |-> 1, last |-> 0], "loop")
  /\ UNCHANGED <<runStatus, claimSeq, attempt, body, stops>>

\* The body's node begins or replays under its own key for this iteration.
BeginBody(w) ==
  LET i == Machine(w).iteration
  IN
  /\ InLoop(w, "body")
  /\ \/ /\ Fenced(w) /\ body[i] = "completed"
        /\ Goto(w, "committed") /\ UNCHANGED body
     \/ /\ Holds(w) /\ body[i] # "completed"
        /\ body' = [body EXCEPT ![i] = "running"]
        /\ Goto(w, "body")
     \/ /\ ~Fenced(w) \/ (body[i] # "completed" /\ runStatus # "running")
        /\ Goto(w, "bodyfailed") /\ UNCHANGED body
  /\ UNCHANGED <<runStatus, claimSeq, fsm, attempt, stops>>

\* Mutant: the claim epoch is not compared.
CommitBody_NoFence(w) ==
  LET i == Machine(w).iteration
  IN
  /\ At(w, "body")
  /\ body' = [body EXCEPT ![i] = "completed"]
  /\ stops' \in {stops, stops \cup {i}}
  /\ Goto(w, "committed")
  /\ UNCHANGED <<runStatus, claimSeq, fsm, attempt>>

\* The body's node commits its output, which does or does not end the loop.
CommitBody(w) ==
  LET i == Machine(w).iteration
  IN
  /\ At(w, "body")
  /\ \/ /\ Holds(w)
        /\ body' = [body EXCEPT ![i] = "completed"]
        /\ stops' \in {stops, stops \cup {i}}
        /\ Goto(w, "committed")
     \/ /\ ~Holds(w)
        /\ Goto(w, "bodyfailed") /\ UNCHANGED <<body, stops>>
  /\ UNCHANGED <<runStatus, claimSeq, fsm, attempt>>

\* The body's node fails, or is aborted with its segment's signal.
BreakBody(w) ==
  /\ At(w, "body")
  /\ body' = IF Holds(w) THEN [body EXCEPT ![Machine(w).iteration] = "failed"] ELSE body
  /\ Goto(w, "bodyfailed")
  /\ UNCHANGED <<runStatus, claimSeq, fsm, attempt, stops>>

BodyCommitted(w) ==
  /\ At(w, "committed")
  /\ Save(w, [Machine(w) EXCEPT !.state = "evaluate", !.last = Machine(w).iteration], "loop")
  /\ UNCHANGED <<runStatus, claimSeq, attempt, body, stops>>

BodyFailed(w) ==
  /\ At(w, "bodyfailed")
  /\ Save(w, [Machine(w) EXCEPT !.state = "failed"], "failloop")
  /\ UNCHANGED <<runStatus, claimSeq, attempt, body, stops>>

\* Mutant: the cap is compared with the iteration just ended.
Capped_OffByOne(m) == m.iteration > Cap

Capped(m) == m.iteration + 1 > Cap

\* The termination query, the host's cap, or the next iteration.
Evaluate(w) ==
  LET m == Machine(w)
      done == m.last \in stops
  IN
  /\ InLoop(w, "evaluate")
  /\ \/ done /\ Save(w, [m EXCEPT !.state = "done"], "commit")
     \/ ~done /\ Capped(m) /\ Save(w, [m EXCEPT !.state = "failed"], "failloop")
     \/ ~done /\ ~Capped(m) /\ Save(w, [m EXCEPT !.state = "body", !.iteration = @ + 1], "loop")
  /\ UNCHANGED <<runStatus, claimSeq, attempt, body, stops>>

\* Mutant: only a machine that is done leaves the loop.
LeaveLoop_DoneOnly(w) ==
  /\ InLoop(w, "done")
  /\ Goto(w, "commit")
  /\ UNCHANGED store

\* Any other machine state leaves the loop towards its commit.
LeaveLoop(w) ==
  /\ InLoop(w, "done") \/ InLoop(w, "failed")
  /\ Goto(w, "commit")
  /\ UNCHANGED store

Mine(w) == Holds(w) /\ attempt.status = "running" /\ attempt.claim = executor[w].claim

\* Mutant: a commit replaces whatever attempt it finds.
CommitLoop_AnyAttempt(w) ==
  /\ At(w, "commit")
  /\ attempt' = [attempt EXCEPT !.status = "completed", !.output = Machine(w).last]
  /\ Goto(w, "complete")
  /\ UNCHANGED <<runStatus, claimSeq, fsm, body, stops>>

\* commitControlAttempt with the machine's last output.  A machine that never
\* committed a body has none: the undefined output (0) is stored as it is.  The
\* refusal (always when the attempt is not Mine, else a record that does not
\* validate or the trace byte budget) leaves the attempt open and fails the run.
CommitLoop(w) ==
  /\ At(w, "commit")
  /\ \/ /\ Mine(w)
        /\ attempt' = [attempt EXCEPT !.status = "completed", !.output = Machine(w).last]
        /\ Goto(w, "complete")
     \/ Goto(w, "failrun") /\ UNCHANGED attempt
  /\ UNCHANGED <<runStatus, claimSeq, fsm, body, stops>>

\* failControlAttempt; its refusal is ignored.
FailLoop(w) ==
  /\ At(w, "failloop")
  /\ attempt' = IF Mine(w) THEN [attempt EXCEPT !.status = "failed"] ELSE attempt
  /\ Goto(w, "failrun")
  /\ UNCHANGED <<runStatus, claimSeq, fsm, body, stops>>

-----------------------------------------------------------------------------
Executor(w) ==
  \/ BeginLoop(w) \/ Load(w) \/ Dispatch(w) \/ BeginBody(w) \/ CommitBody(w) \/ BreakBody(w)
  \/ BodyCommitted(w) \/ BodyFailed(w) \/ Evaluate(w) \/ LeaveLoop(w)
  \/ CommitLoop(w) \/ FailLoop(w) \/ Settle(w)

Next ==
  \/ \E w \in Executors : Claim(w) \/ Crash(w) \/ Executor(w)
  \/ Cancel

Spec == Init /\ [][Next]_vars

\* An executor that does not crash or lose its process keeps going.
FairSpec == Spec /\ \A w \in Executors : WF_vars(Executor(w))

-----------------------------------------------------------------------------
(* Properties. *)

MachineStates == {"ready", "body", "evaluate", "done", "failed"}
Machines == [state : MachineStates, iteration : 0..(Cap + 1), last : 0..(Cap + 1)]
Pcs == {"idle", "begin", "load", "loop", "body", "committed", "bodyfailed",
        "commit", "failloop", "complete", "failrun"}

\* The run row, the rows of the loop and of its bodies and the machines in
\* memory stay in their ranges.
TypeOK ==
  /\ runStatus \in {"queued", "running", "completed", "failed", "cancelled"}
  /\ claimSeq \in 0..MaxClaims
  /\ fsm \in Machines
  /\ attempt \in [status : {"absent", "running", "completed", "failed"},
                  claim : 0..MaxClaims, output : 0..(Cap + 1)]
  /\ body \in [Iterations -> {"absent", "running", "completed", "failed"}]
  /\ stops \subseteq 0..(Cap + 1)
  /\ executor \in [Executors -> [pc : Pcs, claim : 0..MaxClaims, machine : Machines]]

\* Iterations are sequential and bounded: a body begins only after the one
\* before it was committed and did not end the loop, and never past the cap,
\* although zombies write stale machine states for others to resume from.
BodiesInOrder ==
  \A i \in Iterations : body[i] # "absent" =>
    /\ i <= Cap
    /\ \A j \in 1..(i - 1) : body[j] = "completed" /\ j \notin stops

\* The progress a machine records, persisted or in memory, is backed by
\* committed bodies, so resuming from it repeats or skips none.
Backed(m, bodies, stopping) ==
  /\ m.state \in {"body", "evaluate", "done"} =>
       /\ m.iteration \in 1..Cap
       /\ \A j \in 1..(m.iteration - 1) : bodies[j] = "completed" /\ j \notin stopping
  /\ m.state \in {"evaluate", "done"} => m.last = m.iteration /\ bodies[m.last] = "completed"
  /\ m.state = "done" => m.last \in stopping

ProgressIsBacked ==
  Backed(fsm, body, stops) /\ \A w \in Executors : Backed(Machine(w), body, stops)

\* A completed run passed its loop, and its loop's attempt is final: no
\* executor reopens it or replaces its output.
CompletionIsFinal ==
  [][ /\ attempt.status = "completed" => attempt' = attempt
      /\ runStatus' = "completed" => attempt.status = "completed" ]_vars

\* As its outcome is read, the region is a bounded loop: the rounds are the
\* committed bodies and the result is the output of the committed attempt, so
\* a body is committed only in its turn, and never behind the loop's output.
Loop == INSTANCE BoundedLoop WITH
  rounds <- {i \in Iterations : body[i] = "completed"},
  enough <- stops,
  result <- IF attempt.status = "completed" THEN attempt.output ELSE -1,
  Open <- -1
ImplementsBoundedLoop == Loop!Spec

\* The loop ends: an executor that keeps its process leaves the region in a
\* bounded number of iterations, whatever stale state it resumed from, so a
\* running run is settled unless its last executor crashed.
LoopEnds == \A w \in Executors : ~At(w, "idle") ~> At(w, "idle")

\* The loop completes only with an output its termination query accepted: a
\* capped loop yields no output (loop.test.ts), and neither does a failed one.
\* The undefined output is left out, being refused by some workflows.
LoopCompletesOnlyOnTermination ==
  attempt.status = "completed" => attempt.output \in stops \cup {0}
=============================================================================
