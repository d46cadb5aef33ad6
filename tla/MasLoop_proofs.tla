--------------------------- MODULE MasLoop_proofs ---------------------------
(***************************************************************************)
(* What holds of MasLoop for every cap, every number of executors and      *)
(* every number of claims.                                                 *)
(***************************************************************************)
EXTENDS MasLoop, TLAPS

\* Of two executors at work the later claim is the newer one, so at most one
\* is fenced in.
ClaimsInv ==
  /\ \A w \in Executors : executor[w].claim <= claimSeq
  /\ \A v, w \in Executors :
       v # w /\ ~At(v, "idle") /\ ~At(w, "idle") => executor[v].claim # executor[w].claim

\* Where an executor stands with the body of its machine's iteration: the
\* fenced one finds it as it left it.
Placed(r, seq, bodies) ==
  /\ r.pc \in {"body", "committed", "bodyfailed"} => r.machine.state = "body"
  /\ r.pc = "body" /\ r.claim = seq => bodies[r.machine.iteration] = "running"
  /\ r.pc = "committed" => bodies[r.machine.iteration] = "completed"

PlaceInv == \A w \in Executors : Placed(executor[w], claimSeq, body)

\* A run is completed by an executor that saw its loop completed.
CompletionInv ==
  /\ runStatus = "completed" => attempt.status = "completed"
  /\ \A w \in Executors : At(w, "complete") => attempt.status = "completed"

LoopInv == ClaimsInv /\ PlaceInv /\ BodiesInOrder /\ ProgressIsBacked /\ CompletionInv

-----------------------------------------------------------------------------
(* Types. *)

\* The constants' assumptions in the form the leaves use.
LEMMA CapIsNat == Cap \in Nat /\ 1 <= Cap /\ MaxClaims \in Nat /\ 1 <= MaxClaims
BY LoopAssumption

\* A run starts with every row and machine in its range.
LEMMA TypeInit == Init => TypeOK
BY CapIsNat DEF Init, TypeOK, Ready, Idle, Machines, MachineStates, Pcs, Iterations

Records == [pc : Pcs, claim : 0..MaxClaims, machine : Machines]

\* What the executor's moves make of its record.
LEMMA MoveTypes ==
  ASSUME TypeOK, NEW w \in Executors
  PROVE  /\ \A pc \in Pcs : Goto(w, pc) => executor' \in [Executors -> Records]
         /\ \A m \in Machines, next \in Pcs :
              Save(w, m, next) => executor' \in [Executors -> Records] /\ fsm' \in Machines
         /\ executor' = [executor EXCEPT ![w] = Idle] => executor' \in [Executors -> Records]
<1>0. executor \in [Executors -> Records] /\ fsm \in Machines BY DEF TypeOK, Records
<1>1. ASSUME NEW r \in Records, executor' = [executor EXCEPT ![w] = r]
      PROVE  executor' \in [Executors -> Records]
  BY <1>0, <1>1
<1>2. ASSUME NEW pc \in Pcs, NEW m \in Machines
      PROVE  /\ [executor[w] EXCEPT !.pc = pc] \in Records
             /\ [executor[w] EXCEPT !.machine = m, !.pc = pc] \in Records
  BY <1>0, <1>2 DEF Records
<1>3. Idle \in Records BY CapIsNat DEF Idle, Ready, Records, Machines, MachineStates, Pcs
<1>4. ASSUME NEW pc \in Pcs, Goto(w, pc) PROVE executor' \in [Executors -> Records]
  BY <1>1, <1>2, <1>4, <1>0 DEF Goto, Records
<1>5. ASSUME NEW m \in Machines, NEW next \in Pcs, Save(w, m, next)
      PROVE  executor' \in [Executors -> Records] /\ fsm' \in Machines
  <2>1. \/ executor' = [executor EXCEPT ![w] = [@ EXCEPT !.machine = m, !.pc = next]] /\ fsm' = m
        \/ executor' = [executor EXCEPT ![w] = Idle] /\ fsm' = fsm
        \/ executor' = [executor EXCEPT ![w] = [@ EXCEPT !.pc = "failloop"]] /\ fsm' = fsm
    BY <1>5 DEF Save
  <2>2. CASE executor' = [executor EXCEPT ![w] = [@ EXCEPT !.machine = m, !.pc = next]] /\ fsm' = m
    BY <1>1, <1>2, <2>2
  <2>3. CASE executor' = [executor EXCEPT ![w] = Idle] /\ fsm' = fsm
    BY <1>0, <1>1, <1>3, <2>3
  <2>4. CASE executor' = [executor EXCEPT ![w] = [@ EXCEPT !.pc = "failloop"]] /\ fsm' = fsm
    <3>1. [executor[w] EXCEPT !.pc = "failloop"] \in Records BY <1>0 DEF Records, Pcs
    <3> QED BY <1>0, <1>1, <2>4, <3>1
  <2> QED BY <2>1, <2>2, <2>3, <2>4
<1> QED BY <1>1, <1>3, <1>4, <1>5

\* No action takes a row, claim or machine out of its range.
LEMMA TypeStep == ASSUME TypeOK, [Next]_vars PROVE TypeOK'
<1> USE CapIsNat
<1>0. executor \in [Executors -> Records] BY DEF TypeOK, Records
<1>1. CASE UNCHANGED vars BY <1>1 DEF vars, TypeOK
<1>2. CASE Cancel BY <1>2 DEF Cancel, TypeOK
<1>3. ASSUME NEW w \in Executors, Claim(w) PROVE TypeOK'
  <2>1. claimSeq + 1 \in 0..MaxClaims BY <1>3 DEF Claim, TypeOK
  <2>2. Ready \in Machines BY DEF Ready, Machines, MachineStates
  <2>3. [pc |-> "begin", claim |-> claimSeq + 1, machine |-> Ready] \in Records
    BY <2>1, <2>2 DEF Records, Pcs
  <2>4. executor' \in [Executors -> Records] BY <1>0, <1>3, <2>3 DEF Claim
  <2> QED BY <1>3, <2>1, <2>4 DEF Claim, TypeOK, Records
<1>4. ASSUME NEW w \in Executors, Crash(w) \/ Settle(w) PROVE TypeOK'
  <2>1. executor' \in [Executors -> Records] BY <1>4, MoveTypes DEF Crash, Settle
  <2> QED BY <1>4, <2>1 DEF Crash, Settle, store, TypeOK, Records
<1>5. ASSUME NEW w \in Executors, BeginLoop(w) \/ FailLoop(w) \/ CommitLoop(w) \/ LeaveLoop(w)
      PROVE  TypeOK'
  <2>1. \E pc \in Pcs : Goto(w, pc)
    BY <1>5 DEF BeginLoop, FailLoop, CommitLoop, LeaveLoop, Pcs
  <2>2. executor' \in [Executors -> Records] BY <2>1, MoveTypes
  <2>3. executor[w].claim \in 0..MaxClaims /\ Machine(w) \in Machines
    BY <1>0 DEF Records, Machine
  <2>4. attempt' \in [status : {"absent", "running", "completed", "failed"},
                      claim : 0..MaxClaims, output : 0..(Cap + 1)]
    <3>1. CASE BeginLoop(w) BY <2>3, <3>1 DEF BeginLoop, TypeOK
    <3>2. CASE FailLoop(w) BY <3>2 DEF FailLoop, TypeOK
    <3>3. CASE CommitLoop(w) BY <2>3, <3>3 DEF CommitLoop, TypeOK, Machines
    <3>4. CASE LeaveLoop(w) BY <3>4 DEF LeaveLoop, store, TypeOK
    <3> QED BY <1>5, <3>1, <3>2, <3>3, <3>4
  <2> QED BY <1>5, <2>2, <2>4 DEF BeginLoop, FailLoop, CommitLoop, LeaveLoop, store, TypeOK, Records
<1>6. ASSUME NEW w \in Executors, Load(w) PROVE TypeOK'
  <2>1. executor' = [executor EXCEPT ![w] = [@ EXCEPT !.machine = fsm, !.pc = "loop"]]
    BY <1>6 DEF Load
  <2>2. [executor[w] EXCEPT !.machine = fsm, !.pc = "loop"] \in Records
    <3>1. "loop" \in Pcs /\ fsm \in Machines BY DEF Pcs, TypeOK
    <3> QED BY <1>0, <3>1 DEF Records
  <2>3. executor' \in [Executors -> Records] BY <1>0, <2>1, <2>2
  <2> QED BY <1>6, <2>3 DEF Load, store, TypeOK, Records
<1>7. ASSUME NEW w \in Executors,
             Dispatch(w) \/ BodyCommitted(w) \/ BodyFailed(w) \/ Evaluate(w)
      PROVE  TypeOK'
  <2>1. \E m \in Machines, next \in Pcs : Save(w, m, next)
    <3>0. Machine(w) \in Machines BY <1>0 DEF Records, Machine
    <3>1. CASE Dispatch(w)
      <4>1. [state |-> "body", iteration |-> 1, last |-> 0] \in Machines
        BY DEF Machines, MachineStates
      <4> QED BY <3>1, <4>1 DEF Dispatch, Pcs
    <3>2. CASE BodyCommitted(w)
      <4>1. [Machine(w) EXCEPT !.state = "evaluate", !.last = Machine(w).iteration] \in Machines
        BY <3>0 DEF Machines, MachineStates
      <4> QED BY <3>2, <4>1 DEF BodyCommitted, Pcs
    <3>3. CASE BodyFailed(w)
      <4>1. [Machine(w) EXCEPT !.state = "failed"] \in Machines
        BY <3>0 DEF Machines, MachineStates
      <4> QED BY <3>3, <4>1 DEF BodyFailed, Pcs
    <3>4. CASE Evaluate(w)
      <4> DEFINE m == Machine(w)
      <4>1. \/ Save(w, [m EXCEPT !.state = "done"], "commit")
            \/ Save(w, [m EXCEPT !.state = "failed"], "failloop")
            \/ /\ ~(m.iteration + 1 > Cap)
               /\ Save(w, [m EXCEPT !.state = "body", !.iteration = @ + 1], "loop")
        BY <3>4 DEF Evaluate, Capped
      <4> HIDE DEF m
      <4>2. m \in Machines BY <3>0 DEF m
      <4>3. [m EXCEPT !.state = "done"] \in Machines BY <4>2 DEF Machines, MachineStates
      <4>4. [m EXCEPT !.state = "failed"] \in Machines BY <4>2 DEF Machines, MachineStates
      <4>5. ~(m.iteration + 1 > Cap) => [m EXCEPT !.state = "body", !.iteration = @ + 1] \in Machines
        <5> SUFFICES ASSUME ~(m.iteration + 1 > Cap)
                     PROVE  [m EXCEPT !.state = "body", !.iteration = @ + 1] \in Machines
          OBVIOUS
        <5> DEFINE n == m.iteration + 1
        <5>1. n \in 0..(Cap + 1) BY <4>2 DEF Machines
        <5> HIDE DEF n
        <5>2. [m EXCEPT !.state = "body", !.iteration = n] \in Machines
          BY <4>2, <5>1 DEF Machines, MachineStates
        <5> QED BY <5>2 DEF n
      <4>6. {"commit", "failloop", "loop"} \subseteq Pcs BY DEF Pcs
      <4> QED BY <4>1, <4>3, <4>4, <4>5, <4>6
    <3> QED BY <1>7, <3>1, <3>2, <3>3, <3>4
  <2>2. executor' \in [Executors -> Records] /\ fsm' \in Machines BY <2>1, MoveTypes
  <2>3. UNCHANGED <<claimSeq, attempt, body, stops, runStatus>>
    BY <1>7 DEF Dispatch, BodyCommitted, BodyFailed, Evaluate
  <2> QED BY <2>2, <2>3 DEF TypeOK, Records
<1>8. ASSUME NEW w \in Executors, BeginBody(w) \/ CommitBody(w) \/ BreakBody(w) PROVE TypeOK'
  <2>1. \E pc \in Pcs : Goto(w, pc) BY <1>8 DEF BeginBody, CommitBody, BreakBody, Pcs
  <2>2. executor' \in [Executors -> Records] BY <2>1, MoveTypes
  <2>3. UNCHANGED <<runStatus, claimSeq, fsm, attempt>>
    BY <1>8 DEF BeginBody, CommitBody, BreakBody
  <2>4. body' \in [Iterations -> {"absent", "running", "completed", "failed"}]
    BY <1>8 DEF BeginBody, CommitBody, BreakBody, TypeOK
  <2>5. Machine(w).iteration \in 0..(Cap + 1) BY <1>0 DEF Records, Machine, Machines
  <2>6. stops' \subseteq 0..(Cap + 1)
    BY <1>8, <2>5 DEF BeginBody, CommitBody, BreakBody, TypeOK
  <2> QED BY <2>2, <2>3, <2>4, <2>6 DEF TypeOK, Records
<1> QED BY <1>1, <1>2, <1>3, <1>4, <1>5, <1>6, <1>7, <1>8 DEF Next, Executor

\* Every row and machine of the loop stays in its range.
THEOREM TypeCorrect == Spec => []TypeOK
<1>1. TypeOK /\ [Next]_vars => TypeOK' BY TypeStep
<1> QED BY <1>1, TypeInit, PTL DEF Spec

-----------------------------------------------------------------------------
(* The inductive step. *)

\* Progress already recorded survives a change of the one body that is not
\* completed, and of what is known about that body's output.
LEMMA BackedSurvives ==
  ASSUME NEW m \in Machines, NEW bodies \in [Iterations -> {"absent", "running", "completed", "failed"}],
         NEW stopping, NEW stopping2, NEW i, NEW x,
         Backed(m, bodies, stopping), bodies[i] # "completed",
         stopping \subseteq stopping2, stopping2 \subseteq stopping \cup {i}
  PROVE  Backed(m, [bodies EXCEPT ![i] = x], stopping2)
<1>1. \A j \in Iterations : j # i => [bodies EXCEPT ![i] = x][j] = bodies[j] OBVIOUS
<1>2. m.iteration \in 0..(Cap + 1) BY DEF Machines
<1>3. \A j \in 1..(m.iteration - 1) : j \in Iterations BY <1>2, CapIsNat DEF Iterations
<1>4. m.iteration \in 1..Cap => m.iteration \in Iterations BY CapIsNat DEF Iterations
<1> QED BY <1>1, <1>2, <1>3, <1>4 DEF Backed

\* A step that leaves claims and bodies alone and puts one executor, or the
\* persisted machine, in a backed place.
LEMMA MachineStep ==
  ASSUME TypeOK, LoopInv, NEW w \in Executors, NEW r \in Records,
         executor' = [executor EXCEPT ![w] = r],
         UNCHANGED <<claimSeq, body, stops>>,
         \/ r.pc = "idle" /\ r.claim <= claimSeq
         \/ executor[w].pc # "idle" /\ r.claim = executor[w].claim,
         Placed(r, claimSeq, body),
         Backed(r.machine, body, stops), Backed(fsm', body, stops)
  PROVE  ClaimsInv' /\ PlaceInv' /\ BodiesInOrder' /\ ProgressIsBacked'
<1>1. executor'[w] = r /\ \A v \in Executors \ {w} : executor'[v] = executor[v]
  BY DEF TypeOK
<1>2. ClaimsInv' BY <1>1 DEF LoopInv, ClaimsInv, At
<1>3. PlaceInv' BY <1>1 DEF LoopInv, PlaceInv
<1>4. BodiesInOrder' BY DEF LoopInv, BodiesInOrder
<1>5. ProgressIsBacked' BY <1>1 DEF LoopInv, ProgressIsBacked, Machine
<1> QED BY <1>2, <1>3, <1>4, <1>5

\* A step of the fenced executor on the body of its machine's iteration.
LEMMA BodyStep ==
  ASSUME TypeOK, LoopInv, NEW w \in Executors, Fenced(w), executor[w].pc # "idle",
         NEW pc \in Pcs, Goto(w, pc),
         Machine(w).state = "body",
         NEW x, x # "absent",
         body[Machine(w).iteration] # "completed",
         body' = [body EXCEPT ![Machine(w).iteration] = x],
         stops \subseteq stops', stops' \subseteq stops \cup {Machine(w).iteration},
         pc = "body" => x = "running", pc = "committed" => x = "completed", pc # "idle",
         UNCHANGED <<claimSeq, fsm>>
  PROVE  ClaimsInv' /\ PlaceInv' /\ BodiesInOrder' /\ ProgressIsBacked'
<1> DEFINE i == Machine(w).iteration
<1>0. /\ executor \in [Executors -> Records] /\ fsm \in Machines
      /\ body \in [Iterations -> {"absent", "running", "completed", "failed"}]
      /\ claimSeq \in Nat
  BY CapIsNat DEF TypeOK, Records
<1>1. /\ executor'[w].pc = pc /\ executor'[w].claim = executor[w].claim
      /\ executor'[w].machine = executor[w].machine
      /\ \A v \in Executors \ {w} : executor'[v] = executor[v]
  BY <1>0 DEF Goto, Records
<1>2. Backed(Machine(w), body, stops) /\ i \in 1..Cap
  BY DEF LoopInv, ProgressIsBacked, Backed
<1>3. i \in Iterations BY <1>2, CapIsNat DEF Iterations
<1>4. ClaimsInv' BY <1>1 DEF LoopInv, ClaimsInv, At
<1>5. PlaceInv'
  <2>1. ASSUME NEW v \in Executors, v # w PROVE Placed(executor[v], claimSeq, body')
    <3>1. executor[v].pc # "idle" => executor[v].claim # claimSeq
      BY <2>1 DEF LoopInv, ClaimsInv, At, Fenced
    <3>2. Placed(executor[v], claimSeq, body) BY DEF LoopInv, PlaceInv
    <3>3. executor[v].pc = "committed" => executor[v].machine.iteration # i
      BY <3>2 DEF Placed
    <3>4. executor[v].pc = "committed" => executor[v].machine.iteration \in Iterations
      BY <3>2, CapIsNat DEF Placed, LoopInv, ProgressIsBacked, Backed, Machine, Iterations
    <3> QED BY <1>0, <3>1, <3>2, <3>3, <3>4 DEF Placed
  <2>2. Placed(executor'[w], claimSeq, body')
    BY <1>0, <1>1, <1>3 DEF Placed, Machine
  <2> QED BY <1>1, <2>1, <2>2 DEF PlaceInv
<1>6. BodiesInOrder'
  <2> SUFFICES ASSUME NEW j \in Iterations, body'[j] # "absent"
               PROVE  j <= Cap /\ \A k \in 1..(j - 1) : body'[k] = "completed" /\ k \notin stops'
    BY DEF BodiesInOrder
  <2>1. CASE j = i
    <3>1. \A k \in 1..(i - 1) : k \in Iterations /\ k # i BY <1>2, CapIsNat DEF Iterations
    <3> QED BY <1>0, <1>2, <2>1, <3>1 DEF Backed
  <2>2. CASE j # i
    <3>1. body[j] # "absent" BY <1>0, <2>2
    <3>2. j <= Cap /\ \A k \in 1..(j - 1) : body[k] = "completed" /\ k \notin stops
      BY <3>1 DEF LoopInv, BodiesInOrder
    <3>3. \A k \in 1..(j - 1) : k \in Iterations /\ k # i BY <3>2, CapIsNat DEF Iterations
    <3> QED BY <1>0, <3>2, <3>3
  <2> QED BY <2>1, <2>2
<1>7. ProgressIsBacked'
  <2>1. Backed(fsm, body', stops')
    BY <1>0, BackedSurvives DEF LoopInv, ProgressIsBacked
  <2>2. \A v \in Executors : Backed(executor[v].machine, body', stops')
    <3> TAKE v \in Executors
    <3>1. executor[v].machine \in Machines BY <1>0 DEF Records
    <3> QED BY <1>0, <3>1, BackedSurvives DEF LoopInv, ProgressIsBacked, Machine
  <2>3. \A v \in Executors : executor'[v].machine = executor[v].machine BY <1>1
  <2> QED BY <2>1, <2>2, <2>3 DEF ProgressIsBacked, Machine
<1> QED BY <1>4, <1>5, <1>6, <1>7

\* No step but a claim changes claims, and the other steps keep the invariant's
\* four parts about claims, places and bodies.
LEMMA ProgressStep ==
  ASSUME TypeOK, LoopInv, [Next]_vars
  PROVE  ClaimsInv' /\ PlaceInv' /\ BodiesInOrder' /\ ProgressIsBacked'
<1> DEFINE Kept == ClaimsInv' /\ PlaceInv' /\ BodiesInOrder' /\ ProgressIsBacked'
<1>0. /\ executor \in [Executors -> Records] /\ fsm \in Machines
      /\ claimSeq \in Nat /\ Idle \in Records
  BY CapIsNat DEF TypeOK, Records, Idle, Ready, Machines, MachineStates, Pcs
<1>1. /\ Backed(fsm, body, stops)
      /\ \A w \in Executors : /\ Backed(executor[w].machine, body, stops)
                              /\ Placed(executor[w], claimSeq, body)
  BY DEF LoopInv, ProgressIsBacked, PlaceInv, Machine
<1>2. Placed(Idle, claimSeq, body) /\ Backed(Idle.machine, body, stops)
  BY DEF Placed, Backed, Idle, Ready
<1>3. ASSUME UNCHANGED <<claimSeq, fsm, body, stops, executor>> PROVE Kept
  BY <1>3 DEF LoopInv, ClaimsInv, PlaceInv, BodiesInOrder, ProgressIsBacked, At, Machine
<1>4. ASSUME NEW w \in Executors, Claim(w) PROVE Kept
  <2> DEFINE r == [pc |-> "begin", claim |-> claimSeq + 1, machine |-> Ready]
  <2>1. /\ executor' = [executor EXCEPT ![w] = r] /\ claimSeq' = claimSeq + 1
        /\ UNCHANGED <<fsm, body, stops>>
    BY <1>4 DEF Claim
  <2>2. executor'[w] = r /\ \A v \in Executors \ {w} : executor'[v] = executor[v]
    BY <1>0, <2>1
  <2>3. ClaimsInv' BY <1>0, <2>1, <2>2 DEF LoopInv, ClaimsInv, At, Records
  <2>4. \A v \in Executors : Placed(executor[v], claimSeq + 1, body)
    BY <1>0, <1>1 DEF Placed, LoopInv, ClaimsInv, Records
  <2>5. PlaceInv' BY <2>1, <2>2, <2>4 DEF PlaceInv, Placed
  <2>6. Backed(r.machine, body, stops) BY DEF Backed, Ready
  <2>7. ProgressIsBacked' BY <1>1, <2>1, <2>2, <2>6 DEF ProgressIsBacked, Machine
  <2>8. BodiesInOrder' BY <2>1 DEF LoopInv, BodiesInOrder
  <2> QED BY <2>3, <2>5, <2>7, <2>8
\* A step that only moves an executor on, with its machine.
<1>5. ASSUME NEW w \in Executors, NEW pc \in Pcs \ {"body", "committed", "bodyfailed"},
             Goto(w, pc), ~At(w, "idle"), UNCHANGED <<claimSeq, fsm, body, stops>>
      PROVE  Kept
  <2> DEFINE r == [executor[w] EXCEPT !.pc = pc]
  <2>1. executor' = [executor EXCEPT ![w] = r] BY <1>5 DEF Goto
  <2>2. /\ r \in Records /\ r.pc = pc /\ r.claim = executor[w].claim
        /\ r.machine = executor[w].machine
    BY <1>0, <1>5 DEF Records
  <2> HIDE DEF r
  <2>3. Placed(r, claimSeq, body) BY <1>5, <2>2 DEF Placed
  <2> QED BY <1>1, <1>5, <2>1, <2>2, <2>3, MachineStep DEF At
\* A move of the machine: whatever the outcome, what is recorded is backed.
<1>6. ASSUME NEW w \in Executors, NEW m \in Machines,
             NEW next \in Pcs \ {"body", "committed", "bodyfailed"},
             Save(w, m, next), ~At(w, "idle"), Backed(m, body, stops),
             UNCHANGED <<claimSeq, body, stops>>
      PROVE  Kept
  <2>1. CASE fsm' = m /\ executor' = [executor EXCEPT ![w] = [@ EXCEPT !.machine = m, !.pc = next]]
    <3> DEFINE r == [executor[w] EXCEPT !.machine = m, !.pc = next]
    <3>1. executor' = [executor EXCEPT ![w] = r] BY <2>1
    <3>2. r \in Records /\ r.pc = next /\ r.claim = executor[w].claim /\ r.machine = m
      BY <1>0, <1>6 DEF Records
    <3> HIDE DEF r
    <3>3. Placed(r, claimSeq, body) BY <1>6, <3>2 DEF Placed
    <3> QED BY <1>6, <2>1, <3>1, <3>2, <3>3, MachineStep DEF At
  <2>2. CASE fsm' = fsm /\ executor' = [executor EXCEPT ![w] = Idle]
    <3>1. Idle.pc = "idle" /\ Idle.claim <= claimSeq BY <1>0 DEF Idle
    <3> QED BY <1>0, <1>1, <1>2, <1>6, <2>2, <3>1, MachineStep
  <2>3. CASE fsm' = fsm /\ Goto(w, "failloop")
    BY <1>5, <1>6, <2>3 DEF Pcs
  <2> QED BY <1>6, <2>1, <2>2, <2>3 DEF Save, Goto
<1>7. ASSUME NEW w \in Executors, Executor(w) \/ Crash(w) PROVE Kept
  <2>1. CASE Crash(w) \/ Settle(w)
    <3>1. Idle.pc = "idle" /\ Idle.claim <= claimSeq BY <1>0 DEF Idle
    <3>2. executor' = [executor EXCEPT ![w] = Idle] /\ UNCHANGED <<claimSeq, fsm, body, stops>>
      BY <2>1 DEF Crash, Settle, store
    <3> QED BY <1>0, <1>1, <1>2, <3>1, <3>2, MachineStep
  <2>2. CASE BeginLoop(w) \/ FailLoop(w) \/ CommitLoop(w) \/ LeaveLoop(w)
    <3>1. \E pc \in Pcs \ {"body", "committed", "bodyfailed"} : Goto(w, pc)
      BY <2>2 DEF BeginLoop, FailLoop, CommitLoop, LeaveLoop, Pcs
    <3>2. ~At(w, "idle") /\ UNCHANGED <<claimSeq, fsm, body, stops>>
      BY <2>2 DEF BeginLoop, FailLoop, CommitLoop, LeaveLoop, InLoop, At, store
    <3> QED BY <1>5, <3>1, <3>2
  <2>3. CASE Load(w)
    <3> DEFINE r == [executor[w] EXCEPT !.machine = fsm, !.pc = "loop"]
    <3>1. executor' = [executor EXCEPT ![w] = r] /\ UNCHANGED <<claimSeq, fsm, body, stops>>
      BY <2>3 DEF Load, store
    <3>2. r \in Records /\ r.pc = "loop" /\ r.claim = executor[w].claim /\ r.machine = fsm
      BY <1>0 DEF Records, Pcs
    <3> HIDE DEF r
    <3>3. Placed(r, claimSeq, body) BY <3>2 DEF Placed
    <3> QED BY <1>1, <2>3, <3>1, <3>2, <3>3, MachineStep DEF Load, At
  <2>4. CASE BeginBody(w)
    <3> DEFINE i == Machine(w).iteration
    <3>1. /\ ~At(w, "idle") /\ Machine(w).state = "body"
          /\ UNCHANGED <<claimSeq, fsm, stops>>
      BY <2>4 DEF BeginBody, InLoop, At
    <3>2. CASE body[i] = "completed" /\ Goto(w, "committed") /\ UNCHANGED body
      <4>1. Placed([executor[w] EXCEPT !.pc = "committed"], claimSeq, body)
        BY <1>0, <3>1, <3>2 DEF Placed, Records, Machine
      <4> QED BY <1>0, <1>1, <3>1, <3>2, <4>1, MachineStep DEF Goto, Records, Pcs, At
    <3>3. CASE Goto(w, "bodyfailed") /\ UNCHANGED body
      <4>1. Placed([executor[w] EXCEPT !.pc = "bodyfailed"], claimSeq, body)
        BY <1>0, <3>1 DEF Placed, Records, Machine
      <4> QED BY <1>0, <1>1, <3>1, <3>3, <4>1, MachineStep DEF Goto, Records, Pcs, At
    <3>4. CASE /\ Holds(w) /\ body[i] # "completed" /\ Goto(w, "body")
               /\ body' = [body EXCEPT ![i] = "running"]
      BY <3>1, <3>4, BodyStep DEF Holds, Pcs, At
    <3> QED BY <2>4, <3>2, <3>3, <3>4 DEF BeginBody
  <2>5. CASE CommitBody(w) \/ BreakBody(w)
    <3> DEFINE i == Machine(w).iteration
    <3>1. /\ executor[w].pc = "body" /\ Machine(w).state = "body" /\ UNCHANGED <<claimSeq, fsm>>
      BY <1>1, <2>5 DEF CommitBody, BreakBody, At, Placed, Machine
    <3>2. CASE Holds(w)
      <4>1. body[i] = "running" BY <1>1, <3>1, <3>2 DEF Placed, Holds, Fenced, Machine
      <4>2. CASE CommitBody(w)
        <5>1. /\ Goto(w, "committed") /\ body' = [body EXCEPT ![i] = "completed"]
              /\ stops \subseteq stops' /\ stops' \subseteq stops \cup {i}
          BY <3>2, <4>2 DEF CommitBody
        <5> QED BY <3>1, <3>2, <4>1, <5>1, BodyStep DEF Holds, Pcs
      <4>3. CASE BreakBody(w)
        <5>1. /\ Goto(w, "bodyfailed") /\ body' = [body EXCEPT ![i] = "failed"]
              /\ stops \subseteq stops' /\ stops' \subseteq stops \cup {i}
          BY <3>2, <4>3 DEF BreakBody
        <5> QED BY <3>1, <3>2, <4>1, <5>1, BodyStep DEF Holds, Pcs
      <4> QED BY <2>5, <4>2, <4>3
    <3>3. CASE ~Holds(w)
      <4>1. Goto(w, "bodyfailed") /\ UNCHANGED <<body, stops>>
        BY <2>5, <3>3 DEF CommitBody, BreakBody
      <4>2. Placed([executor[w] EXCEPT !.pc = "bodyfailed"], claimSeq, body)
        BY <1>0, <3>1 DEF Placed, Records, Machine
      <4> QED BY <1>0, <1>1, <3>1, <4>1, <4>2, MachineStep DEF Goto, Records, Pcs
    <3> QED BY <3>2, <3>3
  <2>6. CASE Dispatch(w)
    <3> DEFINE m == [state |-> "body", iteration |-> 1, last |-> 0]
    <3>1. m \in Machines /\ Backed(m, body, stops)
      BY CapIsNat DEF Machines, MachineStates, Backed
    <3> QED BY <1>6, <2>6, <3>1 DEF Dispatch, InLoop, At, Pcs
  <2>7. CASE BodyCommitted(w)
    <3> DEFINE m == [Machine(w) EXCEPT !.state = "evaluate", !.last = Machine(w).iteration]
    <3>1. m \in Machines BY <1>0 DEF Machine, Records, Machines, MachineStates
    <3>2. Machine(w).state = "body" /\ body[Machine(w).iteration] = "completed"
      BY <1>1, <2>7 DEF BodyCommitted, At, Placed, Machine
    <3>3. Backed(m, body, stops) BY <1>0, <1>1, <3>2 DEF Backed, Machine, Records, Machines
    <3> QED BY <1>6, <2>7, <3>1, <3>3 DEF BodyCommitted, At, Pcs
  <2>8. CASE BodyFailed(w)
    <3> DEFINE m == [Machine(w) EXCEPT !.state = "failed"]
    <3>1. m \in Machines /\ Backed(m, body, stops)
      BY <1>0 DEF Machine, Records, Machines, MachineStates, Backed
    <3> QED BY <1>6, <2>8, <3>1 DEF BodyFailed, At, Pcs
  <2>9. CASE Evaluate(w)
    <3> DEFINE m == executor[w].machine
    <3>1. m \in Machines BY <1>0 DEF Records
    <3>2. /\ At(w, "loop") /\ m.state = "evaluate" /\ UNCHANGED <<claimSeq, body, stops>>
          /\ \/ m.last \in stops /\ Save(w, [m EXCEPT !.state = "done"], "commit")
             \/ Save(w, [m EXCEPT !.state = "failed"], "failloop")
             \/ /\ m.last \notin stops /\ ~(m.iteration + 1 > Cap)
                /\ Save(w, [m EXCEPT !.state = "body", !.iteration = @ + 1], "loop")
      BY <2>9, Zenon DEF Evaluate, Capped, InLoop, Machine
    <3>3. Backed(m, body, stops) BY <1>1
    <3>4. ~At(w, "idle") /\ {"commit", "failloop", "loop"} \subseteq Pcs \ {"body", "committed", "bodyfailed"}
      BY <3>2 DEF At, Pcs
    <3> HIDE DEF m
    <3>5. ASSUME m.last \in stops, Save(w, [m EXCEPT !.state = "done"], "commit") PROVE Kept
      <4> DEFINE n == [m EXCEPT !.state = "done"]
      <4>1. n \in Machines BY <3>1 DEF Machines, MachineStates
      <4>2. Backed(n, body, stops) BY <3>1, <3>2, <3>3, <3>5 DEF Backed, Machines
      <4> HIDE DEF n
      <4>3. Save(w, n, "commit") BY <3>5 DEF n
      <4> QED BY <1>6, <3>2, <3>4, <4>1, <4>2, <4>3
    <3>6. ASSUME Save(w, [m EXCEPT !.state = "failed"], "failloop") PROVE Kept
      <4> DEFINE n == [m EXCEPT !.state = "failed"]
      <4>1. n \in Machines /\ Backed(n, body, stops)
        BY <3>1 DEF Machines, MachineStates, Backed
      <4> HIDE DEF n
      <4>2. Save(w, n, "failloop") BY <3>6 DEF n
      <4> QED BY <1>6, <3>2, <3>4, <4>1, <4>2
    <3>7. ASSUME m.last \notin stops, ~(m.iteration + 1 > Cap),
                 Save(w, [m EXCEPT !.state = "body", !.iteration = @ + 1], "loop")
          PROVE  Kept
      <4> DEFINE k == m.iteration + 1
                 n == [m EXCEPT !.state = "body", !.iteration = k]
      <4>0. m.iteration \in 1..Cap BY <3>2, <3>3 DEF Backed
      <4>1. k \in 1..Cap /\ k \in 0..(Cap + 1) /\ k - 1 = m.iteration
        BY <3>7, <4>0, CapIsNat
      <4>2. \A j \in 1..m.iteration : body[j] = "completed" /\ j \notin stops
        BY <3>2, <3>3, <3>7, <4>1 DEF Backed
      <4> HIDE DEF k
      <4>3. n \in Machines /\ n.state = "body" /\ n.iteration = k
        BY <3>1, <4>1 DEF Machines, MachineStates
      <4> HIDE DEF n
      <4>4. Backed(n, body, stops) BY <4>1, <4>2, <4>3 DEF Backed
      <4>5. Save(w, n, "loop") BY <3>7 DEF n, k
      <4> QED BY <1>6, <3>2, <3>4, <4>3, <4>4, <4>5
    <3> QED BY <3>2, <3>5, <3>6, <3>7
  <2> QED BY <1>7, <2>1, <2>2, <2>3, <2>4, <2>5, <2>6, <2>7, <2>8, <2>9 DEF Executor
<1> QED BY <1>3, <1>4, <1>7 DEF Next, Cancel, vars

\* The completed loop's attempt stands, and who settles a run as completed saw it.
LEMMA CompletionStep ==
  ASSUME TypeOK, LoopInv, [Next]_vars
  PROVE  /\ attempt.status = "completed" => attempt' = attempt
         /\ runStatus' = "completed" => attempt.status = "completed"
         /\ \A w \in Executors :
              executor'[w].pc = "complete" => attempt'.status = "completed"
<1>0. /\ executor \in [Executors -> Records]
      /\ runStatus = "completed" => attempt.status = "completed"
      /\ \A w \in Executors : executor[w].pc = "complete" => attempt.status = "completed"
  BY DEF TypeOK, Records, LoopInv, CompletionInv, At
<1>1. attempt.status = "completed" => attempt' = attempt
  <2>1. ASSUME NEW w \in Executors, BeginLoop(w) \/ CommitLoop(w) \/ FailLoop(w)
        PROVE  attempt.status = "completed" => attempt' = attempt
    BY <2>1, Zenon DEF BeginLoop, CommitLoop, FailLoop, Mine
  <2>2. ASSUME NEW w \in Executors, Load(w) \/ Dispatch(w) \/ BeginBody(w) \/ CommitBody(w) \/ BreakBody(w)
        PROVE  UNCHANGED attempt
    BY <2>2, Zenon DEF Load, Dispatch, BeginBody, CommitBody, BreakBody, store
  <2>3. ASSUME NEW w \in Executors, BodyCommitted(w) \/ BodyFailed(w) \/ Evaluate(w) \/ LeaveLoop(w)
        PROVE  UNCHANGED attempt
    BY <2>3, Zenon DEF BodyCommitted, BodyFailed, Evaluate, LeaveLoop, store
  <2>4. ASSUME NEW w \in Executors, Claim(w) \/ Crash(w) \/ Settle(w) PROVE UNCHANGED attempt
    BY <2>4, Zenon DEF Claim, Crash, Settle, store
  <2> QED BY <2>1, <2>2, <2>3, <2>4 DEF Next, Executor, Cancel, vars
<1>2. runStatus' = "completed" => attempt.status = "completed"
  <2>1. ASSUME NEW w \in Executors, Settle(w) PROVE runStatus' = "completed" => attempt.status = "completed"
    BY <1>0, <2>1 DEF Settle, At
  <2>2. CASE \A w \in Executors : ~Settle(w)
    <3>1. runStatus' \in {runStatus, "running", "cancelled"}
      <4>1. ASSUME NEW w \in Executors, Claim(w) \/ Crash(w) \/ Executor(w)
            PROVE  runStatus' \in {runStatus, "running", "cancelled"}
        <5>1. CASE Claim(w) BY <5>1, Zenon DEF Claim
        <5>2. CASE Crash(w) BY <5>2 DEF Crash, store
        <5>3. CASE BeginLoop(w) \/ CommitLoop(w) \/ FailLoop(w) \/ Load(w) \/ Dispatch(w) \/ BeginBody(w)
          BY <5>3, Zenon DEF BeginLoop, CommitLoop, FailLoop, Load, Dispatch, BeginBody, store
        <5>4. CASE \/ CommitBody(w) \/ BreakBody(w) \/ BodyCommitted(w) \/ BodyFailed(w)
                   \/ Evaluate(w) \/ LeaveLoop(w)
          BY <5>4, Zenon DEF CommitBody, BreakBody, BodyCommitted, BodyFailed, Evaluate, LeaveLoop, store
        <5>5. ~Settle(w) BY <2>2
        <5> QED BY <4>1, <5>1, <5>2, <5>3, <5>4, <5>5 DEF Executor
      <4> QED BY <2>2, <4>1 DEF Next, Cancel, vars
    <3> QED BY <1>0, <3>1
  <2> QED BY <2>1, <2>2
<1>3. ASSUME NEW v \in Executors, executor'[v].pc = "complete" PROVE attempt'.status = "completed"
  <2>1. CASE executor[v].pc = "complete" BY <1>0, <1>1, <2>1
  <2>2. CASE executor[v].pc # "complete"
    <3>1. PICK w \in Executors : Claim(w) \/ Crash(w) \/ Executor(w)
      BY <1>3, <2>2 DEF Next, Cancel, vars
    <3>2. CASE attempt.status = "completed" \/ attempt'.status = "completed" BY <1>1, <3>2
    <3>3. CASE \E pc \in Pcs \ {"complete"} : Goto(w, pc)
      BY <1>0, <1>3, <2>2, <3>3 DEF Goto, Records
    <3>4. CASE executor' = [executor EXCEPT ![w] = Idle]
      BY <1>0, <1>3, <2>2, <3>4 DEF Idle
    <3>5. CASE Claim(w)
      BY <1>0, <1>3, <2>2, <3>5 DEF Claim
    <3>6. ASSUME NEW m, NEW pc \in Pcs \ {"complete"},
                 executor' = [executor EXCEPT ![w].machine = m, ![w].pc = pc]
          PROVE  FALSE
      <4> DEFINE r == [executor[w] EXCEPT !.machine = m, !.pc = pc]
      <4>1. executor' = [executor EXCEPT ![w] = r] BY <3>6
      <4>2. r.pc = pc BY <1>0 DEF Records
      <4> HIDE DEF r
      <4> QED BY <1>0, <1>3, <2>2, <3>6, <4>1, <4>2
    <3>7. ASSUME NEW m, NEW pc \in Pcs \ {"complete"}, Save(w, m, pc) PROVE attempt'.status = "completed"
      <4>1. Goto(w, "failloop") \/ executor' = [executor EXCEPT ![w] = Idle]
            \/ executor' = [executor EXCEPT ![w].machine = m, ![w].pc = pc]
        BY <3>7 DEF Save, Goto
      <4> QED BY <3>3, <3>4, <3>6, <4>1 DEF Pcs
    <3>8. CASE Crash(w) \/ Settle(w) BY <3>4, <3>8 DEF Crash, Settle
    <3>9. CASE BeginLoop(w) \/ CommitLoop(w)
      <4>1. {"load", "failrun"} \subseteq Pcs \ {"complete"} BY DEF Pcs
      <4>2. CASE BeginLoop(w) BY <3>2, <3>3, <4>1, <4>2 DEF BeginLoop
      <4>3. CASE CommitLoop(w)
        <5>1. CASE attempt' = [attempt EXCEPT !.status = "completed", !.output = Machine(w).last]
          BY <3>2, <5>1 DEF TypeOK
        <5>2. CASE Goto(w, "failrun") BY <3>3, <4>1, <5>2
        <5> QED BY <4>3, <5>1, <5>2 DEF CommitLoop
      <4> QED BY <3>9, <4>2, <4>3
    <3>10. CASE BeginBody(w) \/ CommitBody(w) \/ BreakBody(w) \/ LeaveLoop(w) \/ FailLoop(w)
      BY <3>3, <3>10 DEF BeginBody, CommitBody, BreakBody, LeaveLoop, FailLoop, Pcs
    <3>11. CASE Load(w)
      <4>1. executor' = [executor EXCEPT ![w].machine = fsm, ![w].pc = "loop"] BY <3>11 DEF Load
      <4>2. "loop" \in Pcs \ {"complete"} BY DEF Pcs
      <4> QED BY <3>6, <4>1, <4>2
    <3>12. CASE Dispatch(w) BY <3>7, <3>12 DEF Dispatch, Pcs
    <3>13. CASE BodyCommitted(w) \/ BodyFailed(w)
      BY <3>7, <3>13 DEF BodyCommitted, BodyFailed, Pcs
    <3>14. CASE Evaluate(w)
      <4>1. \E m : Save(w, m, "commit") \/ Save(w, m, "failloop") \/ Save(w, m, "loop")
        BY <3>14, Zenon DEF Evaluate
      <4> QED BY <3>7, <4>1 DEF Pcs
    <3> QED BY <3>1, <3>5, <3>8, <3>9, <3>10, <3>11, <3>12, <3>13, <3>14 DEF Executor
  <2> QED BY <2>1, <2>2
<1> QED BY <1>1, <1>2, <1>3

-----------------------------------------------------------------------------
(* The theorems. *)

\* Nothing is begun or believed at first, so the invariant holds.
LEMMA LoopInit == Init => LoopInv
<1> SUFFICES ASSUME Init PROVE LoopInv OBVIOUS
<1>1. \A w \in Executors : executor[w] = Idle BY DEF Init
<1>2. /\ Idle.pc = "idle" /\ Idle.claim = 0 /\ Idle.machine = Ready
      /\ Ready.state = "ready" /\ fsm = Ready /\ claimSeq = 0 /\ runStatus = "queued"
      /\ \A i \in Iterations : body[i] = "absent"
  BY DEF Init, Idle, Ready
<1>3. ClaimsInv /\ PlaceInv /\ CompletionInv
  BY <1>1, <1>2 DEF ClaimsInv, PlaceInv, Placed, CompletionInv, At
<1>4. BodiesInOrder /\ ProgressIsBacked
  BY <1>1, <1>2 DEF BodiesInOrder, ProgressIsBacked, Backed, Machine
<1> QED BY <1>3, <1>4 DEF LoopInv

\* Whatever an executor, current or stale, does keeps the invariant.
LEMMA LoopStep == ASSUME TypeOK, LoopInv, [Next]_vars PROVE LoopInv'
<1>1. CompletionInv'
  BY CompletionStep DEF CompletionInv, At
<1> QED BY <1>1, ProgressStep DEF LoopInv

\* Claims, places, bodies and machines stay related as the lemmas above say.
THEOREM LoopInvariant == Spec => []LoopInv
<1>1. TypeOK /\ LoopInv /\ [Next]_vars => LoopInv' BY LoopStep
<1> QED BY <1>1, LoopInit, TypeCorrect, PTL DEF Spec

\* Whatever stale machine state an executor resumes from, bodies run one after
\* another, none past the cap and none after an output that ended the loop.
THEOREM BodiesRunInOrder == Spec => []BodiesInOrder
<1>1. LoopInv => BodiesInOrder BY DEF LoopInv
<1> QED BY <1>1, LoopInvariant, PTL

\* Every machine state, in memory or persisted by whomever, is backed by
\* committed bodies.
THEOREM MachinesAreBacked == Spec => []ProgressIsBacked
<1>1. LoopInv => ProgressIsBacked BY DEF LoopInv
<1> QED BY <1>1, LoopInvariant, PTL

\* A completed loop is final, and no run completes before its loop.
THEOREM CompletionStands == Spec => CompletionIsFinal
<1>1. TypeOK /\ LoopInv /\ [Next]_vars =>
        [ /\ attempt.status = "completed" => attempt' = attempt
          /\ runStatus' = "completed" => attempt.status = "completed" ]_vars
  BY CompletionStep
<1> QED BY <1>1, TypeCorrect, LoopInvariant, PTL DEF Spec, CompletionIsFinal

-----------------------------------------------------------------------------
(* The bounded loop. *)

\* Where an executor works on the region, its attempt begun.
Region == {"load", "loop", "body", "committed", "bodyfailed", "commit", "failloop"}

\* The fenced executor in the region owns the running attempt.
AttemptInv ==
  \A w \in Executors : executor[w].pc \in Region /\ executor[w].claim = claimSeq =>
    attempt.status = "running" /\ attempt.claim = claimSeq

\* A machine's last output, if it has one, is that of a committed body.
Produced(m, bodies) == m.last = 0 \/ (m.last \in 1..Cap /\ bodies[m.last] = "completed")

OutputInv == Produced(fsm, body) /\ \A w \in Executors : Produced(executor[w].machine, body)

\* A move of one executor, which alone may change the attempt while it is fenced.
LEMMA AttemptMove ==
  ASSUME TypeOK, LoopInv, AttemptInv, NEW w \in Executors, NEW r,
         executor' = [executor EXCEPT ![w] = r], claimSeq' = claimSeq,
         attempt' = attempt \/ (Fenced(w) /\ ~At(w, "idle")),
         r.pc \in Region /\ r.claim = claimSeq => attempt'.status = "running" /\ attempt'.claim = claimSeq
  PROVE  AttemptInv'
<1>1. executor'[w] = r /\ \A v \in Executors \ {w} : executor'[v] = executor[v] BY DEF TypeOK
<1>2. ASSUME NEW v \in Executors, v # w, executor[v].pc \in Region, executor[v].claim = claimSeq
      PROVE  attempt'.status = "running" /\ attempt'.claim = claimSeq
  <2>1. executor[v].pc # "idle" BY <1>2 DEF Region
  <2>2. ~(Fenced(w) /\ ~At(w, "idle")) BY <1>2, <2>1 DEF LoopInv, ClaimsInv, At, Fenced
  <2> QED BY <1>2, <2>2 DEF AttemptInv
<1> QED BY <1>1, <1>2 DEF AttemptInv

\* The attempt an executor began is its own until another claim is taken.
LEMMA AttemptStep == ASSUME TypeOK, LoopInv, AttemptInv, [Next]_vars PROVE AttemptInv'
<1>0. executor \in [Executors -> Records] /\ claimSeq \in Nat BY CapIsNat DEF TypeOK, Records
<1>1. CASE UNCHANGED <<claimSeq, attempt, executor>> BY <1>1 DEF AttemptInv
<1>2. ASSUME NEW w \in Executors, Claim(w) PROVE AttemptInv'
  <2>1. /\ executor' = [executor EXCEPT ![w] = [pc |-> "begin", claim |-> claimSeq + 1, machine |-> Ready]]
        /\ claimSeq' = claimSeq + 1
    BY <1>2 DEF Claim
  <2>2. executor'[w].pc = "begin" /\ \A v \in Executors \ {w} : executor'[v] = executor[v]
    BY <1>0, <2>1
  <2>3. \A v \in Executors : executor[v].claim \in Nat /\ executor[v].claim <= claimSeq
    BY <1>0 DEF LoopInv, ClaimsInv, Records
  <2> QED BY <1>0, <2>1, <2>2, <2>3 DEF AttemptInv, Region
<1>3. ASSUME NEW w \in Executors, executor' = [executor EXCEPT ![w] = Idle],
             UNCHANGED <<claimSeq, attempt>>
      PROVE  AttemptInv'
  BY <1>3, AttemptMove DEF Idle, Region
<1>4. ASSUME NEW w \in Executors, NEW pc, Goto(w, pc), UNCHANGED <<claimSeq, attempt>>,
             executor[w].pc \in Region \/ pc \notin Region
      PROVE  AttemptInv'
  <2> DEFINE r == [executor[w] EXCEPT !.pc = pc]
  <2>1. executor' = [executor EXCEPT ![w] = r] BY <1>4 DEF Goto
  <2>2. r.pc = pc /\ r.claim = executor[w].claim BY <1>0 DEF Records
  <2> HIDE DEF r
  <2>3. r.pc \in Region /\ r.claim = claimSeq => attempt.status = "running" /\ attempt.claim = claimSeq
    BY <1>4, <2>2 DEF AttemptInv
  <2> QED BY <1>4, <2>1, <2>3, AttemptMove
<1>5. ASSUME NEW w \in Executors, NEW m, NEW pc, UNCHANGED <<claimSeq, attempt>>,
             executor' = [executor EXCEPT ![w].machine = m, ![w].pc = pc], executor[w].pc \in Region
      PROVE  AttemptInv'
  <2> DEFINE r == [executor[w] EXCEPT !.machine = m, !.pc = pc]
  <2>1. executor' = [executor EXCEPT ![w] = r] BY <1>5
  <2>2. r.claim = executor[w].claim BY <1>0 DEF Records
  <2> HIDE DEF r
  <2>3. r.pc \in Region /\ r.claim = claimSeq => attempt.status = "running" /\ attempt.claim = claimSeq
    BY <1>5, <2>2 DEF AttemptInv
  <2> QED BY <1>5, <2>1, <2>3, AttemptMove
<1>6. ASSUME NEW w \in Executors, NEW m, NEW pc, Save(w, m, pc), UNCHANGED <<claimSeq, attempt>>,
             executor[w].pc \in Region
      PROVE  AttemptInv'
  <2>1. \/ executor' = [executor EXCEPT ![w].machine = m, ![w].pc = pc]
        \/ executor' = [executor EXCEPT ![w] = Idle]
        \/ Goto(w, "failloop")
    BY <1>6 DEF Save, Goto
  <2> QED BY <1>3, <1>4, <1>5, <1>6, <2>1
<1>7. ASSUME NEW w \in Executors, BeginLoop(w) PROVE AttemptInv'
  <2>1. At(w, "begin") /\ claimSeq' = claimSeq BY <1>7 DEF BeginLoop
  <2>2. CASE \E pc \in {"complete", "failrun"} : Goto(w, pc) /\ attempt' = attempt
    BY <1>4, <2>1, <2>2 DEF Region
  <2>3. CASE /\ Holds(w) /\ Goto(w, "load")
             /\ attempt' = [status |-> "running", claim |-> executor[w].claim, output |-> 0]
    BY <2>1, <2>3, AttemptMove DEF Goto, Holds, Fenced, At
  <2> QED BY <1>7, <2>2, <2>3, Zenon DEF BeginLoop
<1>8. ASSUME NEW w \in Executors, CommitLoop(w) \/ FailLoop(w) PROVE AttemptInv'
  <2>1. /\ ~At(w, "idle") /\ claimSeq' = claimSeq
        /\ Goto(w, "complete") \/ Goto(w, "failrun")
        /\ attempt' = attempt \/ Fenced(w)
    BY <1>8 DEF CommitLoop, FailLoop, At, Mine, Holds
  <2>2. ASSUME NEW pc \in {"complete", "failrun"}, Goto(w, pc) PROVE AttemptInv'
    <3> DEFINE r == [executor[w] EXCEPT !.pc = pc]
    <3>1. executor' = [executor EXCEPT ![w] = r] BY <2>2 DEF Goto
    <3>2. r.pc \notin Region BY <1>0, <2>2 DEF Region, Records
    <3> HIDE DEF r
    <3> QED BY <2>1, <3>1, <3>2, AttemptMove
  <2> QED BY <2>1, <2>2
<1>9. ASSUME NEW w \in Executors, Crash(w) \/ Settle(w) PROVE AttemptInv'
  BY <1>3, <1>9 DEF Crash, Settle, store
<1>10. ASSUME NEW w \in Executors, BeginBody(w) \/ CommitBody(w) \/ BreakBody(w) \/ LeaveLoop(w)
       PROVE  AttemptInv'
  <2>1. /\ executor[w].pc \in Region /\ UNCHANGED <<claimSeq, attempt>>
        /\ \E pc : Goto(w, pc)
    BY <1>10 DEF BeginBody, CommitBody, BreakBody, LeaveLoop, InLoop, At, Region, store
  <2> QED BY <1>4, <2>1
<1>11. ASSUME NEW w \in Executors, Load(w) PROVE AttemptInv'
  BY <1>5, <1>11 DEF Load, At, Region, store
<1>12. ASSUME NEW w \in Executors, Dispatch(w) \/ BodyCommitted(w) \/ BodyFailed(w) \/ Evaluate(w)
       PROVE  AttemptInv'
  <2>1. executor[w].pc \in Region /\ UNCHANGED <<claimSeq, attempt>>
    BY <1>12 DEF Dispatch, BodyCommitted, BodyFailed, Evaluate, InLoop, At, Region
  <2>2. \E m, pc : Save(w, m, pc)
    BY <1>12, Zenon DEF Dispatch, BodyCommitted, BodyFailed, Evaluate
  <2> QED BY <1>6, <2>1, <2>2
<1> QED BY <1>1, <1>2, <1>7, <1>8, <1>9, <1>10, <1>11, <1>12 DEF Next, Executor, Cancel, vars

\* A body that is committed stays so.
LEMMA BodiesStay ==
  ASSUME TypeOK, LoopInv, [Next]_vars, NEW i \in Iterations, body[i] = "completed"
  PROVE  body'[i] = "completed"
<1>1. CASE body' = body BY <1>1
<1>2. ASSUME NEW w \in Executors, BeginBody(w) PROVE body'[i] = "completed"
  BY <1>2 DEF BeginBody, TypeOK
<1>3. ASSUME NEW w \in Executors, CommitBody(w) PROVE body'[i] = "completed"
  BY <1>3 DEF CommitBody, TypeOK
<1>4. ASSUME NEW w \in Executors, BreakBody(w) PROVE body'[i] = "completed"
  <2>1. Holds(w) => body[Machine(w).iteration] = "running"
    BY <1>4 DEF BreakBody, At, LoopInv, PlaceInv, Placed, Holds, Fenced, Machine
  <2> QED BY <1>4, <2>1 DEF BreakBody, TypeOK
<1>5. ASSUME NEW w \in Executors, Executor(w) PROVE body' = body \/ BeginBody(w) \/ CommitBody(w) \/ BreakBody(w)
  <2>1. CASE BeginLoop(w) \/ CommitLoop(w) \/ FailLoop(w) \/ Load(w) \/ Dispatch(w) \/ Settle(w)
    BY <2>1, Zenon DEF BeginLoop, CommitLoop, FailLoop, Load, Dispatch, Settle, store
  <2>2. CASE BodyCommitted(w) \/ BodyFailed(w) \/ Evaluate(w) \/ LeaveLoop(w)
    BY <2>2, Zenon DEF BodyCommitted, BodyFailed, Evaluate, LeaveLoop, store
  <2> QED BY <1>5, <2>1, <2>2 DEF Executor
<1> QED BY <1>1, <1>2, <1>3, <1>4, <1>5 DEF Next, Claim, Crash, Cancel, store, vars

\* A last output, once produced, stays produced.
LEMMA ProducedStays ==
  ASSUME TypeOK, LoopInv, [Next]_vars, NEW m, Produced(m, body)
  PROVE  Produced(m, body')
BY BodiesStay, CapIsNat DEF Produced, Iterations

\* No machine, in memory or persisted, records an output that no body committed.
LEMMA OutputStep == ASSUME TypeOK, LoopInv, OutputInv, [Next]_vars PROVE OutputInv'
<1>0. /\ executor \in [Executors -> Records]
      /\ Produced(fsm, body') /\ \A v \in Executors : Produced(executor[v].machine, body')
  BY ProducedStays DEF TypeOK, Records, OutputInv
<1>1. CASE UNCHANGED <<fsm, executor>> BY <1>0, <1>1 DEF OutputInv
<1>2. ASSUME NEW w \in Executors, NEW r, executor' = [executor EXCEPT ![w] = r],
             Produced(r.machine, body'), Produced(fsm', body')
      PROVE  OutputInv'
  <2>1. executor'[w] = r /\ \A v \in Executors \ {w} : executor'[v] = executor[v] BY <1>0, <1>2
  <2> QED BY <1>0, <1>2, <2>1 DEF OutputInv
<1>3. ASSUME NEW w \in Executors, executor' = [executor EXCEPT ![w] = Idle], fsm' = fsm
      PROVE  OutputInv'
  BY <1>0, <1>2, <1>3 DEF Idle, Ready, Produced
<1>4. ASSUME NEW w \in Executors, NEW pc, Goto(w, pc), fsm' = fsm PROVE OutputInv'
  <2> DEFINE r == [executor[w] EXCEPT !.pc = pc]
  <2>1. executor' = [executor EXCEPT ![w] = r] BY <1>4 DEF Goto
  <2>2. r.machine = executor[w].machine BY <1>0 DEF Records
  <2> HIDE DEF r
  <2> QED BY <1>0, <1>2, <1>4, <2>1, <2>2
<1>5. ASSUME NEW w \in Executors, NEW m, NEW pc, Produced(m, body'), Produced(fsm', body'),
             executor' = [executor EXCEPT ![w].machine = m, ![w].pc = pc]
      PROVE  OutputInv'
  <2> DEFINE r == [executor[w] EXCEPT !.machine = m, !.pc = pc]
  <2>1. executor' = [executor EXCEPT ![w] = r] BY <1>5
  <2>2. r.machine = m BY <1>0 DEF Records
  <2> HIDE DEF r
  <2> QED BY <1>2, <1>5, <2>1, <2>2
<1>6. ASSUME NEW w \in Executors, NEW m, NEW pc, Save(w, m, pc), Produced(m, body')
      PROVE  OutputInv'
  <2>1. \/ fsm' = m /\ executor' = [executor EXCEPT ![w].machine = m, ![w].pc = pc]
        \/ fsm' = fsm /\ executor' = [executor EXCEPT ![w] = Idle]
        \/ fsm' = fsm /\ Goto(w, "failloop")
    BY <1>6 DEF Save, Goto
  <2> QED BY <1>3, <1>4, <1>5, <1>6, <2>1
<1>7. ASSUME NEW w \in Executors, Claim(w) PROVE OutputInv'
  <2>1. /\ executor' = [executor EXCEPT ![w] = [pc |-> "begin", claim |-> claimSeq + 1, machine |-> Ready]]
        /\ fsm' = fsm
    BY <1>7 DEF Claim
  <2> DEFINE r == [pc |-> "begin", claim |-> claimSeq + 1, machine |-> Ready]
  <2>2. Produced(r.machine, body') BY DEF Produced, Ready
  <2> HIDE DEF r
  <2>3. executor' = [executor EXCEPT ![w] = r] BY <2>1 DEF r
  <2> QED BY <1>0, <1>2, <2>1, <2>2, <2>3
<1>8. ASSUME NEW w \in Executors, Crash(w) \/ Settle(w) PROVE OutputInv'
  BY <1>3, <1>8 DEF Crash, Settle, store
<1>9. ASSUME NEW w \in Executors,
             \/ BeginLoop(w) \/ CommitLoop(w) \/ FailLoop(w)
             \/ BeginBody(w) \/ CommitBody(w) \/ BreakBody(w) \/ LeaveLoop(w)
      PROVE  OutputInv'
  <2>1. fsm' = fsm /\ \E pc : Goto(w, pc)
    <3>1. CASE BeginLoop(w) \/ CommitLoop(w) \/ FailLoop(w)
      BY <3>1, Zenon DEF BeginLoop, CommitLoop, FailLoop
    <3>2. CASE BeginBody(w) \/ CommitBody(w) \/ BreakBody(w) \/ LeaveLoop(w)
      BY <3>2, Zenon DEF BeginBody, CommitBody, BreakBody, LeaveLoop, store
    <3> QED BY <1>9, <3>1, <3>2
  <2> QED BY <1>4, <2>1
<1>10. ASSUME NEW w \in Executors, Load(w) PROVE OutputInv'
  BY <1>0, <1>5, <1>10 DEF Load, store
<1>11. ASSUME NEW w \in Executors, Dispatch(w) PROVE OutputInv'
  <2>1. Produced([state |-> "body", iteration |-> 1, last |-> 0], body') BY DEF Produced
  <2> QED BY <1>6, <1>11, <2>1 DEF Dispatch
<1>12. ASSUME NEW w \in Executors, BodyCommitted(w) PROVE OutputInv'
  <2> DEFINE m == [Machine(w) EXCEPT !.state = "evaluate", !.last = Machine(w).iteration]
  <2>1. m.last = Machine(w).iteration BY <1>0 DEF Records, Machines, Machine
  <2>2. Machine(w).iteration \in 1..Cap /\ body[Machine(w).iteration] = "completed"
    BY <1>12 DEF BodyCommitted, At, LoopInv, PlaceInv, Placed, ProgressIsBacked, Backed, Machine
  <2>3. body' = body BY <1>12 DEF BodyCommitted
  <2> HIDE DEF m
  <2>4. Produced(m, body') BY <2>1, <2>2, <2>3 DEF Produced
  <2> QED BY <1>6, <1>12, <2>4 DEF BodyCommitted, m
<1>13. ASSUME NEW w \in Executors, BodyFailed(w) \/ Evaluate(w) PROVE OutputInv'
  <2> DEFINE m == executor[w].machine
  <2>1. m \in Machines BY <1>0 DEF Records
  <2>2. \/ \E pc : Save(w, [m EXCEPT !.state = "failed"], pc)
        \/ \E pc : Save(w, [m EXCEPT !.state = "done"], pc)
        \/ \E pc : Save(w, [m EXCEPT !.state = "body", !.iteration = @ + 1], pc)
    BY <1>13, Zenon DEF BodyFailed, Evaluate, Machine
  <2>3. Produced(m, body') BY <1>0
  <2> HIDE DEF m
  <2>4. /\ Produced([m EXCEPT !.state = "failed"], body')
        /\ Produced([m EXCEPT !.state = "done"], body')
        /\ Produced([m EXCEPT !.state = "body", !.iteration = @ + 1], body')
    BY <2>1, <2>3 DEF Produced, Machines
  <2> QED BY <1>6, <2>2, <2>4
<1> QED BY <1>1, <1>7, <1>8, <1>9, <1>10, <1>11, <1>12, <1>13 DEF Next, Executor, Cancel, vars

\* Only an iteration that ran ends the loop.
StopsInv == stops \subseteq 1..Cap

\* The invariant of the region's attempt and of the outputs its machines hold.
RegionInv == AttemptInv /\ OutputInv /\ StopsInv

\* What ends the loop is the output of a machine's current iteration.
LEMMA StopsStep == ASSUME TypeOK, LoopInv, StopsInv, [Next]_vars PROVE StopsInv'
<1>1. CASE stops' = stops BY <1>1 DEF StopsInv
<1>2. ASSUME NEW w \in Executors, CommitBody(w) PROVE StopsInv'
  <2>1. Machine(w).iteration \in 1..Cap
    BY <1>2 DEF CommitBody, At, LoopInv, PlaceInv, Placed, ProgressIsBacked, Backed, Machine
  <2> QED BY <1>2, <2>1 DEF CommitBody, StopsInv
<1>3. ASSUME NEW w \in Executors, Executor(w) PROVE stops' = stops \/ CommitBody(w)
  <2>1. CASE BeginLoop(w) \/ CommitLoop(w) \/ FailLoop(w) \/ Load(w) \/ Dispatch(w) \/ Settle(w)
    BY <2>1, Zenon DEF BeginLoop, CommitLoop, FailLoop, Load, Dispatch, Settle, store
  <2>2. CASE \/ BeginBody(w) \/ BreakBody(w) \/ BodyCommitted(w) \/ BodyFailed(w)
             \/ Evaluate(w) \/ LeaveLoop(w)
    BY <2>2, Zenon DEF BeginBody, BreakBody, BodyCommitted, BodyFailed, Evaluate, LeaveLoop, store
  <2> QED BY <1>3, <2>1, <2>2 DEF Executor
<1> QED BY <1>1, <1>2, <1>3 DEF Next, Claim, Crash, Cancel, store, vars

\* Nothing has begun or been produced at first.
LEMMA RegionInit == Init => RegionInv
<1> SUFFICES ASSUME Init PROVE RegionInv OBVIOUS
<1>1. \A w \in Executors : executor[w] = Idle BY DEF Init
<1>2. Idle.pc = "idle" /\ Idle.machine = Ready /\ Ready.last = 0 /\ fsm = Ready
  BY DEF Init, Idle, Ready
<1>3. stops = {} BY DEF Init
<1> QED BY <1>1, <1>2, <1>3 DEF RegionInv, AttemptInv, OutputInv, StopsInv, Produced, Region

\* The fenced executor owns the attempt it works on, and every output a
\* machine records, stale or not, is that of a committed body.
THEOREM RegionInvariant == Spec => []RegionInv
<1>1. TypeOK /\ LoopInv /\ RegionInv /\ [Next]_vars => RegionInv'
  BY AttemptStep, OutputStep, StopsStep DEF RegionInv
<1> QED BY <1>1, RegionInit, TypeCorrect, LoopInvariant, PTL DEF Spec

-----------------------------------------------------------------------------
(* The refinement. *)

Rounds == {i \in Iterations : body[i] = "completed"}
Result == IF attempt.status = "completed" THEN attempt.output ELSE -1

\* A commit of a body by the fenced executor is the next round of the loop.
LEMMA CommitIsRound ==
  ASSUME TypeOK, LoopInv, RegionInv, NEW w \in Executors, CommitBody(w), Holds(w)
  PROVE  \E i \in 1..Cap : Loop!Round(i)
<1> DEFINE i == Machine(w).iteration
<1>0. body \in [Iterations -> {"absent", "running", "completed", "failed"}] BY DEF TypeOK
<1>1. executor[w].pc = "body" /\ executor[w].claim = claimSeq
  BY DEF CommitBody, At, Holds, Fenced
<1>2. /\ Machine(w).state = "body" /\ body[i] = "running"
      /\ i \in 1..Cap /\ \A j \in 1..(i - 1) : body[j] = "completed" /\ j \notin stops
  BY <1>1 DEF LoopInv, PlaceInv, Placed, ProgressIsBacked, Backed, Machine
<1>3. \A j \in Iterations : j > i => body[j] = "absent"
  <2> SUFFICES ASSUME NEW j \in Iterations, j > i, body[j] # "absent" PROVE FALSE OBVIOUS
  <2>1. i \in 1..(j - 1) BY <1>2, CapIsNat DEF Iterations
  <2> QED BY <1>2, <2>1 DEF LoopInv, BodiesInOrder
<1>4. i \in Iterations /\ Iterations \subseteq Nat /\ 1..(i - 1) \subseteq Iterations
  BY <1>2, CapIsNat DEF Iterations
<1>5. Rounds = 1..(i - 1)
  <2>1. ASSUME NEW j \in Rounds PROVE j \in 1..(i - 1)
    <3>1. j \in Iterations /\ body[j] = "completed" BY <2>1 DEF Rounds
    <3>2. ~(j > i) /\ j # i BY <1>2, <1>3, <3>1
    <3> QED BY <1>2, <3>1, <3>2, CapIsNat DEF Iterations
  <2>2. ASSUME NEW j \in 1..(i - 1) PROVE j \in Rounds BY <1>2, <1>4, <2>2 DEF Rounds
  <2> QED BY <2>1, <2>2
<1>6. i - 1 \notin stops
  <2>1. CASE i = 1 BY <2>1 DEF RegionInv, StopsInv
  <2>2. CASE i # 1 BY <1>2, <2>2
  <2> QED BY <2>1, <2>2
<1>7. /\ body' = [body EXCEPT ![i] = "completed"] /\ stops' \in {stops, stops \cup {i}}
      /\ attempt' = attempt
  BY Zenon DEF CommitBody
<1>8. Rounds' = Rounds \cup {i} BY <1>0, <1>4, <1>7 DEF Rounds
<1>9. attempt.status # "completed"
  BY <1>1 DEF RegionInv, AttemptInv, Region
<1>10. Result = -1 /\ Result' = Result BY <1>7, <1>9 DEF Result
<1> HIDE DEF i
<1> QED BY <1>2, <1>5, <1>6, <1>7, <1>8, <1>10 DEF Loop!Round, Rounds, Result

\* A commit of the region is what the loop yields.
LEMMA CommitIsYield ==
  ASSUME TypeOK, RegionInv, NEW w \in Executors, CommitLoop(w), attempt' # attempt
  PROVE  \E out \in Rounds \cup {0} : Loop!Yield(out)
<1> DEFINE out == Machine(w).last
<1>1. /\ Mine(w) /\ attempt' = [attempt EXCEPT !.status = "completed", !.output = out]
      /\ UNCHANGED <<body, stops>>
  BY Zenon DEF CommitLoop
<1>2. attempt'.status = "completed" /\ attempt'.output = out BY <1>1 DEF TypeOK
<1>3. Result = -1 /\ Result' = out BY <1>1, <1>2 DEF Result, Mine
<1>4. out \in Rounds \cup {0}
  BY CapIsNat DEF RegionInv, OutputInv, Produced, Machine, Rounds, Iterations
<1>5. Rounds' = Rounds BY <1>1 DEF Rounds
<1> QED BY <1>1, <1>3, <1>4, <1>5 DEF Loop!Yield, Rounds, Result

\* Every other step leaves the committed bodies and the result alone.
LEMMA OthersStutter ==
  ASSUME TypeOK, LoopInv, [Next]_vars,
         \A w \in Executors : ~(CommitBody(w) /\ Holds(w)),
         \A w \in Executors : CommitLoop(w) => attempt' = attempt
  PROVE  Rounds' = Rounds /\ stops' = stops /\ Result' = Result
<1>0. body \in [Iterations -> {"absent", "running", "completed", "failed"}] BY DEF TypeOK
<1>1. CASE UNCHANGED <<body, stops, attempt>> BY <1>1 DEF Rounds, Result
<1>2. ASSUME NEW w \in Executors, BeginBody(w) \/ CommitBody(w) \/ BreakBody(w)
      PROVE  Rounds' = Rounds /\ stops' = stops /\ Result' = Result
  <2> DEFINE i == Machine(w).iteration
  <2>1. UNCHANGED <<stops, attempt>> BY <1>2 DEF BeginBody, CommitBody, BreakBody
  <2>2. \/ body' = body
        \/ body[i] # "completed" /\ \E x \in {"running", "failed"} : body' = [body EXCEPT ![i] = x]
    <3>1. CASE BeginBody(w) \/ CommitBody(w) BY <3>1 DEF BeginBody, CommitBody
    <3>2. CASE BreakBody(w)
      <4>1. Holds(w) => body[i] = "running"
        BY <3>2 DEF BreakBody, At, LoopInv, PlaceInv, Placed, Holds, Fenced, Machine
      <4> QED BY <3>2, <4>1 DEF BreakBody
    <3> QED BY <1>2, <3>1, <3>2
  <2>3. Rounds' = Rounds BY <1>0, <2>2 DEF Rounds
  <2> QED BY <2>1, <2>3 DEF Result
<1>3. ASSUME NEW w \in Executors, BeginLoop(w) \/ CommitLoop(w) \/ FailLoop(w)
      PROVE  Rounds' = Rounds /\ stops' = stops /\ Result' = Result
  <2>1. UNCHANGED <<body, stops>> BY <1>3 DEF BeginLoop, CommitLoop, FailLoop
  <2>2. \/ attempt' = attempt
        \/ /\ attempt.status # "completed"
           /\ \/ attempt' = [status |-> "running", claim |-> executor[w].claim, output |-> 0]
              \/ attempt' = [attempt EXCEPT !.status = "failed"]
    BY <1>3, Zenon DEF BeginLoop, CommitLoop, FailLoop, Mine
  <2>3. attempt' = attempt \/ (attempt.status # "completed" /\ attempt'.status # "completed")
    BY <2>2 DEF TypeOK
  <2> QED BY <2>1, <2>3 DEF Rounds, Result
<1>4. ASSUME NEW w \in Executors,
             \/ Load(w) \/ Dispatch(w) \/ BodyCommitted(w) \/ BodyFailed(w) \/ Evaluate(w)
             \/ LeaveLoop(w) \/ Settle(w) \/ Claim(w) \/ Crash(w)
      PROVE  UNCHANGED <<body, stops, attempt>>
  <2>1. CASE Load(w) \/ Dispatch(w) \/ BodyCommitted(w) \/ BodyFailed(w) \/ Evaluate(w)
    BY <2>1, Zenon DEF Load, Dispatch, BodyCommitted, BodyFailed, Evaluate, store
  <2>2. CASE LeaveLoop(w) \/ Settle(w) \/ Claim(w) \/ Crash(w)
    BY <2>2, Zenon DEF LeaveLoop, Settle, Claim, Crash, store
  <2> QED BY <1>4, <2>1, <2>2
<1> QED BY <1>1, <1>2, <1>3, <1>4 DEF Next, Executor, Cancel, vars

\* A region begins as a loop that has done nothing.
LEMMA LoopMapsInit == Init => Loop!Init
<1> SUFFICES ASSUME Init PROVE Loop!Init OBVIOUS
<1>1. /\ \A i \in Iterations : body[i] = "absent"
      /\ stops = {} /\ attempt.status = "absent"
  BY DEF Init
<1> QED BY <1>1 DEF Loop!Init

\* The region's committed bodies and output are those of a bounded loop: rounds
\* completed in turn, at most Cap, none after one that was enough or after the
\* output, which is yielded once and is that of a round, or none.
THEOREM RefinesBoundedLoop == Spec => ImplementsBoundedLoop
<1>1. ASSUME TypeOK, LoopInv, RegionInv, [Next]_vars
      PROVE  [Loop!Next]_<<Rounds, stops, Result>>
  <2>1. ASSUME NEW w \in Executors, CommitBody(w), Holds(w) PROVE Loop!Next
    BY <1>1, <2>1, CommitIsRound DEF Loop!Next, Rounds
  <2>2. ASSUME NEW w \in Executors, CommitLoop(w), attempt' # attempt PROVE Loop!Next
    BY <1>1, <2>2, CommitIsYield DEF Loop!Next, Rounds
  <2> QED BY <1>1, <2>1, <2>2, OthersStutter
<1>2. TypeOK /\ LoopInv /\ RegionInv /\ [Next]_vars =>
        [Loop!Next]_<<{i \in Iterations : body[i] = "completed"}, stops,
                      IF attempt.status = "completed" THEN attempt.output ELSE -1>>
  BY <1>1 DEF Rounds, Result
<1> QED
  BY <1>2, LoopMapsInit, TypeCorrect, LoopInvariant, RegionInvariant, PTL
  DEF Spec, ImplementsBoundedLoop, Loop!Spec

-----------------------------------------------------------------------------
(* Without takeovers. *)

\* A run's only executor finds the machine as it was created, and leaves the
\* region for its commit only with a machine that is done.
FirstAt(r, m) ==
  /\ r.pc \in {"begin", "load"} => m.state = "ready"
  /\ r.pc \in {"loop", "body", "committed"} => r.machine.state # "failed"
  /\ r.pc = "commit" => r.machine.state = "done"

FirstInv ==
  /\ claimSeq = 0 => fsm.state = "ready" /\ \A w \in Executors : At(w, "idle")
  /\ \A w \in Executors : ~At(w, "idle") => executor[w].claim = 1 /\ FirstAt(executor[w], fsm)
  /\ attempt.status = "completed" => attempt.output \in stops \cup {0}

\* A move of the only executor at work.
LEMMA FirstMove ==
  ASSUME TypeOK, LoopInv, FirstInv, NEW w \in Executors, ~At(w, "idle"), NEW r,
         executor' = [executor EXCEPT ![w] = r], claimSeq' = claimSeq,
         r.pc = "idle" \/ (r.claim = executor[w].claim /\ FirstAt(r, fsm')),
         attempt'.status = "completed" => attempt'.output \in stops' \cup {0}
  PROVE  FirstInv'
<1>1. executor'[w] = r /\ \A v \in Executors \ {w} : executor'[v] = executor[v] BY DEF TypeOK
<1>2. \A v \in Executors \ {w} : At(v, "idle") BY DEF LoopInv, ClaimsInv, FirstInv
<1>3. claimSeq # 0 BY DEF FirstInv
<1> QED BY <1>1, <1>2, <1>3 DEF FirstInv, At

\* Before a second claim every step keeps it.
LEMMA FirstStep ==
  ASSUME MaxClaims = 1, TypeOK, LoopInv, FirstInv, [Next]_vars
  PROVE  FirstInv'
<1>0. executor \in [Executors -> Records] /\ claimSeq \in Nat BY CapIsNat DEF TypeOK, Records
<1>1. /\ \A w \in Executors : ~At(w, "idle") => executor[w].claim = 1 /\ FirstAt(executor[w], fsm)
      /\ attempt.status = "completed" => attempt.output \in stops \cup {0}
  BY DEF FirstInv
<1>2. CASE UNCHANGED <<claimSeq, fsm, attempt, stops, executor>> BY <1>2 DEF FirstInv, At
<1>3. ASSUME NEW w \in Executors, Claim(w) PROVE FirstInv'
  <2> DEFINE r == [pc |-> "begin", claim |-> claimSeq + 1, machine |-> Ready]
  <2>1. /\ executor' = [executor EXCEPT ![w] = r] /\ claimSeq < MaxClaims /\ claimSeq' = claimSeq + 1
        /\ UNCHANGED <<fsm, attempt, stops>>
    BY <1>3 DEF Claim
  <2>2. claimSeq = 0 BY <1>0, <2>1
  <2>3. fsm.state = "ready" /\ \A v \in Executors : At(v, "idle") BY <2>2 DEF FirstInv
  <2>4. r.pc = "begin" /\ r.claim = 1 BY <2>2
  <2> HIDE DEF r
  <2>5. executor'[w] = r /\ \A v \in Executors \ {w} : executor'[v] = executor[v] BY <1>0, <2>1
  <2> QED BY <1>1, <2>1, <2>2, <2>3, <2>4, <2>5 DEF FirstInv, FirstAt, At
<1>4. ASSUME NEW w \in Executors, ~At(w, "idle"), executor' = [executor EXCEPT ![w] = Idle],
             UNCHANGED <<claimSeq, attempt, stops>>
      PROVE  FirstInv'
  BY <1>1, <1>4, FirstMove DEF Idle
<1>5. ASSUME NEW w \in Executors, ~At(w, "idle"), NEW pc, Goto(w, pc), UNCHANGED <<claimSeq, fsm>>,
             \/ pc \in {"complete", "failrun", "bodyfailed", "failloop"}
             \/ pc = "load" /\ At(w, "begin")
             \/ pc \in {"body", "committed"} /\ (At(w, "loop") \/ At(w, "body"))
             \/ pc = "commit" /\ Machine(w).state = "done",
             attempt'.status = "completed" => attempt'.output \in stops' \cup {0}
      PROVE  FirstInv'
  <2> DEFINE r == [executor[w] EXCEPT !.pc = pc]
  <2>1. executor' = [executor EXCEPT ![w] = r] BY <1>5 DEF Goto
  <2>2. r.pc = pc /\ r.claim = executor[w].claim /\ r.machine = executor[w].machine
    BY <1>0 DEF Records
  <2> HIDE DEF r
  <2>3. FirstAt(r, fsm) BY <1>1, <1>5, <2>2 DEF FirstAt, At, Machine
  <2> QED BY <1>5, <2>1, <2>2, <2>3, FirstMove
<1>6. ASSUME NEW w \in Executors, ~At(w, "idle"), NEW m, NEW pc,
             executor' = [executor EXCEPT ![w].machine = m, ![w].pc = pc],
             UNCHANGED <<claimSeq, attempt, stops>>,
             \/ pc = "loop" /\ m.state # "failed"
             \/ pc = "commit" /\ m.state = "done"
             \/ pc = "failloop"
      PROVE  FirstInv'
  <2> DEFINE r == [executor[w] EXCEPT !.machine = m, !.pc = pc]
  <2>1. executor' = [executor EXCEPT ![w] = r] BY <1>6
  <2>2. r.pc = pc /\ r.claim = executor[w].claim /\ r.machine = m BY <1>0 DEF Records
  <2> HIDE DEF r
  <2>3. FirstAt(r, fsm') BY <1>6, <2>2 DEF FirstAt
  <2> QED BY <1>1, <1>6, <2>1, <2>2, <2>3, FirstMove
<1>7. ASSUME NEW w \in Executors, ~At(w, "idle"), NEW m, NEW pc, Save(w, m, pc),
             UNCHANGED <<claimSeq, attempt, stops>>,
             \/ pc = "loop" /\ m.state # "failed"
             \/ pc = "commit" /\ m.state = "done"
             \/ pc = "failloop"
      PROVE  FirstInv'
  <2>1. \/ executor' = [executor EXCEPT ![w].machine = m, ![w].pc = pc]
        \/ executor' = [executor EXCEPT ![w] = Idle]
        \/ Goto(w, "failloop") /\ fsm' = fsm
    BY <1>7 DEF Save, Goto
  <2> QED BY <1>1, <1>4, <1>5, <1>6, <1>7, <2>1
<1>8. ASSUME NEW w \in Executors, BeginLoop(w) \/ FailLoop(w) PROVE FirstInv'
  <2>1. ~At(w, "idle") /\ UNCHANGED <<claimSeq, fsm, stops>> BY <1>8 DEF BeginLoop, FailLoop, At
  <2>2. \/ Goto(w, "complete") \/ Goto(w, "failrun")
        \/ Goto(w, "load") /\ At(w, "begin")
    BY <1>8 DEF BeginLoop, FailLoop
  <2>3. \/ attempt' = attempt
        \/ attempt' = [status |-> "running", claim |-> executor[w].claim, output |-> 0]
        \/ attempt' = [attempt EXCEPT !.status = "failed"]
    BY <1>8, Zenon DEF BeginLoop, FailLoop
  <2>4. attempt'.status = "completed" => attempt' = attempt BY <2>3 DEF TypeOK
  <2>5. attempt'.status = "completed" => attempt'.output \in stops' \cup {0} BY <1>1, <2>1, <2>4
  <2> QED BY <1>5, <2>1, <2>2, <2>5
<1>9. ASSUME NEW w \in Executors, CommitLoop(w) PROVE FirstInv'
  <2>1. At(w, "commit") /\ ~At(w, "idle") /\ UNCHANGED <<claimSeq, fsm, stops>>
    BY <1>9 DEF CommitLoop, At
  <2>2. Goto(w, "complete") \/ Goto(w, "failrun") BY <1>9 DEF CommitLoop
  <2>3. Machine(w).last \in stops
    BY <1>1, <2>1 DEF FirstAt, At, LoopInv, ProgressIsBacked, Backed, Machine
  <2>4. \/ attempt' = attempt
        \/ attempt' = [attempt EXCEPT !.status = "completed", !.output = Machine(w).last]
    BY <1>9, Zenon DEF CommitLoop
  <2>5. attempt'.status = "completed" => attempt'.output \in stops' \cup {0}
    BY <1>1, <2>1, <2>3, <2>4 DEF TypeOK
  <2> QED BY <1>5, <2>1, <2>2, <2>5
<1>10. ASSUME NEW w \in Executors, BeginBody(w) \/ CommitBody(w) \/ BreakBody(w) PROVE FirstInv'
  <2>1. ~At(w, "idle") /\ UNCHANGED <<claimSeq, fsm, attempt>> /\ stops \subseteq stops'
    BY <1>10 DEF BeginBody, CommitBody, BreakBody, InLoop, At
  <2>2. \/ Goto(w, "bodyfailed")
        \/ (Goto(w, "body") \/ Goto(w, "committed")) /\ (At(w, "loop") \/ At(w, "body"))
    BY <1>10 DEF BeginBody, CommitBody, BreakBody, InLoop
  <2>3. attempt'.status = "completed" => attempt'.output \in stops' \cup {0} BY <1>1, <2>1
  <2> QED BY <1>5, <2>1, <2>2, <2>3
<1>11. ASSUME NEW w \in Executors, LeaveLoop(w) PROVE FirstInv'
  <2>1. /\ At(w, "loop") /\ ~At(w, "idle") /\ Machine(w).state \in {"done", "failed"}
        /\ Goto(w, "commit") /\ UNCHANGED <<claimSeq, fsm, attempt, stops>>
    BY <1>11 DEF LeaveLoop, InLoop, At, store
  <2>2. Machine(w).state = "done" BY <1>1, <2>1 DEF FirstAt, At, Machine
  <2> QED BY <1>1, <1>5, <2>1, <2>2
<1>12. ASSUME NEW w \in Executors, Load(w) PROVE FirstInv'
  <2>1. /\ At(w, "load") /\ ~At(w, "idle") /\ UNCHANGED <<claimSeq, attempt, stops>>
        /\ executor' = [executor EXCEPT ![w].machine = fsm, ![w].pc = "loop"]
    BY <1>12 DEF Load, At, store
  <2>2. fsm.state # "failed" BY <1>1, <2>1 DEF FirstAt, At
  <2> QED BY <1>6, <2>1, <2>2
<1>13. ASSUME NEW w \in Executors, Crash(w) \/ Settle(w) PROVE FirstInv'
  BY <1>4, <1>13 DEF Crash, Settle, At, store
<1>14. ASSUME NEW w \in Executors, Dispatch(w) \/ BodyCommitted(w) \/ BodyFailed(w) \/ Evaluate(w)
       PROVE  FirstInv'
  <2> DEFINE m == Machine(w)
  <2>0. m \in Machines BY <1>0 DEF Machine, Records
  <2>1. ~At(w, "idle") /\ UNCHANGED <<claimSeq, attempt, stops>>
    BY <1>14 DEF Dispatch, BodyCommitted, BodyFailed, Evaluate, InLoop, At
  <2>2. \/ Save(w, [state |-> "body", iteration |-> 1, last |-> 0], "loop")
        \/ Save(w, [m EXCEPT !.state = "evaluate", !.last = m.iteration], "loop")
        \/ Save(w, [m EXCEPT !.state = "body", !.iteration = @ + 1], "loop")
        \/ Save(w, [m EXCEPT !.state = "done"], "commit")
        \/ Save(w, [m EXCEPT !.state = "failed"], "failloop")
    BY <1>14, Zenon DEF Dispatch, BodyCommitted, BodyFailed, Evaluate
  <2> HIDE DEF m
  <2>3. /\ [m EXCEPT !.state = "evaluate", !.last = m.iteration].state = "evaluate"
        /\ [m EXCEPT !.state = "body", !.iteration = @ + 1].state = "body"
        /\ [m EXCEPT !.state = "done"].state = "done"
    BY <2>0 DEF Machines
  <2> QED BY <1>7, <2>1, <2>2, <2>3
<1> QED BY <1>2, <1>3, <1>8, <1>9, <1>10, <1>11, <1>12, <1>13, <1>14 DEF Next, Executor, Cancel, vars

\* Where no executor is taken over, a loop completes only with an output its
\* termination query accepted: the exception that TLC finds needs a takeover
\* that resumes a machine persisted as failed.
THEOREM UntakenLoopsTerminate ==
  ASSUME MaxClaims = 1
  PROVE  Spec => []LoopCompletesOnlyOnTermination
<1>1. Init => FirstInv BY DEF Init, FirstInv, FirstAt, Ready, Idle, At
<1>2. TypeOK /\ LoopInv /\ FirstInv /\ [Next]_vars => FirstInv' BY FirstStep
<1>3. FirstInv => LoopCompletesOnlyOnTermination BY DEF FirstInv, LoopCompletesOnlyOnTermination
<1> QED BY <1>1, <1>2, <1>3, TypeCorrect, LoopInvariant, PTL DEF Spec
=============================================================================
