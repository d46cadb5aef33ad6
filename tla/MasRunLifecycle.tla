-------------------------- MODULE MasRunLifecycle --------------------------
(***************************************************************************)
(* What one durable MAS run promises to its host, without workers, queue   *)
(* or reconciler: a run is worked on in segments; a segment ends completed,*)
(* failed or waiting for a person; and the run reaches segment n + 1 only  *)
(* by consuming the one response that reserved it.                         *)
(*                                                                         *)
(* `answered' counts the responses the host has accepted.  The life cycle  *)
(* ties it to the segment: every accepted response buys exactly one        *)
(* segment, and no segment is bought twice.                                *)
(***************************************************************************)
EXTENDS Integers

VARIABLES status,    \* MasRun.status
          segment,   \* MasRun.segment
          answered   \* number of accepted responses

vars == <<status, segment, answered>>

Terminal == {"completed", "failed", "cancelled"}
Live     == {"queued", "running", "waiting_for_input", "resume_pending"}

Init == status = "queued" /\ segment = 0 /\ answered = 0

Start ==
  /\ status = "queued"
  /\ status' = "running"
  /\ UNCHANGED <<segment, answered>>

Settle ==
  /\ status = "running"
  /\ status' \in {"completed", "waiting_for_input"}
  /\ UNCHANGED <<segment, answered>>

Stop ==
  /\ status \in Live
  /\ status' \in {"failed", "cancelled"}
  /\ UNCHANGED <<segment, answered>>

Answer ==
  /\ status = "waiting_for_input"
  /\ status' = "resume_pending"
  /\ answered' = answered + 1
  /\ UNCHANGED segment

Requeue ==
  /\ status = "resume_pending"
  /\ answered = segment + 1
  /\ status' = "queued"
  /\ segment' = segment + 1
  /\ UNCHANGED answered

Next == Start \/ Settle \/ Stop \/ Answer \/ Requeue

Spec == Init /\ [][Next]_vars
=============================================================================
