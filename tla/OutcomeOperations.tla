--------------------------- MODULE OutcomeOperations ---------------------------
(***************************************************************************)
(* The request owner of the outcomes package: a request key is reserved,   *)
(* its work is done outside any transaction, a model proposal is bought    *)
(* between a dispatch receipt and an output receipt, and the effect is     *)
(* published with the receipt that answers every later request of the key. *)
(*                                                                         *)
(* Abstracted: the requests are reflections, which hold capacity and       *)
(* retain at most one artifact version; the other commands take the same   *)
(* steps as a scripted one and hold nothing.  Evidence is true when it is  *)
(* given: a proof that nothing was dispatched may find the attempt's       *)
(* worker still there, and be overtaken by it.                             *)
(***************************************************************************)
EXTENDS Integers, Sequences, FiniteSets

CONSTANTS Requests,     \* request keys
          Scripted,     \* those whose proposal comes with the request
          Hosts,        \* processes on one store
          MaxVersions,  \* policy.maxVersions of the artifact
          MaxFaults,    \* bound: failed calls, lost commits, stopped hosts
                        \* and proofs given while the attempt's host is there
          None

ASSUME OutcomeAssumption ==
  /\ IsFiniteSet(Requests) /\ Scripted \subseteq Requests
  /\ MaxVersions \in Nat /\ MaxFaults \in Nat
  /\ None \notin Requests \cup Hosts

VARIABLES op,        \* the operations rows
          versions,  \* requests whose artifact version is retained
          host,      \* per host: what it is at, for which request and attempt
          recon,     \* the reconciler's evidence and what it read, or None
          wires,     \* per request: the attempts that made a provider request
          disowned,  \* per request: the attempts reconciled as never dispatched
          answers,   \* per request: receipts its callers were answered with
          faults

rows == <<op, versions>>
vars == <<rows, host, recon, wires, disowned, answers, faults>>

-----------------------------------------------------------------------------
NoOp  == [state |-> "none", attempt |-> 0, output |-> FALSE, reserved |-> FALSE, result |-> "none"]
Idle  == [pc |-> "idle", req |-> None, attempt |-> 0, how |-> "none"]
NoRecon == [req |-> None, attempt |-> 0, kind |-> "none"]

Init ==
  /\ op = [r \in Requests |-> NoOp]
  /\ versions = {}
  /\ host = [h \in Hosts |-> Idle]
  /\ recon = NoRecon
  /\ wires = [r \in Requests |-> <<>>]
  /\ disowned = [r \in Requests |-> {}]
  /\ answers = [r \in Requests |-> {}]
  /\ faults = 0

Fault == faults < MaxFaults /\ faults' = faults + 1

At(h, pc)     == host[h].pc = pc
GoTo(h, pc)   == host' = [host EXCEPT ![h].pc = pc]
End(h, pc, how) == host' = [host EXCEPT ![h].pc = pc, ![h].how = how]
Leave(h)      == host' = [host EXCEPT ![h] = Idle]
Mine(h)       == op[host[h].req]
SameAttempt(h) == Mine(h).attempt = host[h].attempt
Answer(h)     == answers' = [answers EXCEPT ![host[h].req] = @ \cup {Mine(h).result}]

-----------------------------------------------------------------------------
(* beginOperation *)

Held == {r \in Requests : op[r].reserved}

\* Mutant: a retry that lost its reservation is let in again.
Room_New(r) ==
  op[r].state = "none" => Cardinality(versions) + Cardinality(Held) < MaxVersions

\* assertCapacity, unless the operation still holds its reservation.
Room(r) ==
  ~op[r].reserved => Cardinality(versions) + Cardinality(Held) < MaxVersions

\* The reservation: a new attempt, ready at once when its output was retained.
Reserve(r) ==
  op' = [op EXCEPT ![r] = [state |-> IF @.output THEN "ready" ELSE "reserved",
                           attempt |-> @.attempt + 1, output |-> @.output,
                           reserved |-> TRUE, result |-> "none"]]

\* Mutant: a request whose dispatch is uncertain is simply tried again.
Retryable_Uncertain == {"none", "retryable", "uncertain"}

Retryable == {"none", "retryable"}

\* A request is taken up by a host that is not at it already.  The reservation
\* may fail, before its commit or after it.
Begin(h, r) ==
  /\ At(h, "idle") /\ op[r].state \in Retryable /\ Room(r)
  /\ LET took(pc) == host' = [host EXCEPT ![h] = [pc |-> pc, req |-> r, attempt |-> op[r].attempt + 1, how |-> "none"]]
     IN  \/ Reserve(r) /\ took("begun") /\ UNCHANGED faults
         \/ Reserve(r) /\ took("recovering") /\ Fault
         \/ UNCHANGED op /\ took("recovering") /\ Fault
  /\ UNCHANGED <<versions, recon, wires, disowned, answers>>

\* An operation with its output at hand is finished by anybody.
BeginReady(h, r) ==
  /\ At(h, "idle") /\ op[r].state = "ready"
  /\ host' = [host EXCEPT ![h] = [pc |-> "begun", req |-> r, attempt |-> op[r].attempt, how |-> "none"]]
  /\ UNCHANGED <<rows, recon, wires, disowned, answers, faults>>

\* A completed one answers its receipt.
Replay(r) ==
  /\ op[r].state = "completed"
  /\ answers' = [answers EXCEPT ![r] = @ \cup {op[r].result}]
  /\ UNCHANGED <<rows, host, recon, wires, disowned, faults>>

-----------------------------------------------------------------------------
(* The work between the transactions. *)

\* The proposal came with the request, or its output was retained.
Prepare(h) ==
  /\ At(h, "begun") /\ (host[h].req \in Scripted \/ Mine(h).output)
  /\ End(h, "finishing", "commit")
  /\ UNCHANGED <<rows, recon, wires, disowned, answers, faults>>

\* It is refused, or it fails, before anything was dispatched.
PrepareFails(h) ==
  /\ At(h, "begun")
  /\ \/ End(h, "finishing", "refuse") /\ UNCHANGED faults
     \/ End(h, "finishing", "error") /\ Fault
  /\ UNCHANGED <<rows, recon, wires, disowned, answers>>

\* onDispatch: the receipt, only for the attempt that is still reserved.  Its
\* transaction may fail, before its commit or after it.
Dispatch(h) ==
  /\ At(h, "begun") /\ host[h].req \notin Scripted /\ ~Mine(h).output
  /\ IF SameAttempt(h) /\ Mine(h).state = "reserved"
     THEN \/ op' = [op EXCEPT ![host[h].req].state = "dispatched"] /\ GoTo(h, "dispatched") /\ UNCHANGED faults
          \/ op' = [op EXCEPT ![host[h].req].state = "dispatched"] /\ End(h, "finishing", "error") /\ Fault
          \/ UNCHANGED op /\ End(h, "finishing", "error") /\ Fault
     ELSE UNCHANGED <<op, faults>> /\ End(h, "finishing", "refuse")
  /\ UNCHANGED <<versions, recon, wires, disowned, answers>>

\* The provider request goes out; it answers, or its answer is lost.
Wire(h) ==
  /\ At(h, "dispatched")
  /\ wires' = [wires EXCEPT ![host[h].req] = Append(@, host[h].attempt)]
  /\ \/ GoTo(h, "replied") /\ UNCHANGED faults
     \/ End(h, "finishing", "error") /\ Fault
  /\ UNCHANGED <<rows, recon, disowned, answers>>

\* A recorded answer needs no dispatch.
CacheHit(h) ==
  /\ At(h, "begun") /\ host[h].req \notin Scripted /\ ~Mine(h).output
  /\ GoTo(h, "replied")
  /\ UNCHANGED <<rows, recon, wires, disowned, answers, faults>>

\* The output is retained before anything is made of it.
SaveOutput(h) ==
  /\ At(h, "replied")
  /\ \/ /\ SameAttempt(h) /\ Mine(h).state \in {"reserved", "dispatched"}
        /\ op' = [op EXCEPT ![host[h].req].state = "ready", ![host[h].req].output = TRUE]
        /\ \/ (\E how \in {"commit", "refuse"} : End(h, "finishing", how)) /\ UNCHANGED faults
           \/ End(h, "finishing", "error") /\ Fault
     \/ /\ ~(SameAttempt(h) /\ Mine(h).state \in {"reserved", "dispatched"})
        /\ End(h, "finishing", "refuse") /\ UNCHANGED <<op, faults>>
     \/ Fault /\ End(h, "finishing", "error") /\ UNCHANGED op
  /\ UNCHANGED <<versions, recon, wires, disowned, answers>>

-----------------------------------------------------------------------------
(* finishOperation *)

Complete(r, result) ==
  op' = [op EXCEPT ![r] = [@ EXCEPT !.state = "completed", !.output = FALSE, !.reserved = FALSE, !.result = result]]

\* One version, or none when nothing changed.
Effect(r) == versions' = versions \cup {r} \/ UNCHANGED versions

\* The transaction finds another's receipt, an uncertain dispatch or another attempt ...
Finish_Else(h) ==
  \/ Mine(h).state = "completed" /\ Answer(h) /\ Leave(h) /\ UNCHANGED <<rows, faults>>
  \/ Mine(h).state \in {"uncertain", "dispatched"} /\ GoTo(h, "recovering") /\ UNCHANGED <<rows, answers, faults>>
  \/ /\ Mine(h).state \notin {"completed", "uncertain", "dispatched"} /\ ~SameAttempt(h)
     /\ GoTo(h, "refusing") /\ UNCHANGED <<rows, answers, faults>>

Owns(h) == Mine(h).state \notin {"completed", "uncertain", "dispatched"} /\ SameAttempt(h)

\* ... or publishes effect and receipt together; its acknowledgement may be lost.
Publish(h) ==
  /\ Owns(h) /\ host[h].how = "commit"
  /\ \/ /\ Complete(host[h].req, "ok") /\ Effect(host[h].req)
        /\ \/ /\ answers' = [answers EXCEPT ![host[h].req] = @ \cup {"ok"}]
              /\ Leave(h) /\ UNCHANGED faults
           \/ GoTo(h, "recovering") /\ Fault /\ UNCHANGED answers
     \/ GoTo(h, "recovering") /\ Fault /\ UNCHANGED <<rows, answers>>
     \/ GoTo(h, "refusing") /\ UNCHANGED <<rows, answers, faults>>

Finish(h) ==
  /\ At(h, "finishing")
  /\ \/ Finish_Else(h)
     \/ Publish(h)
     \/ Owns(h) /\ host[h].how = "refuse" /\ GoTo(h, "refusing") /\ UNCHANGED <<rows, answers, faults>>
     \/ Owns(h) /\ host[h].how = "error" /\ GoTo(h, "recovering") /\ UNCHANGED <<rows, answers, faults>>
  /\ UNCHANGED <<recon, wires, disowned>>

\* Mutant: a refusal is recorded over a receipt.
Refuse_Over(h) ==
  /\ At(h, "refusing")
  /\ IF SameAttempt(h)
     THEN Complete(host[h].req, "refused") /\ answers' = [answers EXCEPT ![host[h].req] = @ \cup {"refused"}]
     ELSE UNCHANGED <<op, answers>>
  /\ Leave(h)
  /\ UNCHANGED <<versions, recon, wires, disowned, faults>>

\* A refusal is a receipt too, in a transaction of its own.
Refuse(h) ==
  /\ At(h, "refusing")
  /\ \/ ~SameAttempt(h) /\ Leave(h) /\ UNCHANGED <<op, answers, faults>>
     \/ SameAttempt(h) /\ Mine(h).state = "completed" /\ Answer(h) /\ Leave(h) /\ UNCHANGED <<op, faults>>
     \/ /\ SameAttempt(h) /\ Mine(h).state # "completed"
        /\ Complete(host[h].req, "refused")
        /\ \/ /\ answers' = [answers EXCEPT ![host[h].req] = @ \cup {"refused"}]
              /\ Leave(h) /\ UNCHANGED faults
           \/ GoTo(h, "recovering") /\ Fault /\ UNCHANGED answers
     \/ GoTo(h, "recovering") /\ Fault /\ UNCHANGED <<op, answers>>
  /\ UNCHANGED <<versions, recon, wires, disowned>>

\* recoverOperation rereads the row: a receipt answers, a dispatch is uncertain,
\* anything else may be tried again.
Recover(h) ==
  /\ At(h, "recovering")
  /\ Leave(h)
  /\ \/ /\ Mine(h).state = "completed" /\ Answer(h) /\ UNCHANGED <<op, faults>>
     \/ /\ Mine(h).state # "completed" /\ SameAttempt(h)
        /\ op' = [op EXCEPT ![host[h].req].state = IF @ \in {"dispatched", "uncertain"} THEN "uncertain" ELSE "retryable"]
        /\ UNCHANGED <<answers, faults>>
     \/ Mine(h).state # "completed" /\ ~SameAttempt(h) /\ UNCHANGED <<op, answers, faults>>
     \/ Fault /\ UNCHANGED <<op, answers>>
  /\ UNCHANGED <<versions, recon, wires, disowned>>

\* The host stops.
Stop(h) ==
  /\ ~At(h, "idle") /\ Fault /\ Leave(h)
  /\ UNCHANGED <<rows, recon, wires, disowned, answers>>

-----------------------------------------------------------------------------
(* reconcile: host-authorized evidence about an attempt that did not finish. *)

\* Mutant: only what may have been dispatched can be reconciled.
Unfinished_Sent == {"uncertain", "dispatched"}

Unfinished == {"reserved", "uncertain", "dispatched"}

Bought(r, attempt) == \E i \in DOMAIN wires[r] : wires[r][i] = attempt

\* The evidence there can be about the attempt that is read: the provider's
\* answer to what it dispatched, or that the provider was not asked yet.
Evidence(r, kind) ==
  \/ kind = "retained" /\ op[r].state \in {"uncertain", "dispatched"} /\ Bought(r, op[r].attempt)
  \/ kind = "no-dispatch" /\ ~Bought(r, op[r].attempt)

\* A host is at that attempt: its dispatch, or its request, may be yet to come.
Attended(r) == \E h \in Hosts : host[h].req = r /\ host[h].attempt = op[r].attempt

\* prepareReconciliation: the row and the evidence that binds its attempt.
ReconcileRead(r) ==
  /\ recon = NoRecon /\ op[r].state \in Unfinished
  /\ \E kind \in {"retained", "no-dispatch"} :
       /\ Evidence(r, kind)
       /\ IF kind = "no-dispatch" /\ Attended(r) THEN Fault ELSE UNCHANGED faults
       /\ recon' = [req |-> r, attempt |-> op[r].attempt, kind |-> kind]
  /\ UNCHANGED <<rows, host, wires, disowned, answers>>

\* An output makes the attempt ready; a proof that nothing was dispatched
\* fences it and gives its capacity back.
Reconciled(r, kind) ==
  IF kind = "retained"
  THEN [op[r] EXCEPT !.state = "ready", !.output = TRUE, !.reserved = TRUE]
  ELSE [op[r] EXCEPT !.state = "retryable", !.attempt = @ + 1, !.output = FALSE, !.reserved = FALSE]

\* commitReconciliation: the attempt must still be the one that was read; an
\* attempt read as reserved may have been dispatched since.
ReconcileCommit ==
  /\ recon # NoRecon
  /\ LET r == recon.req IN
       IF op[r].attempt = recon.attempt /\ op[r].state \in Unfinished
       THEN /\ op' = [op EXCEPT ![r] = Reconciled(r, recon.kind)]
            /\ disowned' = IF recon.kind = "no-dispatch"
                            THEN [disowned EXCEPT ![r] = @ \cup {recon.attempt}] ELSE disowned
       ELSE UNCHANGED <<op, disowned>>
  /\ recon' = NoRecon
  /\ UNCHANGED <<versions, host, wires, answers, faults>>

-----------------------------------------------------------------------------
Steps(h) ==
  \/ Prepare(h) \/ PrepareFails(h) \/ Dispatch(h) \/ Wire(h) \/ CacheHit(h) \/ SaveOutput(h)
  \/ Finish(h) \/ Refuse(h) \/ Recover(h)

Next ==
  \/ \E h \in Hosts : Steps(h) \/ Stop(h) \/ \E r \in Requests : Begin(h, r) \/ BeginReady(h, r)
  \/ \E r \in Requests : Replay(r) \/ ReconcileRead(r)
  \/ ReconcileCommit

Spec == Init /\ [][Next]_vars

\* Hosts go on, callers repeat their requests, an operator reconciles.
Fairness ==
  /\ \A h \in Hosts : WF_vars(Steps(h))
  /\ \A r \in Requests : WF_vars(\E h \in Hosts : Begin(h, r) \/ BeginReady(h, r))
  /\ \A r \in Requests : SF_vars(ReconcileRead(r))
  /\ WF_vars(ReconcileCommit)

FairSpec == Spec /\ Fairness

-----------------------------------------------------------------------------
(* Properties. *)

States == {"none", "reserved", "dispatched", "ready", "retryable", "uncertain", "completed"}

\* Rows, hosts and evidence stay in their ranges.
TypeOK ==
  /\ op \in [Requests -> [state : States, attempt : Nat, output : BOOLEAN, reserved : BOOLEAN,
                          result : {"none", "ok", "refused"}]]
  /\ versions \subseteq Requests
  /\ host \in [Hosts -> [pc : {"idle", "begun", "dispatched", "replied", "finishing", "refusing", "recovering"},
                         req : Requests \cup {None}, attempt : Nat,
                         how : {"none", "commit", "refuse", "error"}]]
  /\ recon \in [req : Requests \cup {None}, attempt : Nat, kind : {"none", "retained", "no-dispatch"}]
  /\ wires \in [Requests -> Seq(Nat)]
  /\ disowned \in [Requests -> SUBSET Nat]
  /\ answers \in [Requests -> SUBSET {"none", "ok", "refused"}]
  /\ faults \in 0..MaxFaults

\* The purchases of a request that no reconciliation has disowned.
Standing(r) == {i \in DOMAIN wires[r] : wires[r][i] \notin disowned[r]}

\* Remote work is never repeated by the runtime itself: whatever fails, however
\* often the request comes back and however late its hosts are, a proposal is
\* bought a second time only for an attempt, or after one, that a host with the
\* capability reconciled as never dispatched.
OnePurchaseStands == \A r \in Requests : Cardinality(Standing(r)) <= 1


\* Versions and the reservations of requests under way never exceed the
\* retained bound, through retries, lost reservations and reconciliation.
CapacityHolds == Cardinality(versions) + Cardinality(Held) <= MaxVersions

\* All the answers a request's callers get are one: "ok" or "refused",
\* and nothing is retained for a refused one.
AnswersAgree ==
  \A r \in Requests :
    /\ "ok" \in answers[r] => "refused" \notin answers[r]
    /\ "refused" \in answers[r] => r \notin versions
    /\ r \in versions => op[r].result = "ok"

\* What the package promises a request's callers: nothing that stands is bought
\* twice, or for a request that has its receipt, however late its attempt's host
\* is, and that receipt, recorded once with what is retained, is their only
\* answer.
Owner == INSTANCE OneReceipt WITH
  receipt <- [r \in Requests |-> op[r].result],
  bought <- [r \in Requests |-> Cardinality(Standing(r))],
  kept <- versions,
  Capacity <- MaxVersions,
  Accepted <- "ok",
  Refused <- "refused",
  Pending <- "none"
ImplementsOneReceipt == Owner!Spec

\* Capacity held by a request is given back in the end: a version takes its
\* place, a refusal is recorded or the attempt is fenced.
CapacityReturns == \A r \in Requests : op[r].reserved ~> ~op[r].reserved
=============================================================================
