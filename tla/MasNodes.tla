------------------------------ MODULE MasNodes ------------------------------
(***************************************************************************)
(* The node lifecycle of one durable run: segment executors that claimed   *)
(* the run walk its nodes through the semantic store, one transaction per  *)
(* action, while other executors may still believe they hold the claim.    *)
(*                                                                         *)
(* Abstracted: a node is one semantic idempotency key; an output is a      *)
(* member of `Outputs'; the messages of a completion carry the same output *)
(* and are one member of `messages'; a node pushes one state member named  *)
(* like itself; schemas, tool steps, token counts and what an artifact     *)
(* holds are left out.  Which nodes a segment may start concurrently       *)
(* follows from `Needs' (edges and control order).                         *)
(* Segments, the job queue and interactions are in MasSegments; here a     *)
(* wait is resumed by Resume.                                              *)
(***************************************************************************)
EXTENDS Integers, Sequences, FiniteSets

CONSTANTS Keys,       \* semantic idempotency keys of the workflow's nodes
          Executors,  \* segment executors (handler invocations)
          Outputs,    \* what a node can produce; two runs of it may differ
          None,       \* no value
          Needs,      \* Needs[k]: the nodes whose outputs k consumes
          Pushers,    \* nodes that declare a state push
          Extra,      \* Extra[k]: the messages k sends beyond the first
          Files,      \* Files[k]: the trace artifacts a completion of k may retain
          Limit,      \* run.budget.limits.calls
          MaxClaims   \* bound on the claims of one run (leases times segments)

ASSUME NodesAssumption ==
  /\ None \notin Outputs
  /\ Needs \in [Keys -> SUBSET Keys]
  /\ \A k \in Keys : k \notin Needs[k]
  /\ Pushers \subseteq Keys
  /\ Extra \in [Keys -> Nat] /\ Files \in [Keys -> Nat]
  /\ Limit \in Nat
  /\ MaxClaims \in Nat \ {0}

VARIABLES runStatus, claimSeq, traceSeq, spent,   \* the mas_runs row
          row,         \* mas_node_attempts rows of a key, by attempt number
          last,        \* how many attempts a key has
          messages,    \* mas_messages rows by completion, and its artifacts
          revisions,   \* mas_state_revisions rows of the root namespace, in order
          held,        \* the claim epoch an executor works under, 0 for none
          account,     \* calls counted by the executor's budget account
          life         \* where an executor stands with each node

run   == <<runStatus, claimSeq, traceSeq, spent>>
store == <<run, row, last, messages, revisions>>
vars  == <<run, row, last, messages, revisions, held, account, life>>

-----------------------------------------------------------------------------
Terminal == {"completed", "failed", "cancelled"}
Statuses == {"queued", "running", "waiting"} \cup Terminal

NoRow == [status |-> "absent", output |-> None, seq |-> 0]
Open(k) == last[k] > 0 /\ row[k][last[k]].status = "running"

\* The output a key was committed with: what replay hands out.
Completed(k) == last[k] > 0 /\ row[k][last[k]].status = "completed"
Committed(k) == IF Completed(k) THEN row[k][last[k]].output ELSE None

\* latestState: the newest revision's value, or the workflow's initial state.
InitialState == [k \in Keys |-> None]
LatestState  == IF revisions = <<>> THEN InitialState ELSE revisions[Len(revisions)].value

\* One invocation of runNode: n is its attempt, base the state it read, out
\* its output, calls the model calls it made, fail the status it fails with.
Rest == [pc |-> "idle", n |-> 0, base |-> InitialState, out |-> None, calls |-> 0, fail |-> "none"]
Refused == [Rest EXCEPT !.pc = "failed"]

Init ==
  /\ runStatus = "queued" /\ claimSeq = 0 /\ traceSeq = 0 /\ spent = 0
  /\ row = [k \in Keys |-> [n \in 1..MaxClaims |-> NoRow]]
  /\ last = [k \in Keys |-> 0]
  /\ messages = {} /\ revisions = <<>>
  /\ held = [w \in Executors |-> 0]
  /\ account = [w \in Executors |-> 0]
  /\ life = [w \in Executors |-> [k \in Keys |-> Rest]]

Step(w, k, rec) == life' = [life EXCEPT ![w][k] = rec]
Fenced(w)       == held[w] = claimSeq    \* else TMAS2005
Walking(w)      == held[w] # 0

-----------------------------------------------------------------------------
(* Claims and crashes. *)

\* Mutant: a takeover starts with an unspent budget.
Claim_Unseeded(w) ==
  /\ ~Walking(w)
  /\ runStatus \in {"queued", "running"} /\ claimSeq < MaxClaims
  /\ runStatus' = "running"
  /\ claimSeq' = claimSeq + 1
  /\ held' = [held EXCEPT ![w] = claimSeq + 1]
  /\ UNCHANGED <<traceSeq, spent, row, last, messages, revisions, account, life>>

\* claimRunSegment, then executeSegment: the budget account is seeded with the
\* spend of the run row the claim returned.
Claim(w) ==
  /\ ~Walking(w)
  /\ runStatus \in {"queued", "running"} /\ claimSeq < MaxClaims
  /\ runStatus' = "running"
  /\ claimSeq' = claimSeq + 1
  /\ held' = [held EXCEPT ![w] = claimSeq + 1]
  /\ account' = [account EXCEPT ![w] = spent]
  /\ UNCHANGED <<traceSeq, spent, row, last, messages, revisions, life>>

Leave(w) ==
  /\ held' = [held EXCEPT ![w] = 0]
  /\ account' = [account EXCEPT ![w] = 0]
  /\ life' = [life EXCEPT ![w] = [k \in Keys |-> Rest]]

\* The process dies between two steps; everything it had not committed is lost.
Crash(w) == Walking(w) /\ Leave(w) /\ UNCHANGED store

-----------------------------------------------------------------------------
(* runNode. *)

\* Mutant: a node begins before its inputs are there.
InputsReady_Always(w, k) == TRUE

InputsReady(w, k) == \A j \in Needs[k] : life[w][j].pc = "done"

\* Mutant: a new attempt leaves the previous one open.
RowsOnBegin_LeavesOpen(k) ==
  [row[k] EXCEPT ![last[k] + 1] = [status |-> "running", output |-> None, seq |-> traceSeq + 1]]

\* A new attempt aborts the one still open.
RowsOnBegin(k) ==
  [n \in 1..MaxClaims |->
     IF n = last[k] + 1 THEN [status |-> "running", output |-> None, seq |-> traceSeq + 1]
     ELSE IF n = last[k] /\ row[k][n].status = "running" THEN [row[k][n] EXCEPT !.status = "aborted"]
     ELSE row[k][n]]

\* beginNodeAttempt.  A sibling that failed does not stop a node already
\* dispatched, so only the node's own inputs order it.
Begin(w, k) ==
  LET previous == row[k][last[k]]
  IN
  /\ Walking(w) /\ life[w][k].pc = "idle"
  /\ InputsReady(w, k)
  /\ \/ /\ Fenced(w) /\ Completed(k)
        /\ Step(w, k, [Rest EXCEPT !.pc = "done", !.out = previous.output])
        /\ UNCHANGED <<traceSeq, row, last>>
     \/ /\ ~Fenced(w)
        /\ Step(w, k, Refused)
        /\ UNCHANGED <<traceSeq, row, last>>
     \/ /\ Fenced(w) /\ ~Completed(k)
        /\ runStatus # "running" \/ (last[k] > 0 /\ previous.status = "uncertain")
        /\ Step(w, k, Refused)
        /\ UNCHANGED <<traceSeq, row, last>>
     \/ /\ Fenced(w) /\ ~Completed(k) /\ runStatus = "running"
        /\ last[k] > 0 => previous.status # "uncertain"
        /\ traceSeq' = traceSeq + 1
        /\ last' = [last EXCEPT ![k] = @ + 1]
        /\ row' = [row EXCEPT ![k] = RowsOnBegin(k)]
        /\ Step(w, k, [Rest EXCEPT !.pc = "begun", !.n = last[k] + 1])
  /\ UNCHANGED <<runStatus, claimSeq, spent, messages, revisions, held, account>>

\* Mutant: the workflow's initial state is read in its place.
ReadState_Initial(w, k) ==
  /\ life[w][k].pc = "begun"
  /\ Step(w, k, [life[w][k] EXCEPT !.pc = "ready"])
  /\ UNCHANGED <<store, held, account>>

\* latestState: the whole state value is read before the node executes (a graph
\* node reads it before its child runs) and kept until its commit.
ReadState(w, k) ==
  /\ life[w][k].pc = "begun"
  /\ Step(w, k, [life[w][k] EXCEPT !.pc = "ready", !.base = IF k \in Pushers THEN LatestState ELSE @])
  /\ UNCHANGED <<store, held, account>>

\* One model call of an agent: stop and reserve are one synchronous step.
Call(w, k) ==
  /\ life[w][k].pc = "ready"
  /\ account[w] < Limit
  /\ account' = [account EXCEPT ![w] = @ + 1]
  /\ Step(w, k, [life[w][k] EXCEPT !.calls = @ + 1])
  /\ UNCHANGED <<store, held>>

\* The node's work ends with an output.
Produce(w, k, output) ==
  /\ life[w][k].pc = "ready"
  /\ Step(w, k, [life[w][k] EXCEPT !.pc = "executed", !.out = output])
  /\ UNCHANGED <<store, held, account>>

\* Mutant: a failed execution goes on to its commit.
Break_Commits(w, k, outcome) ==
  /\ life[w][k].pc = "ready"
  /\ Step(w, k, [life[w][k] EXCEPT !.pc = "executed", !.fail = outcome])
  /\ UNCHANGED <<store, held, account>>

\* It fails (a refused input or output, a handler error, a spent budget), is
\* aborted by the segment's signal, or leaves an effect of unknown outcome.
Break(w, k, outcome) ==
  /\ life[w][k].pc = "ready"
  /\ Step(w, k, [life[w][k] EXCEPT !.pc = "failing", !.fail = outcome])
  /\ UNCHANGED <<store, held, account>>

\* An interaction without an accepted response: the walk drains and waits, and
\* the attempt stays open for the next segment to abort and begin again.
Pause(w, k) ==
  /\ life[w][k].pc = "ready" /\ life[w][k].calls = 0
  /\ Step(w, k, [Rest EXCEPT !.pc = "paused"])
  /\ UNCHANGED <<store, held, account>>

\* The messages and the state revision of a completion.
Sent(k)   == 1 + Extra[k]
Pushed(k) == IF k \in Pushers THEN 1 ELSE 0

\* Mutant: the artifacts take no number of their own.
RecordsOf_NoArtifacts(k, files) == Sent(k) + Pushed(k)

\* The trace records a completion adds: messages, state revision, artifacts.
RecordsOf(k, files) == Sent(k) + Pushed(k) + files

\* Mutant: the claim epoch is not compared.
MayCommit_NoFence(w, k) ==
  runStatus = "running" /\ row[k][life[w][k].n].status = "running"

\* commitNodeCompletion: attempt, messages, state revision, trace sequence and
\* spend in one transaction.  A refusal, or the rollback of a completion that
\* exceeds the trace byte budget, sends the node to its failure path.  (The
\* idempotent answer for a completed attempt is not reachable from runNode: an
\* attempt id belongs to the one invocation that began it.)
MayCommit(w, k) ==
  Fenced(w) /\ runStatus = "running" /\ row[k][life[w][k].n].status = "running"

Commit(w, k) ==
  LET me == life[w][k]
  IN
  /\ me.pc = "executed" /\ MayCommit(w, k)
  /\ row' = [row EXCEPT ![k][me.n] = [@ EXCEPT !.status = "completed", !.output = me.out]]
  /\ revisions' = IF k \in Pushers
                  THEN Append(revisions, [member |-> k, seq |-> traceSeq + Sent(k) + 1,
                                          value |-> [me.base EXCEPT ![k] = me.out]])
                  ELSE revisions
  /\ \E files \in 0..Files[k] :
       /\ messages' = messages \cup
            {[from |-> k, payload |-> me.out, seq |-> traceSeq + 1, files |-> files]}
       /\ traceSeq' = traceSeq + RecordsOf(k, files)
  /\ spent' = spent + me.calls
  /\ Step(w, k, [Rest EXCEPT !.pc = "done", !.out = me.out])
  /\ UNCHANGED <<runStatus, claimSeq, last, held, account>>

\* Mutant: the rollback forgets the messages.
RefuseCommit_KeepsMessages(w, k) ==
  /\ life[w][k].pc = "executed"
  /\ messages' = messages \cup {[from |-> k, payload |-> life[w][k].out, seq |-> traceSeq + 1, files |-> 0]}
  /\ Step(w, k, [life[w][k] EXCEPT !.pc = "failing", !.fail = "failed"])
  /\ UNCHANGED <<run, row, last, revisions, held, account>>

\* Mutant: the refusal is ignored and the walk goes on with its own output.
RefuseCommit_Ignored(w, k) ==
  /\ life[w][k].pc = "executed"
  /\ Step(w, k, [Rest EXCEPT !.pc = "done", !.out = life[w][k].out])
  /\ UNCHANGED <<store, held, account>>

\* The refusal (always when MayCommit is false), or the rollback.
RefuseCommit(w, k) ==
  /\ life[w][k].pc = "executed"
  /\ Step(w, k, [life[w][k] EXCEPT !.pc = "failing", !.fail = "failed"])
  /\ UNCHANGED <<store, held, account>>

\* Mutant: a failed attempt is not charged.
Fail_Uncharged(w, k) ==
  /\ life[w][k].pc = "failing"
  /\ row' = IF MayCommit(w, k) THEN [row EXCEPT ![k][life[w][k].n].status = life[w][k].fail] ELSE row
  /\ Step(w, k, Refused)
  /\ UNCHANGED <<run, last, messages, revisions, held, account>>

\* failNodeAttempt: the receipt's spend is charged with the terminal row; its
\* refusal is ignored, the node has failed in this walk either way.
Fail(w, k) ==
  LET me == life[w][k]
  IN
  /\ me.pc = "failing"
  /\ IF MayCommit(w, k)
     THEN /\ row' = [row EXCEPT ![k][me.n].status = me.fail]
          /\ spent' = spent + me.calls
     ELSE UNCHANGED <<row, spent>>
  /\ Step(w, k, Refused)
  /\ UNCHANGED <<runStatus, claimSeq, traceSeq, last, messages, revisions, held, account>>

-----------------------------------------------------------------------------
(* The end of a segment. *)

Drained(w) == \A k \in Keys : life[w][k].pc \in {"idle", "done", "failed", "paused"}
AllDone(w) == \A k \in Keys : life[w][k].pc = "done"
Waits(w)   == /\ \E k \in Keys : life[w][k].pc = "paused"
              /\ \A k \in Keys : life[w][k].pc # "failed"

\* transitionRun with the account's spend as settlement: complete when every
\* node is done, wait when an interaction stopped the walk, fail otherwise (or
\* when the trace byte budget rolled the other two back).  A refused settlement
\* is an infrastructure crash.
Settle(w, outcome) ==
  /\ Walking(w) /\ Drained(w)
  /\ \/ outcome = "completed" /\ AllDone(w)
     \/ outcome = "waiting" /\ Waits(w)
     \/ outcome = "failed"
  /\ IF Fenced(w) /\ runStatus = "running"
     THEN /\ runStatus' = outcome
          /\ spent' = IF account[w] > spent THEN account[w] ELSE spent
     ELSE UNCHANGED <<runStatus, spent>>
  /\ Leave(w)
  /\ UNCHANGED <<claimSeq, traceSeq, row, last, messages, revisions>>

\* The accepted response's reconciliation: resume-pending, then queue-segment.
Resume ==
  /\ runStatus = "waiting"
  /\ runStatus' = "queued"
  /\ UNCHANGED <<claimSeq, traceSeq, spent, row, last, messages, revisions, held, account, life>>

\* transitionRun(cancel) is not fenced.
Cancel ==
  /\ runStatus \notin Terminal
  /\ runStatus' = "cancelled"
  /\ UNCHANGED <<claimSeq, traceSeq, spent, row, last, messages, revisions, held, account, life>>

-----------------------------------------------------------------------------
Node(w, k) ==
  \/ Begin(w, k) \/ ReadState(w, k) \/ Call(w, k) \/ Pause(w, k)
  \/ Commit(w, k) \/ RefuseCommit(w, k) \/ Fail(w, k)
  \/ \E output \in Outputs : Produce(w, k, output)
  \/ \E outcome \in {"failed", "aborted", "uncertain"} : Break(w, k, outcome)

Next ==
  \/ \E w \in Executors :
       \/ Claim(w) \/ Crash(w)
       \/ \E outcome \in {"completed", "waiting", "failed"} : Settle(w, outcome)
       \/ \E k \in Keys : Node(w, k)
  \/ Resume \/ Cancel

Spec == Init /\ [][Next]_vars

-----------------------------------------------------------------------------
(* Properties. *)

Epochs == 0..MaxClaims
RowStatuses == {"absent", "running", "completed", "failed", "aborted", "uncertain"}
Values == Outputs \cup {None}

\* Rows, epochs and handler positions stay in their ranges; the trace sequence,
\* spend and account are counters.
TypeOK ==
  /\ runStatus \in Statuses
  /\ claimSeq \in Epochs /\ traceSeq \in Nat /\ spent \in Nat
  /\ row \in [Keys -> [1..MaxClaims -> [status : RowStatuses, output : Values, seq : Nat]]]
  /\ last \in [Keys -> Epochs]
  /\ messages \subseteq [from : Keys, payload : Outputs, seq : Nat, files : Nat]
  /\ revisions \in Seq([member : Keys, seq : Nat, value : [Keys -> Values]])
  /\ held \in [Executors -> Epochs]
  /\ account \in [Executors -> Nat]
  /\ life \in [Executors -> [Keys ->
       [pc : {"idle", "begun", "ready", "paused", "executed", "failing", "done", "failed"},
        n : Epochs, base : [Keys -> Values], out : Values, calls : Nat,
        fail : {"none", "failed", "aborted", "uncertain"}]]]

\* At most one attempt of a key is open, completed or uncertain, and it is the
\* latest: no zombie completes an attempt its successor replaced, nothing is
\* begun after a completion, and an effect recorded as uncertain is never
\* repeated by the runtime.
LatestAttemptDecides ==
  \A k \in Keys : \A n \in 1..MaxClaims :
    row[k][n].status \in {"running", "completed", "uncertain"} => n = last[k]

\* A completion is one transaction: a key has messages exactly when it is
\* committed, they carry the committed output, and they were sent once.
MessagesMatchCompletions ==
  /\ \A k \in Keys : Completed(k) <=> \E m \in messages : m.from = k
  /\ \A m \in messages : m.payload = Committed(m.from)
  /\ \A m, o \in messages : m.from = o.from => m = o

\* What a trace sequence number was given to, with the number first.
AttemptRecords  == {<<row[k][n].seq, "attempt", k, n>> : k \in Keys, n \in 1..MaxClaims}
MessageRecords  == UNION {{<<m.seq + i, "message", m.from, i>> : i \in 0..Extra[m.from]} : m \in messages}
ArtifactRecords ==
  UNION {{<<m.seq + Sent(m.from) + Pushed(m.from) + i, "artifact", m.from, i>> : i \in 0..(m.files - 1)}
           : m \in messages}
StateRecords    == {<<revisions[i].seq, "state", revisions[i].member, i>> : i \in DOMAIN revisions}
Records == {x \in AttemptRecords \cup MessageRecords \cup StateRecords \cup ArtifactRecords : x[1] > 0}

\* Record ids derive from the trace sequence: no two records of the run share
\* a number, whichever executors interleaved.
TraceSeqsDistinct == \A x, y \in Records : x[1] <= traceSeq /\ (x[1] = y[1] => x = y)

\* Whatever a walk uses as a node's output, replayed or its own, is the output
\* that node was committed with: two executors never build on different ones.
WalksSeeCommitted ==
  \A w \in Executors, k \in Keys :
    life[w][k].pc = "done" => Completed(k) /\ life[w][k].out = Committed(k)

\* The recorded spend never exceeds the run's call limit, though accounts are
\* per executor, seeded once, and a stale executor keeps spending its own.
SpendWithinLimit == spent <= Limit

\* The calls a walk made and no row was charged for yet, one element for each.
Uncharged(w) == UNION {{k} \X (1..life[w][k].calls) : k \in Keys}

\* The executor of the current epoch counts exactly what the run recorded plus
\* what its open attempts will charge, so seeding, charging and settling spend
\* neither lose a call nor count one twice, even when a predecessor crashed.
AccountIsReceipts ==
  \A w \in Executors :
    Fenced(w) /\ Walking(w) /\ runStatus = "running" => account[w] = spent + Cardinality(Uncharged(w))

\* A zombie cannot touch the run: only the executor of the current claim epoch
\* changes the store, apart from a claim, a resume and an operator's cancel.
StaleExecutorsWriteNothing ==
  [][ \A w \in Executors :
        life'[w] # life[w] /\ held[w] # claimSeq => UNCHANGED <<row, last, messages, revisions, traceSeq, spent>> ]_vars

\* The run's nodes complete once each, in dependency order, with one output.
Semantic == INSTANCE SemanticCommit WITH committed <- [k \in Keys |-> Committed(k)]
ImplementsSemanticCommit == Semantic!Spec

\* A state revision changes no member but the one it names as pushed.
RevisionChangesOnlyItsMembers ==
  \A i \in 2..Len(revisions) : \A k \in Keys :
    k # revisions[i].member => revisions[i].value[k] = revisions[i - 1].value[k]
=============================================================================
