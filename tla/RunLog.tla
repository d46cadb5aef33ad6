-------------------------------- MODULE RunLog --------------------------------
(***************************************************************************)
(* One run of the run log: the worker that produces it, the chain its      *)
(* frames are appended by, an operator who cancels it, and readers that    *)
(* page through its frames.                                                *)
(*                                                                         *)
(* Abstracted: a frame's body is its kind and the number of its push; a    *)
(* frame that is awaited and one that is not are both queued; the byte     *)
(* bound of a page cuts it anywhere after its first frame.  The live       *)
(* query behind a subscription is external and left out.                   *)
(***************************************************************************)
EXTENDS Integers, Sequences, FiniteSets

CONSTANTS Kinds,      \* which producers run: "chat" (chat.ts), "sync" (a folder pass)
          Readers,    \* consumers that page the run's frames
          Limit,      \* frames per page
          MaxPushes,  \* bound: frames one worker produces
          MaxFaults   \* bound: store operations that fail

ASSUME RunLogAssumption ==
  /\ Kinds \subseteq {"chat", "sync"}
  /\ Limit \in Nat \ {0} /\ MaxPushes \in Nat /\ MaxFaults \in Nat

VARIABLES kind,      \* what the run is
          run,       \* the runs row: status, and whether it names an identity
          frames,    \* the run_frames rows, in seq order
          worker,    \* the producer: where it is, how it means to end
          chain,     \* the frame sink: pushes not yet appended
          tally,     \* pushes made, appends refused
          attach,    \* the status attachIdentity read, or "none"
          aborted,   \* the run's AbortController
          operator,  \* the runs.cancel handler
          reply,     \* the status runs.cancel last answered, or "none"
          reader,    \* per reader: its cursor, the page it is reading, what it got
          faults

row  == <<run, frames>>
self == <<worker, chain, tally, attach, aborted>>
vars == <<kind, row, self, operator, reply, reader, faults>>

-----------------------------------------------------------------------------
Ended    == {"ok", "error", "cancelled"}
Statuses == Ended \cup {"running"}

Frame(what, n)      == [kind |-> what, n |-> n, status |-> "none"]
StatusFrame(how, n) == [kind |-> "status", n |-> n, status |-> how]

Alive      == worker.pc # "gone"
Registered == kind = "chat" /\ Alive     \* has a controller in `inflight'

NoPage == [window |-> <<>>, busy |-> FALSE]

\* startRun and the handshake: nobody knows the run's id before.  A pass whose
\* stack is ready starts with its identity.
Init ==
  /\ kind \in Kinds
  /\ \E named \in IF kind = "sync" THEN BOOLEAN ELSE {FALSE} :
       run = [status |-> "running", identity |-> named]
  /\ frames = <<>>
  /\ worker = [pc |-> "working", how |-> "none"]
  /\ chain = <<>> /\ tally = [pushed |-> 0, refused |-> 0]
  /\ attach = "none" /\ aborted = FALSE
  /\ operator = "idle" /\ reply = "none"
  /\ reader = [r \in Readers |-> [cursor |-> 0, got |-> <<>>, page |-> NoPage]]
  /\ faults = 0

-----------------------------------------------------------------------------
(* finishRun: the row and the terminal frame in one transaction. *)

\* A config-aware run that names no identity ends as an error; a run that has
\* ended is refused, and nothing is written.
FinishRun(how, refused) ==
  LET written == IF how = "ok" /\ ~run.identity THEN "error" ELSE how
  IN  IF run.status # "running" THEN UNCHANGED row
      ELSE /\ run' = [run EXCEPT !.status = written]
           /\ frames' = Append(frames, StatusFrame(written, refused))

Fault == faults < MaxFaults /\ faults' = faults + 1

-----------------------------------------------------------------------------
(* The worker. *)

Push(what) ==
  /\ tally.pushed < MaxPushes
  /\ chain' = Append(chain, Frame(what, tally.pushed + 1))
  /\ tally' = [tally EXCEPT !.pushed = @ + 1]

\* A pipeline node or the model's stream hands a frame over from a callback.
Produce ==
  /\ worker.pc \in {"working", "attaching"}
  /\ Push("work")
  /\ UNCHANGED <<kind, row, worker, attach, aborted, operator, reply, reader, faults>>

\* Mutant: a refused append is not counted.
AppendFrame_Uncounted ==
  /\ chain # <<>>
  /\ chain' = Tail(chain)
  /\ frames' = IF run.status = "running" THEN Append(frames, Head(chain)) ELSE frames
  /\ UNCHANGED <<kind, run, worker, tally, attach, aborted, operator, reply, reader, faults>>

\* The head of the chain, in a transaction that holds the run; a refusal or a
\* failure of the store is counted and the chain goes on.
AppendFrame ==
  /\ chain # <<>>
  /\ chain' = Tail(chain)
  /\ \/ /\ run.status = "running"
        /\ frames' = Append(frames, Head(chain))
        /\ UNCHANGED <<tally, faults>>
     \/ /\ \/ run.status # "running" /\ UNCHANGED faults
           \/ Fault
        /\ tally' = [tally EXCEPT !.refused = @ + 1]
        /\ UNCHANGED frames
  /\ UNCHANGED <<kind, run, worker, attach, aborted, operator, reply, reader>>

\* attachIdentity reads the row ...
AttachRead ==
  /\ worker.pc = "working" /\ attach = "none" /\ ~run.identity
  /\ worker' = [worker EXCEPT !.pc = "attaching"]
  /\ attach' = run.status
  /\ UNCHANGED <<kind, row, chain, tally, aborted, operator, reply, reader, faults>>

\* ... and puts it back whole, in no transaction.  A chat then says so.  A put
\* that fails throws: out of the work, or into an embed call whose failure only
\* degrades it.  It is not tried again.
AttachPut ==
  /\ worker.pc = "attaching"
  /\ \/ /\ run' = [status |-> attach, identity |-> TRUE]
        /\ worker' = [worker EXCEPT !.pc = "working"]
        /\ IF kind = "chat" /\ tally.pushed < MaxPushes THEN Push("identity") ELSE UNCHANGED <<chain, tally>>
        /\ UNCHANGED faults
     \/ /\ Fault /\ UNCHANGED <<run, chain, tally>>
        /\ \E pc \in {"caught", "working"} : worker' = [worker EXCEPT !.pc = pc]
  /\ UNCHANGED <<kind, frames, attach, aborted, operator, reply, reader>>

\* The work is done, was cancelled, or threw.
Conclude(how) ==
  /\ worker.pc = "working"
  /\ how = "cancelled" => aborted
  /\ worker' = [pc |-> IF how = "error" THEN "caught" ELSE "draining", how |-> how]
  /\ UNCHANGED <<kind, row, chain, tally, attach, aborted, operator, reply, reader, faults>>

\* Mutant: the run is closed over appends still queued.
Finish_Undrained ==
  /\ worker.pc = "draining"
  /\ FinishRun(worker.how, tally.refused) /\ worker' = [worker EXCEPT !.pc = "gone"]
  /\ UNCHANGED <<kind, chain, tally, attach, aborted, operator, reply, reader, faults>>

\* drain, then finishRun; if the store fails, the handler's catch ends the run.
Finish ==
  /\ worker.pc = "draining" /\ chain = <<>>
  /\ \/ FinishRun(worker.how, tally.refused) /\ worker' = [worker EXCEPT !.pc = "gone"] /\ UNCHANGED faults
     \/ Fault /\ worker' = [worker EXCEPT !.pc = "caught"] /\ UNCHANGED row
  /\ UNCHANGED <<kind, chain, tally, attach, aborted, operator, reply, reader>>

\* The catch: a folder pass drains its frames first, a chat does not.
Catch ==
  /\ worker.pc = "caught" /\ (kind = "sync" => chain = <<>>)
  /\ \/ FinishRun("error", tally.refused) /\ UNCHANGED faults
     \/ Fault /\ UNCHANGED row
  /\ worker' = [worker EXCEPT !.pc = "gone"]
  /\ UNCHANGED <<kind, chain, tally, attach, aborted, operator, reply, reader>>

\* The process stops: the worker, its queue and the handler are lost.
Crash ==
  /\ Alive
  /\ worker' = [worker EXCEPT !.pc = "gone"]
  /\ chain' = <<>> /\ operator' = "idle"
  /\ UNCHANGED <<kind, row, tally, attach, aborted, reply, reader, faults>>

-----------------------------------------------------------------------------
(* runs.cancel. *)

\* The run as it is now: one that ended answers its state.
CancelRead ==
  /\ operator = "idle"
  /\ IF run.status = "running" THEN operator' = "deciding" /\ UNCHANGED reply
     ELSE reply' = run.status /\ UNCHANGED operator
  /\ UNCHANGED <<kind, row, self, reader, faults>>

\* Mutant: the run is closed under a worker that could be asked.
CancelDecide_NeverAsks ==
  /\ operator = "deciding" /\ operator' = "closing"
  /\ UNCHANGED <<kind, row, self, reply, reader, faults>>

\* Mutant: only a worker can end a run.
CancelDecide_OnlyAsks ==
  /\ operator = "deciding" /\ operator' = "idle"
  /\ IF Registered THEN aborted' = TRUE /\ reply' = "running" ELSE UNCHANGED <<aborted, reply>>
  /\ UNCHANGED <<kind, row, worker, chain, tally, attach, reader, faults>>

\* A worker of this process is asked; a run without one is closed here.
CancelDecide ==
  /\ operator = "deciding"
  /\ \/ Registered /\ aborted' = TRUE /\ operator' = "idle" /\ reply' = "running"
     \/ ~Registered /\ operator' = "closing" /\ UNCHANGED <<aborted, reply>>
  /\ UNCHANGED <<kind, row, worker, chain, tally, attach, reader, faults>>

\* The answer is "cancelled" also when finishRun was refused.
CancelClose ==
  /\ operator = "closing"
  /\ FinishRun("cancelled", 0)
  /\ operator' = "idle" /\ reply' = "cancelled"
  /\ UNCHANGED <<kind, self, reader, faults>>

-----------------------------------------------------------------------------
(* replayPage. *)

UpTo(n) == IF n < Len(frames) THEN n ELSE Len(frames)

\* Mutant: the frame at the cursor is in the window again.
Window_Inclusive(after) == SubSeq(frames, IF after = 0 THEN 1 ELSE after, UpTo(after + Limit))

\* framesOf(after, limit + 1)
Window(after) == SubSeq(frames, after + 1, UpTo(after + Limit + 1))

\* The first read of a page ...
ReadWindow(r) ==
  /\ ~reader[r].page.busy
  /\ Len(frames) > reader[r].cursor \/ run.status = "running"
  /\ reader' = [reader EXCEPT ![r].page = [window |-> Window(reader[r].cursor), busy |-> TRUE]]
  /\ UNCHANGED <<kind, row, self, operator, reply, faults>>

\* The first frame always ships.
Least(n) == IF n = 0 THEN 0 ELSE 1

\* ... and the end of it: the page ships at most `Limit' frames, cut anywhere by
\* the byte bound.  (The high watermark is read last and may be beyond it.)
ShipPage(r) ==
  LET window == reader[r].page.window
      n      == IF Len(window) > Limit THEN Limit ELSE Len(window)
  IN  /\ reader[r].page.busy
      /\ \E cut \in Least(n)..n :
           reader' = [reader EXCEPT ![r] =
             [cursor |-> @.cursor + cut, got |-> @.got \o SubSeq(window, 1, cut),
              page |-> NoPage]]
      /\ UNCHANGED <<kind, row, self, operator, reply, faults>>

-----------------------------------------------------------------------------
Work ==
  \/ Produce \/ AttachRead \/ AttachPut \/ Finish \/ Catch
  \/ \E how \in Ended : Conclude(how)

Next ==
  \/ Work \/ AppendFrame \/ Crash
  \/ CancelRead \/ CancelDecide \/ CancelClose
  \/ \E r \in Readers : ReadWindow(r) \/ ShipPage(r)

Spec == Init /\ [][Next]_vars

\* A live worker and its chain go on, readers page again, and an operator looks
\* at a run that is still open and cancels it.
Fairness ==
  /\ WF_vars(AttachPut \/ Finish \/ Catch \/ \E how \in Ended : Conclude(how))
  /\ WF_vars(AppendFrame)
  /\ \A r \in Readers : WF_vars(ReadWindow(r) \/ ShipPage(r))
  /\ WF_vars(CancelDecide \/ CancelClose \/ (run.status = "running" /\ CancelRead))

FairSpec == Spec /\ Fairness

-----------------------------------------------------------------------------
(* Properties. *)

FrameRows == [kind : {"work", "identity", "status"}, n : Nat, status : Ended \cup {"none"}]
Pages     == [window : Seq(FrameRows), busy : BOOLEAN]

\* Rows, queue, handler and cursors stay in their ranges.
TypeOK ==
  /\ kind \in Kinds
  /\ run \in [status : Statuses, identity : BOOLEAN]
  /\ frames \in Seq(FrameRows)
  /\ worker \in [pc : {"working", "attaching", "draining", "caught", "gone"}, how : Ended \cup {"none"}]
  /\ chain \in Seq(FrameRows)
  /\ tally \in [pushed : Nat, refused : Nat]
  /\ attach \in Statuses \cup {"none"} /\ aborted \in BOOLEAN
  /\ operator \in {"idle", "deciding", "closing"}
  /\ reply \in Statuses \cup {"none"}
  /\ reader \in [Readers -> [cursor : Nat, got : Seq(FrameRows), page : Pages]]
  /\ faults \in 0..MaxFaults

\* A chat's "finished" and "said it finished" cannot disagree: the row has ended
\* exactly when the last frame says how, and no other frame says it.
TerminalFrameIsLast ==
  kind = "chat" => \A i \in DOMAIN frames :
    /\ frames[i].kind = "status" => i = Len(frames) /\ frames[i].status = run.status
    /\ i = Len(frames) /\ run.status # "running" => frames[i].kind = "status"

\* A config-aware run is never "ok" without the stack that produced it.
OkRunsNameTheirStack == run.status = "ok" => run.identity

\* A run that ended well accounts for every frame pushed: it is in the log or
\* in the summary's count of refusals.
SummaryAccountsForFrames ==
  \A i \in DOMAIN frames :
    frames[i].status = "ok" =>
      tally.pushed = Cardinality({j \in DOMAIN frames : frames[j].kind # "status"}) + frames[i].n

\* What a reader put together from its pages is the log up to its cursor.
PagesAreTheLog ==
  \A r \in Readers : /\ reader[r].cursor <= Len(frames)
                     /\ reader[r].got = SubSeq(frames, 1, reader[r].cursor)

\* The log of a chat is a sealed log.  (A folder pass has no controller: it may
\* be closed under an attachIdentity that then puts the open row back.)
LogOf(fs) == [i \in DOMAIN fs |-> IF fs[i].kind = "status" THEN fs[i].status ELSE fs[i].kind]
Sealed == INSTANCE SealedLog WITH
  Entries <- {"work", "identity"}, Outcomes <- Ended, Open <- "running",
  log <- IF kind = "chat" THEN LogOf(frames) ELSE <<>>,
  outcome <- IF kind = "chat" THEN run.status ELSE "running"
ImplementsSealedLog == Sealed!Spec

\* A run that somebody wants ended ends, and stays so.
RunsEnd == <>[](run.status # "running")

=============================================================================
