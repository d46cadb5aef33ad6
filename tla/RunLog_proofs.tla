---------------------------- MODULE RunLog_proofs ----------------------------
(***************************************************************************)
(* What holds of RunLog for every page limit, any number of readers,       *)
(* frames and faults.                                                      *)
(***************************************************************************)
EXTENDS RunLog, FiniteSetTheorems, SequenceTheorems, TLAPS

\* The frames that are no terminal frame.
Entries(fs) == {i \in DOMAIN fs : fs[i].kind # "status"}

\* What waits in the chain is no terminal frame, and only terminal frames
\* carry a status.
FramesInv ==
  /\ \A i \in DOMAIN chain : chain[i].kind # "status" /\ chain[i].status = "none"
  /\ \A i \in DOMAIN frames : frames[i].kind # "status" => frames[i].status = "none"

\* A worker that ends its run knows how, and one that attaches knows the row.
PlaceInv ==
  /\ worker.pc = "draining" => worker.how \in Ended
  /\ worker.pc = "attaching" => attach \in Statuses

\* A chat's run is open while its worker lives: it is registered, so a cancel
\* only asks, and it is what ends the run.
OpenInv ==
  kind = "chat" =>
    /\ Alive => run.status = "running"
    /\ worker.pc = "attaching" => attach = "running"
    /\ operator = "closing" => ~Alive

\* The log's last frame ends a chat's run, and no other frame does.
SealInv ==
  kind = "chat" =>
    /\ \A i \in DOMAIN frames : frames[i].kind = "status" => i = Len(frames) /\ frames[i].status = run.status
    /\ run.status # "running" => frames # <<>> /\ frames[Len(frames)].kind = "status"

\* Every push is in the log, counted as refused or still in the chain, for as
\* long as the worker lives, and for ever when it ended its run well.
AccountInv ==
  /\ Alive \/ (\E i \in DOMAIN frames : frames[i].status = "ok") =>
       tally.pushed = Cardinality(Entries(frames)) + tally.refused + Len(chain)
  /\ \A i \in DOMAIN frames :
       frames[i].status = "ok" => ~Alive /\ chain = <<>> /\ frames[i].n = tally.refused

\* The window a reader holds is the part of the log after its cursor.
WindowInv ==
  \A r \in Readers : reader[r].page.busy =>
    LET window == reader[r].page.window IN
      /\ reader[r].cursor + Len(window) <= Len(frames)
      /\ \A i \in 1..Len(window) : window[i] = frames[reader[r].cursor + i]

RunLogInv ==
  TypeOK /\ PlaceInv /\ FramesInv /\ OpenInv /\ SealInv /\ AccountInv /\ WindowInv /\ PagesAreTheLog

-----------------------------------------------------------------------------
(* Sequences. *)

\* What the last position of a sequence that grew by one holds.
LEMMA Appended ==
  ASSUME NEW S, NEW s \in Seq(S), NEW e \in S
  PROVE  /\ Append(s, e) \in Seq(S) /\ Len(Append(s, e)) = Len(s) + 1
         /\ Append(s, e)[Len(s) + 1] = e
         /\ \A i \in 1..Len(s) : Append(s, e)[i] = s[i]
         /\ DOMAIN s = 1..Len(s) /\ DOMAIN Append(s, e) = 1..(Len(s) + 1)
OBVIOUS

\* A prefix is told by its length and its elements.
LEMMA PrefixOf ==
  ASSUME NEW S, NEW s \in Seq(S), NEW t \in Seq(S), NEW n \in 0..Len(s)
  PROVE  t = SubSeq(s, 1, n) <=> Len(t) = n /\ \A i \in 1..n : t[i] = s[i]
<1>1. \A i \in 1..n : s[i] \in S BY ElementOfSeq
<1>2. /\ SubSeq(s, 1, n) \in Seq(S) /\ Len(SubSeq(s, 1, n)) = n
      /\ \A i \in 1..n : SubSeq(s, 1, n)[i] = s[i]
  BY <1>1, SubSeqProperties
<1>3. ASSUME Len(t) = n, \A i \in 1..n : t[i] = s[i] PROVE t = SubSeq(s, 1, n)
  BY <1>2, <1>3, SeqEqual
<1> QED BY <1>2, <1>3

-----------------------------------------------------------------------------
(* Types. *)

\* A run starts with every row and record in its range.
LEMMA TypeInit == Init => TypeOK
<1> SUFFICES ASSUME Init PROVE TypeOK OBVIOUS
<1>1. <<>> \in Seq(FrameRows) BY EmptySeq
<1>2. [cursor |-> 0, got |-> <<>>, page |-> NoPage] \in [cursor : Nat, got : Seq(FrameRows), page : Pages]
  BY <1>1 DEF NoPage, Pages
<1>3. run \in [status : Statuses, identity : BOOLEAN]
  <2>1. PICK named \in BOOLEAN : run = [status |-> "running", identity |-> named]
    BY Zenon DEF Init
  <2> QED BY <2>1 DEF Statuses
<1>4. reader \in [Readers -> [cursor : Nat, got : Seq(FrameRows), page : Pages]] BY <1>2 DEF Init
<1>5. faults \in 0..MaxFaults BY RunLogAssumption DEF Init
<1>6. kind \in Kinds /\ tally \in [pushed : Nat, refused : Nat] BY DEF Init
<1>7. /\ worker \in [pc : {"working", "attaching", "draining", "caught", "gone"}, how : Ended \cup {"none"}]
      /\ frames = <<>> /\ chain = <<>> /\ attach = "none" /\ aborted = FALSE
      /\ operator = "idle" /\ reply = "none"
  BY DEF Init
<1> QED BY <1>1, <1>3, <1>4, <1>5, <1>6, <1>7 DEF TypeOK

\* Ending a run keeps row and frames in their ranges.
LEMMA FinishTypes ==
  ASSUME TypeOK, NEW how \in Ended, NEW n \in Nat, FinishRun(how, n)
  PROVE  run' \in [status : Statuses, identity : BOOLEAN] /\ frames' \in Seq(FrameRows)
<1> DEFINE written == IF how = "ok" /\ ~run.identity THEN "error" ELSE how
<1>1. written \in Ended BY DEF Ended
<1>2. StatusFrame(written, n) \in FrameRows BY <1>1 DEF StatusFrame, FrameRows
<1>3. CASE run.status # "running" BY <1>3 DEF FinishRun, row, TypeOK
<1>4. CASE run.status = "running"
  <2>1. run' = [run EXCEPT !.status = written] /\ frames' = Append(frames, StatusFrame(written, n))
    BY <1>4 DEF FinishRun
  <2> HIDE DEF written
  <2>2. run \in [status : Statuses, identity : BOOLEAN] /\ frames \in Seq(FrameRows) BY DEF TypeOK
  <2>3. run' \in [status : Statuses, identity : BOOLEAN] BY <1>1, <2>1, <2>2 DEF Statuses
  <2>4. frames' \in Seq(FrameRows) BY <1>2, <2>1, <2>2
  <2> QED BY <2>3, <2>4
<1> QED BY <1>3, <1>4

\* Pushing keeps chain and tally in their ranges.
LEMMA PushTypes ==
  ASSUME TypeOK, NEW what \in {"work", "identity"}, Push(what)
  PROVE  /\ chain' \in Seq(FrameRows) /\ tally' \in [pushed : Nat, refused : Nat]
         /\ chain' = Append(chain, Frame(what, tally.pushed + 1))
         /\ Frame(what, tally.pushed + 1) \in FrameRows
<1>1. tally.pushed + 1 \in Nat BY DEF TypeOK
<1>2. Frame(what, tally.pushed + 1) \in FrameRows BY <1>1 DEF Frame, FrameRows
<1>3. chain' = Append(chain, Frame(what, tally.pushed + 1)) /\ tally' = [tally EXCEPT !.pushed = @ + 1]
  BY DEF Push
<1>4. chain \in Seq(FrameRows) /\ tally \in [pushed : Nat, refused : Nat] BY DEF TypeOK
<1>5. tally' \in [pushed : Nat, refused : Nat] BY <1>3, <1>4
<1>6. chain' \in Seq(FrameRows) BY <1>2, <1>3, <1>4
<1> QED BY <1>2, <1>3, <1>5, <1>6

\* A window is a sequence of frames.
LEMMA WindowOf ==
  ASSUME TypeOK, NEW after \in Nat, after <= Len(frames)
  PROVE  /\ Window(after) \in Seq(FrameRows)
         /\ after + Len(Window(after)) <= Len(frames)
         /\ \A i \in 1..Len(Window(after)) : Window(after)[i] = frames[after + i]
<1> DEFINE to == UpTo(after + Limit + 1)
<1>1. frames \in Seq(FrameRows) /\ Len(frames) \in Nat BY DEF TypeOK
<1>2. to \in after..Len(frames) BY <1>1, RunLogAssumption DEF UpTo
<1>3. \A i \in (after + 1)..to : frames[i] \in FrameRows BY <1>1, <1>2, ElementOfSeq
<1>4. /\ Window(after) \in Seq(FrameRows)
      /\ Len(Window(after)) = IF after + 1 <= to THEN to - (after + 1) + 1 ELSE 0
      /\ \A i \in 1..(to - (after + 1) + 1) : Window(after)[i] = frames[after + 1 + i - 1]
  BY <1>2, <1>3, SubSeqProperties DEF Window
<1>5. Len(Window(after)) = to - after BY <1>2, <1>4
<1>6. \A i \in 1..(to - after) : Window(after)[i] = frames[after + i]
  <2>1. ASSUME NEW i \in 1..(to - after) PROVE i \in 1..(to - (after + 1) + 1) /\ after + 1 + i - 1 = after + i
    BY <1>2
  <2> QED BY <1>4, <2>1
<1> HIDE DEF to
<1> QED BY <1>1, <1>2, <1>4, <1>5, <1>6

\* What a shipped page adds to what its reader has.
LEMMA Shipped ==
  ASSUME TypeOK, NEW r \in Readers, ShipPage(r)
  PROVE  \E cut \in 0..Len(reader[r].page.window) :
           /\ reader' = [reader EXCEPT ![r] =
                [cursor |-> @.cursor + cut, got |-> @.got \o SubSeq(reader[r].page.window, 1, cut), page |-> NoPage]]
           /\ SubSeq(reader[r].page.window, 1, cut) \in Seq(FrameRows)
           /\ Len(SubSeq(reader[r].page.window, 1, cut)) = cut
           /\ \A i \in 1..cut : SubSeq(reader[r].page.window, 1, cut)[i] = reader[r].page.window[i]
<1> DEFINE window == reader[r].page.window
           n == IF Len(window) > Limit THEN Limit ELSE Len(window)
<1>1. window \in Seq(FrameRows) /\ Len(window) \in Nat BY DEF TypeOK, Pages
<1>2. n \in 0..Len(window) BY <1>1, RunLogAssumption
<1>3. PICK cut \in Least(n)..n :
        reader' = [reader EXCEPT ![r] =
          [cursor |-> @.cursor + cut, got |-> @.got \o SubSeq(window, 1, cut), page |-> NoPage]]
  BY DEF ShipPage
<1>4. cut \in 0..Len(window) BY <1>1, <1>2, <1>3 DEF Least
<1>5. \A i \in 1..cut : window[i] \in FrameRows BY <1>1, <1>4, ElementOfSeq
<1>6. /\ SubSeq(window, 1, cut) \in Seq(FrameRows)
      /\ Len(SubSeq(window, 1, cut)) = IF 1 <= cut THEN cut - 1 + 1 ELSE 0
      /\ \A i \in 1..(cut - 1 + 1) : SubSeq(window, 1, cut)[i] = window[1 + i - 1]
  BY <1>4, <1>5, SubSeqProperties
<1>7. Len(SubSeq(window, 1, cut)) = cut /\ \A i \in 1..cut : SubSeq(window, 1, cut)[i] = window[i]
  BY <1>4, <1>6
<1> QED BY <1>3, <1>4, <1>6, <1>7

ReaderRows == [cursor : Nat, got : Seq(FrameRows), page : Pages]

\* A step that moves readers only keeps the types when their rows keep theirs.
LEMMA ReaderTyped ==
  ASSUME TypeOK, reader' \in [Readers -> ReaderRows],
         UNCHANGED <<kind, row, self, operator, reply, faults>>
  PROVE  TypeOK'
<1>1. UNCHANGED <<kind, run, frames, worker, chain, tally, attach, aborted, operator, reply, faults>>
  BY DEF row, self
<1> QED BY <1>1 DEF TypeOK, ReaderRows

\* No action takes a row, frame, queue or cursor out of its range.
LEMMA TypeStep ==
  ASSUME TypeOK, PlaceInv, PagesAreTheLog, [Next]_vars
  PROVE  TypeOK'
<1>0. CASE UNCHANGED vars BY <1>0 DEF vars, row, self, TypeOK
<1>1. CASE Produce
  <2>1. chain' \in Seq(FrameRows) /\ tally' \in [pushed : Nat, refused : Nat] BY <1>1, PushTypes DEF Produce
  <2> QED BY <1>1, <2>1 DEF Produce, row, TypeOK
<1>2. CASE AppendFrame
  <2>1. Head(chain) \in FrameRows /\ Tail(chain) \in Seq(FrameRows)
    BY <1>2, HeadTailProperties DEF AppendFrame, TypeOK
  <2>2. frames' \in Seq(FrameRows)
    <3>1. frames' = Append(frames, Head(chain)) \/ frames' = frames BY <1>2 DEF AppendFrame
    <3>2. frames \in Seq(FrameRows) BY DEF TypeOK
    <3> QED BY <2>1, <3>1, <3>2, Appended
  <2>3. tally' \in [pushed : Nat, refused : Nat] BY <1>2 DEF AppendFrame, TypeOK
  <2>4. faults' = faults \/ Fault BY <1>2 DEF AppendFrame
  <2>5. faults' \in 0..MaxFaults BY <2>4, RunLogAssumption DEF Fault, TypeOK
  <2> QED BY <1>2, <2>1, <2>2, <2>3, <2>5 DEF AppendFrame, TypeOK
<1>3. CASE AttachRead
  <2>1. worker' \in [pc : {"working", "attaching", "draining", "caught", "gone"}, how : Ended \cup {"none"}]
    BY <1>3 DEF AttachRead, TypeOK
  <2>2. attach' \in Statuses BY <1>3 DEF AttachRead, TypeOK
  <2> QED BY <1>3, <2>1, <2>2 DEF AttachRead, row, TypeOK
<1>4. CASE AttachPut
  <2>1. run' \in [status : Statuses, identity : BOOLEAN]
    <3>1. CASE run' = run BY <3>1 DEF TypeOK
    <3>2. CASE run' = [status |-> attach, identity |-> TRUE]
      <4>1. attach \in Statuses BY <1>4 DEF AttachPut, PlaceInv
      <4> QED BY <3>2, <4>1
    <3> QED BY <1>4, <3>1, <3>2 DEF AttachPut
  <2>2. chain' \in Seq(FrameRows) /\ tally' \in [pushed : Nat, refused : Nat]
    <3>1. CASE Push("identity") BY <3>1, PushTypes
    <3>2. CASE UNCHANGED <<chain, tally>> BY <3>2 DEF TypeOK
    <3> QED BY <1>4, <3>1, <3>2 DEF AttachPut
  <2>3. worker' \in [pc : {"working", "attaching", "draining", "caught", "gone"}, how : Ended \cup {"none"}]
    BY <1>4 DEF AttachPut, TypeOK
  <2>4. faults' \in 0..MaxFaults BY <1>4, RunLogAssumption DEF AttachPut, Fault, TypeOK
  <2> QED BY <1>4, <2>1, <2>2, <2>3, <2>4 DEF AttachPut, TypeOK
<1>5. ASSUME NEW how \in Ended, Conclude(how) PROVE TypeOK'
  <2>1. worker' \in [pc : {"working", "attaching", "draining", "caught", "gone"}, how : Ended \cup {"none"}]
    BY <1>5 DEF Conclude, TypeOK
  <2> QED BY <1>5, <2>1 DEF Conclude, row, TypeOK
<1>6. CASE Finish
  <2>1. run' \in [status : Statuses, identity : BOOLEAN] /\ frames' \in Seq(FrameRows)
    <3>1. CASE FinishRun(worker.how, tally.refused)
      <4>1. worker.how \in Ended /\ tally.refused \in Nat BY <1>6 DEF Finish, PlaceInv, TypeOK
      <4> QED BY <3>1, <4>1, FinishTypes
    <3>2. CASE UNCHANGED row BY <3>2 DEF row, TypeOK
    <3> QED BY <1>6, <3>1, <3>2 DEF Finish
  <2>2. worker' \in [pc : {"working", "attaching", "draining", "caught", "gone"}, how : Ended \cup {"none"}]
    BY <1>6 DEF Finish, TypeOK
  <2>3. faults' \in 0..MaxFaults BY <1>6, RunLogAssumption DEF Finish, Fault, TypeOK
  <2> QED BY <1>6, <2>1, <2>2, <2>3 DEF Finish, TypeOK
<1>7. CASE Catch
  <2>1. run' \in [status : Statuses, identity : BOOLEAN] /\ frames' \in Seq(FrameRows)
    <3>1. CASE FinishRun("error", tally.refused)
      <4>1. "error" \in Ended /\ tally.refused \in Nat BY DEF Ended, TypeOK
      <4> QED BY <3>1, <4>1, FinishTypes
    <3>2. CASE UNCHANGED row BY <3>2 DEF row, TypeOK
    <3> QED BY <1>7, <3>1, <3>2 DEF Catch
  <2>2. worker' \in [pc : {"working", "attaching", "draining", "caught", "gone"}, how : Ended \cup {"none"}]
    BY <1>7 DEF Catch, TypeOK
  <2>3. faults' \in 0..MaxFaults BY <1>7, RunLogAssumption DEF Catch, Fault, TypeOK
  <2> QED BY <1>7, <2>1, <2>2, <2>3 DEF Catch, TypeOK
<1>8. CASE Crash
  <2>1. worker' \in [pc : {"working", "attaching", "draining", "caught", "gone"}, how : Ended \cup {"none"}]
    BY <1>8 DEF Crash, TypeOK
  <2>2. chain' \in Seq(FrameRows) BY <1>8, EmptySeq DEF Crash
  <2> QED BY <1>8, <2>1, <2>2 DEF Crash, row, TypeOK
<1>9. CASE CancelRead BY <1>9 DEF CancelRead, row, self, TypeOK
<1>10. CASE CancelDecide
  <2>1. operator' \in {"idle", "deciding", "closing"} /\ aborted' \in BOOLEAN /\ reply' \in Statuses \cup {"none"}
    BY <1>10 DEF CancelDecide, TypeOK, Statuses
  <2>2. UNCHANGED <<kind, run, frames, worker, chain, tally, attach, reader, faults>>
    BY <1>10 DEF CancelDecide, row
  <2> QED BY <2>1, <2>2 DEF TypeOK
<1>11. CASE CancelClose
  <2>1. run' \in [status : Statuses, identity : BOOLEAN] /\ frames' \in Seq(FrameRows)
    <3>1. "cancelled" \in Ended /\ 0 \in Nat BY DEF Ended
    <3> QED BY <1>11, <3>1, FinishTypes DEF CancelClose
  <2>2. reply' \in Statuses BY <1>11 DEF CancelClose, Statuses, Ended
  <2> QED BY <1>11, <2>1, <2>2 DEF CancelClose, self, TypeOK
<1>12. ASSUME NEW r \in Readers, ReadWindow(r) PROVE TypeOK'
  <2>1. reader[r].cursor \in Nat /\ reader[r].cursor <= Len(frames) BY DEF TypeOK, PagesAreTheLog
  <2>2. [window |-> Window(reader[r].cursor), busy |-> TRUE] \in Pages BY <2>1, WindowOf DEF Pages
  <2> DEFINE rec == [reader[r] EXCEPT !.page = [window |-> Window(reader[r].cursor), busy |-> TRUE]]
  <2>3. reader \in [Readers -> ReaderRows] BY DEF TypeOK, ReaderRows
  <2>4. rec \in ReaderRows BY <2>2, <2>3 DEF ReaderRows
  <2>5. reader' = [reader EXCEPT ![r] = rec] BY <1>12 DEF ReadWindow
  <2> HIDE DEF rec
  <2>6. reader' \in [Readers -> ReaderRows] BY <2>3, <2>4, <2>5
  <2>7. UNCHANGED <<kind, row, self, operator, reply, faults>> BY <1>12 DEF ReadWindow
  <2> QED BY <2>6, <2>7, ReaderTyped
<1>13. ASSUME NEW r \in Readers, ShipPage(r) PROVE TypeOK'
  <2> DEFINE page(cut) == SubSeq(reader[r].page.window, 1, cut)
  <2>1. PICK cut \in Nat :
          /\ reader' = [reader EXCEPT ![r] =
               [cursor |-> @.cursor + cut, got |-> @.got \o page(cut), page |-> NoPage]]
          /\ page(cut) \in Seq(FrameRows)
    <3>1. Len(reader[r].page.window) \in Nat BY DEF TypeOK, Pages
    <3>2. 0..Len(reader[r].page.window) \subseteq Nat BY <3>1
    <3> QED BY Zenon, <1>13, <3>2, Shipped
  <2> HIDE DEF page
  <2>2. reader[r].got \o page(cut) \in Seq(FrameRows) BY <2>1, ConcatProperties DEF TypeOK
  <2>3. NoPage \in Pages BY EmptySeq DEF NoPage, Pages
  <2>4. [cursor |-> reader[r].cursor + cut, got |-> reader[r].got \o page(cut), page |-> NoPage] \in ReaderRows
    BY <2>1, <2>2, <2>3 DEF ReaderRows, TypeOK
  <2>5. reader' \in [Readers -> ReaderRows] BY <2>1, <2>4 DEF ReaderRows, TypeOK
  <2>6. UNCHANGED <<kind, row, self, operator, reply, faults>> BY <1>13 DEF ShipPage
  <2> QED BY <2>5, <2>6, ReaderTyped
<1> QED
  BY <1>0, <1>1, <1>2, <1>3, <1>4, <1>5, <1>6, <1>7, <1>8, <1>9, <1>10, <1>11, <1>12, <1>13 DEF Next, Work

-----------------------------------------------------------------------------
(* What a step does to the log. *)

\* Row and frames are left alone, take the chain's head, are ended or are put
\* back by the worker that read them.
Appends ==
  /\ chain # <<>> /\ run.status = "running" /\ run' = run
  /\ frames' = Append(frames, Head(chain))

Ends ==
  \E how \in Ended, n \in Nat :
    /\ run.status = "running"
    /\ run' = [run EXCEPT !.status = how]
    /\ frames' = Append(frames, StatusFrame(how, n))
    /\ how = "ok" => worker.pc = "draining" /\ worker'.pc = "gone" /\ chain = <<>> /\ n = tally.refused /\ run.identity
    /\ (worker.pc # "gone" /\ worker'.pc = "gone") \/ (operator = "closing" /\ worker' = worker)
    /\ UNCHANGED <<chain, tally>>

Puts ==
  /\ worker.pc = "attaching" /\ worker'.pc = "working"
  /\ run' = [status |-> attach, identity |-> TRUE] /\ frames' = frames

\* finishRun leaves a run that has ended alone and ends one that is open.
LEMMA FinishEnds ==
  ASSUME TypeOK, NEW how \in Ended, NEW n \in Nat, FinishRun(how, n)
  PROVE  \/ run.status # "running" /\ UNCHANGED row
         \/ \E written \in Ended :
              /\ run.status = "running"
              /\ run' = [run EXCEPT !.status = written] /\ frames' = Append(frames, StatusFrame(written, n))
              /\ written = "ok" => how = "ok" /\ run.identity
<1> DEFINE written == IF how = "ok" /\ ~run.identity THEN "error" ELSE how
<1>1. written \in Ended /\ (written = "ok" => how = "ok" /\ run.identity) BY DEF Ended
<1>2. \/ run.status # "running" /\ UNCHANGED row
      \/ /\ run.status = "running"
         /\ run' = [run EXCEPT !.status = written] /\ frames' = Append(frames, StatusFrame(written, n))
  BY DEF FinishRun
<1> HIDE DEF written
<1> QED BY <1>1, <1>2

\* Who may end a run, and that only a drained worker that names its stack ends it well.
LEMMA EndOf ==
  ASSUME TypeOK, NEW how \in Ended, NEW n \in Nat, FinishRun(how, n),
         how = "ok" => worker.pc = "draining" /\ chain = <<>> /\ n = tally.refused /\ worker'.pc = "gone",
         (worker.pc # "gone" /\ worker'.pc = "gone") \/ (operator = "closing" /\ worker' = worker),
         UNCHANGED <<chain, tally>>
  PROVE  UNCHANGED row \/ Ends
<1>1. ASSUME NEW written \in Ended,
             /\ run.status = "running"
             /\ run' = [run EXCEPT !.status = written] /\ frames' = Append(frames, StatusFrame(written, n))
             /\ written = "ok" => how = "ok" /\ run.identity
      PROVE  Ends
  BY <1>1 DEF Ends
<1> QED BY <1>1, FinishEnds

\* Every step is one of these.
LEMMA LogSteps ==
  ASSUME TypeOK, PlaceInv, [Next]_vars
  PROVE  UNCHANGED row \/ (AppendFrame /\ Appends) \/ Ends \/ (AttachPut /\ Puts)
<1>2. CASE Finish
  <2>1. CASE FinishRun(worker.how, tally.refused) /\ worker' = [worker EXCEPT !.pc = "gone"]
    <3>1. worker.how \in Ended /\ tally.refused \in Nat /\ worker'.pc = "gone" /\ worker.pc = "draining" /\ chain = <<>>
      BY <1>2, <2>1 DEF Finish, PlaceInv, TypeOK
    <3>2. UNCHANGED <<chain, tally>> /\ worker.pc # "gone" BY <1>2, <3>1 DEF Finish
    <3> QED BY <2>1, <3>1, <3>2, EndOf
  <2> QED BY <1>2, <2>1 DEF Finish
<1>3. CASE Catch
  <2>1. CASE FinishRun("error", tally.refused)
    <3>1. "error" \in Ended /\ tally.refused \in Nat /\ worker'.pc = "gone" /\ worker.pc = "caught"
      BY <1>3 DEF Catch, TypeOK, Ended
    <3>2. UNCHANGED <<chain, tally>> /\ worker.pc # "gone" BY <1>3, <3>1 DEF Catch
    <3> QED BY <2>1, <3>1, <3>2, EndOf
  <2> QED BY <1>3, <2>1 DEF Catch
<1>4. CASE CancelClose
  <2>1. "cancelled" \in Ended /\ 0 \in Nat BY DEF Ended
  <2> QED BY <1>4, <2>1, EndOf DEF CancelClose, self
<1>5. CASE AppendFrame BY <1>5 DEF AppendFrame, Appends, row
<1>6. CASE AttachPut
  <2>1. CASE UNCHANGED run BY <1>6, <2>1 DEF AttachPut, row
  <2>2. CASE run' = [status |-> attach, identity |-> TRUE] /\ worker' = [worker EXCEPT !.pc = "working"]
    <3>1. worker'.pc = "working" BY <2>2 DEF TypeOK
    <3> QED BY <1>6, <2>2, <3>1 DEF AttachPut, Puts
  <2> QED BY <1>6, <2>1, <2>2 DEF AttachPut
<1>7. ASSUME NEW how \in Ended, Conclude(how) PROVE UNCHANGED row BY <1>7 DEF Conclude
<1>8. ASSUME NEW r \in Readers, ReadWindow(r) \/ ShipPage(r) PROVE UNCHANGED row
  BY <1>8 DEF ReadWindow, ShipPage
<1>9. CASE Produce \/ AttachRead \/ Crash \/ CancelRead \/ CancelDecide
  BY <1>9 DEF Produce, AttachRead, Crash, CancelRead, CancelDecide
<1>10. CASE UNCHANGED vars BY <1>10 DEF vars
<1> QED BY <1>2, <1>3, <1>4, <1>5, <1>6, <1>7, <1>8, <1>9, <1>10 DEF Next, Work

\* The log only grows, by one frame.
LEMMA LogGrows ==
  ASSUME TypeOK, PlaceInv, FramesInv, [Next]_vars
  PROVE  frames' = frames \/ \E f \in FrameRows : frames' = Append(frames, f)
<1>1. CASE Appends
  <2>1. Head(chain) \in FrameRows BY <1>1, HeadTailProperties DEF Appends, TypeOK
  <2> QED BY <1>1, <2>1 DEF Appends
<1>2. CASE Ends
  <2>1. PICK how \in Ended, n \in Nat : frames' = Append(frames, StatusFrame(how, n)) BY <1>2 DEF Ends
  <2>2. StatusFrame(how, n) \in FrameRows BY <2>1 DEF StatusFrame, FrameRows
  <2> QED BY <2>1, <2>2
<1> QED BY <1>1, <1>2, LogSteps DEF Puts, row

-----------------------------------------------------------------------------
(* The invariant. *)

\* A worker does not come back, and nobody changes what the run is.
LEMMA WorkerMoves ==
  ASSUME TypeOK, [Next]_vars
  PROVE  /\ kind' = kind
         /\ worker.pc = "gone" => worker'.pc = "gone"
         /\ worker'.pc = "attaching" =>
              (worker.pc = "attaching" /\ attach' = attach) \/ (worker.pc = "working" /\ attach' = run.status /\ run' = run)
         /\ worker'.pc = "draining" => worker' = worker \/ worker'.how \in Ended
         /\ operator' = "closing" => operator = "closing" \/ (~Registered /\ worker' = worker)
<1>1. CASE UNCHANGED vars BY <1>1 DEF vars, self
<1>2. CASE Produce \/ AppendFrame BY <1>2 DEF Produce, AppendFrame
<1>3. CASE AttachRead \/ AttachPut BY <1>3 DEF AttachRead, AttachPut, row, TypeOK
<1>4. CASE Finish \/ Catch \/ Crash BY <1>4 DEF Finish, Catch, Crash, Alive, TypeOK
<1>5. ASSUME NEW how \in Ended, Conclude(how) PROVE /\ kind' = kind /\ worker.pc = "working" /\ operator' = operator
             /\ worker'.pc # "attaching" /\ worker'.how \in Ended
  BY <1>5 DEF Conclude
<1>6. CASE CancelRead \/ CancelDecide \/ CancelClose BY <1>6 DEF CancelRead, CancelDecide, CancelClose, self
<1>7. ASSUME NEW r \in Readers, ReadWindow(r) \/ ShipPage(r) PROVE UNCHANGED <<kind, worker, attach, operator>>
  BY <1>7 DEF ReadWindow, ShipPage, self
<1> QED BY <1>1, <1>2, <1>3, <1>4, <1>5, <1>6, <1>7 DEF Next, Work

\* Place and openness.
LEMMA OpenStep ==
  ASSUME TypeOK, PlaceInv, OpenInv, [Next]_vars
  PROVE  PlaceInv' /\ OpenInv'
<1>1. PlaceInv'
  <2>1. run.status \in Statuses BY DEF TypeOK
  <2> QED BY <2>1, WorkerMoves DEF PlaceInv
<1>2. ASSUME kind = "chat", worker'.pc # "gone" PROVE run'.status = "running"
  <2>1. worker.pc # "gone" /\ operator # "closing" /\ run.status = "running"
    BY <1>2, WorkerMoves DEF OpenInv, Alive
  <2>2. CASE Ends BY <1>2, <2>1, <2>2 DEF Ends
  <2>3. CASE Puts BY <1>2, <2>3 DEF Puts, OpenInv
  <2> QED BY <2>1, <2>2, <2>3, LogSteps DEF Appends, row
<1>3. ASSUME kind = "chat", worker'.pc = "attaching" PROVE attach' = "running"
  BY <1>3, WorkerMoves DEF OpenInv, Alive
<1>4. ASSUME kind = "chat", operator' = "closing" PROVE worker'.pc = "gone"
  BY <1>4, WorkerMoves DEF OpenInv, Alive, Registered
<1> QED BY <1>1, <1>2, <1>3, <1>4, WorkerMoves DEF OpenInv, Alive

\* The chain and the log hold what they should.
LEMMA FramesStep ==
  ASSUME TypeOK, PlaceInv, FramesInv, [Next]_vars
  PROVE  FramesInv'
<1> DEFINE Entry(f) == f.kind # "status" /\ f.status = "none"
<1>0. chain \in Seq(FrameRows) /\ frames \in Seq(FrameRows) BY DEF TypeOK
<1>1. \A i \in DOMAIN chain' : Entry(chain'[i])
  <2>1. ASSUME NEW what \in {"work", "identity"}, Push(what) PROVE \A i \in DOMAIN chain' : Entry(chain'[i])
    <3>1. /\ chain' = Append(chain, Frame(what, tally.pushed + 1))
          /\ Frame(what, tally.pushed + 1) \in FrameRows
      BY <2>1, PushTypes
    <3>2. Entry(Frame(what, tally.pushed + 1)) BY <2>1 DEF Frame
    <3>3. \A i \in DOMAIN chain : Entry(chain[i]) BY DEF FramesInv
    <3> HIDE DEF Entry
    <3> QED BY <1>0, <3>1, <3>2, <3>3, Appended
  <2>2. CASE AppendFrame
    <3>1. chain # <<>> /\ chain' = Tail(chain) BY <2>2 DEF AppendFrame
    <3>2. /\ Tail(chain) \in Seq(FrameRows) /\ Len(Tail(chain)) = Len(chain) - 1
          /\ \A i \in 1..Len(Tail(chain)) : Tail(chain)[i] = chain[i + 1]
      BY <1>0, <3>1, HeadTailProperties
    <3> QED BY <1>0, <3>1, <3>2 DEF FramesInv
  <2>3. CASE chain' = <<>> BY <2>3
  <2>4. CASE chain' = chain BY <2>4 DEF FramesInv
  <2> QED BY <2>1, <2>2, <2>3, <2>4 DEF Next, Work, Produce, AttachRead, AttachPut, Conclude, Finish, Catch, Crash,
             CancelRead, CancelDecide, CancelClose, ReadWindow, ShipPage, vars, self
<1>2. \A i \in DOMAIN frames' : frames'[i].kind # "status" => frames'[i].status = "none"
  <2>1. ASSUME NEW f \in FrameRows, frames' = Append(frames, f), f.kind # "status" => f.status = "none"
        PROVE  \A i \in DOMAIN frames' : frames'[i].kind # "status" => frames'[i].status = "none"
    BY <1>0, <2>1, Appended DEF FramesInv
  <2>2. CASE Appends
    <3>1. Head(chain) = chain[1] /\ 1 \in DOMAIN chain /\ Head(chain) \in FrameRows
      BY <1>0, <2>2, HeadTailProperties DEF Appends
    <3> QED BY <2>1, <2>2, <3>1 DEF Appends, FramesInv
  <2>3. CASE Ends
    <3>1. PICK how \in Ended, n \in Nat : frames' = Append(frames, StatusFrame(how, n)) BY <2>3 DEF Ends
    <3>2. StatusFrame(how, n) \in FrameRows /\ StatusFrame(how, n).kind = "status" BY DEF StatusFrame, FrameRows
    <3> QED BY <2>1, <3>1, <3>2
  <2>4. CASE frames' = frames BY <2>4 DEF FramesInv
  <2> QED BY <2>2, <2>3, <2>4, LogSteps DEF Puts, row
<1> QED BY <1>1, <1>2 DEF FramesInv

\* The terminal frame seals a chat's log.
LEMMA SealStep ==
  ASSUME TypeOK, PlaceInv, FramesInv, OpenInv, SealInv, [Next]_vars, kind = "chat"
  PROVE  SealInv'
<1>0. frames \in Seq(FrameRows) /\ chain \in Seq(FrameRows) /\ kind' = "chat" BY WorkerMoves DEF TypeOK
<1>1. ASSUME run.status = "running" PROVE \A i \in DOMAIN frames : frames[i].kind # "status"
  <2>1. ASSUME NEW i \in DOMAIN frames PROVE frames[i].status # "running"
    <3>1. frames[i] \in FrameRows BY <1>0
    <3>2. frames[i].status \in Ended \cup {"none"} BY <3>1 DEF FrameRows
    <3> QED BY <3>2 DEF Ended
  <2> QED BY <1>1, <2>1 DEF SealInv
<1>2. CASE Appends
  <2>1. Head(chain) \in FrameRows /\ Head(chain).kind # "status" /\ frames' = Append(frames, Head(chain))
    BY <1>0, <1>2, HeadTailProperties DEF Appends, FramesInv
  <2>2. \A i \in DOMAIN frames' : frames'[i].kind # "status" BY <1>0, <1>1, <1>2, <2>1, Appended DEF Appends
  <2> QED BY <1>0, <1>2, <2>2 DEF SealInv, Appends
<1>3. CASE Ends
  <2>1. PICK how \in Ended, n \in Nat :
          /\ run.status = "running" /\ run' = [run EXCEPT !.status = how] /\ frames' = Append(frames, StatusFrame(how, n))
    BY <1>3 DEF Ends
  <2>2. /\ StatusFrame(how, n) \in FrameRows
        /\ StatusFrame(how, n).kind = "status" /\ StatusFrame(how, n).status = how
    BY DEF StatusFrame, FrameRows
  <2>3. run'.status = how BY <2>1 DEF TypeOK
  <2>4. /\ Len(frames') = Len(frames) + 1 /\ DOMAIN frames' = 1..(Len(frames) + 1)
        /\ frames'[Len(frames) + 1] = StatusFrame(how, n)
        /\ \A i \in 1..Len(frames) : frames'[i].kind # "status"
    BY <1>0, <1>1, <2>1, <2>2, Appended
  <2>5. Len(frames) \in Nat /\ frames' # <<>> BY <1>0, <2>1, <2>2
  <2> QED BY <1>0, <2>2, <2>3, <2>4, <2>5 DEF SealInv
<1>4. CASE Puts
  <2>1. run'.status = run.status /\ frames' = frames BY <1>4 DEF Puts, OpenInv, Alive
  <2> QED BY <1>0, <2>1 DEF SealInv
<1>5. CASE UNCHANGED row BY <1>0, <1>5 DEF row, SealInv
<1> QED BY <1>2, <1>3, <1>4, <1>5, LogSteps

\* A log that grew by a frame has one more entry, or one more terminal frame.
LEMMA EntriesGrow ==
  ASSUME NEW fs \in Seq(FrameRows), NEW f \in FrameRows
  PROVE  /\ Cardinality(Entries(fs)) \in Nat
         /\ Cardinality(Entries(Append(fs, f))) = Cardinality(Entries(fs)) + (IF f.kind = "status" THEN 0 ELSE 1)
<1>1. /\ DOMAIN fs = 1..Len(fs) /\ DOMAIN Append(fs, f) = 1..(Len(fs) + 1) /\ Len(fs) \in Nat
      /\ Append(fs, f)[Len(fs) + 1] = f /\ \A i \in 1..Len(fs) : Append(fs, f)[i] = fs[i]
  BY Appended
<1>2. IsFiniteSet(Entries(fs))
  <2>1. IsFiniteSet(1..Len(fs)) BY <1>1, FS_Interval
  <2> QED BY <1>1, <2>1, FS_Subset DEF Entries
<1>3. Entries(Append(fs, f)) = IF f.kind = "status" THEN Entries(fs) ELSE Entries(fs) \cup {Len(fs) + 1}
  BY <1>1 DEF Entries
<1>4. Len(fs) + 1 \notin Entries(fs) BY <1>1 DEF Entries
<1>5. /\ Cardinality(Entries(fs)) \in Nat
      /\ Cardinality(Entries(fs) \cup {Len(fs) + 1}) = Cardinality(Entries(fs)) + 1
  BY <1>2, <1>4, FS_CardinalityType, FS_AddElement
<1> QED BY <1>3, <1>5

Pushed == Cardinality(Entries(frames)) + tally.refused + Len(chain)

\* Pushes are accounted for.
LEMMA AccountStep ==
  ASSUME TypeOK, PlaceInv, FramesInv, AccountInv, [Next]_vars
  PROVE  AccountInv'
<1> DEFINE Ok(fs) == \E i \in DOMAIN fs : fs[i].status = "ok"
<1>0. /\ frames \in Seq(FrameRows) /\ chain \in Seq(FrameRows) /\ tally \in [pushed : Nat, refused : Nat]
      /\ Cardinality(Entries(frames)) \in Nat
  <2>1. PICK f : f \in FrameRows
    <3>1. Frame("work", 0) \in FrameRows BY DEF Frame, FrameRows
    <3> QED BY <3>1
  <2> QED BY <2>1, EntriesGrow DEF TypeOK
<1>1. Ok(frames) => worker.pc = "gone" /\ chain = <<>> BY DEF AccountInv, Alive
<1>2. worker.pc = "gone" => worker'.pc = "gone" BY WorkerMoves
<1>3. worker.pc # "gone" \/ Ok(frames) => tally.pushed = Pushed BY DEF AccountInv, Alive, Pushed
<1>4. ASSUME UNCHANGED <<frames, chain, tally>> PROVE AccountInv'
  <2>1. Pushed' = Pushed BY <1>4 DEF Pushed
  <2> QED BY <1>2, <1>4, <2>1 DEF AccountInv, Alive, Pushed
<1>5. ASSUME worker.pc # "gone", UNCHANGED frames, NEW what \in {"work", "identity"}, Push(what) PROVE AccountInv'
  <2>1. /\ chain' = Append(chain, Frame(what, tally.pushed + 1)) /\ Frame(what, tally.pushed + 1) \in FrameRows
        /\ tally' = [tally EXCEPT !.pushed = @ + 1]
    BY <1>5, PushTypes DEF Push
  <2>2. Len(chain') = Len(chain) + 1 BY <1>0, <2>1, Appended
  <2>3. tally'.pushed = tally.pushed + 1 /\ tally'.refused = tally.refused BY <1>0, <2>1
  <2>4. Len(chain) \in Nat BY <1>0
  <2>5. tally'.pushed = Pushed' BY <1>0, <1>3, <1>5, <2>2, <2>3, <2>4 DEF Pushed
  <2> QED BY <1>1, <1>5, <2>5 DEF AccountInv, Alive, Pushed
<1>6. CASE AppendFrame
  <2>1. chain # <<>> /\ chain' = Tail(chain) /\ ~Ok(frames) /\ worker' = worker BY <1>1, <1>6 DEF AppendFrame
  <2>2. Len(chain') = Len(chain) - 1 /\ Len(chain) \in Nat /\ Head(chain) \in FrameRows
    BY <1>0, <2>1, HeadTailProperties
  <2>3. Head(chain).kind # "status" /\ Head(chain).status = "none"
    <3>1. 1 \in DOMAIN chain /\ Head(chain) = chain[1] BY <1>0, <2>1
    <3> QED BY <3>1 DEF FramesInv
  <2>4. CASE frames' = Append(frames, Head(chain)) /\ tally' = tally
    <3>1. Cardinality(Entries(frames')) = Cardinality(Entries(frames)) + 1 BY <1>0, <2>2, <2>3, <2>4, EntriesGrow
    <3>2. ~Ok(frames') BY <1>0, <2>1, <2>2, <2>3, <2>4, Appended
    <3>3. worker.pc # "gone" => tally'.pushed = Pushed' BY <1>0, <1>3, <2>2, <2>4, <3>1 DEF Pushed
    <3> QED BY <2>1, <3>2, <3>3 DEF AccountInv, Alive, Pushed
  <2>5. CASE frames' = frames /\ tally' = [tally EXCEPT !.refused = @ + 1]
    <3>1. tally'.pushed = tally.pushed /\ tally'.refused = tally.refused + 1 BY <1>0, <2>5
    <3>2. worker.pc # "gone" => tally'.pushed = Pushed' BY <1>0, <1>3, <2>2, <2>5, <3>1 DEF Pushed
    <3> QED BY <2>1, <2>5, <3>2 DEF AccountInv, Alive, Pushed
  <2> QED BY <1>6, <2>4, <2>5 DEF AppendFrame
<1>7. CASE Ends
  <2>1. PICK how \in Ended, n \in Nat :
          /\ frames' = Append(frames, StatusFrame(how, n))
          /\ how = "ok" => worker.pc = "draining" /\ worker'.pc = "gone" /\ chain = <<>> /\ n = tally.refused
          /\ UNCHANGED <<chain, tally>>
    BY <1>7 DEF Ends
  <2>2. /\ StatusFrame(how, n) \in FrameRows /\ StatusFrame(how, n).kind = "status"
        /\ StatusFrame(how, n).status = how /\ StatusFrame(how, n).n = n
    BY DEF StatusFrame, FrameRows
  <2>3. Cardinality(Entries(frames')) = Cardinality(Entries(frames)) BY <1>0, <2>1, <2>2, EntriesGrow
  <2>4. Pushed' = Pushed BY <2>1, <2>3 DEF Pushed
  <2>5. /\ DOMAIN frames' = 1..(Len(frames) + 1) /\ DOMAIN frames = 1..Len(frames) /\ Len(frames) \in Nat
        /\ frames'[Len(frames) + 1] = StatusFrame(how, n) /\ \A i \in 1..Len(frames) : frames'[i] = frames[i]
    BY <1>0, <2>1, <2>2, Appended
  <2>6. Ok(frames') => Ok(frames) \/ how = "ok" BY <2>2, <2>5
  <2>7. worker'.pc # "gone" \/ Ok(frames') => tally'.pushed = Pushed' BY <1>2, <1>3, <2>1, <2>4, <2>6
  <2>8. ASSUME NEW i \in DOMAIN frames', frames'[i].status = "ok"
        PROVE  worker'.pc = "gone" /\ chain' = <<>> /\ frames'[i].n = tally'.refused
    <3>1. CASE i = Len(frames) + 1 BY <2>1, <2>2, <2>5, <2>8, <3>1
    <3>2. CASE i \in 1..Len(frames)
      <4>1. frames[i].status = "ok" /\ i \in DOMAIN frames /\ frames'[i] = frames[i] BY <2>5, <2>8, <3>2
      <4> QED BY <1>2, <2>1, <4>1 DEF AccountInv, Alive
    <3> QED BY <2>5, <3>1, <3>2
  <2> QED BY <2>7, <2>8 DEF AccountInv, Alive, Pushed
<1>8. CASE Crash
  <2>1. ~Ok(frames) /\ worker'.pc = "gone" /\ frames' = frames BY <1>1, <1>8 DEF Crash, row, Alive, TypeOK
  <2> QED BY <2>1 DEF AccountInv, Alive
<1>9. CASE AttachPut
  <2>1. worker.pc # "gone" /\ frames' = frames BY <1>9 DEF AttachPut
  <2>2. CASE Push("identity") BY <1>5, <2>1, <2>2
  <2>3. CASE UNCHANGED <<chain, tally>> BY <1>4, <2>1, <2>3
  <2> QED BY <1>9, <2>2, <2>3 DEF AttachPut
<1>10. CASE Produce
  <2>1. worker.pc # "gone" /\ frames' = frames /\ Push("work") BY <1>10 DEF Produce, row
  <2> QED BY <1>5, <2>1
<1>11. CASE UNCHANGED row /\ UNCHANGED <<chain, tally>> BY <1>4, <1>11 DEF row
<1>12. ASSUME UNCHANGED row
       PROVE  AppendFrame \/ Crash \/ AttachPut \/ Produce \/ UNCHANGED <<chain, tally>>
  BY DEF Next, Work, AttachRead, Conclude, Finish, Catch, CancelRead, CancelDecide, CancelClose,
         ReadWindow, ShipPage, vars, self
<1> QED BY <1>6, <1>7, <1>8, <1>9, <1>10, <1>11, <1>12, LogSteps DEF AccountInv, Alive, Pushed

-----------------------------------------------------------------------------
(* Pages. *)

\* What a reader does.
LEMMA ReaderMoves ==
  ASSUME [Next]_vars
  PROVE  UNCHANGED reader \/ \E r \in Readers : (ReadWindow(r) \/ ShipPage(r)) /\ UNCHANGED row
<1>1. CASE Work
  BY <1>1 DEF Work, Produce, AttachRead, AttachPut, Conclude, Finish, Catch
<1>2. CASE AppendFrame \/ Crash \/ CancelRead \/ CancelDecide \/ CancelClose
  BY <1>2 DEF AppendFrame, Crash, CancelRead, CancelDecide, CancelClose
<1>3. ASSUME NEW r \in Readers, ReadWindow(r) \/ ShipPage(r) PROVE UNCHANGED row
  BY <1>3 DEF ReadWindow, ShipPage
<1>4. CASE UNCHANGED vars BY <1>4 DEF vars
<1> QED BY <1>1, <1>2, <1>3, <1>4 DEF Next

\* Where the frames of a window are.
LEMMA Within ==
  ASSUME NEW c \in Nat, NEW n \in Nat, NEW m \in Nat, c + n <= m
  PROVE  \A i \in 1..n : c + i \in 1..m
OBVIOUS

\* A window stays a part of the log, and what a reader has a prefix of it.
LEMMA PagesStep ==
  ASSUME TypeOK, PlaceInv, FramesInv, WindowInv, PagesAreTheLog, [Next]_vars
  PROVE  WindowInv' /\ PagesAreTheLog'
<1> DEFINE Prefix(c, got, fs) == c <= Len(fs) /\ Len(got) = c /\ \A i \in 1..c : got[i] = fs[i]
           Part(c, window, fs) == /\ c + Len(window) <= Len(fs)
                                  /\ \A i \in 1..Len(window) : window[i] = fs[c + i]
<1>0. /\ frames \in Seq(FrameRows) /\ frames' \in Seq(FrameRows)
      /\ reader \in [Readers -> ReaderRows] /\ reader' \in [Readers -> ReaderRows]
  BY TypeStep DEF TypeOK, ReaderRows
<1>1. \A r \in Readers : Prefix(reader[r].cursor, reader[r].got, frames)
  <2>1. ASSUME NEW r \in Readers PROVE Prefix(reader[r].cursor, reader[r].got, frames)
    <3>1. reader[r].got \in Seq(FrameRows) /\ reader[r].cursor \in 0..Len(frames)
      BY <1>0 DEF PagesAreTheLog, ReaderRows
    <3> QED BY <1>0, <3>1, PrefixOf DEF PagesAreTheLog
  <2> QED BY <2>1
<1>2. ASSUME \A r \in Readers : Prefix(reader[r].cursor, reader[r].got, frames)' PROVE PagesAreTheLog'
  <2>1. ASSUME NEW r \in Readers
        PROVE  reader'[r].cursor <= Len(frames') /\ reader'[r].got = SubSeq(frames', 1, reader'[r].cursor)
    <3>1. Prefix(reader'[r].cursor, reader'[r].got, frames') BY <1>2
    <3>2. reader'[r].got \in Seq(FrameRows) /\ reader'[r].cursor \in 0..Len(frames')
      BY <1>0, <3>1 DEF ReaderRows
    <3> QED BY <1>0, <3>1, <3>2, PrefixOf
  <2> QED BY <2>1 DEF PagesAreTheLog
<1>3. CASE UNCHANGED reader
  <2>1. /\ Len(frames) \in Nat /\ Len(frames') \in Nat /\ Len(frames) <= Len(frames')
        /\ \A i \in 1..Len(frames) : frames'[i] = frames[i]
    BY <1>0, LogGrows, Appended
  <2>2. ASSUME NEW r \in Readers PROVE Prefix(reader'[r].cursor, reader'[r].got, frames')
    <3>1. reader[r].cursor \in Nat BY <1>0 DEF ReaderRows
    <3> QED BY <1>1, <1>3, <2>1, <3>1
  <2>3. ASSUME NEW r \in Readers, reader'[r].page.busy
        PROVE  Part(reader'[r].cursor, reader'[r].page.window, frames')
    <3>1. reader[r].cursor \in Nat /\ Len(reader[r].page.window) \in Nat BY <1>0 DEF ReaderRows, Pages
    <3>2. Part(reader[r].cursor, reader[r].page.window, frames) BY <1>3, <2>3 DEF WindowInv
    <3>3. \A i \in 1..Len(reader[r].page.window) : reader[r].cursor + i \in 1..Len(frames)
      <4>1. Len(frames) \in Nat BY <2>1
      <4>2. reader[r].cursor + Len(reader[r].page.window) <= Len(frames) BY <3>2
      <4> QED BY <3>1, <4>1, <4>2, Within
    <3>4. Part(reader[r].cursor, reader[r].page.window, frames')
      <4>1. reader[r].cursor + Len(reader[r].page.window) <= Len(frames')
        <5> DEFINE c == reader[r].cursor
                   n == Len(reader[r].page.window)
        <5>1. c \in Nat /\ n \in Nat /\ c + n <= Len(frames) BY <3>1, <3>2
        <5> HIDE DEF c, n
        <5>2. c + n <= Len(frames') BY <2>1, <5>1
        <5> QED BY <5>2 DEF c, n
      <4>2. ASSUME NEW i \in 1..Len(reader[r].page.window)
            PROVE  reader[r].page.window[i] = frames'[reader[r].cursor + i]
        <5>1. reader[r].page.window[i] = frames[reader[r].cursor + i] BY <3>2
        <5>2. frames'[reader[r].cursor + i] = frames[reader[r].cursor + i] BY <2>1, <3>3
        <5> QED BY <5>1, <5>2
      <4> QED BY <4>1, <4>2
    <3> QED BY <1>3, <3>4
  <2> QED BY <1>2, <2>2, <2>3 DEF WindowInv
<1>4. ASSUME NEW r \in Readers, ReadWindow(r), UNCHANGED row PROVE WindowInv' /\ PagesAreTheLog'
  <2>1. reader' = [reader EXCEPT ![r].page = [window |-> Window(reader[r].cursor), busy |-> TRUE]]
    BY <1>4 DEF ReadWindow
  <2>2. reader[r].cursor \in Nat /\ reader[r].cursor <= Len(frames) BY <1>0, <1>1 DEF ReaderRows
  <2>3. Part(reader[r].cursor, Window(reader[r].cursor), frames) BY <2>2, WindowOf
  <2>4. /\ \A q \in Readers : reader'[q].cursor = reader[q].cursor /\ reader'[q].got = reader[q].got
        /\ \A q \in Readers \ {r} : reader'[q].page = reader[q].page
        /\ reader'[r].page.window = Window(reader[r].cursor)
    BY <1>0, <2>1 DEF ReaderRows
  <2>5. frames' = frames BY <1>4 DEF row
  <2>6. PagesAreTheLog' BY <2>4, <2>5 DEF PagesAreTheLog
  <2>7. ASSUME NEW q \in Readers, reader'[q].page.busy PROVE Part(reader'[q].cursor, reader'[q].page.window, frames')
    <3>1. CASE q = r BY <2>3, <2>4, <2>5, <3>1
    <3>2. CASE q # r
      <4>1. reader'[q].page = reader[q].page /\ reader'[q].cursor = reader[q].cursor BY <2>4, <3>2
      <4>2. Part(reader[q].cursor, reader[q].page.window, frames) BY <2>7, <4>1 DEF WindowInv
      <4> QED BY <2>5, <4>1, <4>2
    <3> QED BY <3>1, <3>2
  <2> QED BY <2>6, <2>7 DEF WindowInv
<1>5. ASSUME NEW r \in Readers, ShipPage(r), UNCHANGED row PROVE WindowInv' /\ PagesAreTheLog'
  <2> DEFINE window == reader[r].page.window
  <2>0. frames' = frames /\ reader[r].page.busy BY <1>5 DEF row, ShipPage
  <2>1. PICK cut \in 0..Len(window) :
          /\ reader' = [reader EXCEPT ![r] =
               [cursor |-> @.cursor + cut, got |-> @.got \o SubSeq(window, 1, cut), page |-> NoPage]]
          /\ SubSeq(window, 1, cut) \in Seq(FrameRows) /\ Len(SubSeq(window, 1, cut)) = cut
          /\ \A i \in 1..cut : SubSeq(window, 1, cut)[i] = window[i]
    BY Zenon, <1>5, Shipped
  <2>2. window \in Seq(FrameRows) /\ reader[r].got \in Seq(FrameRows) /\ reader[r].cursor \in Nat
    BY <1>0 DEF ReaderRows, Pages
  <2>3. Part(reader[r].cursor, window, frames) /\ Prefix(reader[r].cursor, reader[r].got, frames)
    BY <1>1, <2>0 DEF WindowInv
  <2>4. PICK more \in Seq(FrameRows) : more = SubSeq(window, 1, cut) BY <2>1
  <2>5. /\ Len(reader[r].got \o more) = reader[r].cursor + cut
        /\ \A i \in 1..(reader[r].cursor + cut) :
             (reader[r].got \o more)[i] = IF i <= reader[r].cursor THEN reader[r].got[i] ELSE more[i - reader[r].cursor]
    <3>1. Len(reader[r].got) = reader[r].cursor /\ Len(more) = cut BY <2>1, <2>3, <2>4
    <3>2. /\ Len(reader[r].got \o more) = Len(reader[r].got) + Len(more)
          /\ \A i \in 1..(Len(reader[r].got) + Len(more)) :
               (reader[r].got \o more)[i] =
                 IF i <= Len(reader[r].got) THEN reader[r].got[i] ELSE more[i - Len(reader[r].got)]
      <4> DEFINE g == reader[r].got
      <4>1. g \in Seq(FrameRows) BY <2>2
      <4> HIDE DEF g
      <4>2. /\ Len(g \o more) = Len(g) + Len(more)
            /\ \A i \in 1..(Len(g) + Len(more)) :
                 (g \o more)[i] = IF i <= Len(g) THEN g[i] ELSE more[i - Len(g)]
        BY <2>4, <4>1, ConcatProperties
      <4> QED BY <4>2 DEF g
    <3> QED BY <3>1, <3>2
  <2>6. Prefix(reader[r].cursor + cut, reader[r].got \o more, frames)
    <3>0. /\ reader[r].cursor \in Nat /\ Len(window) \in Nat /\ cut \in 0..Len(window)
          /\ Len(frames) \in Nat /\ reader[r].cursor + Len(window) <= Len(frames)
      BY <1>0, <2>2, <2>3
    <3> DEFINE c == reader[r].cursor
               n == Len(window)
    <3> HIDE DEF c, n
    <3>1. reader[r].cursor + cut <= Len(frames)
      <4>1. c \in Nat /\ n \in Nat /\ cut \in 0..n /\ Len(frames) \in Nat /\ c + n <= Len(frames)
        BY <3>0 DEF c, n
      <4>2. c + cut <= Len(frames) BY <4>1
      <4> QED BY <4>2 DEF c
    <3>2. ASSUME NEW i \in 1..(reader[r].cursor + cut) PROVE (reader[r].got \o more)[i] = frames[i]
      <4>1. CASE i <= reader[r].cursor
        <5>1. i \in 1..reader[r].cursor
          <6>1. c \in Nat /\ cut \in 0..n /\ n \in Nat /\ i \in 1..(c + cut) /\ i <= c BY <3>0, <4>1 DEF c, n
          <6> QED BY <6>1 DEF c
        <5>2. reader[r].got[i] = frames[i] BY <2>3, <5>1
        <5>3. (reader[r].got \o more)[i] = reader[r].got[i] BY <2>5, <4>1
        <5> QED BY <5>2, <5>3
      <4>2. CASE ~(i <= reader[r].cursor)
        <5>1. i - reader[r].cursor \in 1..cut /\ i - reader[r].cursor \in 1..Len(window)
          <6>1. c \in Nat /\ n \in Nat /\ cut \in 0..n /\ i \in 1..(c + cut) /\ ~(i <= c)
            BY <3>0, <4>2 DEF c, n
          <6>2. i - c \in 1..cut /\ i - c \in 1..n BY <6>1
          <6> QED BY <6>2 DEF c, n
        <5>2. more[i - reader[r].cursor] = frames[reader[r].cursor + (i - reader[r].cursor)]
          BY <2>1, <2>3, <2>4, <5>1
        <5>3. reader[r].cursor + (i - reader[r].cursor) = i BY <2>2
        <5>4. (reader[r].got \o more)[i] = more[i - reader[r].cursor] BY <2>5, <4>2
        <5> QED BY <5>2, <5>3, <5>4
      <4> QED BY <4>1, <4>2
    <3> QED BY <2>5, <3>1, <3>2
  <2>7. /\ \A q \in Readers \ {r} : reader'[q] = reader[q]
        /\ reader'[r] = [cursor |-> reader[r].cursor + cut, got |-> reader[r].got \o more, page |-> NoPage]
    BY <1>0, <2>1, <2>4
  <2>8. \A q \in Readers : Prefix(reader'[q].cursor, reader'[q].got, frames')
    <3>1. Prefix(reader'[r].cursor, reader'[r].got, frames') BY <2>0, <2>6, <2>7
    <3>2. ASSUME NEW q \in Readers \ {r} PROVE Prefix(reader'[q].cursor, reader'[q].got, frames')
      <4>1. Prefix(reader[q].cursor, reader[q].got, frames) BY <1>1
      <4> QED BY <2>0, <2>7, <4>1
    <3> QED BY <3>1, <3>2
  <2>9. ASSUME NEW q \in Readers, reader'[q].page.busy PROVE Part(reader'[q].cursor, reader'[q].page.window, frames')
    <3>1. q # r BY <2>7, <2>9 DEF NoPage
    <3>2. reader'[q] = reader[q] /\ reader[q].page.busy BY <2>7, <2>9, <3>1
    <3>3. Part(reader[q].cursor, reader[q].page.window, frames) BY <3>2 DEF WindowInv
    <3> QED BY <2>0, <3>2, <3>3
  <2> QED BY <1>2, <2>8, <2>9 DEF WindowInv
<1> QED BY <1>3, <1>4, <1>5, ReaderMoves

-----------------------------------------------------------------------------
(* Theorems. *)

\* RunLogInv is inductive: it holds of every reachable state.
THEOREM RunLogInvariant == Spec => []RunLogInv
<1>1. Init => RunLogInv
  <2> SUFFICES ASSUME Init PROVE RunLogInv OBVIOUS
  <2>1. TypeOK BY TypeInit
  <2>2. run.status = "running" /\ frames = <<>> /\ chain = <<>> /\ worker.pc = "working" /\ operator = "idle"
        /\ tally = [pushed |-> 0, refused |-> 0]
    <3>1. run.status = "running"
      <4>1. PICK named \in BOOLEAN : run = [status |-> "running", identity |-> named] BY Zenon DEF Init
      <4> QED BY <4>1
    <3> QED BY <3>1 DEF Init
  <2>3. Cardinality(Entries(frames)) = 0
    <3>1. Entries(frames) = {} BY <2>2 DEF Entries
    <3> QED BY <3>1, FS_EmptySet
  <2>4. PlaceInv /\ FramesInv /\ OpenInv /\ SealInv BY <2>2 DEF PlaceInv, FramesInv, OpenInv, SealInv
  <2>5. AccountInv BY <2>2, <2>3 DEF AccountInv
  <2>6. WindowInv BY DEF Init, WindowInv, NoPage
  <2>7. PagesAreTheLog
    <3>1. SubSeq(frames, 1, 0) = <<>> BY SubSeqEmpty
    <3>2. \A r \in Readers : reader[r].cursor = 0 /\ reader[r].got = <<>> BY DEF Init
    <3>3. Len(frames) = 0 BY <2>2
    <3>4. ASSUME NEW r \in Readers
          PROVE  reader[r].cursor <= Len(frames) /\ reader[r].got = SubSeq(frames, 1, reader[r].cursor)
      <4>1. reader[r].cursor <= Len(frames) BY <3>2, <3>3
      <4>2. SubSeq(frames, 1, reader[r].cursor) = SubSeq(frames, 1, 0) BY <3>2
      <4> QED BY Zenon, <3>1, <3>2, <4>1, <4>2
    <3> QED BY Zenon, <3>4 DEF PagesAreTheLog
  <2> QED BY <2>1, <2>4, <2>5, <2>6, <2>7 DEF RunLogInv
<1>2. RunLogInv /\ [Next]_vars => RunLogInv'
  <2> SUFFICES ASSUME RunLogInv, [Next]_vars PROVE RunLogInv' OBVIOUS
  <2>1. TypeOK' /\ PlaceInv' /\ OpenInv' /\ FramesInv' /\ AccountInv' /\ WindowInv' /\ PagesAreTheLog'
    BY TypeStep, OpenStep, FramesStep, AccountStep, PagesStep DEF RunLogInv
  <2>2. SealInv'
    <3>1. CASE kind = "chat" BY <3>1, SealStep DEF RunLogInv
    <3>2. CASE kind # "chat" BY <3>2, WorkerMoves DEF RunLogInv, SealInv
    <3> QED BY <3>1, <3>2
  <2> QED BY <2>1, <2>2 DEF RunLogInv
<1> QED BY <1>1, <1>2, PTL DEF Spec

\* Rows, queue, handler and cursors stay in their ranges.
THEOREM TypeCorrect == Spec => []TypeOK
<1>1. RunLogInv => TypeOK BY DEF RunLogInv
<1> QED BY <1>1, RunLogInvariant, PTL

\* What a reader put together from its pages is the log up to its cursor, for
\* every page limit and wherever the byte bound cuts.
THEOREM PagesAreExact == Spec => []PagesAreTheLog
<1>1. RunLogInv => PagesAreTheLog BY DEF RunLogInv
<1> QED BY <1>1, RunLogInvariant, PTL

\* A chat's row and its last frame never disagree about how it ended.
THEOREM TerminalFramesAreLast == Spec => []TerminalFrameIsLast
<1>1. RunLogInv => TerminalFrameIsLast
  <2> SUFFICES ASSUME RunLogInv PROVE TerminalFrameIsLast OBVIOUS
  <2> QED BY DEF RunLogInv, SealInv, TerminalFrameIsLast
<1> QED BY <1>1, RunLogInvariant, PTL

\* The summary of a run that ended well accounts for every frame pushed.
THEOREM SummariesAccount == Spec => []SummaryAccountsForFrames
<1>1. RunLogInv => SummaryAccountsForFrames
  <2> SUFFICES ASSUME RunLogInv, NEW i \in DOMAIN frames, frames[i].status = "ok"
      PROVE  tally.pushed = Cardinality({j \in DOMAIN frames : frames[j].kind # "status"}) + frames[i].n
    BY DEF SummaryAccountsForFrames
  <2>1. /\ tally.pushed = Cardinality(Entries(frames)) + tally.refused + Len(chain)
        /\ chain = <<>> /\ frames[i].n = tally.refused
    BY DEF RunLogInv, AccountInv
  <2>2. Cardinality(Entries(frames)) \in Nat
    <3>1. Frame("work", 0) \in FrameRows BY DEF Frame, FrameRows
    <3> QED BY <3>1, EntriesGrow DEF RunLogInv, TypeOK
  <2>3. tally.refused \in Nat BY DEF RunLogInv, TypeOK
  <2> QED BY <2>1, <2>2, <2>3 DEF Entries
<1> QED BY <1>1, RunLogInvariant, PTL

\* The log of a chat implements a sealed log.
THEOREM RefinesSealedLog == Spec => ImplementsSealedLog
<1> DEFINE log == IF kind = "chat" THEN LogOf(frames) ELSE <<>>
           outcome == IF kind = "chat" THEN run.status ELSE "running"
<1>1. Init => Sealed!Init
  <2> SUFFICES ASSUME Init PROVE log = <<>> /\ outcome = "running" BY DEF Sealed!Init
  <2>1. frames = <<>> BY DEF Init
  <2>2. run.status = "running"
    <3>1. PICK named \in BOOLEAN : run = [status |-> "running", identity |-> named] BY Zenon DEF Init
    <3> QED BY <3>1
  <2>3. LogOf(frames) = <<>> BY <2>1 DEF LogOf
  <2> QED BY <2>2, <2>3
<1>2. ASSUME RunLogInv, [Next]_vars PROVE [Sealed!Next]_<<log, outcome>>
  <2>0. kind' = kind /\ frames \in Seq(FrameRows) /\ chain \in Seq(FrameRows)
    BY <1>2, WorkerMoves DEF RunLogInv, TypeOK
  <2>1. CASE kind # "chat" BY <2>0, <2>1
  <2>2. CASE kind = "chat"
    <3>1. ASSUME NEW f \in FrameRows, frames' = Append(frames, f)
          PROVE  LogOf(frames') = Append(LogOf(frames), IF f.kind = "status" THEN f.status ELSE f.kind)
      <4> DEFINE e == IF f.kind = "status" THEN f.status ELSE f.kind
                 S == {"work", "identity", "none"} \cup Ended
      <4>1. /\ DOMAIN frames = 1..Len(frames) /\ DOMAIN frames' = 1..(Len(frames) + 1) /\ Len(frames) \in Nat
            /\ frames'[Len(frames) + 1] = f /\ \A i \in 1..Len(frames) : frames'[i] = frames[i]
        BY <2>0, <3>1, Appended
      <4>2. \A g \in FrameRows : (IF g.kind = "status" THEN g.status ELSE g.kind) \in S BY DEF FrameRows
      <4>3. \A i \in 1..Len(frames) : frames[i] \in FrameRows BY <2>0
      <4>4. LogOf(frames) \in Seq(S) /\ Len(LogOf(frames)) = Len(frames)
        BY <4>1, <4>2, <4>3 DEF LogOf
      <4>5. LogOf(frames') \in Seq(S) /\ Len(LogOf(frames')) = Len(frames) + 1
        BY <3>1, <4>1, <4>2, <4>3 DEF LogOf
      <4>6. e \in S BY <3>1, <4>2
      <4>7. /\ Append(LogOf(frames), e) \in Seq(S) /\ Len(Append(LogOf(frames), e)) = Len(frames) + 1
            /\ Append(LogOf(frames), e)[Len(frames) + 1] = e
            /\ \A i \in 1..Len(frames) : Append(LogOf(frames), e)[i] = LogOf(frames)[i]
        BY <4>4, <4>6, Appended
      <4>8. \A i \in 1..(Len(frames) + 1) : LogOf(frames')[i] = Append(LogOf(frames), e)[i]
        BY <4>1, <4>7 DEF LogOf
      <4> QED BY <4>5, <4>7, <4>8, SeqEqual
    <3>2. CASE Appends
      <4>1. Head(chain) \in FrameRows /\ Head(chain).kind \in {"work", "identity"}
        <5>1. Head(chain) \in FrameRows /\ Head(chain) = chain[1] /\ 1 \in DOMAIN chain
          BY <2>0, <3>2, HeadTailProperties DEF Appends
        <5>2. Head(chain).kind # "status" BY <1>2, <5>1 DEF RunLogInv, FramesInv
        <5> QED BY <5>1, <5>2 DEF FrameRows
      <4>2. LogOf(frames') = Append(LogOf(frames), Head(chain).kind) BY <3>1, <3>2, <4>1 DEF Appends
      <4>3. Sealed!Record(Head(chain).kind) BY <2>0, <2>2, <3>2, <4>2 DEF Appends, Sealed!Record
      <4> QED BY <4>1, <4>3 DEF Sealed!Next
    <3>3. CASE Ends
      <4>1. PICK how \in Ended, n \in Nat :
              /\ run.status = "running" /\ run' = [run EXCEPT !.status = how]
              /\ frames' = Append(frames, StatusFrame(how, n))
        BY <3>3 DEF Ends
      <4>2. StatusFrame(how, n) \in FrameRows /\ StatusFrame(how, n).kind = "status" /\ StatusFrame(how, n).status = how
        BY DEF StatusFrame, FrameRows
      <4>3. run'.status = how BY <1>2, <4>1 DEF RunLogInv, TypeOK
      <4>4. LogOf(frames') = Append(LogOf(frames), how) BY <3>1, <4>1, <4>2
      <4>5. Sealed!Seal(how) BY <2>0, <2>2, <4>1, <4>3, <4>4 DEF Sealed!Seal
      <4> QED BY <4>5 DEF Sealed!Next
    <3>4. CASE Puts
      <4>1. run'.status = run.status /\ frames' = frames
        BY <1>2, <2>2, <3>4 DEF Puts, RunLogInv, OpenInv, Alive
      <4> QED BY <2>0, <4>1
    <3>5. CASE UNCHANGED row BY <2>0, <3>5 DEF row
    <3> QED BY <1>2, <3>2, <3>3, <3>4, <3>5, LogSteps DEF RunLogInv
  <2> QED BY <2>1, <2>2
<1> QED BY <1>1, <1>2, RunLogInvariant, PTL DEF Spec, ImplementsSealedLog, Sealed!Spec

\* What a log says it keeps saying: a recorded frame is never changed or taken
\* back, so a page that was shipped stays true.
THEOREM LogsAreAppendOnly ==
  Spec => [][\A i \in DOMAIN frames : i \in DOMAIN frames' /\ frames'[i] = frames[i]]_vars
<1>1. RunLogInv /\ [Next]_vars =>
        [\A i \in DOMAIN frames : i \in DOMAIN frames' /\ frames'[i] = frames[i]]_vars
  <2> SUFFICES ASSUME RunLogInv, [Next]_vars, NEW i \in DOMAIN frames
      PROVE  i \in DOMAIN frames' /\ frames'[i] = frames[i]
    OBVIOUS
  <2>1. frames \in Seq(FrameRows) BY DEF RunLogInv, TypeOK
  <2>2. ASSUME NEW f \in FrameRows, frames' = Append(frames, f)
        PROVE  i \in DOMAIN frames' /\ frames'[i] = frames[i]
    BY <2>1, <2>2, Appended
  <2> QED BY <2>2, LogGrows DEF RunLogInv
<1> QED BY <1>1, RunLogInvariant, PTL DEF Spec

\* Once a chat's run has ended, nobody ends it again, reopens it or adds to its
\* log: not the operator, not a late frame, not an identity still on its way.
THEOREM EndedChatsAreClosed ==
  Spec => [][kind = "chat" /\ run.status # "running" => run'.status = run.status /\ frames' = frames]_vars
<1>1. RunLogInv /\ [Next]_vars =>
        [kind = "chat" /\ run.status # "running" => run'.status = run.status /\ frames' = frames]_vars
  <2> SUFFICES ASSUME RunLogInv, [Next]_vars, kind = "chat", run.status # "running"
      PROVE  run'.status = run.status /\ frames' = frames
    OBVIOUS
  <2>1. ~Appends /\ ~Ends BY DEF Appends, Ends
  <2>2. ~Puts BY DEF Puts, RunLogInv, OpenInv, Alive
  <2> QED BY <2>1, <2>2, LogSteps DEF row, RunLogInv
<1> QED BY <1>1, RunLogInvariant, PTL DEF Spec

\* A config-aware run is never "ok" without naming its stack.
THEOREM OkRunsAreNamed == Spec => []OkRunsNameTheirStack
<1>1. Init => OkRunsNameTheirStack
  <2> SUFFICES ASSUME Init PROVE run.status # "ok" BY DEF OkRunsNameTheirStack
  <2>1. PICK named \in BOOLEAN : run = [status |-> "running", identity |-> named] BY Zenon DEF Init
  <2> QED BY <2>1
<1>2. ASSUME RunLogInv, OkRunsNameTheirStack, [Next]_vars PROVE OkRunsNameTheirStack'
  <2>0. run \in [status : Statuses, identity : BOOLEAN] BY <1>2 DEF RunLogInv, TypeOK
  <2>1. CASE Ends
    <3>1. PICK how \in Ended : run' = [run EXCEPT !.status = how] /\ (how = "ok" => run.identity)
      BY <2>1 DEF Ends
    <3> QED BY <2>0, <3>1 DEF OkRunsNameTheirStack
  <2>2. CASE Puts BY <2>2 DEF Puts, OkRunsNameTheirStack
  <2> QED BY <1>2, <2>1, <2>2, LogSteps DEF Appends, row, RunLogInv, OkRunsNameTheirStack
<1> QED BY <1>1, <1>2, RunLogInvariant, PTL DEF Spec
=============================================================================
