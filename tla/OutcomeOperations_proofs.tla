------------------------ MODULE OutcomeOperations_proofs ------------------------
(***************************************************************************)
(* Theorems about the request owner: at most one purchase of a proposal    *)
(* stands, the callers of a request get one answer, and the retained       *)
(* versions with the reservations never exceed the policy.                 *)
(*                                                                         *)
(* WorkSteps reduces what a host does to its row and to its request's row; *)
(* the invariants are then proved over those changes.  What is bought is   *)
(* followed attempt by attempt, since a proof that nothing was dispatched  *)
(* may disown an attempt whose host is still about to send.                *)
(***************************************************************************)
EXTENDS OutcomeOperations, FiniteSetTheorems, TLAPS

-----------------------------------------------------------------------------
(* Rows. *)

Places == {"idle", "begun", "dispatched", "replied", "finishing", "refusing", "recovering"}
Hows   == {"none", "commit", "refuse", "error"}
Results == {"none", "ok", "refused"}

OpRows   == [state : States, attempt : Nat, output : BOOLEAN, reserved : BOOLEAN, result : Results]
HostRows == [pc : Places, req : Requests \cup {None}, attempt : Nat, how : Hows]

\* A host is at its attempt's work, which a recovery is not.
Working == {"begun", "dispatched", "replied", "finishing", "refusing"}

-----------------------------------------------------------------------------
(* The invariant. *)

\* Whoever is at work, and whatever evidence there is, is about a request.
PlaceInv ==
  /\ \A h \in Hosts : host[h].pc # "idle" => host[h].req \in Requests
  /\ recon # NoRecon => recon.req \in Requests /\ recon.kind \in {"retained", "no-dispatch"}

\* An attempt is out once its request is sent or about to be: it is sent once,
\* and only one that is not disowned is out, whose request's row is dispatched
\* or uncertain at it, over, or has its output at hand.
Sending(h, r) == host[h].pc = "dispatched" /\ host[h].req = r
Out(r, a)     == Bought(r, a) \/ \E h \in Hosts : Sending(h, r) /\ host[h].attempt = a
Open(r, a)    == Out(r, a) /\ a \notin disowned[r]
Spent(r, a)   == \/ op[r].output \/ op[r].state = "completed"
                 \/ op[r].state \in {"dispatched", "uncertain"} /\ op[r].attempt = a

SentOnce(r) ==
  /\ \A i, j \in DOMAIN wires[r] : wires[r][i] = wires[r][j] => i = j
  /\ \A h \in Hosts : Sending(h, r) =>
       /\ ~Bought(r, host[h].attempt)
       /\ \A k \in Hosts : Sending(k, r) /\ host[k].attempt = host[h].attempt => k = h
OpenOnce(r) ==
  /\ \A a, b \in Nat : Open(r, a) /\ Open(r, b) => a = b
  /\ \A a \in Nat : Open(r, a) => Spent(r, a)
Fenced(r) ==
  /\ \A a \in disowned[r] : a < op[r].attempt
  /\ op[r].state \in Unfinished => ~op[r].output
SentAt(r) == SentOnce(r) /\ OpenOnce(r) /\ Fenced(r)
SentInv == \A r \in Requests : SentAt(r)

\* A receipt is recorded once and is all that anybody was answered.
ReceiptInv ==
  \A r \in Requests :
    /\ op[r].state = "completed" <=> op[r].result # "none"
    /\ \A a \in answers[r] : op[r].state = "completed" /\ a = op[r].result
    /\ r \in versions => op[r].result = "ok"

\* Capacity is held by every attempt that may still publish, and by nothing
\* that is over.
HeldAt(r) ==
  /\ op[r].state \in {"reserved", "dispatched", "ready", "uncertain"} => op[r].reserved
  /\ op[r].state = "completed" => ~op[r].reserved
HolderAt(h) ==
  host[h].pc \in Working =>
    /\ host[h].attempt <= Mine(h).attempt
    /\ SameAttempt(h) => Mine(h).reserved \/ Mine(h).state = "completed"
HoldInv == (\A r \in Requests : HeldAt(r)) /\ (\A h \in Hosts : HolderAt(h))

OutcomeInv == TypeOK /\ PlaceInv /\ SentInv /\ ReceiptInv /\ HoldInv /\ CapacityHolds

-----------------------------------------------------------------------------
(* What a step of a host does. *)

\* The rows are functions, and their fields have their types.
LEMMA RowTypes ==
  ASSUME TypeOK
  PROVE  /\ op \in [Requests -> OpRows] /\ host \in [Hosts -> HostRows]
         /\ \A r \in Requests : op[r] \in OpRows /\ wires[r] \in Seq(Nat) /\ answers[r] \subseteq Results
         /\ \A h \in Hosts : host[h] \in HostRows
BY DEF TypeOK, OpRows, HostRows, Places, Hows, Results

\* What becomes of the host: it leaves, or goes on with its attempt.
Moves(h, x) ==
  /\ host[h].pc # "idle" /\ host' = [host EXCEPT ![h] = x] /\ x \in HostRows
  /\ \/ x = Idle
     \/ /\ host[h].pc \in Working /\ x.pc \in Working \cup {"recovering"}
        /\ x.req = host[h].req /\ x.attempt = host[h].attempt

\* What becomes of the request's row.
RowTo(r, x) == op' = [op EXCEPT ![r] = x] /\ x \in OpRows

Rests(r)    == UNCHANGED <<op, versions, wires>>
               /\ (answers' = answers \/ (op[r].state = "completed" /\ answers' = [answers EXCEPT ![r] = @ \cup {op[r].result}]))
Buys(h, r)  == host[h].pc = "dispatched" /\ wires' = [wires EXCEPT ![r] = Append(@, host[h].attempt)]
               /\ UNCHANGED <<op, versions, answers>>
Sends(h, r, x) == /\ op[r].state = "reserved" /\ ~op[r].output /\ RowTo(r, x) /\ host[h].pc = "begun"
                  /\ x = [op[r] EXCEPT !.state = "dispatched"] /\ UNCHANGED <<versions, wires, answers>>
Saves(r, x) == /\ op[r].state \in {"reserved", "dispatched"} /\ RowTo(r, x)
               /\ x = [op[r] EXCEPT !.state = "ready", !.output = TRUE] /\ UNCHANGED <<versions, wires, answers>>
Ends(r, x)  == /\ op[r].state # "completed" /\ RowTo(r, x) /\ UNCHANGED wires
               /\ x.state = "completed" /\ ~x.reserved /\ x.attempt = op[r].attempt /\ x.result \in {"ok", "refused"}
               /\ versions' = versions \/ (x.result = "ok" /\ versions' = versions \cup {r})
               /\ answers' = answers \/ answers' = [answers EXCEPT ![r] = @ \cup {x.result}]
Gives(r, x) == /\ op[r].state # "completed" /\ RowTo(r, x) /\ UNCHANGED <<versions, wires, answers>>
               /\ x = [op[r] EXCEPT !.state = IF op[r].state \in {"dispatched", "uncertain"} THEN "uncertain" ELSE "retryable"]

Works(h, x) ==
  LET r == host[h].req IN
    \/ Rests(r) /\ x.pc # "dispatched"
    \/ Buys(h, r) /\ x.pc # "dispatched"
    \/ SameAttempt(h) /\ \E y : Sends(h, r, y)
    \/ host[h].pc \in Working /\ SameAttempt(h) /\ x.pc # "dispatched" /\ \E y : Saves(r, y)
    \/ host[h].pc \in Working /\ SameAttempt(h) /\ x.pc # "dispatched" /\ \E y : Ends(r, y)
    \/ x.pc # "dispatched" /\ \E y : Gives(r, y)

\* A host that goes on or leaves.
LEMMA HostMoves ==
  ASSUME TypeOK, NEW h \in Hosts, host[h].pc # "idle"
  PROVE  /\ Leave(h) => Moves(h, host'[h]) /\ host'[h] = Idle
         /\ \A pc \in Working \cup {"recovering"} : GoTo(h, pc) /\ host[h].pc \in Working =>
              Moves(h, host'[h]) /\ host'[h].pc = pc
         /\ \A how \in Hows : End(h, "finishing", how) /\ host[h].pc \in Working =>
              Moves(h, host'[h]) /\ host'[h].pc = "finishing"
<1>0. host \in [Hosts -> HostRows] /\ host[h] \in HostRows BY RowTypes
<1>1. ASSUME Leave(h) PROVE Moves(h, host'[h]) /\ host'[h] = Idle
  BY <1>0, <1>1 DEF Leave, Moves, Idle, HostRows, Places, Hows
<1>2. ASSUME NEW pc \in Working \cup {"recovering"}, GoTo(h, pc), host[h].pc \in Working
      PROVE  Moves(h, host'[h]) /\ host'[h].pc = pc
  <2> DEFINE x == [host[h] EXCEPT !.pc = pc]
  <2>1. host' = [host EXCEPT ![h] = x] BY <1>2 DEF GoTo
  <2>2. x.pc = pc /\ x.req = host[h].req /\ x.attempt = host[h].attempt /\ x \in HostRows
    BY <1>0 DEF HostRows, Places, Working
  <2> HIDE DEF x
  <2>3. host'[h] = x BY <1>0, <2>1
  <2> QED BY <1>2, <2>1, <2>2, <2>3 DEF Moves
<1>3. ASSUME NEW how \in Hows, End(h, "finishing", how), host[h].pc \in Working
      PROVE  Moves(h, host'[h]) /\ host'[h].pc = "finishing"
  <2> DEFINE x == [host[h] EXCEPT !.pc = "finishing", !.how = how]
  <2>1. host' = [host EXCEPT ![h] = x] BY <1>3 DEF End
  <2>2. x.pc = "finishing" /\ x.req = host[h].req /\ x.attempt = host[h].attempt /\ x \in HostRows
    BY <1>0 DEF HostRows, Places
  <2> HIDE DEF x
  <2>3. host'[h] = x BY <1>0, <2>1
  <2> QED BY <1>3, <2>1, <2>2, <2>3 DEF Moves, Working
<1> QED BY <1>1, <1>2, <1>3

\* The rows a host's transactions write.
LEMMA RowWrites ==
  ASSUME TypeOK, NEW r \in Requests
  PROVE  /\ \A s \in States : op' = [op EXCEPT ![r].state = s] => RowTo(r, [op[r] EXCEPT !.state = s])
         /\ op' = [op EXCEPT ![r].state = "ready", ![r].output = TRUE] =>
              RowTo(r, [op[r] EXCEPT !.state = "ready", !.output = TRUE])
         /\ \A result \in {"ok", "refused"} : Complete(r, result) =>
              \E y : /\ RowTo(r, y) /\ y.state = "completed" /\ ~y.reserved /\ y.attempt = op[r].attempt
                     /\ y.result = result
<1>0. op \in [Requests -> OpRows] /\ op[r] \in OpRows BY RowTypes
<1>1. ASSUME NEW s \in States, op' = [op EXCEPT ![r].state = s] PROVE RowTo(r, [op[r] EXCEPT !.state = s])
  BY <1>0, <1>1 DEF RowTo, OpRows
<1>2. ASSUME op' = [op EXCEPT ![r].state = "ready", ![r].output = TRUE]
      PROVE  RowTo(r, [op[r] EXCEPT !.state = "ready", !.output = TRUE])
  BY <1>0, <1>2 DEF RowTo, OpRows, States
<1>3. ASSUME NEW result \in {"ok", "refused"}, Complete(r, result)
      PROVE  \E y : /\ RowTo(r, y) /\ y.state = "completed" /\ ~y.reserved /\ y.attempt = op[r].attempt
                    /\ y.result = result
  <2> DEFINE y == [op[r] EXCEPT !.state = "completed", !.output = FALSE, !.reserved = FALSE, !.result = result]
  <2>1. op' = [op EXCEPT ![r] = y] BY <1>3 DEF Complete
  <2>2. y \in OpRows /\ y.state = "completed" /\ ~y.reserved /\ y.attempt = op[r].attempt /\ y.result = result
    BY <1>0 DEF OpRows, States, Results
  <2> QED BY <2>1, <2>2 DEF RowTo
<1> QED BY <1>1, <1>2, <1>3

\* Every step of a host that is at a request is one of those above.
LEMMA WorkSteps ==
  ASSUME TypeOK, PlaceInv, NEW h \in Hosts, Steps(h) \/ Stop(h)
  PROVE  host[h].req \in Requests /\ UNCHANGED <<recon, disowned>> /\ Moves(h, host'[h]) /\ Works(h, host'[h])
<1> DEFINE r == host[h].req
           x == host'[h]
<1>0. host[h].pc # "idle" /\ UNCHANGED <<recon, disowned>>
  BY DEF Steps, Stop, Prepare, PrepareFails, Dispatch, Wire, CacheHit, SaveOutput, Finish, Refuse, Recover, At
<1>1. r \in Requests BY <1>0 DEF PlaceInv
<1>2. /\ Leave(h) => Moves(h, x) /\ x.pc # "dispatched"
      /\ \A pc \in Working \cup {"recovering"} : GoTo(h, pc) /\ host[h].pc \in Working => Moves(h, x) /\ x.pc = pc
      /\ \A how \in Hows : End(h, "finishing", how) /\ host[h].pc \in Working => Moves(h, x) /\ x.pc = "finishing"
  BY <1>0, HostMoves DEF Idle
<1>3. /\ GoTo(h, "recovering") /\ host[h].pc \in Working => Moves(h, x) /\ x.pc # "dispatched"
      /\ GoTo(h, "refusing") /\ host[h].pc \in Working => Moves(h, x) /\ x.pc # "dispatched"
      /\ GoTo(h, "replied") /\ host[h].pc \in Working => Moves(h, x) /\ x.pc # "dispatched"
      /\ GoTo(h, "dispatched") /\ host[h].pc \in Working => Moves(h, x)
      /\ \A how \in Hows : End(h, "finishing", how) /\ host[h].pc \in Working => Moves(h, x) /\ x.pc # "dispatched"
  BY <1>2 DEF Working
<1>w. {"none", "commit", "refuse", "error"} = Hows BY DEF Hows
<1>4. CASE Prepare(h) \/ PrepareFails(h) \/ CacheHit(h)
  <2>1. Rests(r) /\ host[h].pc \in Working
    BY <1>4 DEF Prepare, PrepareFails, CacheHit, Rests, rows, At, Working
  <2>2. (\E how \in Hows : End(h, "finishing", how)) \/ GoTo(h, "replied")
    BY <1>4 DEF Prepare, PrepareFails, CacheHit, Hows
  <2>3. Moves(h, x) /\ x.pc # "dispatched" BY <1>3, <2>1, <2>2
  <2> QED BY <1>0, <1>1, <2>1, <2>3 DEF Works
<1>5. CASE Dispatch(h)
  <2>1. host[h].pc \in Working /\ host[h].pc = "begun" /\ ~op[r].output /\ UNCHANGED <<versions, wires, answers>>
    BY <1>5 DEF Dispatch, At, Working, Mine
  <2>2. CASE op' = [op EXCEPT ![r].state = "dispatched"] /\ op[r].state = "reserved" /\ SameAttempt(h)
    <3>1. Sends(h, r, [op[r] EXCEPT !.state = "dispatched"])
      BY <1>1, <2>1, <2>2, RowWrites DEF Sends, States
    <3>2. Moves(h, x) BY <1>3, <1>5, <1>w, <2>1 DEF Dispatch
    <3> QED BY <1>0, <1>1, <2>2, <3>1, <3>2 DEF Works
  <2>3. CASE UNCHANGED op /\ \E how \in Hows : End(h, "finishing", how)
    <3>1. Rests(r) BY <2>1, <2>3 DEF Rests
    <3>2. Moves(h, x) /\ x.pc # "dispatched" BY <1>3, <2>1, <2>3
    <3> QED BY <1>0, <1>1, <3>1, <3>2 DEF Works
  <2> QED BY <1>5, <1>w, <2>2, <2>3 DEF Dispatch, Mine
<1>6. CASE Wire(h)
  <2>1. Buys(h, r) /\ host[h].pc \in Working BY <1>6 DEF Wire, Buys, At, Working, rows
  <2>2. GoTo(h, "replied") \/ End(h, "finishing", "error") BY <1>6 DEF Wire
  <2>3. Moves(h, x) /\ x.pc # "dispatched" BY <1>3, <1>w, <2>1, <2>2
  <2> QED BY <1>0, <1>1, <2>1, <2>3 DEF Works
<1>7. CASE SaveOutput(h)
  <2>1. host[h].pc \in Working /\ UNCHANGED <<versions, wires, answers>> BY <1>7 DEF SaveOutput, At, Working
  <2>2. Moves(h, x) /\ x.pc # "dispatched"
    <3>1. \E how \in Hows : End(h, "finishing", how) BY <1>7, <1>w DEF SaveOutput
    <3> QED BY <1>3, <2>1, <3>1
  <2>3. CASE /\ op' = [op EXCEPT ![r].state = "ready", ![r].output = TRUE]
             /\ op[r].state \in {"reserved", "dispatched"} /\ SameAttempt(h)
    <3>1. Saves(r, [op[r] EXCEPT !.state = "ready", !.output = TRUE])
      BY <1>1, <2>1, <2>3, RowWrites DEF Saves
    <3> QED BY <1>0, <1>1, <2>1, <2>2, <2>3, <3>1 DEF Works
  <2>4. CASE UNCHANGED op
    <3>1. Rests(r) BY <2>1, <2>4 DEF Rests
    <3> QED BY <1>0, <1>1, <2>2, <3>1 DEF Works
  <2> QED BY <1>7, <2>3, <2>4 DEF SaveOutput, Mine
<1>8. CASE Finish(h)
  <2>1. host[h].pc \in Working /\ UNCHANGED wires BY <1>8 DEF Finish, At, Working
  <2>2. Moves(h, x) /\ x.pc # "dispatched"
    <3>1. Leave(h) \/ GoTo(h, "recovering") \/ GoTo(h, "refusing") BY <1>8 DEF Finish, Finish_Else, Publish
    <3> QED BY <1>2, <1>3, <2>1, <3>1
  <2>3. CASE Complete(r, "ok") /\ Effect(r) /\ Owns(h)
             /\ (answers' = answers \/ answers' = [answers EXCEPT ![r] = @ \cup {"ok"}])
    <3>1. op[r].state # "completed" /\ SameAttempt(h) BY <2>3 DEF Owns, Mine
    <3>2. PICK y : /\ RowTo(r, y) /\ y.state = "completed" /\ ~y.reserved /\ y.attempt = op[r].attempt
                   /\ y.result = "ok"
      BY <1>1, <2>3, RowWrites, Zenon
    <3>3. Ends(r, y) BY <2>1, <2>3, <3>1, <3>2 DEF Ends, Effect
    <3> QED BY <1>0, <1>1, <2>1, <2>2, <3>1, <3>3 DEF Works
  <2>4. CASE UNCHANGED rows /\ (answers' = answers \/ (Mine(h).state = "completed" /\ Answer(h)))
    <3>1. Rests(r) BY <2>1, <2>4 DEF Rests, rows, Answer, Mine
    <3> QED BY <1>0, <1>1, <2>2, <3>1 DEF Works
  <2> QED BY <1>8, <2>3, <2>4 DEF Finish, Finish_Else, Publish
<1>9. CASE Refuse(h)
  <2>1. host[h].pc \in Working /\ UNCHANGED <<versions, wires>> BY <1>9 DEF Refuse, At, Working
  <2>2. Moves(h, x) /\ x.pc # "dispatched"
    <3>1. Leave(h) \/ GoTo(h, "recovering") BY <1>9 DEF Refuse
    <3> QED BY <1>2, <1>3, <2>1, <3>1
  <2>3. CASE Complete(r, "refused") /\ op[r].state # "completed" /\ SameAttempt(h)
             /\ (answers' = answers \/ answers' = [answers EXCEPT ![r] = @ \cup {"refused"}])
    <3>2. PICK y : /\ RowTo(r, y) /\ y.state = "completed" /\ ~y.reserved /\ y.attempt = op[r].attempt
                   /\ y.result = "refused"
      BY <1>1, <2>3, RowWrites, Zenon
    <3>3. Ends(r, y) BY <2>1, <2>3, <3>2 DEF Ends
    <3> QED BY <1>0, <1>1, <2>1, <2>2, <2>3, <3>3 DEF Works
  <2>4. CASE UNCHANGED op /\ (answers' = answers \/ (Mine(h).state = "completed" /\ Answer(h)))
    <3>1. Rests(r) BY <2>1, <2>4 DEF Rests, Answer, Mine
    <3> QED BY <1>0, <1>1, <2>2, <3>1 DEF Works
  <2> QED BY <1>9, <2>3, <2>4 DEF Refuse, Mine
<1>10. CASE Recover(h)
  <2>1. Leave(h) /\ UNCHANGED <<versions, wires>> BY <1>10 DEF Recover
  <2>2. Moves(h, x) /\ x.pc # "dispatched" BY <1>2, <2>1
  <2>3. CASE /\ op[r].state # "completed" /\ UNCHANGED answers
             /\ op' = [op EXCEPT ![r].state = IF @ \in {"dispatched", "uncertain"} THEN "uncertain" ELSE "retryable"]
    <3> DEFINE s == IF op[r].state \in {"dispatched", "uncertain"} THEN "uncertain" ELSE "retryable"
    <3>1. s \in States /\ op' = [op EXCEPT ![r].state = s] BY <2>3 DEF States
    <3>2. RowTo(r, [op[r] EXCEPT !.state = s]) BY <1>1, <3>1, RowWrites
    <3>3. Gives(r, [op[r] EXCEPT !.state = s]) BY <2>1, <2>3, <3>2 DEF Gives
    <3> QED BY <1>0, <1>1, <2>2, <3>3 DEF Works
  <2>4. CASE UNCHANGED op /\ (answers' = answers \/ (Mine(h).state = "completed" /\ Answer(h)))
    <3>1. Rests(r) BY <2>1, <2>4 DEF Rests, Answer, Mine
    <3> QED BY <1>0, <1>1, <2>2, <3>1 DEF Works
  <2> QED BY <1>10, <2>3, <2>4 DEF Recover, Mine
<1>11. CASE Stop(h)
  <2>1. Leave(h) /\ Rests(r) BY <1>11 DEF Stop, Rests, rows
  <2> QED BY <1>0, <1>1, <1>2, <2>1 DEF Works
<1> QED BY <1>4, <1>5, <1>6, <1>7, <1>8, <1>9, <1>10, <1>11 DEF Steps

-----------------------------------------------------------------------------
(* What the other steps do. *)

\* A row that is written, and the others.
LEMMA RowParts ==
  ASSUME TypeOK, NEW r \in Requests, NEW y, RowTo(r, y)
  PROVE  op' \in [Requests -> OpRows] /\ op'[r] = y /\ y \in OpRows /\ \A q \in Requests \ {r} : op'[q] = op[q]
BY RowTypes DEF RowTo

\* A working step writes at its own request only, and never the attempt there.
LEMMA WorkEffects ==
  ASSUME TypeOK, NEW h \in Hosts, NEW r \in Requests, r = host[h].req, NEW x, Works(h, x)
  PROVE  /\ op' = op \/ \E y : RowTo(r, y) /\ y.attempt = op[r].attempt
         /\ wires' = wires \/ wires' = [wires EXCEPT ![r] = Append(@, host[h].attempt)]
         /\ versions' = versions \/ versions' = versions \cup {r}
         /\ answers' = answers \/ \E a \in Results : answers' = [answers EXCEPT ![r] = @ \cup {a}]
<1> DEFINE Effects == /\ op' = op \/ \E y : RowTo(r, y) /\ y.attempt = op[r].attempt
                      /\ wires' = wires \/ wires' = [wires EXCEPT ![r] = Append(@, host[h].attempt)]
                      /\ versions' = versions \/ versions' = versions \cup {r}
                      /\ answers' = answers \/ \E a \in Results : answers' = [answers EXCEPT ![r] = @ \cup {a}]
<1>0. op[r] \in OpRows /\ op[r].result \in Results BY RowTypes DEF OpRows
<1>1. CASE Rests(r) BY <1>0, <1>1 DEF Rests
<1>2. CASE Buys(h, r) BY <1>2 DEF Buys
<1>3. ASSUME NEW y, Sends(h, r, y) PROVE Effects
  <2>1. y.attempt = op[r].attempt BY <1>0, <1>3 DEF Sends, OpRows
  <2> QED BY <1>3, <2>1 DEF Sends
<1>4. ASSUME NEW y, Saves(r, y) PROVE Effects
  <2>1. y.attempt = op[r].attempt BY <1>0, <1>4 DEF Saves, OpRows
  <2> QED BY <1>4, <2>1 DEF Saves
<1>5. ASSUME NEW y, Gives(r, y) PROVE Effects
  <2>1. y.attempt = op[r].attempt BY <1>0, <1>5 DEF Gives, OpRows
  <2> QED BY <1>5, <2>1 DEF Gives
<1>6. ASSUME NEW y, Ends(r, y) PROVE Effects
  <2>1. y.result \in Results BY <1>6 DEF Ends, Results
  <2> QED BY <1>6, <2>1, Zenon DEF Ends
<1> HIDE DEF Effects
<1> QED BY <1>1, <1>2, <1>3, <1>4, <1>5, <1>6 DEF Works, Effects

\* A host that moves, and the others.
LEMMA HostParts ==
  ASSUME TypeOK, NEW h \in Hosts, Moves(h, host'[h])
  PROVE  /\ host' \in [Hosts -> HostRows] /\ \A k \in Hosts \ {h} : host'[k] = host[k]
         /\ \/ host'[h] = Idle
            \/ /\ host[h].pc \in Working /\ host'[h].pc \in Working \cup {"recovering"}
               /\ host'[h].req = host[h].req /\ host'[h].attempt = host[h].attempt
<1> DEFINE x == host'[h]
<1>1. host' = [host EXCEPT ![h] = x] BY DEF Moves
<1>2. \A k \in Hosts \ {h} : host'[k] = host[k] BY <1>1, RowTypes
<1>3. host' \in [Hosts -> HostRows]
  <2>1. x \in HostRows BY DEF Moves
  <2> QED BY <1>1, <2>1, RowTypes
<1> QED BY <1>2, <1>3 DEF Moves

\* A host takes a request up: it reserves a new attempt, or fails to.
Takes(h, r) ==
  /\ host[h].pc = "idle" /\ op[r].state \in Retryable /\ UNCHANGED <<versions, recon, wires, disowned, answers>>
  /\ \E x \in HostRows :
       /\ host' = [host EXCEPT ![h] = x] /\ x.req = r /\ x.attempt = op[r].attempt + 1
       /\ \/ x.pc = "recovering" /\ UNCHANGED op
          \/ /\ x.pc \in {"begun", "recovering"} /\ Room(r)
             /\ \E y : /\ RowTo(r, y) /\ y.state \in {"reserved", "ready"} /\ y.attempt = op[r].attempt + 1
                       /\ y.output = op[r].output /\ (y.output <=> y.state = "ready") /\ y.reserved
                       /\ y.result = "none"

\* Begin is such a step.
LEMMA BeginTakes ==
  ASSUME TypeOK, NEW h \in Hosts, NEW r \in Requests, Begin(h, r)
  PROVE  Takes(h, r)
<1> DEFINE x(pc) == [pc |-> pc, req |-> r, attempt |-> op[r].attempt + 1, how |-> "none"]
           y == [state |-> IF op[r].output THEN "ready" ELSE "reserved", attempt |-> op[r].attempt + 1,
                 output |-> op[r].output, reserved |-> TRUE, result |-> "none"]
<1>0. op \in [Requests -> OpRows] /\ op[r] \in OpRows BY RowTypes
<1>1. x("begun") \in HostRows /\ x("recovering") \in HostRows BY <1>0 DEF HostRows, OpRows, Places, Hows
<1>2. Reserve(r) => RowTo(r, y)
  <2>1. y \in OpRows BY <1>0 DEF OpRows, States, Results
  <2>2. Reserve(r) => op' = [op EXCEPT ![r] = y] BY <1>0 DEF Reserve
  <2> QED BY <2>1, <2>2 DEF RowTo
<1>3. /\ y.state \in {"reserved", "ready"} /\ y.attempt = op[r].attempt + 1
      /\ y.output = op[r].output /\ (y.output <=> y.state = "ready") /\ y.reserved /\ y.result = "none"
  OBVIOUS
<1>4. /\ host[h].pc = "idle" /\ op[r].state \in Retryable /\ UNCHANGED <<versions, recon, wires, disowned, answers>> /\ Room(r)
      /\ \/ Reserve(r) /\ host' = [host EXCEPT ![h] = x("begun")]
         \/ Reserve(r) /\ host' = [host EXCEPT ![h] = x("recovering")]
         \/ UNCHANGED op /\ host' = [host EXCEPT ![h] = x("recovering")]
  BY DEF Begin, At
<1> HIDE DEF y
<1>5. CASE Reserve(r) /\ host' = [host EXCEPT ![h] = x("begun")]
  BY <1>1, <1>2, <1>3, <1>4, <1>5 DEF Takes
<1>6. CASE Reserve(r) /\ host' = [host EXCEPT ![h] = x("recovering")]
  BY <1>1, <1>2, <1>3, <1>4, <1>6 DEF Takes
<1>7. CASE UNCHANGED op /\ host' = [host EXCEPT ![h] = x("recovering")]
  BY <1>1, <1>4, <1>7 DEF Takes
<1> QED BY <1>4, <1>5, <1>6, <1>7

\* A host joins a request whose output is at hand.
Joins(h, r) ==
  /\ op[r].state = "ready" /\ host[h].pc = "idle" /\ UNCHANGED <<op, versions, recon, wires, disowned, answers>>
  /\ \E x \in HostRows : host' = [host EXCEPT ![h] = x] /\ x.pc = "begun" /\ x.req = r /\ x.attempt = op[r].attempt

\* BeginReady is such a step.
LEMMA BeginJoins ==
  ASSUME TypeOK, NEW h \in Hosts, NEW r \in Requests, BeginReady(h, r)
  PROVE  Joins(h, r)
<1> DEFINE x == [pc |-> "begun", req |-> r, attempt |-> op[r].attempt, how |-> "none"]
<1>1. x \in HostRows BY RowTypes DEF HostRows, OpRows, Places, Hows
<1> QED BY <1>1 DEF BeginReady, Joins, At, rows

\* A reconciliation that still finds the attempt it was read from.
Reconciles(r) ==
  /\ op[r].state \in Unfinished /\ op[r].attempt = recon.attempt /\ recon' = NoRecon
  /\ UNCHANGED <<versions, host, wires, answers>>
  /\ \E y : /\ RowTo(r, y) /\ y.result = op[r].result
            /\ \/ /\ recon.kind = "retained" /\ y.state = "ready" /\ y.output /\ y.attempt = op[r].attempt /\ y.reserved
                  /\ disowned' = disowned
               \/ /\ recon.kind = "no-dispatch" /\ y.state = "retryable" /\ ~y.output /\ ~y.reserved
                  /\ y.attempt = op[r].attempt + 1
                  /\ disowned' = [disowned EXCEPT ![r] = @ \cup {recon.attempt}]

\* ReconcileCommit is such a step, or only drops the evidence.
LEMMA CommitReconciles ==
  ASSUME TypeOK, PlaceInv, ReconcileCommit
  PROVE  /\ recon.req \in Requests
         /\ Reconciles(recon.req) \/ (recon' = NoRecon /\ UNCHANGED <<op, versions, host, wires, disowned, answers>>)
<1> DEFINE r == recon.req
           y == Reconciled(r, recon.kind)
<1>0. r \in Requests /\ recon.kind \in {"retained", "no-dispatch"} BY DEF ReconcileCommit, PlaceInv
<1>1. op[r] \in OpRows BY <1>0, RowTypes
<1>2. /\ y \in OpRows /\ y.result = op[r].result
      /\ recon.kind = "retained" => y.state = "ready" /\ y.output /\ y.attempt = op[r].attempt /\ y.reserved
      /\ recon.kind = "no-dispatch" => y.state = "retryable" /\ ~y.output /\ ~y.reserved /\ y.attempt = op[r].attempt + 1
  <2>1. CASE recon.kind = "retained"
    <3>1. y = [op[r] EXCEPT !.state = "ready", !.output = TRUE, !.reserved = TRUE] BY <2>1 DEF Reconciled
    <3> HIDE DEF y
    <3> QED BY <1>1, <2>1, <3>1 DEF OpRows, States
  <2>2. CASE recon.kind = "no-dispatch"
    <3>1. y = [op[r] EXCEPT !.state = "retryable", !.attempt = op[r].attempt + 1, !.output = FALSE, !.reserved = FALSE]
      BY <2>2 DEF Reconciled
    <3> HIDE DEF y
    <3>2. /\ y.state = "retryable" /\ ~y.output /\ ~y.reserved /\ y.attempt = op[r].attempt + 1
          /\ y.result = op[r].result
      BY <1>1, <3>1 DEF OpRows
    <3>3. op[r].attempt + 1 \in Nat /\ "retryable" \in States BY <1>1 DEF OpRows, States
    <3>4. y \in OpRows BY <1>1, <3>1, <3>3 DEF OpRows
    <3> QED BY <2>2, <3>2, <3>4
  <2> QED BY <1>0, <2>1, <2>2
<1> HIDE DEF y
<1>4. CASE op[r].attempt = recon.attempt /\ op[r].state \in Unfinished
  <2>1. /\ op' = [op EXCEPT ![r] = y] /\ recon' = NoRecon /\ UNCHANGED <<versions, host, wires, answers>>
        /\ disowned' = IF recon.kind = "no-dispatch"
                        THEN [disowned EXCEPT ![r] = @ \cup {recon.attempt}] ELSE disowned
    BY <1>4 DEF ReconcileCommit, y
  <2>2. RowTo(r, y) BY <1>2, <2>1 DEF RowTo
  <2> QED BY <1>0, <1>2, <1>4, <2>1, <2>2 DEF Reconciles
<1>5. CASE ~(op[r].attempt = recon.attempt /\ op[r].state \in Unfinished)
  BY <1>0, <1>5 DEF ReconcileCommit
<1> QED BY <1>4, <1>5

-----------------------------------------------------------------------------
(* Types and places. *)

\* The rows keep their types.
LEMMA TypeStep ==
  ASSUME TypeOK, PlaceInv, [Next]_vars
  PROVE  TypeOK' /\ PlaceInv'
<1>0. OutcomeAssumption BY OutcomeAssumption
<1>1. ASSUME op' \in [Requests -> OpRows], host' \in [Hosts -> HostRows], versions' \subseteq Requests,
             recon' \in [req : Requests \cup {None}, attempt : Nat, kind : {"none", "retained", "no-dispatch"}],
             wires' \in [Requests -> Seq(Nat)], disowned' \in [Requests -> SUBSET Nat],
             answers' \in [Requests -> SUBSET Results], faults' \in 0..MaxFaults
      PROVE  TypeOK'
  BY <1>1 DEF TypeOK, OpRows, HostRows, Places, Hows, Results
<1>2. /\ op \in [Requests -> OpRows] /\ host \in [Hosts -> HostRows] /\ versions \subseteq Requests
      /\ recon \in [req : Requests \cup {None}, attempt : Nat, kind : {"none", "retained", "no-dispatch"}]
      /\ wires \in [Requests -> Seq(Nat)] /\ disowned \in [Requests -> SUBSET Nat]
      /\ answers \in [Requests -> SUBSET Results] /\ faults \in 0..MaxFaults
  BY DEF TypeOK, OpRows, HostRows, Places, Hows, Results
<1>3. Fault => faults' \in 0..MaxFaults BY <1>0, <1>2 DEF Fault, OutcomeAssumption
<1>4. ASSUME NEW h \in Hosts, Steps(h) \/ Stop(h) PROVE TypeOK' /\ PlaceInv'
  <2> DEFINE r == host[h].req
             x == host'[h]
  <2>1. r \in Requests /\ UNCHANGED <<recon, disowned>> /\ Moves(h, x) /\ Works(h, x) BY <1>4, WorkSteps
  <2>2. host' \in [Hosts -> HostRows] BY <2>1, HostParts
  <2>3. op' \in [Requests -> OpRows]
    <3>1. op' = op \/ \E y : RowTo(r, y) BY <2>1, WorkEffects
    <3> QED BY <1>2, <2>1, <3>1, RowParts
  <2>4. wires' \in [Requests -> Seq(Nat)]
    <3>1. wires' = wires \/ wires' = [wires EXCEPT ![r] = Append(@, host[h].attempt)] BY <2>1, WorkEffects
    <3>2. host[h].attempt \in Nat /\ wires[r] \in Seq(Nat) BY <1>2, <2>1 DEF HostRows
    <3>3. Append(wires[r], host[h].attempt) \in Seq(Nat) BY <3>2
    <3> QED BY <1>2, <2>1, <3>1, <3>3
  <2>5. versions' \subseteq Requests
    <3>1. versions' = versions \/ versions' = versions \cup {r} BY <2>1, WorkEffects
    <3> QED BY <1>2, <2>1, <3>1
  <2>6. answers' \in [Requests -> SUBSET Results]
    <3>1. answers' = answers \/ \E a \in Results : answers' = [answers EXCEPT ![r] = @ \cup {a}]
      BY <2>1, WorkEffects
    <3>2. \A a \in Results : [answers EXCEPT ![r] = @ \cup {a}] \in [Requests -> SUBSET Results]
      BY <1>2, <2>1
    <3>3. answers \in [Requests -> SUBSET Results] BY <1>2
    <3> QED BY <3>1, <3>2, <3>3
  <2>7. faults' \in 0..MaxFaults
    BY <1>2, <1>3, <1>4 DEF Steps, Stop, Prepare, PrepareFails, Dispatch, Wire, CacheHit, SaveOutput, Finish, Finish_Else,
         Publish, Refuse, Recover
  <2>8. \A k \in Hosts : host'[k].pc # "idle" => host'[k].req \in Requests
    BY <2>1, HostParts DEF PlaceInv, Idle
  <2> QED BY <1>1, <1>2, <2>1, <2>2, <2>3, <2>4, <2>5, <2>6, <2>7, <2>8 DEF PlaceInv, NoRecon
<1>5. ASSUME NEW h \in Hosts, NEW r \in Requests, Begin(h, r) PROVE TypeOK' /\ PlaceInv'
  <2>1. Takes(h, r) BY <1>5, BeginTakes
  <2>2. PICK x \in HostRows : host' = [host EXCEPT ![h] = x] /\ x.req = r BY <2>1 DEF Takes
  <2>3. op' \in [Requests -> OpRows] BY <1>2, <2>1, RowParts DEF Takes
  <2>4. faults' \in 0..MaxFaults BY <1>2, <1>3, <1>5 DEF Begin
  <2>5. UNCHANGED <<versions, recon, wires, disowned, answers>> BY <2>1 DEF Takes
  <2> QED BY <1>1, <1>2, <2>2, <2>3, <2>4, <2>5 DEF PlaceInv, NoRecon
<1>6. ASSUME NEW h \in Hosts, NEW r \in Requests, BeginReady(h, r) PROVE TypeOK' /\ PlaceInv'
  <2>1. Joins(h, r) BY <1>6, BeginJoins
  <2>2. PICK x \in HostRows : host' = [host EXCEPT ![h] = x] /\ x.req = r BY <2>1 DEF Joins
  <2>3. UNCHANGED <<op, versions, recon, wires, disowned, answers, faults>> BY <1>6, <2>1 DEF Joins, BeginReady
  <2> QED BY <1>1, <1>2, <2>2, <2>3 DEF PlaceInv, NoRecon
<1>7. ASSUME NEW r \in Requests, Replay(r) PROVE TypeOK' /\ PlaceInv'
  <2>1. op[r].result \in Results BY <1>2 DEF OpRows
  <2>2. answers' \in [Requests -> SUBSET Results] BY <1>2, <1>7, <2>1 DEF Replay
  <2> QED BY <1>1, <1>2, <1>7, <2>2 DEF Replay, rows, PlaceInv, NoRecon
<1>8. ASSUME NEW r \in Requests, ReconcileRead(r) PROVE TypeOK' /\ PlaceInv'
  <2>1. op[r].attempt \in Nat BY <1>2 DEF OpRows
  <2>2. PICK kind \in {"retained", "no-dispatch"} : recon' = [req |-> r, attempt |-> op[r].attempt, kind |-> kind]
    BY <1>8 DEF ReconcileRead
  <2>3. UNCHANGED <<op, versions, host, wires, disowned, answers>> BY <1>8 DEF ReconcileRead, rows
  <2>4. faults' \in 0..MaxFaults BY <1>2, <1>3, <1>8 DEF ReconcileRead
  <2> QED BY <1>1, <1>2, <2>1, <2>2, <2>3, <2>4 DEF PlaceInv
<1>9. CASE ReconcileCommit
  <2>1. op' \in [Requests -> OpRows] /\ recon' = NoRecon /\ UNCHANGED <<versions, host, wires, answers, faults>>
    BY <1>2, <1>9, CommitReconciles, RowParts DEF Reconciles, ReconcileCommit
  <2>2. NoRecon \in [req : Requests \cup {None}, attempt : Nat, kind : {"none", "retained", "no-dispatch"}]
    BY DEF NoRecon
  <2>3. disowned' \in [Requests -> SUBSET Nat]
    <3>1. recon.attempt \in Nat /\ recon.req \in Requests BY <1>2, <1>9 DEF ReconcileCommit, PlaceInv
    <3>2. disowned' \in {disowned, [disowned EXCEPT ![recon.req] = @ \cup {recon.attempt}]}
      BY <1>9 DEF ReconcileCommit
    <3>3. [disowned EXCEPT ![recon.req] = @ \cup {recon.attempt}] \in [Requests -> SUBSET Nat] BY <1>2, <3>1
    <3> QED BY <1>2, <3>2, <3>3
  <2> QED BY <1>1, <1>2, <2>1, <2>2, <2>3 DEF PlaceInv
<1>10. CASE UNCHANGED vars BY <1>10 DEF vars, rows, TypeOK, PlaceInv, NoRecon
<1> QED BY <1>4, <1>5, <1>6, <1>7, <1>8, <1>9, <1>10 DEF Next

-----------------------------------------------------------------------------
(* What is sent. *)

\* Nobody starts to send, and what was sent stays spent.
LEMMA SentKeeps ==
  ASSUME NEW q \in Requests, SentAt(q), wires'[q] = wires[q], disowned'[q] = disowned[q], Fenced(q)',
         \A k \in Hosts : Sending(k, q)' => Sending(k, q) /\ host'[k].attempt = host[k].attempt,
         \A a \in Nat : Spent(q, a) => Spent(q, a)'
  PROVE  SentAt(q)'
<1>1. SentOnce(q) /\ OpenOnce(q) BY DEF SentAt
<1>2. \A a : Bought(q, a)' <=> Bought(q, a) BY DEF Bought
<1>3. \A a : Open(q, a)' => Open(q, a) BY <1>2 DEF Open, Out
<1>4. SentOnce(q)' BY <1>1, <1>2 DEF SentOnce
<1>5. OpenOnce(q)' BY <1>1, <1>3 DEF OpenOnce
<1> QED BY <1>4, <1>5 DEF SentAt

\* A later attempt stays ahead of those that were disowned.
LEMMA FencedKeeps ==
  ASSUME TypeOK, NEW q \in Requests, Fenced(q), disowned'[q] = disowned[q], op' \in [Requests -> OpRows],
         op'[q].attempt >= op[q].attempt, op'[q].state \in Unfinished => ~op'[q].output
  PROVE  Fenced(q)'
<1>1. op[q].attempt \in Nat /\ op'[q].attempt \in Nat BY RowTypes DEF OpRows
<1>2. disowned[q] \subseteq Nat BY DEF TypeOK
<1>3. \A a \in disowned[q] : a < op'[q].attempt BY <1>1, <1>2 DEF Fenced
<1> QED BY <1>3 DEF Fenced, Unfinished

\* One more is sent.
LEMMA AppendOnce ==
  ASSUME NEW s \in Seq(Nat), NEW a \in Nat, \A i \in DOMAIN s : s[i] # a,
         \A i, j \in DOMAIN s : s[i] = s[j] => i = j
  PROVE  /\ DOMAIN Append(s, a) = DOMAIN s \cup {Len(s) + 1} /\ Len(s) + 1 \notin DOMAIN s
         /\ Append(s, a)[Len(s) + 1] = a /\ \A i \in DOMAIN s : Append(s, a)[i] = s[i]
         /\ \A i, j \in DOMAIN Append(s, a) : Append(s, a)[i] = Append(s, a)[j] => i = j
<1>1. /\ DOMAIN Append(s, a) = DOMAIN s \cup {Len(s) + 1} /\ Len(s) + 1 \notin DOMAIN s
      /\ Append(s, a)[Len(s) + 1] = a /\ \A i \in DOMAIN s : Append(s, a)[i] = s[i]
  OBVIOUS
<1> QED BY <1>1

\* A request that goes out, of a host that is done with it.
LEMMA BuysKeep ==
  ASSUME TypeOK, NEW h \in Hosts, NEW r \in Requests, r = host[h].req, SentAt(r), Buys(h, r),
         disowned' = disowned, ~Sending(h, r)',
         \A k \in Hosts \ {h} : host'[k] = host[k]
  PROVE  SentAt(r)'
<1> DEFINE n == host[h].attempt
<1>1. SentOnce(r) /\ OpenOnce(r) /\ Fenced(r) BY DEF SentAt
<1>2. Sending(h, r) /\ op' = op /\ wires' = [wires EXCEPT ![r] = Append(@, n)] BY DEF Buys, Sending
<1>3. wires[r] \in Seq(Nat) /\ n \in Nat BY RowTypes DEF HostRows
<1>4. ~Bought(r, n) /\ \A k \in Hosts \ {h} : Sending(k, r) => host[k].attempt # n BY <1>1, <1>2 DEF SentOnce
<1>5. wires'[r] = Append(wires[r], n) BY <1>2 DEF TypeOK
<1>6. /\ DOMAIN wires'[r] = DOMAIN wires[r] \cup {Len(wires[r]) + 1}
      /\ wires'[r][Len(wires[r]) + 1] = n /\ \A i \in DOMAIN wires[r] : wires'[r][i] = wires[r][i]
      /\ \A i, j \in DOMAIN wires'[r] : wires'[r][i] = wires'[r][j] => i = j
  <2>1. /\ \A i \in DOMAIN wires[r] : wires[r][i] # n
        /\ \A i, j \in DOMAIN wires[r] : wires[r][i] = wires[r][j] => i = j
    BY <1>1, <1>4 DEF SentOnce, Bought
  <2> DEFINE s == wires[r]
             t == Append(s, n)
  <2> HIDE DEF n, s
  <2>2. s \in Seq(Nat) /\ n \in Nat BY <1>3 DEF s
  <2>3. (\A i \in DOMAIN s : s[i] # n) /\ \A i, j \in DOMAIN s : s[i] = s[j] => i = j BY <2>1 DEF s
  <2>4. /\ DOMAIN t = DOMAIN s \cup {Len(s) + 1}
        /\ t[Len(s) + 1] = n /\ \A i \in DOMAIN s : t[i] = s[i]
        /\ \A i, j \in DOMAIN t : t[i] = t[j] => i = j
    <3>1. Len(s) \in Nat BY <2>2
    <3> QED BY <2>2, <2>3, AppendOnce, Zenon
  <2> HIDE DEF t
  <2>5. wires'[r] = t BY <1>5 DEF s, t
  <2> QED BY <2>4, <2>5 DEF s
<1>7. \A a : Bought(r, a)' <=> Bought(r, a) \/ a = n BY <1>6 DEF Bought
<1>8. \A k \in Hosts : Sending(k, r)' => k # h /\ Sending(k, r) /\ host'[k].attempt = host[k].attempt
  BY DEF Sending
<1>9. SentOnce(r)'
  <2>1. ASSUME NEW k \in Hosts, Sending(k, r)'
        PROVE  /\ ~Bought(r, host[k].attempt)'
               /\ \A i \in Hosts : Sending(i, r)' /\ host'[i].attempt = host'[k].attempt => i = k
    <3>1. k # h /\ Sending(k, r) /\ host'[k].attempt = host[k].attempt BY <1>8, <2>1
    <3>2. ~Bought(r, host[k].attempt) /\ host[k].attempt # n BY <1>1, <1>4, <3>1 DEF SentOnce
    <3>3. ~Bought(r, host[k].attempt)'
      <4> DEFINE b == host'[k].attempt
      <4>1. b # n /\ \A i \in DOMAIN wires[r] : wires[r][i] # b BY <3>1, <3>2 DEF Bought
      <4> HIDE DEF b
      <4>2. \A i \in DOMAIN wires'[r] : wires'[r][i] # b BY <1>6, <4>1
      <4> QED BY <4>2 DEF b, Bought
    <3>4. \A i \in Hosts : Sending(i, r)' /\ host'[i].attempt = host'[k].attempt => i = k
      BY <1>1, <1>8, <3>1 DEF SentOnce
    <3> QED BY <3>3, <3>4
  <2>2. \A i, j \in DOMAIN wires'[r] : wires'[r][i] = wires'[r][j] => i = j BY <1>6
  <2> QED BY <2>1, <2>2 DEF SentOnce
<1>10. \A a : Open(r, a)' => Open(r, a) BY <1>2, <1>7, <1>8 DEF Open, Out
<1>11. OpenOnce(r)' BY <1>1, <1>2, <1>10 DEF OpenOnce, Spent
<1>12. Fenced(r)' BY <1>1, <1>2 DEF Fenced, Unfinished
<1> QED BY <1>9, <1>11, <1>12 DEF SentAt

\* A dispatch receipt is written only where nothing that stands is out.
LEMMA SendsKeep ==
  ASSUME TypeOK, NEW h \in Hosts, NEW r \in Requests, r = host[h].req, SentAt(r), NEW y, Sends(h, r, y),
         SameAttempt(h), disowned' = disowned, host'[h].attempt = host[h].attempt \/ host'[h].pc # "dispatched",
         \A k \in Hosts \ {h} : host'[k] = host[k]
  PROVE  SentAt(r)'
<1> DEFINE n == op[r].attempt
<1>1. SentOnce(r) /\ OpenOnce(r) /\ Fenced(r) BY DEF SentAt
<1>2. op[r].state = "reserved" /\ ~op[r].output /\ wires' = wires /\ host[h].attempt = n
  BY DEF Sends, SameAttempt, Mine
<1>3. n \in Nat /\ op'[r] = y /\ op' \in [Requests -> OpRows] BY RowTypes, RowParts DEF OpRows, Sends
<1>4. y.state = "dispatched" /\ y.attempt = n /\ ~y.output BY RowTypes DEF Sends, OpRows
<1>5. \A a \in Nat : ~Open(r, a) BY <1>1, <1>2 DEF OpenOnce, Spent
<1>6. n \notin disowned[r]
  <2>1. ~(n < n) BY <1>3
  <2> QED BY <1>1, <2>1 DEF Fenced
<1>7. ~Bought(r, n) /\ \A k \in Hosts : Sending(k, r) => host[k].attempt # n BY <1>3, <1>5, <1>6 DEF Open, Out
<1>8. \A a : Bought(r, a)' <=> Bought(r, a) BY <1>2 DEF Bought
<1>9. \A k \in Hosts : Sending(k, r)' =>
        \/ k = h /\ host'[k].attempt = n
        \/ k # h /\ Sending(k, r) /\ host'[k].attempt = host[k].attempt
  BY <1>2 DEF Sending
<1>10. SentOnce(r)'
  <2>1. ASSUME NEW k \in Hosts, Sending(k, r)'
        PROVE  /\ ~Bought(r, host'[k].attempt)
               /\ \A i \in Hosts : Sending(i, r)' /\ host'[i].attempt = host'[k].attempt => i = k
    BY <1>1, <1>7, <1>9, <2>1 DEF SentOnce
  <2> QED BY <1>1, <1>2, <1>8, <2>1 DEF SentOnce
<1>11. \A a \in Nat : Open(r, a)' => a = n BY <1>5, <1>8, <1>9 DEF Open, Out
<1>12. OpenOnce(r)' BY <1>3, <1>4, <1>11 DEF OpenOnce, Spent
<1>13. Fenced(r)' BY <1>1, <1>3, <1>4, FencedKeeps
<1> QED BY <1>10, <1>12, <1>13 DEF SentAt

\* A proof that nothing was dispatched leaves nothing that stands out.
LEMMA DisownKeeps ==
  ASSUME TypeOK, NEW r \in Requests, SentAt(r), NEW y, RowTo(r, y), op[r].state \in Unfinished,
         y.state = "retryable", ~y.output, y.attempt = op[r].attempt + 1,
         disowned' = [disowned EXCEPT ![r] = @ \cup {op[r].attempt}], UNCHANGED <<host, wires>>
  PROVE  SentAt(r)'
<1> DEFINE n == op[r].attempt
<1>1. SentOnce(r) /\ OpenOnce(r) /\ Fenced(r) BY DEF SentAt
<1>2. n \in Nat /\ op'[r] = y BY RowTypes, RowParts DEF OpRows
<1>3. disowned'[r] = disowned[r] \cup {n} /\ disowned[r] \subseteq Nat BY DEF TypeOK
<1>4. \A a : (Bought(r, a)' <=> Bought(r, a)) /\ (Out(r, a)' <=> Out(r, a)) BY DEF Bought, Out, Sending
<1>5. ~op[r].output /\ op[r].state # "completed" BY <1>1 DEF Fenced, Unfinished
<1>6. \A a \in Nat : ~Open(r, a)'
  <2>1. ASSUME NEW a \in Nat, Open(r, a)' PROVE FALSE
    <3>1. Open(r, a) /\ a # n BY <1>3, <1>4, <2>1 DEF Open
    <3> QED BY <1>1, <1>5, <3>1 DEF OpenOnce, Spent
  <2> QED BY <2>1
<1>7. SentOnce(r)' BY <1>1, <1>4 DEF SentOnce, Sending
<1>8. OpenOnce(r)' BY <1>6 DEF OpenOnce
<1>9. \A a \in disowned'[r] : a < n + 1
  <2>1. \A a \in disowned[r] : a \in Nat /\ a < n BY <1>1, <1>3 DEF Fenced
  <2> QED BY <1>2, <1>3, <2>1
<1>10. Fenced(r)' BY <1>2, <1>9 DEF Fenced, Unfinished
<1> QED BY <1>7, <1>8, <1>10 DEF SentAt

\* Every step keeps it.
LEMMA SentStep ==
  ASSUME TypeOK, PlaceInv, SentInv, [Next]_vars
  PROVE  SentInv'
<1>0. SUFFICES ASSUME NEW q \in Requests PROVE SentAt(q)' BY DEF SentInv
<1>1. SentAt(q) /\ Fenced(q) BY DEF SentInv, SentAt
<1>t. op[q].attempt \in Nat /\ wires \in [Requests -> Seq(Nat)] /\ disowned \in [Requests -> SUBSET Nat]
  BY RowTypes DEF OpRows, TypeOK
\* A step that writes a row, and neither sends nor disowns.
<1>k. ASSUME wires'[q] = wires[q], disowned'[q] = disowned[q],
             \A k \in Hosts : Sending(k, q)' => Sending(k, q) /\ host'[k].attempt = host[k].attempt,
             \/ op' = op
             \/ \E r \in Requests : \E y : /\ RowTo(r, y) /\ y.attempt >= op[r].attempt
                                           /\ y.state \in Unfinished => ~y.output
                                           /\ \A a \in Nat : Spent(r, a) =>
                                                \/ y.output \/ y.state = "completed"
                                                \/ y.state = "uncertain" /\ y.attempt = a
      PROVE  SentAt(q)'
  <2>1. Fenced(q)' /\ \A a \in Nat : Spent(q, a) => Spent(q, a)'
    <3>1. CASE op' = op BY <1>1, <1>k, <3>1 DEF Fenced, Spent, Unfinished
    <3>2. ASSUME NEW r \in Requests, NEW y, RowTo(r, y), y.attempt >= op[r].attempt,
                 y.state \in Unfinished => ~y.output,
                 \A a \in Nat : Spent(r, a) => \/ y.output \/ y.state = "completed"
                                               \/ y.state = "uncertain" /\ y.attempt = a
          PROVE  Fenced(q)' /\ \A a \in Nat : Spent(q, a) => Spent(q, a)'
      <4>1. op' \in [Requests -> OpRows] /\ op'[r] = y /\ \A p \in Requests \ {r} : op'[p] = op[p] BY <3>2, RowParts
      <4>2. CASE q = r
        <5>1. Fenced(q)' BY <1>1, <1>k, <3>2, <4>1, <4>2, FencedKeeps
        <5> QED BY <3>2, <4>1, <4>2, <5>1 DEF Spent
      <4>3. CASE q # r
        <5>1. op'[q] = op[q] BY <4>1, <4>3
        <5> QED BY <1>1, <1>k, <5>1 DEF Fenced, Spent, Unfinished
      <4> QED BY <4>2, <4>3
    <3> QED BY <1>k, <3>1, <3>2
  <2> QED BY <1>1, <1>k, <2>1, SentKeeps
<1>2. ASSUME NEW h \in Hosts, Steps(h) \/ Stop(h) PROVE SentAt(q)'
  <2> DEFINE r == host[h].req
             x == host'[h]
  <2>1. r \in Requests /\ disowned' = disowned /\ Moves(h, x) /\ Works(h, x) BY <1>2, WorkSteps
  <2>2. /\ \A k \in Hosts \ {h} : host'[k] = host[k]
        /\ x.pc = "dispatched" => x.req = r /\ x.attempt = host[h].attempt
    BY <2>1, HostParts DEF Idle
  <2>3. ASSUME x.pc # "dispatched" \/ q # r
        PROVE  \A k \in Hosts : Sending(k, q)' => Sending(k, q) /\ host'[k].attempt = host[k].attempt
    BY <2>2, <2>3 DEF Sending
  <2>4. CASE Rests(r) /\ x.pc # "dispatched" BY <1>k, <2>1, <2>3, <2>4 DEF Rests
  <2>5. CASE Buys(h, r) /\ x.pc # "dispatched"
    <3>1. CASE q # r
      <4>1. wires'[q] = wires[q] /\ op' = op BY <1>t, <2>5, <3>1 DEF Buys
      <4> QED BY <1>k, <2>1, <2>3, <3>1, <4>1
    <3>2. CASE q = r
      <4>1. ~Sending(h, q)' BY <2>5 DEF Sending
      <4> QED BY <1>1, <2>1, <2>2, <2>5, <3>2, <4>1, BuysKeep
    <3> QED BY <3>1, <3>2
  <2>6. ASSUME NEW y, Sends(h, r, y), SameAttempt(h) PROVE SentAt(q)'
    <3>1. CASE q # r
      <4>1. wires' = wires /\ RowTo(r, y) BY <2>6 DEF Sends
      <4>2. op'[q] = op[q] BY <2>1, <3>1, <4>1, RowParts
      <4>3. Fenced(q)' /\ \A a \in Nat : Spent(q, a) => Spent(q, a)'
        BY <1>1, <2>1, <4>2 DEF Fenced, Spent, Unfinished
      <4> QED BY <1>1, <2>1, <2>3, <3>1, <4>1, <4>3, SentKeeps
    <3>2. CASE q = r BY <1>1, <2>1, <2>2, <2>6, <3>2, SendsKeep
    <3> QED BY <3>1, <3>2
  <2>7. ASSUME NEW y, Saves(r, y) \/ Ends(r, y) \/ Gives(r, y), x.pc # "dispatched" PROVE SentAt(q)'
    <3>1. op[r] \in OpRows /\ op[r].attempt \in Nat BY <2>1, RowTypes DEF OpRows
    <3>2. RowTo(r, y) /\ wires' = wires BY <2>7 DEF Saves, Ends, Gives
    <3>3. y.attempt = op[r].attempt BY <2>7, <3>1 DEF Saves, Ends, Gives, OpRows
    <3>4. /\ y.state \in Unfinished => ~y.output
          /\ \A a \in Nat : Spent(r, a) => y.output \/ y.state = "completed" \/ (y.state = "uncertain" /\ y.attempt = a)
      <4>1. CASE Saves(r, y)
        <5>1. y.state = "ready" /\ y.output BY <3>1, <4>1 DEF Saves, OpRows
        <5> QED BY <5>1 DEF Unfinished
      <4>2. CASE Ends(r, y) BY <4>2 DEF Ends, Unfinished
      <4>3. CASE Gives(r, y)
        <5>1. /\ y.output = op[r].output /\ op[r].state # "completed"
              /\ y.state = IF op[r].state \in {"dispatched", "uncertain"} THEN "uncertain" ELSE "retryable"
          BY <3>1, <4>3 DEF Gives, OpRows
        <5>2. op[r].state \in Unfinished => ~op[r].output BY <2>1 DEF SentInv, SentAt, Fenced
        <5> QED BY <3>3, <5>1, <5>2 DEF Spent, Unfinished
      <4> QED BY <2>7, <4>1, <4>2, <4>3
    <3>5. y.attempt >= op[r].attempt BY <3>1, <3>3
    <3> QED BY <1>k, <2>1, <2>3, <2>7, <3>2, <3>4, <3>5
  <2> QED BY <2>1, <2>4, <2>5, <2>6, <2>7 DEF Works
<1>3. ASSUME NEW h \in Hosts, NEW r \in Requests, Begin(h, r) PROVE SentAt(q)'
  <2>1. Takes(h, r) BY <1>3, BeginTakes
  <2>2. PICK x \in HostRows : host' = [host EXCEPT ![h] = x] /\ x.pc \in {"begun", "recovering"} BY <2>1 DEF Takes
  <2>3. /\ UNCHANGED <<wires, disowned>>
        /\ \A k \in Hosts : Sending(k, q)' => Sending(k, q) /\ host'[k].attempt = host[k].attempt
    BY <2>1, <2>2, RowTypes DEF Takes, Sending
  <2>4. CASE op' = op BY <1>k, <2>3, <2>4
  <2>5. ASSUME NEW y, RowTo(r, y), y.attempt = op[r].attempt + 1, y.output = op[r].output, y.output <=> y.state = "ready"
        PROVE  SentAt(q)'
    <3>1. op[r].attempt \in Nat BY RowTypes DEF OpRows
    <3>2. op[r].state \in {"none", "retryable"} BY <2>1 DEF Takes, Retryable
    <3>3. /\ y.state \in Unfinished => ~y.output /\ y.attempt >= op[r].attempt
          /\ \A a \in Nat : Spent(r, a) => y.output
      BY <2>5, <3>1, <3>2 DEF Spent, Unfinished
    <3> QED BY <1>k, <2>3, <2>5, <3>1, <3>3
  <2> QED BY <2>1, <2>4, <2>5 DEF Takes
<1>4. ASSUME NEW h \in Hosts, NEW r \in Requests, BeginReady(h, r) PROVE SentAt(q)'
  <2>1. Joins(h, r) BY <1>4, BeginJoins
  <2>2. PICK x \in HostRows : host' = [host EXCEPT ![h] = x] /\ x.pc = "begun" BY <2>1 DEF Joins
  <2>3. /\ UNCHANGED <<op, wires, disowned>>
        /\ \A k \in Hosts : Sending(k, q)' => Sending(k, q) /\ host'[k].attempt = host[k].attempt
    BY <2>1, <2>2, RowTypes DEF Joins, Sending
  <2> QED BY <1>k, <2>3
<1>5. ASSUME UNCHANGED <<op, wires, disowned, host>> PROVE SentAt(q)'
  <2>1. \A k \in Hosts : Sending(k, q)' => Sending(k, q) BY <1>5 DEF Sending
  <2> QED BY <1>5, <1>k, <2>1
<1>6. CASE ReconcileCommit
  <2> DEFINE r == recon.req
  <2>1. r \in Requests /\ (Reconciles(r) \/ UNCHANGED <<op, host, wires, disowned>>) BY <1>6, CommitReconciles
  <2>2. CASE Reconciles(r)
    <3>1. UNCHANGED <<host, wires>> /\ op[r].state \in Unfinished /\ op[r].attempt = recon.attempt
      BY <2>2 DEF Reconciles
    <3>2. \A k \in Hosts : Sending(k, q)' => Sending(k, q) /\ host'[k].attempt = host[k].attempt
      BY <3>1 DEF Sending
    <3>3. ASSUME NEW y, RowTo(r, y), y.state = "ready", y.output, y.attempt = op[r].attempt, disowned' = disowned
          PROVE  SentAt(q)'
      <4>1. op[r].attempt \in Nat BY <2>1, RowTypes DEF OpRows
      <4>2. y.attempt >= op[r].attempt /\ y.state \notin Unfinished BY <3>3, <4>1 DEF Unfinished
      <4> QED BY <1>k, <2>1, <3>1, <3>2, <3>3, <4>2
    <3>4. ASSUME NEW y, RowTo(r, y), y.state = "retryable", ~y.output, y.attempt = op[r].attempt + 1,
                 disowned' = [disowned EXCEPT ![r] = @ \cup {recon.attempt}]
          PROVE  SentAt(q)'
      <4>1. CASE q = r BY <1>1, <2>1, <3>1, <3>4, <4>1, DisownKeeps
      <4>2. CASE q # r
        <5>1. op'[q] = op[q] /\ disowned'[q] = disowned[q] BY <1>t, <2>1, <3>4, <4>2, RowParts
        <5>2. Fenced(q)' /\ \A a \in Nat : Spent(q, a) => Spent(q, a)' BY <1>1, <5>1 DEF Fenced, Spent, Unfinished
        <5> QED BY <1>1, <3>1, <3>2, <5>1, <5>2, SentKeeps
      <4> QED BY <4>1, <4>2
    <3> QED BY <2>2, <3>3, <3>4 DEF Reconciles
  <2> QED BY <1>5, <2>1, <2>2
<1> QED BY <1>2, <1>3, <1>4, <1>5, <1>6 DEF Next, Replay, ReconcileRead, vars, rows

-----------------------------------------------------------------------------
(* One receipt. *)

\* Every step keeps the receipts and what was answered.
LEMMA ReceiptStep ==
  ASSUME TypeOK, PlaceInv, ReceiptInv, [Next]_vars
  PROVE  ReceiptInv'
<1> DEFINE ReceiptAt(q) == /\ op[q].state = "completed" <=> op[q].result # "none"
                           /\ \A a \in answers[q] : op[q].state = "completed" /\ a = op[q].result
                           /\ q \in versions => op[q].result = "ok"
<1>0. SUFFICES ASSUME NEW q \in Requests PROVE ReceiptAt(q)' BY DEF ReceiptInv
<1>1. \A p \in Requests : ReceiptAt(p) BY DEF ReceiptInv
<1>a. answers \in [Requests -> SUBSET Results] BY DEF TypeOK, Results
<1>2. ASSUME op'[q] = op[q], answers'[q] = answers[q], q \in versions' => q \in versions PROVE ReceiptAt(q)'
  BY <1>1, <1>2
<1>3. ASSUME NEW r \in Requests, op' = op, versions' = versions, op[r].state = "completed",
             answers' = [answers EXCEPT ![r] = @ \cup {op[r].result}]
      PROVE  ReceiptAt(q)'
  <2>1. CASE q # r BY <1>2, <1>3, <1>a, <2>1
  <2>2. CASE q = r
    <3>1. answers'[q] = answers[q] \cup {op[q].result} BY <1>3, <1>a, <2>2
    <3> QED BY <1>1, <1>3, <2>2, <3>1
  <2> QED BY <2>1, <2>2
<1>4. ASSUME NEW r \in Requests, NEW y, RowTo(r, y), op[r].state # "completed", y.state # "completed",
             y.result \in {op[r].result, "none"}, UNCHANGED <<versions, answers>>
      PROVE  ReceiptAt(q)'
  <2>1. op'[r] = y /\ \A p \in Requests \ {r} : op'[p] = op[p] BY <1>4, RowParts
  <2>2. op[r].result = "none" BY <1>1, <1>4
  <2>3. CASE q # r BY <1>2, <1>4, <2>1, <2>3
  <2>4. CASE q = r
    <3>1. answers[q] = {} /\ q \notin versions BY <1>1, <1>4, <2>2, <2>4
    <3> QED BY <1>4, <2>1, <2>2, <2>4, <3>1
  <2> QED BY <2>3, <2>4
<1>5. ASSUME NEW r \in Requests, NEW y, Ends(r, y) PROVE ReceiptAt(q)'
  <2>1. op'[r] = y /\ \A p \in Requests \ {r} : op'[p] = op[p] BY <1>5, RowParts DEF Ends
  <2>2. op[r].result = "none" /\ answers[r] = {} /\ r \notin versions BY <1>1, <1>5 DEF Ends
  <2>3. CASE q # r BY <1>2, <1>5, <1>a, <2>1, <2>3 DEF Ends
  <2>4. CASE q = r
    <3>1. answers'[q] \subseteq {y.result} BY <1>5, <1>a, <2>2, <2>4 DEF Ends
    <3>2. q \in versions' => y.result = "ok" BY <1>5, <2>2, <2>4 DEF Ends
    <3>3. y.state = "completed" /\ y.result # "none" BY <1>5 DEF Ends
    <3> QED BY <2>1, <2>4, <3>1, <3>2, <3>3
  <2> QED BY <2>3, <2>4
<1>6. ASSUME NEW h \in Hosts, Steps(h) \/ Stop(h) PROVE ReceiptAt(q)'
  <2> DEFINE r == host[h].req
             x == host'[h]
  <2>1. r \in Requests /\ Works(h, x) BY <1>6, WorkSteps
  <2>2. CASE Rests(r) BY <1>2, <1>3, <2>1, <2>2 DEF Rests
  <2>3. CASE Buys(h, r) BY <1>2, <2>3 DEF Buys
  <2>4. ASSUME NEW y, Sends(h, r, y) \/ Saves(r, y) \/ Gives(r, y) PROVE ReceiptAt(q)'
    <3>1. y.state # "completed" /\ y.result = op[r].result
      BY <2>1, <2>4, RowTypes DEF Sends, Saves, Gives, OpRows
    <3>2. RowTo(r, y) /\ op[r].state # "completed" /\ UNCHANGED <<versions, answers>>
      BY <2>4 DEF Sends, Saves, Gives
    <3> QED BY <1>4, <2>1, <3>1, <3>2
  <2> QED BY <1>5, <2>1, <2>2, <2>3, <2>4 DEF Works
<1>7. ASSUME NEW h \in Hosts, NEW r \in Requests, Begin(h, r) PROVE ReceiptAt(q)'
  <2>1. Takes(h, r) BY <1>7, BeginTakes
  <2>2. CASE UNCHANGED op BY <1>2, <2>1, <2>2 DEF Takes
  <2>3. ASSUME NEW y, RowTo(r, y), y.state \in {"reserved", "ready"}, y.result = "none" PROVE ReceiptAt(q)'
    <3>1. op[r].state # "completed" /\ UNCHANGED <<versions, answers>> BY <2>1 DEF Takes, Retryable
    <3> QED BY <1>4, <2>3, <3>1
  <2> QED BY <2>1, <2>2, <2>3 DEF Takes
<1>8. ASSUME NEW h \in Hosts, NEW r \in Requests, BeginReady(h, r) PROVE ReceiptAt(q)'
  BY <1>2, <1>8, BeginJoins DEF Joins
<1>9. ASSUME NEW r \in Requests, Replay(r) PROVE ReceiptAt(q)' BY <1>3, <1>9 DEF Replay, rows
<1>10. ASSUME UNCHANGED <<op, versions, answers>> PROVE ReceiptAt(q)' BY <1>2, <1>10
<1>11. CASE ReconcileCommit
  <2> DEFINE r == recon.req
  <2>1. r \in Requests /\ (Reconciles(r) \/ UNCHANGED <<op, versions, answers>>) BY <1>11, CommitReconciles
  <2>2. CASE Reconciles(r)
    <3>1. PICK y : RowTo(r, y) /\ y.result = op[r].result /\ y.state \in {"ready", "retryable"} BY <2>2 DEF Reconciles
    <3>2. op[r].state # "completed" /\ UNCHANGED <<versions, answers>> BY <2>2 DEF Reconciles, Unfinished
    <3> QED BY <1>4, <2>1, <3>1, <3>2
  <2> QED BY <1>10, <2>1, <2>2
<1> QED BY <1>6, <1>7, <1>8, <1>9, <1>10, <1>11 DEF Next, ReconcileRead, vars, rows

-----------------------------------------------------------------------------
(* Capacity. *)

\* A host keeps its claim while its row keeps its attempt or moves to a later one.
LEMMA HolderKeeps ==
  ASSUME TypeOK, PlaceInv, NEW k \in Hosts, HolderAt(k), host'[k] = host[k], TypeOK',
         NEW r \in Requests, NEW y, RowTo(r, y),
         \/ y.attempt = op[r].attempt + 1
         \/ y.attempt = op[r].attempt /\ (op[r].reserved => y.reserved \/ y.state = "completed") /\ op[r].state # "completed"
  PROVE  HolderAt(k)'
<1>1. SUFFICES ASSUME host[k].pc \in Working PROVE HolderAt(k)' BY DEF HolderAt
<1> DEFINE m == host[k].req
<1>2. m \in Requests BY <1>1 DEF PlaceInv, Working
<1>3. /\ host[k].attempt \in Nat /\ op[m].attempt \in Nat /\ op[r].attempt \in Nat /\ op'[m].attempt \in Nat
  <2>1. op[m] \in OpRows /\ op[r] \in OpRows /\ host[k] \in HostRows BY <1>2, RowTypes
  <2>2. op'[m] \in OpRows BY <1>2, RowParts
  <2> QED BY <2>1, <2>2 DEF OpRows, HostRows
<1>4. op'[r] = y /\ \A p \in Requests \ {r} : op'[p] = op[p] BY RowParts
<1>5. host[k].attempt <= op[m].attempt /\ (op[m].attempt = host[k].attempt => op[m].reserved \/ op[m].state = "completed")
  BY <1>1 DEF HolderAt, SameAttempt, Mine
<1>6. host[k].attempt <= op'[m].attempt /\ (op'[m].attempt = host[k].attempt => op'[m].reserved \/ op'[m].state = "completed")
  <2>1. CASE m # r BY <1>2, <1>4, <1>5, <2>1
  <2>2. CASE m = r BY <1>3, <1>4, <1>5, <2>2
  <2> QED BY <2>1, <2>2
<1> QED BY <1>6 DEF HolderAt, SameAttempt, Mine

\* Every step keeps it.
LEMMA HoldStep ==
  ASSUME TypeOK, PlaceInv, HoldInv, TypeOK', [Next]_vars
  PROVE  HoldInv'
<1>1. (\A r \in Requests : HeldAt(r)) /\ (\A h \in Hosts : HolderAt(h)) BY DEF HoldInv
<1>2. SUFFICES (\A r \in Requests : HeldAt(r)') /\ (\A h \in Hosts : HolderAt(h)')
  BY DEF HoldInv
<1>3. ASSUME op' = op, NEW h \in Hosts, Moves(h, host'[h])
      PROVE  (\A r \in Requests : HeldAt(r)') /\ (\A k \in Hosts : HolderAt(k)')
  <2>1. \A k \in Hosts : HolderAt(k)'
    <3>1. ASSUME NEW k \in Hosts PROVE HolderAt(k)'
      <4>1. CASE k # h
        <5>1. host'[k] = host[k] BY <1>3, <4>1, HostParts
        <5> QED BY <1>1, <1>3, <5>1 DEF HolderAt, SameAttempt, Mine
      <4>2. CASE k = h
        <5>1. \/ host'[h] = Idle
              \/ host[h].pc \in Working /\ host'[h].req = host[h].req /\ host'[h].attempt = host[h].attempt
          BY <1>3, HostParts
        <5> QED BY <1>1, <1>3, <4>2, <5>1 DEF HolderAt, SameAttempt, Mine, Idle, Working
      <4> QED BY <4>1, <4>2
    <3> QED BY <3>1
  <2> QED BY <1>1, <1>3, <2>1 DEF HeldAt
<1>4. ASSUME NEW h \in Hosts, NEW r \in Requests, NEW y, Moves(h, host'[h]), RowTo(r, y),
             y.attempt = op[r].attempt, op[r].reserved => y.reserved \/ y.state = "completed", op[r].state # "completed",
             y.state \in {"reserved", "dispatched", "ready", "uncertain"} => y.reserved,
             y.state = "completed" => ~y.reserved
      PROVE  (\A q \in Requests : HeldAt(q)') /\ (\A k \in Hosts : HolderAt(k)')
  <2>1. op'[r] = y /\ \A p \in Requests \ {r} : op'[p] = op[p] BY <1>4, RowParts
  <2>2. ASSUME NEW q \in Requests PROVE HeldAt(q)' BY <1>1, <1>4, <2>1 DEF HeldAt
  <2>3. ASSUME NEW k \in Hosts PROVE HolderAt(k)'
    <3>1. CASE k # h
      <4>1. host'[k] = host[k] BY <1>4, <3>1, HostParts
      <4> QED BY <1>1, <1>4, <4>1, HolderKeeps
    <3>2. CASE k = h
      <4>1. \/ host'[h] = Idle
            \/ host[h].pc \in Working /\ host'[h].req = host[h].req /\ host'[h].attempt = host[h].attempt
        BY <1>4, HostParts
      <4>2. CASE host'[h] = Idle BY <3>2, <4>2 DEF HolderAt, Idle, Working
      <4>3. CASE host[h].pc \in Working /\ host'[h].req = host[h].req /\ host'[h].attempt = host[h].attempt
        <5> DEFINE m == host[h].req
        <5>1. m \in Requests BY <4>3 DEF PlaceInv, Working
        <5>2. host[h].attempt <= op[m].attempt
              /\ (op[m].attempt = host[h].attempt => op[m].reserved \/ op[m].state = "completed")
          BY <1>1, <4>3 DEF HolderAt, SameAttempt, Mine
        <5>3. host[h].attempt <= op'[m].attempt
              /\ (op'[m].attempt = host[h].attempt => op'[m].reserved \/ op'[m].state = "completed")
          BY <1>4, <2>1, <5>1, <5>2
        <5> QED BY <3>2, <4>3, <5>3 DEF HolderAt, SameAttempt, Mine
      <4> QED BY <4>1, <4>2, <4>3
    <3> QED BY <3>1, <3>2
  <2> QED BY <2>2, <2>3
<1>5. ASSUME NEW h \in Hosts, Steps(h) \/ Stop(h)
      PROVE  (\A q \in Requests : HeldAt(q)') /\ (\A k \in Hosts : HolderAt(k)')
  <2> DEFINE r == host[h].req
             x == host'[h]
  <2>1. r \in Requests /\ Moves(h, x) /\ Works(h, x) BY <1>5, WorkSteps
  <2>2. CASE op' = op BY <1>3, <2>1, <2>2
  <2>3. ASSUME NEW y, Sends(h, r, y) \/ Saves(r, y) \/ Gives(r, y)
        PROVE  (\A q \in Requests : HeldAt(q)') /\ (\A k \in Hosts : HolderAt(k)')
    <3>1. RowTo(r, y) /\ op[r].state # "completed" BY <2>3 DEF Sends, Saves, Gives
    <3>2. y.attempt = op[r].attempt /\ y.reserved = op[r].reserved /\ y.state # "completed"
      BY <2>1, <2>3, RowTypes DEF Sends, Saves, Gives, OpRows
    <3>3. y.state \in {"reserved", "dispatched", "ready", "uncertain"} =>
            op[r].state \in {"reserved", "dispatched", "ready", "uncertain"}
      BY <2>1, <2>3, RowTypes DEF Sends, Saves, Gives, OpRows
    <3>4. y.state \in {"reserved", "dispatched", "ready", "uncertain"} => y.reserved
      BY <1>1, <2>1, <3>2, <3>3 DEF HeldAt
    <3>5. (op[r].reserved => y.reserved \/ y.state = "completed") /\ (y.state = "completed" => ~y.reserved)
      BY <3>2
    <3> QED BY <1>4, <2>1, <3>1, <3>2, <3>4, <3>5
  <2>4. ASSUME NEW y, Ends(r, y)
        PROVE  (\A q \in Requests : HeldAt(q)') /\ (\A k \in Hosts : HolderAt(k)')
    <3>1. /\ RowTo(r, y) /\ op[r].state # "completed" /\ y.attempt = op[r].attempt
          /\ y.state = "completed" /\ ~y.reserved
      BY <2>4 DEF Ends
    <3>2. y.state \in {"reserved", "dispatched", "ready", "uncertain"} => y.reserved BY <3>1
    <3>3. op[r].reserved => y.reserved \/ y.state = "completed" BY <3>1
    <3>4. y.state = "completed" => ~y.reserved BY <3>1
    <3> QED BY <1>4, <2>1, <3>1, <3>2, <3>3, <3>4
  <2> QED BY <2>1, <2>2, <2>3, <2>4 DEF Works, Rests, Buys
<1>6. ASSUME NEW h \in Hosts, NEW r \in Requests, Begin(h, r)
      PROVE  (\A q \in Requests : HeldAt(q)') /\ (\A k \in Hosts : HolderAt(k)')
  <2>1. Takes(h, r) BY <1>6, BeginTakes
  <2>2. PICK x \in HostRows :
          /\ host' = [host EXCEPT ![h] = x] /\ x.req = r /\ x.attempt = op[r].attempt + 1
          /\ \/ x.pc = "recovering" /\ UNCHANGED op
             \/ \E y : RowTo(r, y) /\ y.state \in {"reserved", "ready"} /\ y.attempt = op[r].attempt + 1 /\ y.reserved
    BY <2>1 DEF Takes
  <2>3. host'[h] = x /\ \A k \in Hosts \ {h} : host'[k] = host[k] BY <2>2, RowTypes
  <2>4. CASE x.pc = "recovering" /\ UNCHANGED op
    <3>1. \A q \in Requests : HeldAt(q)' BY <1>1, <2>4 DEF HeldAt
    <3>2. ASSUME NEW k \in Hosts PROVE HolderAt(k)'
      BY <1>1, <2>3, <2>4 DEF HolderAt, SameAttempt, Mine, Working
    <3> QED BY <3>1, <3>2
  <2>5. ASSUME NEW y, RowTo(r, y), y.state \in {"reserved", "ready"}, y.attempt = op[r].attempt + 1, y.reserved
        PROVE (\A q \in Requests : HeldAt(q)') /\ (\A k \in Hosts : HolderAt(k)')
    <3>1. op'[r] = y /\ \A p \in Requests \ {r} : op'[p] = op[p] BY <2>5, RowParts
    <3>2. ASSUME NEW q \in Requests PROVE HeldAt(q)' BY <1>1, <2>5, <3>1 DEF HeldAt
    <3>3. ASSUME NEW k \in Hosts PROVE HolderAt(k)'
      <4>1. CASE k # h BY <1>1, <2>3, <2>5, <4>1, HolderKeeps
      <4>2. CASE k = h
        <5>1. op'[r].attempt \in Nat BY <2>5, RowParts DEF OpRows
        <5> QED BY <2>2, <2>3, <2>5, <3>1, <4>2, <5>1 DEF HolderAt, SameAttempt, Mine
      <4> QED BY <4>1, <4>2
    <3> QED BY <3>2, <3>3
  <2> QED BY <2>2, <2>4, <2>5
<1>7. ASSUME NEW h \in Hosts, NEW r \in Requests, BeginReady(h, r)
      PROVE  (\A q \in Requests : HeldAt(q)') /\ (\A k \in Hosts : HolderAt(k)')
  <2>1. Joins(h, r) BY <1>7, BeginJoins
  <2>2. PICK x \in HostRows : host' = [host EXCEPT ![h] = x] /\ x.req = r /\ x.attempt = op[r].attempt
    BY <2>1 DEF Joins
  <2>3. host'[h] = x /\ \A k \in Hosts \ {h} : host'[k] = host[k] BY <2>2, RowTypes
  <2>4. op' = op /\ op[r].reserved /\ op[r].attempt \in Nat BY <1>1, <2>1, RowTypes DEF Joins, HeldAt, OpRows
  <2>5. \A q \in Requests : HeldAt(q)' BY <1>1, <2>4 DEF HeldAt
  <2>6. ASSUME NEW k \in Hosts PROVE HolderAt(k)'
    BY <1>1, <2>2, <2>3, <2>4 DEF HolderAt, SameAttempt, Mine
  <2> QED BY <2>5, <2>6
<1>8. ASSUME op' = op, host' = host
      PROVE  (\A q \in Requests : HeldAt(q)') /\ (\A k \in Hosts : HolderAt(k)')
  BY <1>1, <1>8 DEF HeldAt, HolderAt, SameAttempt, Mine
<1>9. CASE ReconcileCommit
  <2> DEFINE r == recon.req
  <2>1. r \in Requests /\ (Reconciles(r) \/ UNCHANGED <<op, host>>) BY <1>9, CommitReconciles
  <2>2. CASE Reconciles(r)
    <3>1. PICK y : /\ RowTo(r, y)
                   /\ \/ y.state = "ready" /\ y.attempt = op[r].attempt /\ y.reserved
                      \/ y.state = "retryable" /\ y.attempt = op[r].attempt + 1
      BY <2>2 DEF Reconciles
    <3>2. host' = host /\ op[r].state # "completed" BY <2>2 DEF Reconciles, Unfinished
    <3>3. op'[r] = y /\ \A p \in Requests \ {r} : op'[p] = op[p] BY <2>1, <3>1, RowParts
    <3>4. ASSUME NEW q \in Requests PROVE HeldAt(q)' BY <1>1, <3>1, <3>3 DEF HeldAt
    <3>5. ASSUME NEW k \in Hosts PROVE HolderAt(k)' BY <1>1, <2>1, <3>1, <3>2, HolderKeeps
    <3> QED BY <3>4, <3>5
  <2> QED BY <1>8, <2>1, <2>2
<1> QED BY <1>5, <1>6, <1>7, <1>8, <1>9 DEF Next, Replay, ReconcileRead, vars, rows

\* Versions and reservations are finite sets of requests.
LEMMA Counts ==
  ASSUME TypeOK
  PROVE  /\ IsFiniteSet(versions) /\ IsFiniteSet(Held)
         /\ Cardinality(versions) \in Nat /\ Cardinality(Held) \in Nat /\ MaxVersions \in Nat
<1>1. versions \subseteq Requests /\ Held \subseteq Requests BY DEF TypeOK, Held
<1>2. IsFiniteSet(versions) /\ IsFiniteSet(Held) BY <1>1, OutcomeAssumption, FS_Subset DEF OutcomeAssumption
<1> QED BY <1>2, OutcomeAssumption, FS_CardinalityType DEF OutcomeAssumption

\* One more member, or one less.
LEMMA OneMore ==
  ASSUME NEW S, IsFiniteSet(S), NEW r
  PROVE  /\ Cardinality(S) \in Nat /\ Cardinality(S \cup {r}) \in Nat
         /\ Cardinality(S \cup {r}) <= Cardinality(S) + 1
         /\ r \in S => Cardinality(S \ {r}) = Cardinality(S) - 1
<1>1. Cardinality(S) \in Nat BY FS_CardinalityType
<1>2. Cardinality(S \cup {r}) = IF r \in S THEN Cardinality(S) ELSE Cardinality(S) + 1 BY FS_AddElement
<1>3. Cardinality(S \ {r}) = IF r \in S THEN Cardinality(S) - 1 ELSE Cardinality(S) BY FS_RemoveElement
<1> QED BY <1>1, <1>2, <1>3

\* A reservation is made only where there is room, and a version takes the
\* place of the reservation of whoever publishes it.
LEMMA CapacityStep ==
  ASSUME TypeOK, PlaceInv, HoldInv, CapacityHolds, [Next]_vars
  PROVE  CapacityHolds'
<1>0. Cardinality(versions) + Cardinality(Held) <= MaxVersions BY DEF CapacityHolds
<1>1. ASSUME versions' = versions, Held' = Held PROVE CapacityHolds'
  BY <1>0, <1>1 DEF CapacityHolds
<1>2. ASSUME NEW r \in Requests, NEW y, RowTo(r, y)
      PROVE  /\ y.reserved = op[r].reserved => Held' = Held
             /\ y.reserved => Held' = Held \cup {r}
             /\ ~y.reserved => Held' = Held \ {r}
  <2>1. op'[r] = y /\ \A p \in Requests \ {r} : op'[p] = op[p] BY <1>2, RowParts
  <2>2. Held' = {q \in Requests : op'[q].reserved} BY DEF Held
  <2>3. op[r].reserved <=> r \in Held BY DEF Held
  <2>4. y.reserved => Held' = Held \cup {r} BY <2>1, <2>2 DEF Held
  <2>5. ~y.reserved => Held' = Held \ {r} BY <2>1, <2>2 DEF Held
  <2>6. ASSUME y.reserved = op[r].reserved PROVE Held' = Held
    <3>1. CASE y.reserved BY <2>3, <2>4, <2>6, <3>1
    <3>2. CASE ~y.reserved BY <2>3, <2>5, <2>6, <3>2
    <3> QED BY <3>1, <3>2
  <2> QED BY <2>4, <2>5, <2>6
<1>3. ASSUME NEW r \in Requests, NEW y, RowTo(r, y), ~y.reserved, versions' = versions PROVE CapacityHolds'
  <2>1. Held' = Held \ {r} BY <1>2, <1>3
  <2>2. CASE r \in Held
    <3>1. Cardinality(Held \ {r}) = Cardinality(Held) - 1 BY <2>2, Counts, OneMore
    <3> QED BY <1>0, <1>3, <2>1, <3>1, Counts DEF CapacityHolds
  <2>3. CASE r \notin Held
    <3>1. Held' = Held BY <2>1, <2>3
    <3> QED BY <1>1, <1>3, <3>1
  <2> QED BY <2>2, <2>3
<1>4. ASSUME NEW h \in Hosts, Steps(h) \/ Stop(h) PROVE CapacityHolds'
  <2> DEFINE r == host[h].req
             x == host'[h]
  <2>1. r \in Requests /\ Works(h, x) BY <1>4, WorkSteps
  <2>2. CASE Rests(r) \/ Buys(h, r) BY <1>1, <2>2 DEF Rests, Buys, Held
  <2>3. ASSUME NEW y, Sends(h, r, y) \/ Saves(r, y) \/ Gives(r, y) PROVE CapacityHolds'
    <3>1. RowTo(r, y) /\ versions' = versions BY <2>3 DEF Sends, Saves, Gives
    <3>2. y.reserved = op[r].reserved BY <2>1, <2>3, RowTypes DEF Sends, Saves, Gives, OpRows
    <3> QED BY <1>1, <1>2, <2>1, <3>1, <3>2
  <2>4. ASSUME NEW y, Ends(r, y), host[h].pc \in Working, SameAttempt(h) PROVE CapacityHolds'
    <3>1. RowTo(r, y) /\ ~y.reserved BY <2>4 DEF Ends
    <3>2. CASE versions' = versions BY <1>3, <2>1, <3>1, <3>2
    <3>3. CASE versions' = versions \cup {r}
      <4>1. r \in Held BY <2>1, <2>4 DEF HoldInv, HolderAt, Ends, Mine, Held
      <4>2. Held' = Held \ {r} BY <1>2, <2>1, <3>1
      <4>3. Cardinality(Held \ {r}) = Cardinality(Held) - 1 BY <4>1, Counts, OneMore
      <4>4. /\ Cardinality(versions \cup {r}) \in Nat
            /\ Cardinality(versions \cup {r}) <= Cardinality(versions) + 1
        BY Counts, OneMore
      <4> QED BY <1>0, <3>3, <4>2, <4>3, <4>4, Counts DEF CapacityHolds
    <3> QED BY <2>4, <3>2, <3>3 DEF Ends
  <2> QED BY <2>1, <2>2, <2>3, <2>4 DEF Works
<1>5. ASSUME NEW h \in Hosts, NEW r \in Requests, Begin(h, r) PROVE CapacityHolds'
  <2>1. Takes(h, r) BY <1>5, BeginTakes
  <2>2. versions' = versions BY <2>1 DEF Takes
  <2>3. CASE UNCHANGED op BY <1>1, <2>2, <2>3 DEF Held
  <2>4. ASSUME NEW y, RowTo(r, y), y.reserved, Room(r) PROVE CapacityHolds'
    <3>1. Held' = Held \cup {r} BY <1>2, <2>4
    <3>2. CASE r \in Held
      <4>1. Held' = Held BY <3>1, <3>2
      <4> QED BY <1>1, <2>2, <4>1
    <3>3. CASE r \notin Held
      <4>1. Cardinality(versions) + Cardinality(Held) < MaxVersions BY <2>4, <3>3 DEF Room, Held
      <4>2. Cardinality(Held \cup {r}) \in Nat /\ Cardinality(Held \cup {r}) <= Cardinality(Held) + 1
        BY Counts, OneMore
      <4> QED BY <2>2, <3>1, <4>1, <4>2, Counts DEF CapacityHolds
    <3> QED BY <3>2, <3>3
  <2> QED BY <2>1, <2>3, <2>4 DEF Takes
<1>6. ASSUME NEW h \in Hosts, NEW r \in Requests, BeginReady(h, r) PROVE CapacityHolds'
  BY <1>1, <1>6, BeginJoins DEF Joins, Held
<1>7. ASSUME UNCHANGED <<op, versions>> PROVE CapacityHolds' BY <1>1, <1>7 DEF Held
<1>8. CASE ReconcileCommit
  <2> DEFINE r == recon.req
  <2>1. r \in Requests /\ (Reconciles(r) \/ UNCHANGED <<op, versions>>) BY <1>8, CommitReconciles
  <2>2. CASE Reconciles(r)
    <3>1. PICK y : RowTo(r, y) /\ (y.reserved \/ ~y.reserved) BY <2>2 DEF Reconciles
    <3>2. versions' = versions /\ r \in Held
      BY <2>1, <2>2 DEF Reconciles, Unfinished, HoldInv, HeldAt, Held
    <3>3. CASE y.reserved
      <4>1. Held' = Held BY <1>2, <2>1, <3>1, <3>2, <3>3
      <4> QED BY <1>1, <3>2, <4>1
    <3>4. CASE ~y.reserved BY <1>3, <2>1, <3>1, <3>2, <3>4
    <3> QED BY <3>3, <3>4
  <2> QED BY <1>7, <2>1, <2>2
<1> QED BY <1>4, <1>5, <1>6, <1>7, <1>8 DEF Next, Replay, ReconcileRead, vars, rows

-----------------------------------------------------------------------------
(* Theorems. *)

\* OutcomeInv is inductive: it holds of every reachable state.
THEOREM OutcomeInvariant == Spec => []OutcomeInv
<1>1. Init => OutcomeInv
  <2> SUFFICES ASSUME Init PROVE OutcomeInv OBVIOUS
  <2>1. /\ op = [r \in Requests |-> NoOp] /\ versions = {} /\ host = [h \in Hosts |-> Idle] /\ recon = NoRecon
        /\ wires = [r \in Requests |-> <<>>] /\ disowned = [r \in Requests |-> {}]
        /\ answers = [r \in Requests |-> {}] /\ faults = 0
    BY DEF Init
  <2>2. TypeOK BY <2>1, OutcomeAssumption DEF OutcomeAssumption, TypeOK, NoOp, Idle, NoRecon, States
  <2>3. PlaceInv BY <2>1 DEF PlaceInv, Idle
  <2>4. SentInv
    <3>1. ASSUME NEW r \in Requests
          PROVE  /\ DOMAIN wires[r] = {} /\ disowned[r] = {} /\ op[r].state = "none"
                 /\ \A h \in Hosts : ~Sending(h, r)
      BY <2>1 DEF Sending, Idle, NoOp
    <3>2. \A r \in Requests, a \in Nat : ~Out(r, a) BY <3>1 DEF Out, Bought
    <3> QED BY <3>1, <3>2 DEF SentInv, SentAt, SentOnce, OpenOnce, Open, Fenced, Unfinished
  <2>6. ReceiptInv BY <2>1 DEF ReceiptInv, NoOp
  <2>7. HoldInv BY <2>1 DEF HoldInv, HeldAt, HolderAt, Idle, Working, NoOp
  <2>8. CapacityHolds
    <3>1. Held = {} BY <2>1 DEF Held, NoOp
    <3>2. Cardinality({}) = 0 BY FS_EmptySet
    <3> QED BY <2>1, <3>1, <3>2, OutcomeAssumption DEF CapacityHolds, OutcomeAssumption
  <2> QED BY <2>2, <2>3, <2>4, <2>6, <2>7, <2>8 DEF OutcomeInv
<1>2. OutcomeInv /\ [Next]_vars => OutcomeInv'
  <2> SUFFICES ASSUME OutcomeInv, [Next]_vars PROVE OutcomeInv' OBVIOUS
  <2>1. TypeOK /\ PlaceInv /\ SentInv /\ ReceiptInv /\ HoldInv /\ CapacityHolds BY DEF OutcomeInv
  <2>2. TypeOK' /\ PlaceInv' BY <2>1, TypeStep
  <2>3. SentInv' BY <2>1, SentStep
  <2>5. ReceiptInv' BY <2>1, ReceiptStep
  <2>6. HoldInv' BY <2>1, <2>2, HoldStep
  <2>7. CapacityHolds' BY <2>1, CapacityStep
  <2> QED BY <2>2, <2>3, <2>5, <2>6, <2>7 DEF OutcomeInv
<1> QED BY <1>1, <1>2, PTL DEF Spec

\* The rows, hosts, evidence and answers of every reachable state are typed.
THEOREM TypeCorrect == Spec => []TypeOK
<1>1. OutcomeInv => TypeOK BY DEF OutcomeInv
<1> QED BY <1>1, OutcomeInvariant, PTL

\* Two purchases that stand are by one attempt, which is sent once.
LEMMA StandingIsOne ==
  ASSUME TypeOK, SentInv, NEW r \in Requests
  PROVE  Standing(r) = {} \/ \E i : Standing(r) = {i}
<1>1. SentOnce(r) /\ OpenOnce(r) BY DEF SentInv, SentAt
<1>2. \A i \in DOMAIN wires[r] : wires[r][i] \in Nat BY RowTypes
<1>3. ASSUME NEW i \in Standing(r), NEW j \in Standing(r) PROVE i = j
  <2>1. Open(r, wires[r][i]) /\ Open(r, wires[r][j]) BY DEF Standing, Open, Out, Bought
  <2>2. wires[r][i] = wires[r][j] BY <1>1, <1>2, <2>1 DEF OpenOnce, Standing
  <2> QED BY <1>1, <2>2 DEF SentOnce, Standing
<1> QED BY <1>3

\* However often a request is tried, recovered and reconciled, its purchases by
\* attempts that no reconciliation disowned are at most one.
THEOREM OnePurchaseIsLeft == Spec => []OnePurchaseStands
<1>1. OutcomeInv => OnePurchaseStands
  <2> SUFFICES ASSUME OutcomeInv, NEW r \in Requests PROVE Cardinality(Standing(r)) <= 1
    BY DEF OnePurchaseStands
  <2>1. Standing(r) = {} \/ \E i : Standing(r) = {i} BY StandingIsOne DEF OutcomeInv
  <2>2. Cardinality(Standing(r)) \in {0, 1} BY <2>1, FS_EmptySet, FS_Singleton
  <2> QED BY <2>2
<1> QED BY <1>1, OutcomeInvariant, PTL

\* Every answer to a request's callers is its one receipt, and nothing is
\* retained for a refused request.
THEOREM AnswersAreTheReceipt == Spec => []AnswersAgree
<1>1. OutcomeInv => AnswersAgree BY DEF OutcomeInv, ReceiptInv, AnswersAgree
<1> QED BY <1>1, OutcomeInvariant, PTL

\* Retained versions and reservations stay within policy.maxVersions.
THEOREM CapacityIsBounded == Spec => []CapacityHolds
<1>1. OutcomeInv => CapacityHolds BY DEF OutcomeInv
<1> QED BY <1>1, OutcomeInvariant, PTL

-----------------------------------------------------------------------------
(* Who may send, and for which attempt. *)

\* What an attempt is tried for is at hand, or its request is over.
Provided(r) == op[r].output \/ op[r].state = "completed"

\* A host about to send, unless its attempt is disowned, is at the current
\* attempt, whose receipt is missing.
SenderAt(h) ==
  host[h].pc = "dispatched" /\ host[h].attempt \notin disowned[host[h].req] =>
    SameAttempt(h) /\ Mine(h).state \in {"dispatched", "uncertain"} /\ ~Mine(h).output

\* Two hosts work at a current attempt only to finish it.
AloneAt(h, k) ==
  /\ h # k /\ host[h].pc \in Working /\ host[k].pc \in Working
  /\ host[h].req = host[k].req /\ SameAttempt(h) /\ SameAttempt(k)
  => Provided(host[h].req)

SenderInv ==
  /\ \A h \in Hosts : SenderAt(h) /\ \A k \in Hosts : AloneAt(h, k)
  /\ \A r \in Requests : op[r].state = "ready" => op[r].output
  /\ recon.kind = "retained" => Bought(recon.req, recon.attempt)

\* What a host's step does to the row of its request, as far as SenderInv goes.
LEMMA WorkProvides ==
  ASSUME TypeOK, SenderInv, NEW h \in Hosts, NEW r \in Requests, r = host[h].req, NEW x, Works(h, x)
  PROVE  /\ \A q \in Requests : /\ op'[q].attempt = op[q].attempt /\ (Provided(q) => Provided(q)')
                                /\ op'[q].state = "ready" => op'[q].output
                                /\ q # r => op'[q] = op[q]
         /\ \A q \in Requests : \A a : Bought(q, a) => Bought(q, a)'
<1> DEFINE Kept == \A q \in Requests : /\ op'[q].attempt = op[q].attempt /\ (Provided(q) => Provided(q)')
                                       /\ op'[q].state = "ready" => op'[q].output
                                       /\ q # r => op'[q] = op[q]
<1>0. op[r] \in OpRows /\ \A q \in Requests : op[q].state = "ready" => op[q].output
  BY RowTypes DEF SenderInv
<1>1. ASSUME op' = op PROVE Kept BY <1>0, <1>1 DEF Provided
<1>2. ASSUME NEW y, RowTo(r, y), y.attempt = op[r].attempt, y.state = "ready" => y.output,
             Provided(r) => y.output \/ y.state = "completed"
      PROVE  Kept
  <2>1. op'[r] = y /\ \A q \in Requests \ {r} : op'[q] = op[q] BY <1>2, RowParts
  <2> QED BY <1>0, <1>2, <2>1 DEF Provided
<1>3. ASSUME Rests(r) \/ Buys(h, r) PROVE Kept BY <1>1, <1>3 DEF Rests, Buys
<1>4. ASSUME NEW y, Sends(h, r, y) \/ Saves(r, y) \/ Gives(r, y) PROVE Kept
  <2>1. CASE Sends(h, r, y)
    <3>1. y.attempt = op[r].attempt /\ y.state = "dispatched" BY <1>0, <2>1 DEF Sends, OpRows
    <3>2. ~Provided(r) /\ RowTo(r, y) BY <2>1 DEF Sends, Provided
    <3> QED BY <1>2, <3>1, <3>2
  <2>2. CASE Saves(r, y)
    <3>1. y.attempt = op[r].attempt /\ y.output BY <1>0, <2>2 DEF Saves, OpRows
    <3> QED BY <1>2, <2>2, <3>1 DEF Saves
  <2>3. CASE Gives(r, y)
    <3>1. y.attempt = op[r].attempt /\ y.state \in {"uncertain", "retryable"} /\ y.output = op[r].output
      BY <1>0, <2>3 DEF Gives, OpRows
    <3>2. op[r].state # "completed" /\ RowTo(r, y) BY <2>3 DEF Gives
    <3> QED BY <1>2, <3>1, <3>2 DEF Provided
  <2> QED BY <1>4, <2>1, <2>2, <2>3
<1>5. ASSUME NEW y, Ends(r, y) PROVE Kept BY <1>2, <1>5 DEF Ends
<1>6. Kept
  <2> HIDE DEF Kept
  <2> QED BY <1>3, <1>4, <1>5 DEF Works
<1>7. \A q \in Requests : \A a : Bought(q, a) => Bought(q, a)'
  <2>1. wires' = wires \/ wires' = [wires EXCEPT ![r] = Append(@, host[h].attempt)] BY WorkEffects
  <2>2. wires \in [Requests -> Seq(Nat)] BY DEF TypeOK
  <2>3. \A i \in DOMAIN wires[r] : i \in DOMAIN Append(wires[r], host[h].attempt)
                                   /\ Append(wires[r], host[h].attempt)[i] = wires[r][i]
    <3>1. host[h].attempt \in Nat /\ wires[r] \in Seq(Nat) BY RowTypes DEF HostRows
    <3> QED BY <3>1
  <2>4. ASSUME NEW q \in Requests, NEW i \in DOMAIN wires[q] PROVE i \in DOMAIN wires'[q] /\ wires'[q][i] = wires[q][i]
    <3>1. CASE wires' = wires BY <3>1
    <3>2. CASE wires' = [wires EXCEPT ![r] = Append(@, host[h].attempt)]
      <4> DEFINE t == Append(wires[r], host[h].attempt)
      <4>1. wires' = [wires EXCEPT ![r] = t] BY <3>2
      <4> HIDE DEF t
      <4>2. wires'[q] = IF q = r THEN t ELSE wires[q] BY <2>2, <4>1
      <4> QED BY <2>3, <4>2 DEF t
    <3> QED BY <2>1, <3>1, <3>2
  <2> QED BY <2>4 DEF Bought
<1> QED BY <1>6, <1>7

\* A host's step keeps whoever is about to send at its attempt.
LEMMA SenderKeeps ==
  ASSUME TypeOK, PlaceInv, SenderInv, NEW h \in Hosts, Steps(h) \/ Stop(h), NEW k \in Hosts
  PROVE  SenderAt(k)'
<1> DEFINE r == host[h].req
           x == host'[h]
<1>1. r \in Requests /\ disowned' = disowned /\ Moves(h, x) /\ Works(h, x) BY WorkSteps
<1>2. /\ \A i \in Hosts \ {h} : host'[i] = host[i]
      /\ x = Idle \/ (x.req = r /\ x.attempt = host[h].attempt)
  BY <1>1, HostParts
<1>3. /\ \A q \in Requests : op'[q].attempt = op[q].attempt
      /\ \A q \in Requests \ {r} : op'[q] = op[q]
  BY <1>1, WorkProvides
<1>4. SUFFICES ASSUME host'[k].pc = "dispatched", host'[k].attempt \notin disowned[host'[k].req]
               PROVE  SenderAt(k)'
  BY <1>1 DEF SenderAt
<1>5. CASE k = h
  <2>1. PICK y : Sends(h, r, y) /\ SameAttempt(h) BY <1>1, <1>4, <1>5 DEF Works
  <2>2. op'[r] = y BY <1>1, <2>1, RowParts DEF Sends
  <2>3. y.state = "dispatched" /\ ~y.output /\ y.attempt = op[r].attempt
    BY <1>1, <2>1, RowTypes DEF Sends, OpRows
  <2>4. x.req = r /\ x.attempt = host[h].attempt BY <1>2, <1>4, <1>5 DEF Idle
  <2> QED BY <1>5, <2>1, <2>2, <2>3, <2>4 DEF SenderAt, SameAttempt, Mine
<1>6. CASE k # h
  <2>1. host'[k] = host[k] /\ host[k].pc = "dispatched" BY <1>2, <1>4, <1>6
  <2>2. SameAttempt(k) /\ Mine(k).state \in {"dispatched", "uncertain"} /\ ~Mine(k).output
    BY <1>4, <2>1 DEF SenderInv, SenderAt
  <2>3. host[k].req \in Requests BY <2>1 DEF PlaceInv
  <2>4. CASE host[k].req # r
    <3>1. op'[host[k].req] = op[host[k].req] BY <1>3, <2>3, <2>4
    <3> QED BY <2>1, <2>2, <3>1 DEF SenderAt, SameAttempt, Mine
  <2>5. CASE host[k].req = r
    <3>1. op[r].state \in {"dispatched", "uncertain"} /\ ~op[r].output /\ ~Provided(r)
      BY <2>2, <2>5 DEF Mine, Provided
    <3>2. ~(host[h].pc \in Working /\ SameAttempt(h))
      <4>1. AloneAt(h, k) BY DEF SenderInv
      <4> QED BY <1>6, <2>1, <2>2, <2>5, <3>1, <4>1 DEF AloneAt, Working
    <3>3. CASE op' = op BY <2>1, <2>2, <3>3 DEF SenderAt, SameAttempt, Mine
    <3>4. ASSUME NEW y, Gives(r, y) PROVE SenderAt(k)'
      <4>1. op'[r] = y BY <1>1, <3>4, RowParts DEF Gives
      <4>2. y.state = "uncertain" /\ y.output = op[r].output /\ y.attempt = op[r].attempt
        BY <1>1, <3>1, <3>4, RowTypes DEF Gives, OpRows
      <4> QED BY <2>1, <2>2, <2>5, <3>1, <4>1, <4>2 DEF SenderAt, SameAttempt, Mine
    <3>5. \/ Rests(r) \/ Buys(h, r) \/ \E y : Gives(r, y)
      BY <1>1, <3>1, <3>2 DEF Works, Sends
    <3> QED BY <3>3, <3>4, <3>5 DEF Rests, Buys
  <2> QED BY <2>4, <2>5
<1> QED BY <1>5, <1>6

\* Every step keeps SenderInv.
LEMMA SenderStep ==
  ASSUME TypeOK, PlaceInv, SentInv, HoldInv, SenderInv, [Next]_vars
  PROVE  SenderInv'
<1>0. /\ \A h \in Hosts : SenderAt(h) /\ \A k \in Hosts : AloneAt(h, k)
      /\ \A r \in Requests : op[r].state = "ready" => op[r].output
      /\ recon.kind = "retained" => Bought(recon.req, recon.attempt)
      /\ \A h \in Hosts : host[h].pc # "idle" => host[h].req \in Requests
  BY DEF SenderInv, PlaceInv
<1>1. ASSUME UNCHANGED <<op, host, wires, disowned>>, recon'.kind = "retained" => Bought(recon'.req, recon'.attempt)
      PROVE  SenderInv'
  BY <1>0, <1>1 DEF SenderInv, SenderAt, AloneAt, SameAttempt, Mine, Provided, Bought
<1>2. ASSUME NEW h \in Hosts, Steps(h) \/ Stop(h) PROVE SenderInv'
  <2> DEFINE r == host[h].req
             x == host'[h]
  <2>1. r \in Requests /\ recon' = recon /\ Moves(h, x) /\ Works(h, x) BY <1>2, WorkSteps
  <2>2. ASSUME NEW i \in Hosts, host'[i].pc \in Working
        PROVE  host[i].pc \in Working /\ host'[i].req = host[i].req /\ host'[i].attempt = host[i].attempt
    <3>1. CASE i = h
      <4>1. host'[h] # Idle BY <2>2, <3>1 DEF Idle, Working
      <4> QED BY <2>1, <3>1, <4>1, HostParts
    <3>2. CASE i # h
      <4>1. host'[i] = host[i] BY <2>1, <3>2, HostParts
      <4> QED BY <2>2, <4>1
    <3> QED BY <3>1, <3>2
  <2>3. /\ \A q \in Requests : /\ op'[q].attempt = op[q].attempt /\ (Provided(q) => Provided(q)')
                               /\ op'[q].state = "ready" => op'[q].output
        /\ \A q \in Requests : \A a : Bought(q, a) => Bought(q, a)'
    BY <2>1, WorkProvides
  <2>4. ASSUME NEW i \in Hosts, NEW k \in Hosts PROVE AloneAt(i, k)'
    <3> SUFFICES ASSUME i # k, host'[i].pc \in Working, host'[k].pc \in Working,
                        host'[i].req = host'[k].req, SameAttempt(i)', SameAttempt(k)'
                 PROVE  Provided(host[i].req)'
      BY DEF AloneAt
    <3>1. /\ host[i].pc \in Working /\ host'[i].req = host[i].req /\ host'[i].attempt = host[i].attempt
          /\ host[k].pc \in Working /\ host'[k].req = host[k].req /\ host'[k].attempt = host[k].attempt
      BY <2>2
    <3>2. host[i].req \in Requests BY <1>0, <3>1 DEF Working
    <3>a. op'[host[i].req].attempt = op[host[i].req].attempt BY <2>3, <3>2
    <3>b. op'[host'[i].req].attempt = host'[i].attempt /\ op'[host'[k].req].attempt = host'[k].attempt
      BY DEF SameAttempt, Mine
    <3>3. SameAttempt(i) /\ SameAttempt(k) BY <3>1, <3>a, <3>b DEF SameAttempt, Mine
    <3>4. Provided(host[i].req) BY <1>0, <3>1, <3>3 DEF AloneAt
    <3> QED BY <2>3, <3>1, <3>2, <3>4 DEF Provided
  <2>5. \A i \in Hosts : SenderAt(i)' BY <1>2, SenderKeeps
  <2>6. recon'.kind = "retained" => Bought(recon.req, recon.attempt)'
    <3>1. recon.kind = "retained" => recon.req \in Requests BY DEF PlaceInv, NoRecon
    <3> QED BY <1>0, <2>1, <2>3, <3>1 DEF Bought
  <2> QED BY <1>0, <2>1, <2>3, <2>4, <2>5, <2>6 DEF SenderInv
<1>3. ASSUME NEW h \in Hosts, NEW r \in Requests, Begin(h, r) PROVE SenderInv'
  <2>1. Takes(h, r) BY <1>3, BeginTakes
  <2>2. PICK x \in HostRows :
          /\ host' = [host EXCEPT ![h] = x] /\ x.req = r
          /\ \/ x.pc = "recovering" /\ UNCHANGED op
             \/ /\ x.pc \in {"begun", "recovering"}
                /\ \E y : /\ RowTo(r, y) /\ y.attempt = op[r].attempt + 1
                          /\ (y.output <=> y.state = "ready")
    BY <2>1 DEF Takes
  <2>3. host'[h] = x /\ x.pc # "dispatched" /\ \A i \in Hosts \ {h} : host'[i] = host[i]
    BY <2>2, RowTypes
  <2>4. UNCHANGED <<recon, wires, disowned>> /\ op[r].state \notin {"dispatched", "uncertain"}
    BY <2>1 DEF Takes, Retryable
  <2>7. recon'.kind = "retained" => Bought(recon.req, recon.attempt)' BY <1>0, <2>4 DEF Bought
  <2>5. CASE x.pc = "recovering" /\ UNCHANGED op
    <3>1. \A i \in Hosts : host'[i].pc \in Working => i # h BY <2>3, <2>5 DEF Working
    <3>2. \A i \in Hosts : SenderAt(i)'
      BY <1>0, <2>3, <2>4, <2>5 DEF SenderAt, SameAttempt, Mine
    <3>3. \A i, k \in Hosts : AloneAt(i, k)'
      BY <1>0, <2>3, <2>5, <3>1 DEF AloneAt, SameAttempt, Mine, Provided
    <3> QED BY <1>0, <2>4, <2>5, <2>7, <3>2, <3>3 DEF SenderInv
  <2>6. ASSUME NEW y, RowTo(r, y), y.attempt = op[r].attempt + 1, y.output <=> y.state = "ready"
        PROVE  SenderInv'
    <3>1. op'[r] = y /\ \A q \in Requests \ {r} : op'[q] = op[q] BY <2>6, RowParts
    <3>2. ASSUME NEW i \in Hosts, i # h, host[i].pc \in Working, host[i].req = r
          PROVE  ~SameAttempt(i)'
      <4>1. host[i].attempt <= op[r].attempt BY <3>2 DEF HoldInv, HolderAt, Mine
      <4>2. host[i].attempt \in Nat /\ op[r].attempt \in Nat BY RowTypes DEF HostRows, OpRows
      <4>3. host'[i] = host[i] BY <2>3, <3>2
      <4> QED BY <2>6, <3>1, <3>2, <4>1, <4>2, <4>3 DEF SameAttempt, Mine
    <3>3. ASSUME NEW i \in Hosts PROVE SenderAt(i)'
      <4> SUFFICES ASSUME host'[i].pc = "dispatched", host'[i].attempt \notin disowned[host'[i].req]
                   PROVE  SenderAt(i)'
        BY <2>4 DEF SenderAt
      <4>1. i # h /\ host'[i] = host[i] BY <2>3
      <4>2. host[i].req \in Requests /\ host[i].req # r BY <1>0, <2>4, <4>1 DEF SenderAt, Mine
      <4> QED BY <1>0, <3>1, <4>1, <4>2 DEF SenderAt, SameAttempt, Mine
    <3>4. ASSUME NEW i \in Hosts, NEW k \in Hosts PROVE AloneAt(i, k)'
      <4> SUFFICES ASSUME i # k, host'[i].pc \in Working, host'[k].pc \in Working,
                          host'[i].req = host'[k].req, SameAttempt(i)', SameAttempt(k)'
                   PROVE  Provided(host[i].req)'
        BY DEF AloneAt
      <4>1. i # h => host[i].req # r BY <2>3, <3>2
      <4>2. k # h => host[k].req # r BY <2>3, <3>2
      <4>3. i # h /\ k # h BY <2>2, <2>3, <4>1, <4>2
      <4>4. host'[i] = host[i] /\ host'[k] = host[k] /\ host[i].req # r /\ host[i].req \in Requests
        BY <1>0, <2>3, <4>1, <4>3 DEF Working
      <4>5. op'[host[i].req] = op[host[i].req] BY <3>1, <4>4
      <4> QED BY <1>0, <4>4, <4>5 DEF AloneAt, SameAttempt, Mine, Provided
    <3>5. \A q \in Requests : op'[q].state = "ready" => op'[q].output BY <1>0, <2>6, <3>1
    <3> QED BY <2>4, <2>7, <3>3, <3>4, <3>5 DEF SenderInv
  <2> QED BY <2>2, <2>5, <2>6
<1>4. ASSUME NEW h \in Hosts, NEW r \in Requests, BeginReady(h, r) PROVE SenderInv'
  <2>1. Joins(h, r) BY <1>4, BeginJoins
  <2>2. PICK x \in HostRows : host' = [host EXCEPT ![h] = x] /\ x.pc = "begun" /\ x.req = r
    BY <2>1 DEF Joins
  <2>3. host'[h] = x /\ \A i \in Hosts \ {h} : host'[i] = host[i] BY <2>2, RowTypes
  <2>4. UNCHANGED <<op, recon, wires, disowned>> /\ Provided(r) BY <1>0, <2>1 DEF Joins, Provided
  <2>7. recon'.kind = "retained" => Bought(recon.req, recon.attempt)' BY <1>0, <2>4 DEF Bought
  <2>5. \A i \in Hosts : SenderAt(i)' BY <1>0, <2>2, <2>3, <2>4 DEF SenderAt, SameAttempt, Mine
  <2>6. ASSUME NEW i \in Hosts, NEW k \in Hosts PROVE AloneAt(i, k)'
    <3>1. CASE i = h \/ k = h BY <2>2, <2>3, <2>4, <3>1 DEF AloneAt, Provided
    <3>2. CASE i # h /\ k # h
      BY <1>0, <2>3, <2>4, <3>2 DEF AloneAt, SameAttempt, Mine, Provided
    <3> QED BY <3>1, <3>2
  <2> QED BY <1>0, <2>4, <2>5, <2>6, <2>7 DEF SenderInv
<1>5. ASSUME NEW r \in Requests, ReconcileRead(r) PROVE SenderInv'
  <2>1. /\ UNCHANGED <<op, host, wires, disowned>> /\ recon'.req = r /\ recon'.attempt = op[r].attempt
        /\ recon'.kind = "retained" => Bought(r, op[r].attempt)
    BY <1>5 DEF ReconcileRead, Evidence, rows
  <2> QED BY <1>1, <2>1
<1>6. CASE ReconcileCommit
  <2> DEFINE r == recon.req
  <2>1. /\ r \in Requests /\ recon'.kind # "retained"
        /\ Reconciles(r) \/ UNCHANGED <<op, host, wires, disowned>>
    BY <1>6, CommitReconciles DEF NoRecon, ReconcileCommit
  <2>2. CASE Reconciles(r)
    <3>1. UNCHANGED <<host, wires>> /\ op[r].attempt = recon.attempt /\ op[r].attempt \in Nat
      BY <2>1, <2>2, RowTypes DEF Reconciles, OpRows
    <3>2. PICK y : /\ RowTo(r, y)
                   /\ \/ recon.kind = "retained" /\ y.state = "ready" /\ y.output /\ y.attempt = op[r].attempt
                         /\ disowned' = disowned
                      \/ recon.kind = "no-dispatch" /\ y.state = "retryable" /\ y.attempt = op[r].attempt + 1
                         /\ disowned' = [disowned EXCEPT ![r] = @ \cup {recon.attempt}]
      BY <2>2 DEF Reconciles
    <3>3. op'[r] = y /\ \A q \in Requests \ {r} : op'[q] = op[q] BY <2>1, <3>2, RowParts
    <3>4. \A q \in Requests : op'[q].state = "ready" => op'[q].output BY <1>0, <3>2, <3>3
    <3>d. /\ \A q \in Requests : disowned[q] \subseteq disowned'[q]
          /\ recon.kind = "no-dispatch" => op[r].attempt \in disowned'[r]
      <4>1. disowned \in [Requests -> SUBSET Nat] BY DEF TypeOK
      <4>2. CASE recon.kind = "retained" BY <3>2, <4>2
      <4>3. CASE disowned' = [disowned EXCEPT ![r] = @ \cup {recon.attempt}] BY <2>1, <3>1, <4>1, <4>3
      <4> QED BY <3>2, <4>2, <4>3
    \* An attempt that is about to be sent has no output that a proof could retain.
    <3>5. ASSUME NEW i \in Hosts PROVE SenderAt(i)'
      <4> SUFFICES ASSUME host[i].pc = "dispatched", host[i].attempt \notin disowned'[host[i].req]
                   PROVE  SenderAt(i)'
        BY <3>1 DEF SenderAt
      <4>1. host[i].req \in Requests BY <1>0
      <4>2. SameAttempt(i) /\ Mine(i).state \in {"dispatched", "uncertain"} /\ ~Mine(i).output
        BY <1>0, <3>d, <4>1 DEF SenderAt
      <4>3. host[i].req # r
        <5>1. CASE host[i].req = r
          <6>1. host[i].attempt = op[r].attempt BY <4>2, <5>1 DEF SameAttempt, Mine
          <6>2. recon.kind = "retained" BY <3>2, <3>d, <5>1, <6>1
          <6>3. Bought(r, host[i].attempt) BY <1>0, <3>1, <6>1, <6>2
          <6> QED BY <2>1, <5>1, <6>3 DEF SentInv, SentAt, SentOnce, Sending
        <5> QED BY <5>1
      <4> QED BY <3>1, <3>3, <4>1, <4>2, <4>3 DEF SenderAt, SameAttempt, Mine
    <3>6. ASSUME NEW i \in Hosts, NEW k \in Hosts PROVE AloneAt(i, k)'
      <4>1. CASE host[i].req # r
        BY <1>0, <3>1, <3>3, <4>1 DEF AloneAt, SameAttempt, Mine, Provided, Working
      <4>2. CASE host[i].req = r /\ recon.kind = "retained" BY <3>1, <3>2, <3>3, <4>2 DEF AloneAt, Provided
      <4>3. CASE host[i].req = r /\ recon.kind = "no-dispatch"
        <5>1. host[i].pc \in Working => host[i].attempt <= op[r].attempt BY <4>3 DEF HoldInv, HolderAt, Mine
        <5>2. host[i].attempt \in Nat BY RowTypes DEF HostRows
        <5>3. op'[r].attempt = op[r].attempt + 1 BY <3>2, <3>3, <4>3
        <5> QED BY <3>1, <4>3, <5>1, <5>2, <5>3 DEF AloneAt, SameAttempt, Mine
      <4> QED BY <3>2, <4>1, <4>2, <4>3
    <3> QED BY <2>1, <3>4, <3>5, <3>6 DEF SenderInv
  <2> QED BY <1>1, <2>1, <2>2
<1>7. ASSUME UNCHANGED <<op, host, wires, disowned, recon>> PROVE SenderInv' BY <1>0, <1>1, <1>7
<1> QED BY <1>2, <1>3, <1>4, <1>5, <1>6, <1>7 DEF Next, Replay, vars, rows

\* A host about to send is the only one at the current attempt, of a request
\* that has no receipt, unless a proof has disowned its attempt: a purchase that
\* stands is never late.
THEOREM SendersAreCurrent == Spec => []SenderInv
<1>1. Init => SenderInv
  BY DEF Init, SenderInv, SenderAt, AloneAt, Idle, Working, NoOp, NoRecon
<1>2. OutcomeInv /\ SenderInv /\ [Next]_vars => SenderInv' BY SenderStep DEF OutcomeInv
<1> QED BY <1>1, <1>2, OutcomeInvariant, PTL DEF Spec

-----------------------------------------------------------------------------
(* The refinement. *)

Receipts == [r \in Requests |-> op[r].result]
Standings == [r \in Requests |-> Cardinality(Standing(r))]

\* A row that is written shows in its request's receipt only.
LEMMA ReceiptParts ==
  ASSUME TypeOK, NEW r \in Requests, NEW y, RowTo(r, y)
  PROVE  Receipts' = [Receipts EXCEPT ![r] = y.result]
<1>1. op'[r] = y /\ \A q \in Requests \ {r} : op'[q] = op[q] BY RowParts
<1>2. Receipts' = [q \in Requests |-> op'[q].result] BY DEF Receipts
<1>3. [Receipts EXCEPT ![r] = y.result] = [q \in Requests |-> IF q = r THEN y.result ELSE op[q].result]
  BY DEF Receipts
<1>4. \A q \in Requests : op'[q].result = IF q = r THEN y.result ELSE op[q].result BY <1>1
<1> QED BY <1>2, <1>3, <1>4

\* A row that keeps its receipt.
LEMMA ReceiptKept ==
  ASSUME TypeOK, NEW r \in Requests, NEW y, RowTo(r, y), y.result = op[r].result
  PROVE  Receipts' = Receipts
<1>1. Receipts' = [Receipts EXCEPT ![r] = op[r].result] BY ReceiptParts
<1> QED BY <1>1 DEF Receipts

\* Purchases that nobody makes or disowns.
LEMMA StandingsKept ==
  ASSUME UNCHANGED <<wires, disowned>>
  PROVE  Standings' = Standings
BY DEF Standings, Standing

\* A purchase that stands is the first that does; one that is disowned never
\* stands.
LEMMA PurchaseMaps ==
  ASSUME OutcomeInv, SenderInv, NEW h \in Hosts, NEW r \in Requests, r = host[h].req, Buys(h, r), disowned' = disowned
  PROVE  \/ Standings' = Standings
         \/ /\ Standings[r] = 0 /\ Standings' = [Standings EXCEPT ![r] = 1]
            /\ op[r].state # "completed"
<1> DEFINE n == host[h].attempt
<1>0. TypeOK /\ SentInv BY DEF OutcomeInv
<1>1. wires[r] \in Seq(Nat) /\ n \in Nat /\ wires \in [Requests -> Seq(Nat)] BY <1>0, RowTypes DEF HostRows, TypeOK
<1>2. SentOnce(r) /\ OpenOnce(r) /\ Sending(h, r) /\ wires' = [wires EXCEPT ![r] = Append(@, n)]
  BY <1>0 DEF SentInv, SentAt, Buys, Sending
<1>3. ~Bought(r, n) BY <1>2 DEF SentOnce
<1>4. wires'[r] = Append(wires[r], n) /\ \A q \in Requests \ {r} : wires'[q] = wires[q]
  <2> DEFINE t == Append(wires[r], n)
  <2>1. wires' = [wires EXCEPT ![r] = t] BY <1>2
  <2> HIDE DEF t
  <2>2. r \in DOMAIN wires /\ Requests = DOMAIN wires BY <1>1
  <2>3. wires'[r] = t BY <2>1, <2>2, Zenon
  <2>4. \A q \in Requests \ {r} : wires'[q] = wires[q] BY <2>1, <2>2, Zenon
  <2> QED BY <2>3, <2>4 DEF t
<1>5. /\ DOMAIN wires'[r] = DOMAIN wires[r] \cup {Len(wires[r]) + 1} /\ Len(wires[r]) + 1 \notin DOMAIN wires[r]
      /\ wires'[r][Len(wires[r]) + 1] = n /\ \A i \in DOMAIN wires[r] : wires'[r][i] = wires[r][i]
  BY <1>1, <1>2, <1>3, <1>4, AppendOnce DEF SentOnce, Bought
<1>6. \A q \in Requests \ {r} : Standing(q)' = Standing(q) BY <1>4 DEF Standing
<1>7. Standings' = [q \in Requests |-> Cardinality(Standing(q)')] BY DEF Standings
<1>8. CASE n \in disowned[r]
  <2>1. Standing(r)' = Standing(r) BY <1>5, <1>8 DEF Standing
  <2> QED BY <1>6, <1>7, <2>1 DEF Standings
<1>9. CASE n \notin disowned[r]
  <2>1. Open(r, n) BY <1>2, <1>9 DEF Open, Out
  <2>2. ASSUME NEW i \in Standing(r) PROVE FALSE
    <3>1. i \in DOMAIN wires[r] /\ wires[r][i] \in Nat BY <1>1 DEF Standing
    <3>2. Open(r, wires[r][i]) BY <3>1 DEF Standing, Open, Out, Bought
    <3>3. wires[r][i] = n BY <1>1, <1>2, <2>1, <3>1, <3>2 DEF OpenOnce
    <3> QED BY <1>3, <3>1, <3>3 DEF Bought
  <2>3. Standing(r) = {} BY <2>2
  <2>4. Standing(r)' = {Len(wires[r]) + 1}
    <3>1. \A i \in DOMAIN wires[r] : wires[r][i] \in disowned[r] BY <2>3 DEF Standing
    <3> QED BY <1>5, <1>9, <3>1 DEF Standing
  <2>5. Cardinality(Standing(r)) = 0 BY <2>3, FS_EmptySet
  <2>6. Cardinality(Standing(r)') = 1 BY <2>4, FS_Singleton
  <2>7. Standings[r] = 0 /\ Standings' = [Standings EXCEPT ![r] = 1] BY <1>6, <1>7, <2>5, <2>6 DEF Standings
  <2>8. op[r].state # "completed"
    <3>1. SenderAt(h) BY DEF SenderInv
    <3> QED BY <1>2, <1>9, <3>1 DEF SenderAt, Sending, Mine
  <2> QED BY <2>7, <2>8
<1> QED BY <1>8, <1>9

\* A proof that nothing was dispatched disowns the one purchase that stands, or
\* there is none.
LEMMA DisownMaps ==
  ASSUME OutcomeInv, NEW r \in Requests,
         disowned' = [disowned EXCEPT ![r] = @ \cup {op[r].attempt}], wires' = wires
  PROVE  \/ Standings' = Standings
         \/ Standings[r] = 1 /\ Standings' = [Standings EXCEPT ![r] = 0]
<1> DEFINE n == op[r].attempt
<1>0. TypeOK /\ SentInv BY DEF OutcomeInv
<1>1. disowned'[r] = disowned[r] \cup {n} /\ \A q \in Requests \ {r} : disowned'[q] = disowned[q]
  BY <1>0 DEF TypeOK
<1>2. \A q \in Requests \ {r} : Standing(q)' = Standing(q) BY <1>1 DEF Standing
<1>3. Standings' = [q \in Requests |-> Cardinality(Standing(q)')] BY DEF Standings
<1>4. Standing(r)' \subseteq Standing(r) BY <1>1 DEF Standing
<1>5. CASE Standing(r)' = Standing(r) BY <1>2, <1>3, <1>5 DEF Standings
<1>6. CASE Standing(r)' # Standing(r)
  <2>1. PICK i : Standing(r) = {i} BY <1>0, <1>4, <1>6, StandingIsOne
  <2>2. Standing(r)' = {} BY <1>4, <1>6, <2>1
  <2>3. Cardinality(Standing(r)) = 1 BY <2>1, FS_Singleton
  <2>4. Cardinality(Standing(r)') = 0 BY <2>2, FS_EmptySet
  <2>5. Standings[r] = 1 BY <2>3 DEF Standings
  <2>6. [Standings EXCEPT ![r] = 0] = [q \in Requests |-> IF q = r THEN 0 ELSE Cardinality(Standing(q))]
    BY DEF Standings
  <2>7. \A q \in Requests : Cardinality(Standing(q)') = IF q = r THEN 0 ELSE Cardinality(Standing(q)) BY <1>2, <2>4
  <2>8. Standings' = [Standings EXCEPT ![r] = 0]
    <3> DEFINE C(q) == Cardinality(Standing(q)')
               D(q) == IF q = r THEN 0 ELSE Cardinality(Standing(q))
    <3>1. Standings' = [q \in Requests |-> C(q)] BY <1>3
    <3>2. [Standings EXCEPT ![r] = 0] = [q \in Requests |-> D(q)] BY <2>6
    <3>3. \A q \in Requests : C(q) = D(q) BY <2>7
    <3> HIDE DEF C, D
    <3> QED BY <3>1, <3>2, <3>3
  <2> QED BY <2>5, <2>8
<1> QED BY <1>5, <1>6

\* A step that shows nothing to callers, provider or policy.
Unseen == UNCHANGED <<Receipts, Standings, versions, answers>>

\* A host's step buys, closes, answers or shows nothing.
LEMMA WorkMaps ==
  ASSUME OutcomeInv, SenderInv, NEW h \in Hosts, Steps(h) \/ Stop(h)
  PROVE  Owner!Next \/ Unseen
<1> DEFINE r == host[h].req
           x == host'[h]
<1>0. TypeOK /\ PlaceInv /\ SentInv /\ ReceiptInv /\ HoldInv /\ CapacityHolds BY DEF OutcomeInv
<1>1. r \in Requests /\ disowned' = disowned /\ Works(h, x) BY <1>0, WorkSteps
<1>2. op[r] \in OpRows BY <1>0, <1>1, RowTypes
<1>3. Receipts[r] = op[r].result /\ (op[r].state = "completed" <=> Receipts[r] # "none")
  BY <1>0, <1>1 DEF Receipts, ReceiptInv
<1>4. CASE Rests(r)
  <2>1. Receipts' = Receipts BY <1>4 DEF Rests, Receipts
  <2>0. UNCHANGED <<Standings, versions>> BY <1>1, <1>4, StandingsKept DEF Rests
  <2>2. ASSUME answers' = answers PROVE Unseen BY <2>0, <2>1, <2>2 DEF Unseen
  <2>3. CASE op[r].state = "completed" /\ answers' = [answers EXCEPT ![r] = @ \cup {Receipts[r]}]
    BY <1>1, <1>3, <2>0, <2>1, <2>3 DEF Owner!Next, Owner!Answer, Owner!Tells, Receipts, Standings
  <2> QED BY <1>3, <1>4, <2>2, <2>3 DEF Rests
<1>5. CASE Buys(h, r)
  <2>1. Receipts' = Receipts /\ UNCHANGED <<versions, answers>> BY <1>5 DEF Buys, Receipts
  <2>2. CASE Standings' = Standings BY <2>1, <2>2 DEF Unseen
  <2>3. CASE /\ Standings[r] = 0 /\ Standings' = [Standings EXCEPT ![r] = 1]
             /\ op[r].state # "completed"
    BY <1>1, <1>3, <2>1, <2>3 DEF Owner!Next, Owner!Buy, Receipts, Standings
  <2> QED BY <1>1, <1>5, <2>2, <2>3, PurchaseMaps
<1>6. ASSUME NEW y, Sends(h, r, y) \/ Saves(r, y) \/ Gives(r, y) PROVE Unseen
  <2>1. RowTo(r, y) /\ y.result = op[r].result /\ UNCHANGED <<versions, wires, answers>>
    BY <1>2, <1>6 DEF Sends, Saves, Gives, OpRows
  <2>2. Standings' = Standings BY <1>1, <2>1, StandingsKept
  <2> QED BY <1>0, <1>1, <2>1, <2>2, ReceiptKept DEF Unseen
<1>7. ASSUME NEW y, Ends(r, y), host[h].pc \in Working, SameAttempt(h) PROVE Owner!Next
  <2> DEFINE how == y.result
  <2>1. Receipts' = [Receipts EXCEPT ![r] = how] /\ Receipts[r] = "none"
    BY <1>0, <1>1, <1>3, <1>7, ReceiptParts DEF Ends
  <2>2. r \in Held BY <1>0, <1>1, <1>7 DEF HoldInv, HolderAt, Ends, Mine, Held
  <2>3. Cardinality(versions) < MaxVersions
    <3>1. Cardinality(Held \ {r}) = Cardinality(Held) - 1 /\ Cardinality(Held \ {r}) \in Nat
      <4>1. IsFiniteSet(Held \ {r}) BY <1>0, Counts, FS_RemoveElement
      <4> QED BY <1>0, <2>2, <4>1, Counts, OneMore, FS_CardinalityType
    <3> QED BY <1>0, <3>1, Counts DEF CapacityHolds
  <2>4. /\ UNCHANGED wires /\ how \in {"ok", "refused"}
        /\ versions' = versions \/ (how = "ok" /\ versions' = versions \cup {r})
        /\ answers' = answers \/ answers' = [answers EXCEPT ![r] = @ \cup {how}]
    BY <1>7, Zenon DEF Ends
  <2> HIDE DEF how
  <2>5. Owner!Close(r, how)
    <3>1. Owner!Tells(r, how) \/ UNCHANGED answers BY <2>4 DEF Owner!Tells
    <3>2. UNCHANGED versions \/ (how = "ok" /\ Cardinality(versions) < MaxVersions /\ versions' = versions \cup {r})
      BY <2>3, <2>4
    \* The abstract module has a Cardinality of its own.
    <3>3. Owner!Cardinality(versions) = Cardinality(versions) BY Zenon DEF Owner!Cardinality, Cardinality
    <3>4. Standings' = Standings BY <1>1, <2>4, StandingsKept
    <3> QED BY <2>1, <2>4, <3>1, <3>2, <3>3, <3>4, Zenon DEF Owner!Close, Receipts, Standings
  <2> QED BY <1>1, <2>4, <2>5 DEF Owner!Next
<1> QED BY <1>1, <1>4, <1>5, <1>6, <1>7 DEF Works

\* A reconciliation disowns what stands, or shows nothing.
LEMMA ReconcileMaps ==
  ASSUME OutcomeInv, ReconcileCommit
  PROVE  Owner!Next \/ Unseen
<1> DEFINE r == recon.req
<1>0. TypeOK /\ PlaceInv /\ ReceiptInv BY DEF OutcomeInv
<1>1. /\ r \in Requests
      /\ Reconciles(r) \/ UNCHANGED <<op, versions, wires, disowned, answers>>
  BY <1>0, CommitReconciles
<1>2. CASE Reconciles(r)
  <2>1. Receipts' = Receipts /\ UNCHANGED <<versions, answers, wires>>
    BY <1>0, <1>1, <1>2, ReceiptKept DEF Reconciles
  <2>2. CASE disowned' = disowned BY <2>1, <2>2, StandingsKept DEF Unseen
  <2>3. CASE disowned' = [disowned EXCEPT ![r] = @ \cup {op[r].attempt}]
    <3>1. Receipts[r] = "none" BY <1>0, <1>1, <1>2 DEF Receipts, ReceiptInv, Reconciles, Unfinished
    <3>2. CASE Standings' = Standings BY <2>1, <3>2 DEF Unseen
    <3>3. CASE Standings[r] = 1 /\ Standings' = [Standings EXCEPT ![r] = 0]
      BY <1>1, <2>1, <3>1, <3>3 DEF Owner!Next, Owner!Disown, Receipts, Standings
    <3> QED BY <1>1, <2>1, <2>3, <3>2, <3>3, DisownMaps
  <2> QED BY <1>2, <2>2, <2>3 DEF Reconciles
<1>3. CASE UNCHANGED <<op, versions, wires, disowned, answers>>
  BY <1>3, StandingsKept DEF Unseen, Receipts
<1> QED BY <1>1, <1>2, <1>3

\* Nobody has asked or been answered at first.
LEMMA OwnerInit == Init => Owner!Init
<1> SUFFICES ASSUME Init PROVE Owner!Init OBVIOUS
<1>1. op = [r \in Requests |-> NoOp] /\ wires = [r \in Requests |-> <<>>] BY DEF Init
<1>2. Receipts = [r \in Requests |-> "none"] BY <1>1 DEF Receipts, NoOp
<1>3. \A r \in Requests : Cardinality(Standing(r)) = 0
  <2>1. \A r \in Requests : Standing(r) = {} BY <1>1 DEF Standing
  <2> QED BY <2>1, FS_EmptySet
<1>4. Standings = [r \in Requests |-> 0] BY <1>3 DEF Standings
<1> QED BY <1>2, <1>4 DEF Init, Owner!Init, Receipts, Standings

\* Whatever fails, whoever retries and however late a host or a proof is, at
\* most one purchase of a request stands, made before its receipt and disowned
\* by a reconciliation only; the receipt is recorded once with what is kept,
\* within the capacity, and is all its callers are answered.
THEOREM RefinesOneReceipt == Spec => ImplementsOneReceipt
<1>1. ASSUME OutcomeInv, SenderInv, [Next]_vars PROVE Owner!Next \/ Unseen
  <2>0. TypeOK /\ PlaceInv /\ ReceiptInv BY <1>1 DEF OutcomeInv
  <2>1. ASSUME NEW h \in Hosts, Steps(h) \/ Stop(h) PROVE Owner!Next \/ Unseen
    BY <1>1, <2>1, WorkMaps
  <2>2. ASSUME NEW h \in Hosts, NEW r \in Requests, Begin(h, r) PROVE Unseen
    <3>1. Takes(h, r) BY <2>0, <2>2, BeginTakes
    <3>2. op[r].result = "none" BY <2>0, <3>1 DEF Takes, Retryable, ReceiptInv
    <3>3. op' = op \/ \E y : RowTo(r, y) /\ y.result = "none" BY <3>1 DEF Takes
    <3>4. Receipts' = Receipts
      <4>1. CASE op' = op BY <4>1 DEF Receipts
      <4>2. CASE \E y : RowTo(r, y) /\ y.result = "none" BY <2>0, <3>2, <4>2, ReceiptKept
      <4> QED BY <3>3, <4>1, <4>2
    <3> QED BY <3>1, <3>4, StandingsKept DEF Takes, Unseen
  <2>3. ASSUME NEW h \in Hosts, NEW r \in Requests, BeginReady(h, r) PROVE Unseen
    BY <2>0, <2>3, BeginJoins, StandingsKept DEF Joins, Unseen, Receipts
  <2>4. ASSUME NEW r \in Requests, Replay(r) PROVE Owner!Next
    <3>1. Receipts[r] = op[r].result /\ Receipts[r] # "none" /\ Receipts' = Receipts
      BY <2>0, <2>4 DEF Replay, Receipts, ReceiptInv, rows
    <3>2. answers' = [answers EXCEPT ![r] = @ \cup {Receipts[r]}] /\ UNCHANGED <<Standings, versions>>
      BY <2>4, <3>1, StandingsKept DEF Replay, rows
    <3> QED BY <3>1, <3>2 DEF Owner!Next, Owner!Answer, Owner!Tells, Receipts, Standings
  <2>5. ASSUME NEW r \in Requests, ReconcileRead(r) PROVE Unseen
    BY <2>5, StandingsKept DEF ReconcileRead, rows, Unseen, Receipts
  <2>6. CASE ReconcileCommit BY <1>1, <2>6, ReconcileMaps
  <2>7. CASE UNCHANGED vars BY <2>7, StandingsKept DEF vars, rows, Unseen, Receipts
  <2> QED BY <1>1, <2>1, <2>2, <2>3, <2>4, <2>5, <2>6, <2>7 DEF Next
<1>2. OutcomeInv /\ SenderInv /\ [Next]_vars =>
        [Owner!Next]_<<[r \in Requests |-> op[r].result], [r \in Requests |-> Cardinality(Standing(r))],
                       versions, answers>>
  BY <1>1 DEF Unseen, Receipts, Standings
<1> QED
  BY <1>2, OwnerInit, OutcomeInvariant, SendersAreCurrent, PTL
  DEF Spec, ImplementsOneReceipt, Owner!Spec
=============================================================================
