----------------------------- MODULE OneReceipt -----------------------------
(***************************************************************************)
(* What the owner of a request promises its callers and its policy: at     *)
(* most one purchase of remote work stands, made while the request is not  *)
(* over, and only an operator disowns one; one receipt says how it ended   *)
(* and is all that anybody is answered; and what an accepted request keeps *)
(* stays within the retained capacity.                                     *)
(***************************************************************************)
EXTENDS Naturals, FiniteSets

CONSTANTS Requests,
          Capacity,    \* how many requests may keep something
          Accepted,    \* the receipt of a request that may keep something
          Refused,     \* the other one
          Pending      \* no receipt yet

VARIABLES receipt,     \* per request: its receipt, or Pending
          bought,      \* per request: purchases of remote work that stand
          kept,        \* the requests that keep something
          answers      \* per request: what its callers were answered

Init ==
  /\ receipt = [r \in Requests |-> Pending]
  /\ bought = [r \in Requests |-> 0]
  /\ kept = {}
  /\ answers = [r \in Requests |-> {}]

Buy(r) ==
  /\ receipt[r] = Pending /\ bought[r] = 0
  /\ bought' = [bought EXCEPT ![r] = 1]
  /\ UNCHANGED <<receipt, kept, answers>>

\* It is declared never to have been made.
Disown(r) ==
  /\ receipt[r] = Pending /\ bought[r] = 1
  /\ bought' = [bought EXCEPT ![r] = 0]
  /\ UNCHANGED <<receipt, kept, answers>>

Tells(r, how) == answers' = [answers EXCEPT ![r] = @ \cup {how}]

Close(r, how) ==
  /\ receipt[r] = Pending
  /\ receipt' = [receipt EXCEPT ![r] = how]
  /\ \/ UNCHANGED kept
     \/ how = Accepted /\ Cardinality(kept) < Capacity /\ kept' = kept \cup {r}
  /\ Tells(r, how) \/ UNCHANGED answers
  /\ UNCHANGED bought

Answer(r) ==
  /\ receipt[r] # Pending /\ Tells(r, receipt[r])
  /\ UNCHANGED <<receipt, bought, kept>>

Next == \E r \in Requests : Buy(r) \/ Disown(r) \/ Answer(r) \/ \E how \in {Accepted, Refused} : Close(r, how)

Spec == Init /\ [][Next]_<<receipt, bought, kept, answers>>
=============================================================================
