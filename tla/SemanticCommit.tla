--------------------------- MODULE SemanticCommit ---------------------------
(***************************************************************************)
(* What the semantic store promises about the nodes of one run, without    *)
(* attempts, claims or workers: a node completes at most once, with one    *)
(* output that never changes, and only after every node it depends on.     *)
(***************************************************************************)
CONSTANTS Keys, Outputs, None, Needs

VARIABLE committed   \* the output a node completed with, or None

Init == committed = [k \in Keys |-> None]

Commit(k, output) ==
  /\ committed[k] = None
  /\ \A j \in Needs[k] : committed[j] # None
  /\ committed' = [committed EXCEPT ![k] = output]

Next == \E k \in Keys, output \in Outputs : Commit(k, output)

Spec == Init /\ [][Next]_committed
=============================================================================
