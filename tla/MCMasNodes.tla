----------------------------- MODULE MCMasNodes -----------------------------
(***************************************************************************)
(* Small instances of MasNodes.                                            *)
(***************************************************************************)
EXTENDS MasNodes, TLC

CONSTANTS e1, e2, k1, k2, o1, o2

\* Two siblings, and a chain of two.
Siblings == [k \in Keys |-> {}]
Chain    == [k \in Keys |-> IF k = k2 THEN {k1} ELSE {}]

\* The first node may retain an artifact, the second sends two messages.
NoneExtra == [k \in Keys |-> 0]
ExtraOfK2 == [k \in Keys |-> IF k = k2 THEN 1 ELSE 0]
FilesOfK1 == [k \in Keys |-> IF k = k1 THEN 1 ELSE 0]

Symmetry == Permutations({e1, e2}) \cup Permutations({o1, o2})
=============================================================================
