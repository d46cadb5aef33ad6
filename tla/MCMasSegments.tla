--------------------------- MODULE MCMasSegments ---------------------------
(***************************************************************************)
(* Small instances of MasSegments.  Claim epochs grow by one per lease and *)
(* the queue bounds the leases, so every instance is finite as it stands.  *)
(***************************************************************************)
EXTENDS MasSegments, TLC

CONSTANTS w1, w2, r1, r2, i1, i2

Symmetry == Permutations({w1, w2}) \cup Permutations({i1, i2})

\* The protocol compares a worker's epoch with the run's and never orders two
\* stale ones, and the next epoch is always new: states that differ only in the
\* numbers behave alike, so the safety run identifies them.
Epoch(w) == IF worker[w].claim = 0 THEN "none"
            ELSE IF worker[w].claim = claim THEN "current" ELSE "stale"
Canonical == <<status, segment, inter, attempt, job, recon,
               [w \in Workers |-> <<[worker[w] EXCEPT !.claim = 0], Epoch(w)>>]>>
=============================================================================
