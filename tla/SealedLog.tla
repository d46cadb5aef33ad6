------------------------------ MODULE SealedLog ------------------------------
(***************************************************************************)
(* What a run log promises: records are appended while the run is open;    *)
(* one last record says how it ended and seals it, once.                   *)
(***************************************************************************)
EXTENDS Naturals, Sequences

CONSTANTS Entries,   \* the records a run may append
          Outcomes,  \* the ways it may end
          Open       \* the status of a run that has not ended

VARIABLES log,       \* the run's records, in order
          outcome    \* how it ended, or Open

Init == log = <<>> /\ outcome = Open

Record(entry) ==
  /\ outcome = Open
  /\ log' = Append(log, entry)
  /\ UNCHANGED outcome

Seal(how) ==
  /\ outcome = Open
  /\ outcome' = how
  /\ log' = Append(log, how)

Next == (\E entry \in Entries : Record(entry)) \/ (\E how \in Outcomes : Seal(how))

Spec == Init /\ [][Next]_<<log, outcome>>
=============================================================================
