---------------------------- MODULE BoundedLoop ----------------------------
(***************************************************************************)
(* What a loop region promises: rounds are completed one after another, at *)
(* most Cap of them and none after one that was enough; the loop yields    *)
(* one output, after which no round is completed.                          *)
(***************************************************************************)
EXTENDS Integers

CONSTANTS Cap,    \* the most rounds the loop may complete
          Open    \* the result of a loop that has not yielded

VARIABLES rounds,   \* the rounds completed
          enough,   \* those whose output ends the loop
          result    \* the round whose output it yielded, 0 for none, or Open

Init == rounds = {} /\ enough = {} /\ result = Open

Round(i) ==
  /\ result = Open
  /\ rounds = 1..(i - 1) /\ i - 1 \notin enough
  /\ rounds' = rounds \cup {i}
  /\ enough' \in {enough, enough \cup {i}}
  /\ UNCHANGED result

Yield(out) ==
  /\ result = Open
  /\ result' = out
  /\ UNCHANGED <<rounds, enough>>

Next == (\E i \in 1..Cap : Round(i)) \/ (\E out \in rounds \cup {0} : Yield(out))

Spec == Init /\ [][Next]_<<rounds, enough, result>>
=============================================================================
