---------------------------- MODULE RepeaterLog -----------------------------
(***************************************************************************)
(* What may be relied on of values that go through the server to the MQTT  *)
(* broker: they leave in the order in which they were accepted.  One may   *)
(* be missing and one may leave several times in a row, but none leaves    *)
(* after a later one.                                                      *)
(***************************************************************************)
EXTENDS Integers, Sequences

VARIABLES size,     \* how many values were accepted
          out       \* the positions, in that order, of what has left

vars == <<size, out>>

Latest == IF out = <<>> THEN 1 ELSE out[Len(out)]

Init == size = 0 /\ out = <<>>

Accept  == size' = size + 1 /\ UNCHANGED out
Forward == \E p \in Latest..size : out' = Append(out, p) /\ UNCHANGED size

Next == Accept \/ Forward

Spec == Init /\ [][Next]_vars
=============================================================================
