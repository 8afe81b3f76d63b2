---------------------------- MODULE InstallOnce -----------------------------
(***************************************************************************)
(* What becomes of the database file over all starts of the server: it is  *)
(* installed by one process, from beginning to end, or by none.  What that *)
(* process leaves unfinished nobody finishes; what it finished stays.      *)
(***************************************************************************)
VARIABLES file,   \* "empty", "partial" or "complete"
          owner   \* an installing process is at work

vars == <<file, owner>>

Init == file = "empty" /\ owner = FALSE

\* The first statement of an installation, and the last one.
Begin  == file = "empty" /\ file' = "partial" /\ owner' = TRUE
Finish == file = "partial" /\ owner /\ file' = "complete" /\ owner' = FALSE

\* The installing process ends before it has finished.
Abandon == owner /\ owner' = FALSE /\ UNCHANGED file

Next == Begin \/ Finish \/ Abandon

Spec == Init /\ [][Next]_vars
=============================================================================
