----------------------------- MODULE MCSessions -----------------------------
(* Sessions for TLC: the names of the browsers are model values.             *)
EXTENDS Sessions

CONSTANTS d1, d2
=============================================================================
