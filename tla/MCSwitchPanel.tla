--------------------------- MODULE MCSwitchPanel ----------------------------
(* SwitchPanel for TLC: frontends are model values.                           *)
EXTENDS SwitchPanel
=============================================================================
