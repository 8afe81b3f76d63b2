---------------------------- MODULE MCSerialLine ----------------------------
(* SerialLine for TLC.                                                       *)
EXTENDS SerialLine
=============================================================================
