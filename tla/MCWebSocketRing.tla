-------------------------- MODULE MCWebSocketRing ---------------------------
(* WebSocketRing for TLC.                                                     *)
EXTENDS WebSocketRing
=============================================================================
