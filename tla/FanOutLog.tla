----------------------------- MODULE FanOutLog ------------------------------
(***************************************************************************)
(* What the web socket ring amounts to for its subscribers: one log of     *)
(* messages, and for each subscriber a position in it.  Whatever position  *)
(* it starts from, a subscriber is sent the messages of the log one after  *)
(* the other, none left out, repeated or overwritten before it had them.   *)
(***************************************************************************)
EXTENDS Integers, Sequences

CONSTANTS Clients,   \* web socket connections
          Messages,  \* what can be published
          Backlog    \* how far behind the end of the log a newcomer can start

VARIABLES log,       \* the messages broadcast, oldest first
          joined,    \* the set of clients that subscribe
          cursor,    \* cursor[c]: how much of log lies behind subscriber c
          got        \* got[c]: what c has been sent since it subscribed

vars == <<log, joined, cursor, got>>

Init == /\ log = <<>> /\ joined = {}
        /\ cursor = [c \in Clients |-> 0]
        /\ got = [c \in Clients |-> <<>>]

Publish == /\ \E m \in Messages : log' = Append(log, m)
           /\ UNCHANGED <<joined, cursor, got>>

Join(c) == /\ c \notin joined /\ joined' = joined \cup {c}
           /\ \E at \in 0..Len(log) :
                at + Backlog >= Len(log) /\ cursor' = [cursor EXCEPT ![c] = at]
           /\ UNCHANGED <<log, got>>

Send(c) == /\ c \in joined /\ cursor[c] < Len(log)
           /\ got' = [got EXCEPT ![c] = Append(@, log[cursor[c] + 1])]
           /\ cursor' = [cursor EXCEPT ![c] = @ + 1]
           /\ UNCHANGED <<log, joined>>

Leave(c) == /\ c \in joined /\ joined' = joined \ {c}
            /\ cursor' = [cursor EXCEPT ![c] = 0]
            /\ got' = [got EXCEPT ![c] = <<>>]
            /\ UNCHANGED log

Next == Publish \/ \E c \in Clients : Join(c) \/ Send(c) \/ Leave(c)

Spec == Init /\ [][Next]_vars
=============================================================================
