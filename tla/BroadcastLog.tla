---------------------------- MODULE BroadcastLog ----------------------------
(***************************************************************************)
(* What the event manager promises its consumers, without a queue, a       *)
(* worker or a list iteration: one log of accepted events, and for each    *)
(* consumer a cursor that moves from one event it wants to the next.  No   *)
(* wanted event is skipped, repeated or overtaken, and a consumer that     *)
(* joins is never given an event that somebody else has already had.       *)
(***************************************************************************)
EXTENDS Integers, Sequences

CONSTANTS Events,    \* the kinds of event the log can hold
          Filters    \* sets of kinds; the empty set stands for every kind

VARIABLES log,       \* the accepted events, oldest first
          members    \* Seq([filter, seen]): seen is the member's position in log

vars == <<log, members>>

Matches(filter, kind) == filter = {} \/ kind \in filter

Init == log = <<>> /\ members = <<>>

\* An event is accepted only once somebody has joined.
Accept(e) == /\ members # <<>>
             /\ log' = Append(log, e)
             /\ UNCHANGED members

\* A new member starts no earlier than any position already reached.
Join(f) == \E at \in 0..Len(log) :
             /\ \A i \in DOMAIN members : members[i].seen <= at
             /\ members' = Append(members, [filter |-> f, seen |-> at])
             /\ UNCHANGED log

\* Member i is handed the next event it wants, and none before that one.
Deliver(i) == \E p \in members[i].seen + 1 .. Len(log) :
                /\ Matches(members[i].filter, log[p])
                /\ \A q \in members[i].seen + 1 .. p - 1 :
                     ~Matches(members[i].filter, log[q])
                /\ members' = [members EXCEPT ![i].seen = p]
                /\ UNCHANGED log

Next == \/ \E e \in Events : Accept(e)
        \/ \E f \in Filters : Join(f)
        \/ \E i \in DOMAIN members : Deliver(i)

Spec == Init /\ [][Next]_vars
=============================================================================
