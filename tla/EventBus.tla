------------------------------ MODULE EventBus ------------------------------
(***************************************************************************)
(* ServiceEventManager: threads fire events into a WaitingQueue, and one   *)
(* worker thread takes them out and calls, for each event, every           *)
(* registered consumer whose filter names it.  When nothing arrives for a  *)
(* second the worker calls the consumers of Idle instead.                  *)
(*                                                                         *)
(* Any thread may fire and register at any time: the web server's, the     *)
(* MQTT client's (which registers again whenever the broker is reached),   *)
(* main, and the worker itself from inside a consumer.  The list of        *)
(* consumers has no lock.                                                  *)
(***************************************************************************)
EXTENDS Integers, Sequences

CONSTANTS Events,         \* the SystemEvent values that are fired
          Idle,           \* SystemEvent::Idle, which only the worker makes
          Filters,        \* filters consumers register with
          MaxEvents,      \* bound on the events fired
          MaxConsumers    \* bound on the registrations

ASSUME BusAssumption == /\ Idle \notin Events
                        /\ Filters \subseteq SUBSET (Events \cup {Idle})
                        /\ MaxEvents \in Nat
                        /\ MaxConsumers \in Nat

VARIABLES
  consumers,  \* _eventConsumer: Seq([filter, seen]); seen is history, see below
  queue,      \* _eventQueue
  run,        \* _run
  worker,     \* where WorkerLoop stands
  event,      \* the event being handed out
  pos,        \* the range-for's iterator over _eventConsumer
  last,       \* its end iterator, fixed when the loop starts
  stale,      \* a registration has moved the list since: both iterators dangle
  accepted,   \* history: every event queue has ever held
  taken       \* history: how many of them the worker has removed

busVars == <<consumers, queue, run, worker, event, pos, last, stale, accepted, taken>>

Consumer == [filter : Filters, seen : Nat]
Crashed  == worker = "crashed"
Active   == worker \in {"dispatch", "callback"}

\* An empty filter takes everything, Idle included.
Wants(filter, e) == filter = {} \/ e \in filter

\* push_back reallocates when size = capacity; capacities are 0, 1, 2, 4, 8...
Reallocates(size) == size = 0 \/ \E k \in 0..size : size = 2 ^ k

Init ==
  /\ consumers = <<>> /\ queue = <<>> /\ run = TRUE
  /\ worker = "loop" /\ event = Idle /\ pos = 1 /\ last = 0 /\ stale = FALSE
  /\ accepted = <<>> /\ taken = 0

-----------------------------------------------------------------------------
(* Any thread.                                                             *)

\* WaitingQueue::add, and two mutations of it: one serves the latest event first,
\* the other keeps only the latest.
AddFirst(q, e) == <<e>> \o q
AddOnly(q, e)  == <<e>>
Add(q, e)      == Append(q, e)

\* FireNewEvent.  With no consumer the event is dropped, which changes nothing.
\* The test and the add are one step: the list never shrinks, so a test that
\* succeeded stays true.
FireNewEvent(e) ==
  /\ ~Crashed /\ consumers # <<>> /\ Len(accepted) < MaxEvents
  /\ queue' = Add(queue, e)
  /\ accepted' = Append(accepted, e)
  /\ UNCHANGED <<consumers, run, worker, event, pos, last, stale, taken>>

\* RegisterMe.  A consumer that joins has seen what the worker has taken so far.
RegisterMe(f) ==
  /\ ~Crashed /\ Len(consumers) < MaxConsumers
  /\ consumers' = Append(consumers, [filter |-> f, seen |-> taken])
  /\ stale' = (stale \/ (Active /\ Reallocates(Len(consumers))))
  /\ UNCHANGED <<queue, run, worker, event, pos, last, accepted, taken>>

\* Deinit: it then joins the worker, and returns once worker = "stopped".
Deinit ==
  /\ ~Crashed /\ run
  /\ run' = FALSE
  /\ UNCHANGED <<consumers, queue, worker, event, pos, last, stale, accepted, taken>>

-----------------------------------------------------------------------------
(* The worker thread.                                                      *)

TestRun ==
  /\ worker = "loop"
  /\ worker' = IF run THEN "wait" ELSE "stopped"
  /\ UNCHANGED <<consumers, queue, run, event, pos, last, stale, accepted, taken>>

StartDispatch(e) ==
  /\ worker' = "dispatch" /\ event' = e
  /\ pos' = 1 /\ last' = Len(consumers) /\ stale' = FALSE

\* tryRemove finds an item, at once or when add notifies it.
TakeEvent ==
  /\ worker = "wait" /\ queue # <<>>
  /\ queue' = Tail(queue) /\ taken' = taken + 1
  /\ StartDispatch(Head(queue))
  /\ UNCHANGED <<consumers, run, accepted>>

\* tryRemove gives up after a second: the wait's predicate is still false.
\* The mutation waits without a limit, as waitAndRemove would.
WaitForever == FALSE
TimeOut ==
  /\ worker = "wait" /\ queue = <<>>
  /\ StartDispatch(Idle)
  /\ UNCHANGED <<consumers, queue, run, accepted, taken>>

\* The loop reaches a consumer that wants the event, and calls it.
CallConsumer ==
  /\ worker = "dispatch" /\ pos <= last
  /\ Wants(consumers[pos].filter, event)
  /\ worker' = "callback"
  /\ consumers' = IF event = Idle THEN consumers
                                  ELSE [consumers EXCEPT ![pos].seen = taken]
  /\ UNCHANGED <<queue, run, event, pos, last, stale, accepted, taken>>

\* ++ on the iterator; the mutation does it twice.
AfterNext(p)   == p + 2
NextIn(p)      == p + 1

\* The loop passes over a consumer that does not want the event.
SkipConsumer ==
  /\ worker = "dispatch" /\ pos <= last
  /\ ~Wants(consumers[pos].filter, event)
  /\ pos' = NextIn(pos)
  /\ UNCHANGED <<consumers, queue, run, worker, event, last, stale, accepted, taken>>

\* The called consumer returns (it may have fired and registered meanwhile).
\* The mutation leaves the loop after the first consumer that took the event.
FirstOneOnly ==
  /\ worker = "callback"
  /\ worker' = "loop"
  /\ UNCHANGED <<consumers, queue, run, event, pos, last, stale, accepted, taken>>
CallbackReturns ==
  /\ worker = "callback"
  /\ worker' = "dispatch" /\ pos' = NextIn(pos)
  /\ UNCHANGED <<consumers, queue, run, event, last, stale, accepted, taken>>

\* Nothing catches what a consumer throws: the process terminates.
CallbackThrows ==
  /\ worker = "callback"
  /\ worker' = "crashed"
  /\ UNCHANGED <<consumers, queue, run, event, pos, last, stale, accepted, taken>>

\* Reading through a dangling iterator: the freed array still holds what it
\* held (the steps above), or the read faults.
StaleRead ==
  /\ worker = "dispatch" /\ stale /\ pos <= last
  /\ worker' = "crashed"
  /\ UNCHANGED <<consumers, queue, run, event, pos, last, stale, accepted, taken>>

EndDispatch ==
  /\ worker = "dispatch" /\ pos > last
  /\ worker' = "loop"
  /\ UNCHANGED <<consumers, queue, run, event, pos, last, stale, accepted, taken>>

WorkerStep == \/ TestRun \/ TakeEvent \/ TimeOut \/ CallConsumer \/ SkipConsumer
              \/ CallbackReturns \/ EndDispatch

Next == \/ \E e \in Events : FireNewEvent(e)
        \/ \E f \in Filters : RegisterMe(f)
        \/ Deinit \/ WorkerStep \/ CallbackThrows \/ StaleRead

Spec == Init /\ [][Next]_busVars

\* The worker thread is scheduled, tryRemove's wait ends after a second at the
\* latest, and consumers return.  Nobody has to fire, register or stop.
FairSpec == Spec /\ WF_busVars(WorkerStep)

-----------------------------------------------------------------------------
(* Properties.                                                             *)

TypeOK ==
  /\ consumers \in Seq(Consumer) /\ queue \in Seq(Events) /\ accepted \in Seq(Events)
  /\ run \in BOOLEAN /\ stale \in BOOLEAN
  /\ worker \in {"loop", "wait", "dispatch", "callback", "stopped", "crashed"}
  /\ event \in Events \cup {Idle}
  /\ taken \in Nat /\ last \in 0..Len(consumers) /\ pos \in 1..last + 1

\* The queue holds what was accepted and not yet taken, in the order of the
\* FireNewEvent calls.
QueueIsRestOfLog ==
  /\ taken + Len(queue) = Len(accepted)
  /\ \A i \in 1..Len(queue) : queue[i] = accepted[taken + i]

\* The consumers the loop has still to reach.
Outstanding == (IF worker = "callback" THEN pos + 1 ELSE pos) .. last

\* The consumers are in step: when the worker is between two dispatches every
\* consumer has had every event it wants that was taken since it registered;
\* during a dispatch only the event in hand can be missing, and only for the
\* consumers the loop has still to reach.  No consumer runs ahead of another
\* by an event, and the effects of a callback are never seen before their cause.
NoConsumerFallsBehind ==
  \A i \in 1..Len(consumers) :
    \A p \in consumers[i].seen + 1 .. taken :
      Wants(consumers[i].filter, accepted[p]) =>
        /\ p = taken /\ event # Idle
        /\ worker \in {"dispatch", "callback", "crashed"} /\ i \in Outstanding

\* What the worker holds is the event it has just taken, and the consumers it
\* has still to reach have not had it.
DispatchIsCurrent ==
  /\ worker = "callback" => pos <= last
  /\ \A i \in 1..Len(consumers) : consumers[i].seen <= taken
  /\ (Active /\ event # Idle) =>
       /\ taken > 0 /\ event = accepted[taken]
       /\ \A i \in Outstanding : consumers[i].seen < taken

\* The inductive strengthening of TypeOK and NoConsumerFallsBehind.
BusInv == TypeOK /\ QueueIsRestOfLog /\ NoConsumerFallsBehind /\ DispatchIsCurrent

\* The manager implements the broadcast log: each consumer gets the events it
\* wants in the order they were fired, each once, and none from before it joined.
Log == INSTANCE BroadcastLog WITH log <- accepted, members <- consumers
ImplementsBroadcastLog == Log!Spec

\* Every event that was accepted is taken by the worker in the end, however many
\* idle rounds and callbacks come first, unless the manager is stopped or dies.
AcceptedIsDispatched ==
  \A k \in 1..MaxEvents :
    (Len(accepted) >= k) ~> (taken >= k \/ ~run \/ Crashed)

\* Deinit returns: the worker it joins stops, with an empty queue (nobody will
\* wake it) and with a full one (what is left is not worked off).
DeinitReturns == ~run ~> worker \in {"stopped", "crashed"}
=============================================================================
