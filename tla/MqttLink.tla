------------------------------ MODULE MqttLink ------------------------------
(***************************************************************************)
(* MqttConnector between the broker and the event manager.  Its thread     *)
(* (mosquitto's) connects, subscribes and registers with the event manager *)
(* after every connect, and fires what it receives; the event worker hands *)
(* PublishMqtt events to each of these registrations and MqttValue events  *)
(* to the script, which fires again.                                       *)
(*                                                                         *)
(* The broker and libmosquitto are modelled from their use: the session is *)
(* a clean one (a break loses subscriptions and what was under way), the   *)
(* quality of service of publications is 0, and after a first connect the  *)
(* library connects again by itself.  What has left a broken connection    *)
(* has not reached the broker: a loss on the way is a break just before.   *)
(***************************************************************************)
EXTENDS Integers, Sequences, FiniteSets

CONSTANTS Topics,        \* GetWatchTopics(): filters of which no two overlap
          Notify,        \* SimpleIo/Variable/notify
          MaxConnects,   \* bound on the sessions
          MaxPosts,      \* bound on the values posted to the REST interface
          MaxSends       \* bound on the messages other clients of the broker send

ASSUME LinkAssumption == /\ Notify \in Topics
                         /\ MaxConnects \in Nat /\ MaxPosts \in Nat /\ MaxSends \in Nat

VARIABLES
  up,         \* the broker can be reached
  thread,     \* where the MQTT thread stands
  todo,       \* the topics Connected has still to subscribe to
  session,    \* the broker has a session for the server
  subs,       \* its subscriptions
  wire,       \* the messages the broker has sent and the server has not read
  initOk,     \* _initOk
  consumers,  \* _eventConsumer, as far as it matters: "backend" and "mqtt"
  queue,      \* _eventQueue
  hand,       \* the event the worker hands out
  pos,        \* its iterator over the consumers
  last,       \* the end of its iteration
  say,        \* what the script has still to fire
  connects, posts, sends, messages,  \* how many there were
  accepted,   \* history: every event the queue has held
  taken,      \* history: how many of them the worker has taken
  out,        \* history: the positions in accepted of what has reached the broker
  opened,     \* history: how often Connected has run
  due,        \* history: how often it had when the worker took each event
  lost,       \* history: the positions of which a publication has not reached it
  heard       \* history: the messages the script was called with

broker == <<up, session, subs, wire, messages>>
client == <<thread, todo, initOk, opened>>
worker == <<hand, pos, last, say, taken, due>>
events == <<queue, accepted>>
vars   == <<broker, client, worker, events, consumers, connects, posts, sends, out, lost,
            heard>>

Message   == [topic : Topics, value : {"ON", "OFF"}, number : Nat]

\* Events.  The number is that of the message received or answered, 0 for a posted value;
\* at is set when the event is fired.  The value of an incomplete body is "missing".
Event(k, t, v, n) == [kind |-> k, topic |-> t, value |-> v, number |-> n, at |-> 0]
PublishMqtt(v, n) == Event("PublishMqtt", Notify, v, n)
Action(n)         == Event("Action", Notify, "ON", n)

\* What OnMessage fires; the mutation leaves the topic out.
ValueOnly(m) == [kind |-> "MqttValue", value |-> m.value, number |-> m.number, at |-> 0]
MqttValue(m) == Event("MqttValue", m.topic, m.value, m.number)

Idle == say = <<>> /\ pos > last
Registrations == Cardinality({i \in DOMAIN consumers : consumers[i] = "mqtt"})

Init ==
  /\ up \in BOOLEAN /\ thread = "none" /\ todo = {} /\ session = FALSE /\ subs = {}
  /\ wire = <<>> /\ initOk = FALSE /\ consumers = <<>> /\ queue = <<>> /\ hand = Action(0)
  /\ pos = 1 /\ last = 0 /\ say = <<>>
  /\ connects = 0 /\ posts = 0 /\ sends = 0 /\ messages = 0
  /\ accepted = <<>> /\ taken = 0 /\ out = <<>> /\ due = <<>> /\ lost = {} /\ heard = <<>>
  /\ opened = 0

-----------------------------------------------------------------------------
(* The broker and the network.                                             *)

\* The broker sends what is published on a topic to a session that subscribes to it.
Deliver(t, v) ==
  IF session /\ t \in subs
  THEN /\ wire' = Append(wire, [topic |-> t, value |-> v, number |-> messages + 1])
       /\ messages' = messages + 1
  ELSE UNCHANGED <<wire, messages>>

Send(t, v) ==
  /\ up /\ sends < MaxSends /\ sends' = sends + 1 /\ Deliver(t, v)
  /\ UNCHANGED <<up, session, subs, client, worker, events, consumers, connects, posts, out,
                 lost, heard>>

\* The connection breaks, also because the broker goes away.  What had arrived by then
\* can still be read.  The last session stays (bound).
Break(reachable) ==
  /\ up /\ (session => connects < MaxConnects) /\ (session \/ ~reachable)
  /\ up' = reachable /\ session' = FALSE /\ subs' = {}
  /\ \E n \in 0..Len(wire) : wire' = SubSeq(wire, 1, n)
  /\ UNCHANGED <<client, worker, events, consumers, connects, posts, sends, messages, out,
                 lost, heard>>

Return ==
  /\ ~up /\ up' = TRUE
  /\ UNCHANGED <<session, subs, wire, messages, client, worker, events, consumers, connects,
                 posts, sends, out, lost, heard>>

-----------------------------------------------------------------------------
(* Events: FireNewEvent, and the consumer main registers when it starts.   *)

\* The mutation puts the event before those that wait.
Stamped(e)      == [e EXCEPT !.at = Len(accepted) + 1]
AddFirst(q, e)  == <<e>> \o q
Add(q, e)       == Append(q, e)
Fire(e) == IF consumers = <<>> THEN UNCHANGED events
           ELSE queue' = Add(queue, Stamped(e)) /\ accepted' = Append(accepted, Stamped(e))

StartBackend ==
  /\ thread # "none" /\ \A i \in DOMAIN consumers : consumers[i] # "backend"
  /\ consumers' = Append(consumers, "backend")
  /\ UNCHANGED <<broker, client, worker, events, connects, posts, sends, out, lost, heard>>

\* POST .../mqtt/set, once the web server is started, which is after the connector.  The
\* body is the event's parameter, complete or not.
Post(v) ==
  /\ thread # "none" /\ posts < MaxPosts /\ posts' = posts + 1
  /\ Fire(PublishMqtt(v, 0))
  /\ UNCHANGED <<broker, client, worker, consumers, connects, sends, out, lost, heard>>

-----------------------------------------------------------------------------
(* The connector: Init on main, then its own thread.                       *)

\* Without a broker Init returns before the thread is started.
InitConnector ==
  /\ thread = "none" /\ thread' = IF up THEN "connecting" ELSE "failed"
  /\ UNCHANGED <<broker, todo, initOk, opened, worker, events, consumers, connects, posts, sends,
                 out, lost, heard>>

\* A new session: nothing of an earlier one is left.
Connect ==
  /\ thread = "connecting" /\ up
  /\ connects' = connects + 1 /\ session' = TRUE /\ subs' = {} /\ wire' = <<>>
  /\ thread' = "connected"
  /\ UNCHANGED <<up, messages, todo, initOk, opened, worker, events, consumers, posts, sends, out,
                 lost, heard>>

\* my_connect_callback: the broker's own topics first.  Only a connection that is broken
\* again can make that fail, and then Connected is not called.
ConnectCallback ==
  /\ thread = "connected"
  /\ \/ thread' = "subscribing" /\ todo' = Topics
     \/ ~session /\ thread' = "loop" /\ UNCHANGED todo
  /\ UNCHANGED <<broker, initOk, opened, worker, events, consumers, connects, posts, sends, out,
                 lost, heard>>

\* Connected.  The mutation subscribes at the first connect only.
FirstTime(t) == subs' = IF session /\ connects = 1 THEN subs \cup {t} ELSE subs
Subscribe(t) == subs' = IF session THEN subs \cup {t} ELSE subs
SubscribeTopic(t) ==
  /\ thread = "subscribing" /\ t \in todo /\ todo' = todo \ {t} /\ Subscribe(t)
  /\ UNCHANGED <<up, session, wire, messages, thread, initOk, opened, worker, events, consumers,
                 connects, posts, sends, out, lost, heard>>

SetInitOk ==
  /\ thread = "subscribing" /\ todo = {}
  /\ initOk' = TRUE /\ thread' = "ready"
  /\ UNCHANGED <<broker, todo, opened, worker, events, consumers, connects, posts, sends, out, lost,
                 heard>>

\* It registers once more at every connect; the mutations do so never, and once.
RegisterNever == consumers
RegisterOnce == IF Registrations = 0 THEN Append(consumers, "mqtt") ELSE consumers
RegisterMe   == Append(consumers, "mqtt")
Register ==
  /\ thread = "ready"
  /\ consumers' = RegisterMe /\ thread' = "loop" /\ opened' = opened + 1
  /\ UNCHANGED <<broker, todo, initOk, worker, events, connects, posts, sends, out, lost,
                 heard>>

\* OnMessage.
OnMessage ==
  /\ thread = "loop" /\ wire # <<>>
  /\ wire' = Tail(wire) /\ Fire(MqttValue(Head(wire)))
  /\ UNCHANGED <<up, session, subs, messages, client, worker, consumers, connects, posts,
                 sends, out, lost, heard>>

\* The library notices that the connection is gone.
Notice ==
  /\ thread = "loop" /\ ~session /\ thread' = "connecting"
  /\ UNCHANGED <<broker, todo, initOk, opened, worker, events, consumers, connects, posts, sends,
                 out, lost, heard>>

-----------------------------------------------------------------------------
(* The event worker.                                                       *)

Take ==
  /\ Idle /\ queue # <<>>
  /\ hand' = Head(queue) /\ queue' = Tail(queue) /\ taken' = taken + 1
  /\ pos' = 1 /\ last' = Len(consumers)
  /\ due' = Append(due, opened)
  /\ UNCHANGED <<broker, client, say, accepted, consumers, connects, posts, sends, out, lost,
                 heard>>

\* A consumer that does not want the event, or (EventCallback's "Missing data") cannot
\* use it.
Wanted == \/ consumers[pos] = "mqtt" /\ hand.kind = "PublishMqtt" /\ hand.value # "missing"
          \/ consumers[pos] = "backend" /\ hand.kind = "MqttValue"
Pass ==
  /\ say = <<>> /\ pos <= last /\ ~Wanted /\ pos' = pos + 1
  /\ UNCHANGED <<broker, client, hand, last, say, taken, due, events, consumers, connects,
                 posts, sends, out, lost, heard>>

\* EventCallback and Publish: dropped before the first connect, and lost while the
\* connection is broken; otherwise the broker has it, and may send it back.
Publish ==
  /\ say = <<>> /\ pos <= last /\ Wanted /\ consumers[pos] = "mqtt" /\ pos' = pos + 1
  /\ IF initOk /\ session
     THEN out' = Append(out, hand.at) /\ Deliver(hand.topic, hand.value) /\ UNCHANGED lost
     ELSE lost' = lost \cup {hand.at} /\ UNCHANGED <<out, wire, messages>>
  /\ UNCHANGED <<up, session, subs, client, hand, last, say, taken, due, events, consumers,
                 connects, posts, sends, heard>>

\* callbackMqtt of sample.py: a notification is switched off again.
Answered(e)  == e.topic = Notify /\ e.value = "ON"
RunScript ==
  /\ say = <<>> /\ pos <= last /\ Wanted /\ consumers[pos] = "backend" /\ pos' = pos + 1
  /\ heard' = Append(heard, [number |-> hand.number, on |-> Answered(hand)])
  /\ say' = IF Answered(hand) THEN <<Action(hand.number), PublishMqtt("OFF", hand.number)>> ELSE <<>>
  /\ UNCHANGED <<broker, client, hand, last, taken, due, events, consumers, connects, posts,
                 sends, out, lost>>

\* connector.Action and connector.WriteMqtt.
Say ==
  /\ say # <<>> /\ say' = Tail(say) /\ Fire(Head(say))
  /\ UNCHANGED <<broker, client, hand, pos, last, taken, due, consumers, connects, posts,
                 sends, out, lost, heard>>

-----------------------------------------------------------------------------
Connecting == \/ Connect \/ ConnectCallback \/ SetInitOk \/ Register \/ Notice
              \/ \E t \in Topics : SubscribeTopic(t)
Working    == Take \/ Pass \/ Publish \/ RunScript \/ Say

Next == \/ \E t \in Topics, v \in {"ON", "OFF"} : Send(t, v)
        \/ \E r \in BOOLEAN : Break(r)
        \/ Return \/ StartBackend \/ InitConnector
        \/ \E v \in {"ON", "OFF", "missing"} : Post(v)
        \/ Connecting \/ OnMessage \/ Working

Spec == Init /\ [][Next]_vars

\* main goes through its start-up, and both threads go on.  Nothing is asked of the
\* broker, the network or the users.
FairSpec == /\ Spec /\ WF_vars(InitConnector) /\ WF_vars(StartBackend)
            /\ WF_vars(Connecting) /\ WF_vars(OnMessage) /\ WF_vars(Working)

-----------------------------------------------------------------------------
(* Properties.                                                             *)

EventsOf(kinds) == [kind : kinds, topic : Topics, value : {"ON", "OFF", "missing"},
                    number : Nat, at : Nat]
Events          == EventsOf({"PublishMqtt", "MqttValue", "Action"})
Answers         == EventsOf({"PublishMqtt", "Action"})

TypeOK ==
  /\ up \in BOOLEAN /\ session \in BOOLEAN /\ initOk \in BOOLEAN
  /\ thread \in {"none", "failed", "connecting", "connected", "subscribing", "ready", "loop"}
  /\ todo \subseteq Topics /\ subs \subseteq Topics /\ wire \in Seq(Message)
  /\ consumers \in Seq({"backend", "mqtt"}) /\ hand \in Events
  /\ queue \in Seq(Events) /\ say \in Seq(Answers) /\ accepted \in Seq(Events)
  /\ last \in 0..Len(consumers) /\ pos \in 1..last + 1
  /\ connects \in Nat /\ posts \in Nat /\ sends \in Nat /\ messages \in Nat
  /\ taken \in Nat /\ due \in Seq(Nat) /\ lost \subseteq Nat
  /\ out \in Seq(Nat) /\ opened \in Nat
  /\ heard \in Seq([number : Nat, on : BOOLEAN])

\* The queue is the part of accepted that was not taken yet, and the worker has in hand
\* what it took last.
QueueIsRest ==
  /\ \A p \in 1..Len(accepted) : accepted[p].at = p
  /\ taken + Len(queue) = Len(accepted)
  /\ \A i \in 1..Len(queue) : queue[i] = accepted[taken + i]
  /\ IF taken = 0 THEN last = 0 ELSE hand = accepted[taken]

\* Whatever connects, breaks and registrations there are: none of the values that reach the
\* broker does so after one that was fired later.
PublishedInOrder ==
  \A i, j \in DOMAIN out : i <= j => out[i] <= out[j]

\* Messages are read, queued and handed out in the order in which they were sent: what lies on
\* the wire is newer than what was accepted.
IsMessage(p) == accepted[p].kind = "MqttValue"
MessagesInOrder ==
  /\ \A i \in 1..Len(wire) : wire[i].number \in 1..messages
  /\ \A i, j \in 1..Len(wire) : i < j => wire[i].number < wire[j].number
  /\ \A p \in 1..Len(accepted) :
       IsMessage(p) => /\ accepted[p].number \in 1..messages
                       /\ \A i \in 1..Len(wire) : accepted[p].number < wire[i].number
  /\ \A p, q \in 1..Len(accepted) :
       (p < q /\ IsMessage(p) /\ IsMessage(q)) => accepted[p].number < accepted[q].number

\* The script is called for the backend, of which there is one, and has heard of the event
\* in hand only when the iterator is past it.
HeardWasTaken ==
  /\ \A i, j \in 1..Len(consumers) : (consumers[i] = "backend" /\ consumers[j] = "backend") => i = j
  /\ \A i \in 1..Len(heard) :
       \E p \in 1..taken : /\ IsMessage(p) /\ accepted[p].number = heard[i].number
                           /\ p = taken => \E k \in 1..pos - 1 : consumers[k] = "backend"

\* The script is called with the messages in the order in which the broker sent them, with
\* none twice, over all sessions.
HeardInOrder ==
  \A i, j \in DOMAIN heard : i < j => heard[i].number < heard[j].number

\* The inductive strengthening of TypeOK, PublishedInOrder and HeardInOrder: positions of what
\* was published and heard belong to events that were taken, and queue, wire and hand hold
\* what is still to come in its order.
LinkInv == /\ TypeOK /\ QueueIsRest
           /\ PublishedInOrder /\ \A i \in DOMAIN out : out[i] \in 1..taken
           /\ MessagesInOrder /\ HeardWasTaken /\ HeardInOrder

\* What is published while the connection holds, is published once for every time the
\* broker had been connected by then: after a reconnect, twice.
Copies(p)   == Cardinality({i \in DOMAIN out : out[i] = p})
Done(p)     == p < taken \/ (p = taken /\ Idle)
OncePerConnect ==
  \A p \in 1..taken :
    (Done(p) /\ p \notin lost /\ accepted[p].kind = "PublishMqtt" /\ accepted[p].value # "missing")
      => Copies(p) = due[p]

\* The server is a repeater: it may lose and repeat, but not swap.
Repeater == INSTANCE RepeaterLog WITH
              size <- Len(accepted)
ImplementsRepeater == Repeater!Spec

\* If the broker stays within reach, all topics are subscribed again and values are
\* published, however many connections broke before, also in the middle of subscribing -
\* but not if it was away when the server started.
SubscriptionsReturn ==
  <>[]up => <>[](\/ thread = "failed"
                 \/ session /\ subs = Topics /\ initOk /\ Registrations > 0)

\* A notification that the script hears is switched off again: its answer reaches the
\* broker, unless the connection is broken when it is published.  (As the bounds let only
\* some notifications come, there is a time at which none waits for its answer.)
AnswerOf(p, n) == accepted[p].kind = "PublishMqtt" /\ accepted[p].number = n
IsAnswered(n)  == \/ \E i \in DOMAIN out : AnswerOf(out[i], n)
                  \/ \E p \in lost : AnswerOf(p, n)
NotifyIsAnswered ==
  []<>(\A i \in DOMAIN heard : heard[i].on => IsAnswered(heard[i].number))
=============================================================================
