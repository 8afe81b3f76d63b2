--------------------------- MODULE MqttLinkProofs ---------------------------
(***************************************************************************)
(* MqttLink for any topics and bounds: its state is well typed, values     *)
(* reach the broker and messages reach the script in order, it implements  *)
(* the repeater, and it publishes a value once for each time the connector *)
(* had been connected when the worker took it.                             *)
(***************************************************************************)
EXTENDS MqttLink, SequenceTheorems, FiniteSetTheorems, TLAPS

(* The lengths and elements the steps below compute with.                  *)
LEMMA Lengths ==
  ASSUME TypeOK
  PROVE  /\ Len(wire) \in Nat /\ Len(consumers) \in Nat /\ Len(queue) \in Nat
         /\ Len(accepted) \in Nat /\ Len(out) \in Nat /\ Len(heard) \in Nat
         /\ Len(say) \in Nat
         /\ DOMAIN out = 1..Len(out) /\ DOMAIN heard = 1..Len(heard)
         /\ \A i \in 1..Len(wire) : wire[i] \in Message
         /\ \A p \in 1..Len(accepted) : accepted[p] \in Events
         /\ \A i \in 1..Len(out) : out[i] \in Nat
         /\ \A i \in 1..Len(heard) : heard[i] \in [number : Nat, on : BOOLEAN]
<1>1. /\ Len(wire) \in Nat /\ Len(consumers) \in Nat /\ Len(queue) \in Nat
      /\ Len(accepted) \in Nat /\ Len(out) \in Nat /\ Len(heard) \in Nat /\ Len(say) \in Nat
      /\ DOMAIN out = 1..Len(out) /\ DOMAIN heard = 1..Len(heard)
  BY LenProperties DEF TypeOK
<1>2. \A i \in 1..Len(wire) : wire[i] \in Message
  BY ElementOfSeq DEF TypeOK
<1>3. \A p \in 1..Len(accepted) : accepted[p] \in Events
  BY ElementOfSeq DEF TypeOK
<1>4. \A i \in 1..Len(out) : out[i] \in Nat
  BY ElementOfSeq DEF TypeOK
<1>5. \A i \in 1..Len(heard) : heard[i] \in [number : Nat, on : BOOLEAN]
  BY ElementOfSeq DEF TypeOK
<1> QED
  BY <1>1, <1>2, <1>3, <1>4, <1>5

LEMMA InitInv == Init => LinkInv
<1> SUFFICES ASSUME Init PROVE LinkInv
  OBVIOUS
<1> USE DEF Init
<1>1. Action(0) \in Events
  BY LinkAssumption DEF Action, Event, Events, EventsOf
<1>2. /\ <<>> \in Seq(Message) /\ <<>> \in Seq(Events) /\ <<>> \in Seq(Answers) /\ <<>> \in Seq(Nat)
      /\ <<>> \in Seq({"backend", "mqtt"}) /\ <<>> \in Seq([number : Nat, on : BOOLEAN])
      /\ Len(<<>>) = 0
  BY EmptySeq
<1>3. last \in 0..Len(consumers) /\ pos \in 1..last + 1
  BY <1>2
<1>4. TypeOK
  BY <1>1, <1>2, <1>3 DEF TypeOK
<1>5. QueueIsRest
  BY <1>2 DEF QueueIsRest
<1>6. DOMAIN out = {} /\ DOMAIN heard = {}
  BY <1>2, <1>4, Lengths
<1>7. PublishedInOrder /\ HeardInOrder /\ \A i \in DOMAIN out : out[i] \in 1..taken
  BY <1>6 DEF PublishedInOrder, HeardInOrder
<1>8. MessagesInOrder /\ HeardWasTaken
  BY <1>2 DEF MessagesInOrder, HeardWasTaken
<1> QED
  BY <1>4, <1>5, <1>7, <1>8 DEF LinkInv

(* What the broker delivers is newer than all messages before it.          *)
LEMMA DeliverInOrder ==
  ASSUME LinkInv, NEW t \in Topics, NEW v \in {"ON", "OFF"}, Deliver(t, v), UNCHANGED accepted
  PROVE  wire' \in Seq(Message) /\ messages' \in Nat /\ MessagesInOrder'
<1>0. TypeOK /\ MessagesInOrder /\ Len(wire) \in Nat
  BY Lengths DEF LinkInv
<1>1. CASE UNCHANGED <<wire, messages>>
  BY <1>0, <1>1 DEF TypeOK, MessagesInOrder, IsMessage
<1>2. CASE ~UNCHANGED <<wire, messages>>
  <2> DEFINE new == [topic |-> t, value |-> v, number |-> messages + 1]
  <2>1. messages' = messages + 1 /\ wire' = Append(wire, new) /\ messages \in Nat
    BY <1>0, <1>2 DEF Deliver, TypeOK
  <2>2. new \in Message
    BY <1>0, <2>1 DEF Message
  <2>3. /\ wire' \in Seq(Message) /\ Len(wire') = Len(wire) + 1
        /\ \A i \in 1..Len(wire) : wire'[i] = wire[i]
        /\ wire'[Len(wire) + 1] = new
    BY <1>0, <2>1, <2>2, AppendProperties DEF TypeOK
  <2>4. new.number = messages + 1
    OBVIOUS
  <2> HIDE DEF new
  <2>5. MessagesInOrder'
    <3>1. \A i \in 1..Len(wire') : wire'[i].number \in 1..messages'
      BY <1>0, <2>1, <2>3, <2>4 DEF MessagesInOrder
    <3>2. \A i, j \in 1..Len(wire') : i < j => wire'[i].number < wire'[j].number
      <4> SUFFICES ASSUME NEW i \in 1..Len(wire'), NEW j \in 1..Len(wire'), i < j
                   PROVE  wire'[i].number < wire'[j].number
        OBVIOUS
      <4>1. i \in 1..Len(wire) /\ wire'[i] = wire[i] /\ wire[i].number \in 1..messages
        BY <1>0, <2>3 DEF MessagesInOrder
      <4>2. CASE j = Len(wire) + 1
        BY <1>0, <4>1, <4>2, <2>1, <2>3, <2>4
      <4>3. CASE j # Len(wire) + 1
        <5>1. j \in 1..Len(wire) /\ wire'[j] = wire[j]
          BY <1>0, <4>3, <2>3
        <5> QED
          BY <1>0, <5>1, <4>1 DEF MessagesInOrder
      <4> QED
        BY <1>0, <4>2, <4>3
    <3>3. \A p \in 1..Len(accepted) : \A i \in 1..Len(wire') :
            IsMessage(p) => accepted[p].number < wire'[i].number
      BY <1>0, <2>1, <2>3, <2>4 DEF MessagesInOrder
    <3>4. \A p \in 1..Len(accepted) : IsMessage(p) => accepted[p].number \in 1..messages'
      BY <1>0, <2>1 DEF MessagesInOrder
    <3> QED
      BY <1>0, <3>1, <3>2, <3>3, <3>4 DEF MessagesInOrder, IsMessage
  <2> QED
    BY <1>0, <2>1, <2>3, <2>5
<1> QED
  BY <1>1, <1>2

(* An event that is fired is the last one, in the queue and in accepted.    *)
LEMMA FireInOrder ==
  ASSUME LinkInv, NEW e \in Events, Fire(e), UNCHANGED <<hand, last, taken>>
  PROVE  /\ queue' \in Seq(Events) /\ accepted' \in Seq(Events) /\ QueueIsRest'
         /\ Len(accepted') \in {Len(accepted), Len(accepted) + 1}
         /\ \A p \in 1..Len(accepted) : accepted'[p] = accepted[p]
         /\ Len(accepted') = Len(accepted) + 1
              => /\ accepted'[Len(accepted) + 1].kind = e.kind
                 /\ accepted'[Len(accepted) + 1].number = e.number
<1>0. TypeOK /\ QueueIsRest /\ Len(queue) \in Nat /\ Len(accepted) \in Nat
  BY Lengths DEF LinkInv
<1>1. CASE UNCHANGED events
  BY <1>0, <1>1 DEF TypeOK, QueueIsRest, events
<1>2. CASE ~UNCHANGED events
  <2> DEFINE new == Stamped(e)
  <2>1. queue' = Append(queue, new) /\ accepted' = Append(accepted, new)
    BY <1>0, <1>2 DEF Fire, Add, events
  <2>2. /\ new \in Events /\ new.kind = e.kind /\ new.number = e.number
        /\ new.at = Len(accepted) + 1
    <3>1. Len(accepted) + 1 \in Nat
      BY <1>0 DEF TypeOK
    <3> QED
      BY <1>0, <3>1 DEF Stamped, Events, EventsOf
  <2> HIDE DEF new
  <2>3. /\ queue' \in Seq(Events) /\ Len(queue') = Len(queue) + 1
        /\ \A i \in 1..Len(queue) : queue'[i] = queue[i]
        /\ queue'[Len(queue) + 1] = new
    BY <1>0, <2>1, <2>2, AppendProperties DEF TypeOK
  <2>4. /\ accepted' \in Seq(Events) /\ Len(accepted') = Len(accepted) + 1
        /\ \A i \in 1..Len(accepted) : accepted'[i] = accepted[i]
        /\ accepted'[Len(accepted) + 1] = new
    BY <1>0, <2>1, <2>2, AppendProperties DEF TypeOK
  <2>5. taken \in Nat
    BY <1>0 DEF TypeOK
  <2>6. QueueIsRest'
    <3>1. \A p \in 1..Len(accepted') : accepted'[p].at = p
      BY <1>0, <2>2, <2>4 DEF QueueIsRest
    <3>2. taken + Len(queue') = Len(accepted')
      <4>1. taken + Len(queue) = Len(accepted)
        BY <1>0 DEF QueueIsRest
      <4> QED
        BY <1>0, <4>1, <2>3, <2>4, <2>5
    <3>3. \A i \in 1..Len(queue') : queue'[i] = accepted'[taken + i]
      <4> SUFFICES ASSUME NEW i \in 1..Len(queue') PROVE queue'[i] = accepted'[taken + i]
        OBVIOUS
      <4>1. CASE i = Len(queue) + 1
        <5>1. taken + i = Len(accepted) + 1
          BY <1>0, <4>1, <2>5 DEF QueueIsRest
        <5> QED
          BY <5>1, <4>1, <2>3, <2>4
      <4>2. CASE i # Len(queue) + 1
        <5>1. i \in 1..Len(queue) /\ taken + i \in 1..Len(accepted)
          BY <1>0, <4>2, <2>3, <2>5 DEF QueueIsRest
        <5> QED
          BY <1>0, <5>1, <2>3, <2>4 DEF QueueIsRest
      <4> QED
        BY <1>0, <4>1, <4>2
    <3>4. taken # 0 => hand = accepted'[taken]
      BY <1>0, <2>4, <2>5 DEF QueueIsRest
    <3> QED
      BY <1>0, <3>1, <3>2, <3>3, <3>4 DEF QueueIsRest
  <2> QED
    BY <1>0, <2>2, <2>3, <2>4, <2>6
<1> QED
  BY <1>1, <1>2

(* Firing something else than a message leaves the order of messages alone. *)
LEMMA FireKeepsMessages ==
  ASSUME LinkInv, NEW e \in Events, e.kind # "MqttValue", Fire(e),
         UNCHANGED <<hand, last, taken, wire, messages>>
  PROVE  MessagesInOrder' /\ \A p \in 1..taken : IsMessage(p)' = IsMessage(p)
<1> USE Lengths, FireInOrder DEF LinkInv
<1>1. \A p \in 1..Len(accepted') :
        IsMessage(p)' => p \in 1..Len(accepted) /\ IsMessage(p)
  BY DEF IsMessage
<1>2. MessagesInOrder'
  BY <1>1 DEF MessagesInOrder
<1>3. \A p \in 1..taken : p \in 1..Len(accepted)
  BY DEF QueueIsRest, TypeOK
<1> QED
  BY <1>2, <1>3 DEF IsMessage

(* Steps that leave the events, the worker and the consumers as they are.  *)
LEMMA Undisturbed ==
  ASSUME LinkInv, TypeOK', MessagesInOrder',
         UNCHANGED <<accepted, queue, taken, hand, last, pos, consumers, out, heard>>
  PROVE  LinkInv'
<1>1. QueueIsRest' /\ HeardWasTaken'
  BY DEF LinkInv, QueueIsRest, HeardWasTaken, IsMessage
<1>2. PublishedInOrder' /\ HeardInOrder' /\ \A i \in DOMAIN out' : out'[i] \in 1..taken'
  BY DEF LinkInv, PublishedInOrder, HeardInOrder
<1> QED
  BY <1>1, <1>2 DEF LinkInv

LEMMA MovesOn ==
  ASSUME NEW a \in Nat, NEW b \in {a, a + 1}
  PROVE  \A k \in 1..a - 1 : k \in 1..b - 1
OBVIOUS

(* What was heard was taken: events are added and the iterator moves on.   *)
LEMMA HeardStays ==
  ASSUME LinkInv, UNCHANGED <<taken, consumers, heard>>, pos' \in {pos, pos + 1},
         \A p \in 1..Len(accepted) : accepted'[p] = accepted[p]
  PROVE  HeardWasTaken'
<1>1. /\ HeardWasTaken /\ pos \in Nat /\ taken \in Nat /\ Len(accepted) \in Nat
      /\ 1..taken \subseteq 1..Len(accepted)
  BY Lengths DEF LinkInv, TypeOK, QueueIsRest
<1>2. \A k \in 1..pos - 1 : k \in 1..pos' - 1
  BY <1>1, MovesOn
<1>3. ASSUME NEW i \in 1..Len(heard)
      PROVE  \E p \in 1..taken' :
               /\ IsMessage(p)' /\ accepted'[p].number = heard'[i].number
               /\ p = taken' => \E k \in 1..pos' - 1 : consumers'[k] = "backend"
  <2>1. PICK p \in 1..taken :
               /\ IsMessage(p) /\ accepted[p].number = heard[i].number
               /\ p = taken => \E k \in 1..pos - 1 : consumers[k] = "backend"
    BY <1>1 DEF HeardWasTaken
  <2>2. accepted'[p] = accepted[p]
    BY <1>1
  <2> QED
    BY <2>1, <2>2, <1>2 DEF IsMessage
<1> QED
  BY <1>1, <1>3 DEF HeardWasTaken

(* Firing keeps everything but, if it fires a message, the order of these.  *)
LEMMA FireInv ==
  ASSUME LinkInv, TypeOK', MessagesInOrder', NEW e \in Events, Fire(e),
         UNCHANGED <<taken, hand, last, pos, consumers, out, heard>>
  PROVE  LinkInv'
<1>1. QueueIsRest' /\ \A p \in 1..Len(accepted) : accepted'[p] = accepted[p]
  BY FireInOrder
<1>2. HeardWasTaken'
  BY <1>1, HeardStays
<1>3. PublishedInOrder' /\ HeardInOrder' /\ \A i \in DOMAIN out' : out'[i] \in 1..taken'
  BY DEF LinkInv, PublishedInOrder, HeardInOrder
<1> QED
  BY <1>1, <1>2, <1>3 DEF LinkInv

-----------------------------------------------------------------------------
(* The broker and the connection.                                          *)

LEMMA SendInv ==
  ASSUME LinkInv, NEW t \in Topics, NEW v \in {"ON", "OFF"}, Send(t, v)
  PROVE  LinkInv'
<1>1. wire' \in Seq(Message) /\ messages' \in Nat /\ MessagesInOrder'
  BY DeliverInOrder DEF Send, events
<1>2. TypeOK'
  BY <1>1 DEF LinkInv, TypeOK, Send, client, worker, events
<1> QED
  BY <1>1, <1>2, Undisturbed DEF Send, worker, events

LEMMA BreakInv ==
  ASSUME LinkInv, NEW r \in BOOLEAN, Break(r)
  PROVE  LinkInv'
<1>0. TypeOK /\ MessagesInOrder /\ Len(wire) \in Nat
  BY Lengths DEF LinkInv
<1>1. PICK n \in 0..Len(wire) : wire' = SubSeq(wire, 1, n)
  BY DEF Break
<1>2. /\ wire' \in Seq(Message) /\ Len(wire') = n
      /\ \A i \in 1..n : wire'[i] = wire[i] /\ i \in 1..Len(wire)
  <2>1. \A i \in 1..n : wire[i] \in Message
    BY <1>0, Lengths
  <2> QED
    BY <1>0, <1>1, <2>1, SubSeqProperties DEF TypeOK
<1>3. MessagesInOrder'
  BY <1>0, <1>2 DEF MessagesInOrder, IsMessage, Break, events
<1>4. TypeOK'
  BY <1>0, <1>2 DEF TypeOK, Break, client, worker, events
<1> QED
  BY <1>3, <1>4, Undisturbed DEF Break, worker, events

LEMMA ConnectInv == ASSUME LinkInv, Connect PROVE LinkInv'
<1>1. wire' = <<>> /\ wire' \in Seq(Message) /\ Len(wire') = 0
  BY EmptySeq DEF Connect
<1>2. MessagesInOrder'
  BY <1>1 DEF LinkInv, MessagesInOrder, IsMessage, Connect, events
<1>3. TypeOK'
  BY <1>1 DEF LinkInv, TypeOK, Connect, worker, events
<1> QED
  BY <1>2, <1>3, Undisturbed DEF Connect, worker, events

(* The other steps of the network and of the connector's thread.           *)
LEMMA ThreadInv ==
  ASSUME LinkInv,
         \/ Return \/ InitConnector \/ ConnectCallback \/ SetInitOk \/ Notice
         \/ \E t \in Topics : SubscribeTopic(t)
  PROVE  LinkInv'
<1>1. CASE Return
  <2>1. TypeOK' /\ MessagesInOrder'
    BY <1>1 DEF LinkInv, TypeOK, MessagesInOrder, IsMessage, Return, client, worker, events
  <2> QED
    BY <1>1, <2>1, Undisturbed DEF Return, worker, events
<1>2. CASE InitConnector
  <2>1. TypeOK' /\ MessagesInOrder'
    BY <1>2 DEF LinkInv, TypeOK, MessagesInOrder, IsMessage, InitConnector, broker, worker, events
  <2> QED
    BY <1>2, <2>1, Undisturbed DEF InitConnector, worker, events
<1>3. CASE ConnectCallback
  <2>1. TypeOK' /\ MessagesInOrder'
    BY <1>3 DEF LinkInv, TypeOK, MessagesInOrder, IsMessage, ConnectCallback, broker, worker, events
  <2> QED
    BY <1>3, <2>1, Undisturbed DEF ConnectCallback, worker, events
<1>4. CASE SetInitOk
  <2>1. TypeOK' /\ MessagesInOrder'
    BY <1>4 DEF LinkInv, TypeOK, MessagesInOrder, IsMessage, SetInitOk, broker, worker, events
  <2> QED
    BY <1>4, <2>1, Undisturbed DEF SetInitOk, worker, events
<1>5. CASE Notice
  <2>1. TypeOK' /\ MessagesInOrder'
    BY <1>5 DEF LinkInv, TypeOK, MessagesInOrder, IsMessage, Notice, broker, worker, events
  <2> QED
    BY <1>5, <2>1, Undisturbed DEF Notice, worker, events
<1>6. ASSUME NEW t \in Topics, SubscribeTopic(t) PROVE LinkInv'
  <2>1. TypeOK' /\ MessagesInOrder'
    BY <1>6 DEF LinkInv, TypeOK, MessagesInOrder, IsMessage, SubscribeTopic, Subscribe, worker,
                events
  <2> QED
    BY <1>6, <2>1, Undisturbed DEF SubscribeTopic, worker, events
<1> QED
  BY <1>1, <1>2, <1>3, <1>4, <1>5, <1>6

-----------------------------------------------------------------------------
(* Firing.                                                                 *)

LEMMA PostInv ==
  ASSUME LinkInv, NEW v \in {"ON", "OFF", "missing"}, Post(v)
  PROVE  LinkInv'
<1> DEFINE e == PublishMqtt(v, 0)
<1>1. e \in Events /\ e.kind # "MqttValue"
  BY LinkAssumption DEF PublishMqtt, Event, Events, EventsOf
<1>2. Fire(e) /\ UNCHANGED <<hand, last, pos, taken, wire, messages, consumers, out, heard>>
  BY DEF Post, broker, worker
<1> HIDE DEF e
<1>3. queue' \in Seq(Events) /\ accepted' \in Seq(Events)
  BY <1>1, <1>2, FireInOrder
<1>4. TypeOK'
  <2>1. TypeOK /\ posts' \in Nat
    BY DEF LinkInv, TypeOK, Post
  <2> QED
    BY <2>1, <1>3 DEF TypeOK, Post, broker, client, worker
<1>5. MessagesInOrder'
  BY <1>1, <1>2, FireKeepsMessages
<1> QED
  BY <1>1, <1>2, <1>4, <1>5, FireInv

LEMMA SayInv == ASSUME LinkInv, Say PROVE LinkInv'
<1> DEFINE e == Head(say)
<1>0. say \in Seq(Answers) /\ say # <<>>
  BY DEF Say, LinkInv, TypeOK
<1>1. e \in Answers /\ say' \in Seq(Answers)
  BY <1>0, HeadTailProperties DEF Say
<1>2. Fire(e) /\ UNCHANGED <<hand, last, pos, taken, wire, messages, consumers, out, heard>>
  BY DEF Say, broker
<1>3. e \in Events /\ e.kind # "MqttValue"
  BY <1>1 DEF Answers, Events, EventsOf
<1> HIDE DEF e
<1>4. queue' \in Seq(Events) /\ accepted' \in Seq(Events)
  BY <1>2, <1>3, FireInOrder
<1>5. TypeOK'
  BY <1>1, <1>4 DEF LinkInv, TypeOK, Say, broker, client
<1>6. MessagesInOrder'
  BY <1>2, <1>3, FireKeepsMessages
<1> QED
  BY <1>2, <1>3, <1>5, <1>6, FireInv

LEMMA OnMessageInv == ASSUME LinkInv, OnMessage PROVE LinkInv'
<1> DEFINE msg == Head(wire)
           e == MqttValue(msg)
<1>0. TypeOK /\ MessagesInOrder /\ wire \in Seq(Message) /\ wire # <<>> /\ Len(wire) \in Nat
  BY Lengths DEF OnMessage, LinkInv, TypeOK
<1>1. /\ msg = wire[1] /\ msg \in Message /\ wire' \in Seq(Message) /\ Len(wire') = Len(wire) - 1
      /\ Len(wire) >= 1 /\ \A i \in 1..Len(wire') : wire'[i] = wire[i + 1]
  BY <1>0, HeadTailProperties DEF OnMessage
<1>2. e \in Events /\ e.number = msg.number
  BY <1>1 DEF MqttValue, Event, Events, EventsOf, Message
<1>3. Fire(e) /\ UNCHANGED <<hand, last, pos, taken, messages, consumers, out, heard>>
  BY DEF OnMessage, worker
<1> HIDE DEF msg, e
<1>4. /\ queue' \in Seq(Events) /\ accepted' \in Seq(Events)
      /\ Len(accepted') \in {Len(accepted), Len(accepted) + 1}
      /\ \A p \in 1..Len(accepted) : accepted'[p] = accepted[p]
      /\ Len(accepted') = Len(accepted) + 1
              => accepted'[Len(accepted) + 1].number = e.number
  BY <1>2, <1>3, FireInOrder
<1>5. TypeOK'
  BY <1>1, <1>4 DEF LinkInv, TypeOK, OnMessage, client, worker
<1>6. MessagesInOrder'
  <2>0. Len(accepted) \in Nat
    BY <1>0, Lengths
  <2>1. \A i \in 1..Len(wire') : i + 1 \in 1..Len(wire) /\ 1 < i + 1
    BY <1>0, <1>1
  <2>2. \A i \in 1..Len(wire') : wire'[i].number \in 1..messages'
    BY <1>0, <1>1, <1>3, <2>1 DEF MessagesInOrder
  <2>3. \A i, j \in 1..Len(wire') : i < j => wire'[i].number < wire'[j].number
    <3> SUFFICES ASSUME NEW i \in 1..Len(wire'), NEW j \in 1..Len(wire'), i < j
                 PROVE  wire'[i].number < wire'[j].number
      OBVIOUS
    <3>1. i + 1 \in 1..Len(wire) /\ j + 1 \in 1..Len(wire) /\ i + 1 < j + 1
      BY <2>1
    <3>2. wire[i + 1].number < wire[j + 1].number
      BY <1>0, <3>1 DEF MessagesInOrder
    <3> QED
      BY <1>1, <3>2
  <2>4. e.number \in 1..messages /\ \A i \in 1..Len(wire') : e.number < wire'[i].number
    BY <1>0, <1>1, <1>2, <2>1 DEF MessagesInOrder
  <2>5. \A p \in 1..Len(accepted) :
          IsMessage(p) => accepted[p].number < e.number
    BY <1>0, <1>1, <1>2 DEF MessagesInOrder
  <2>6. \A p \in 1..Len(accepted') :
          \/ p \in 1..Len(accepted) /\ accepted'[p] = accepted[p]
          \/ p = Len(accepted) + 1 /\ accepted'[p].number = e.number
    BY <1>4, <2>0
  <2>7. \A p \in 1..Len(accepted') :
          IsMessage(p)' => /\ accepted'[p].number \in 1..messages'
                           /\ \A i \in 1..Len(wire') : accepted'[p].number < wire'[i].number
    <3> SUFFICES ASSUME NEW p \in 1..Len(accepted'), IsMessage(p)'
                 PROVE  /\ accepted'[p].number \in 1..messages'
                        /\ \A i \in 1..Len(wire') : accepted'[p].number < wire'[i].number
      OBVIOUS
    <3>1. CASE p \in 1..Len(accepted) /\ accepted'[p] = accepted[p]
      BY <3>1, <1>0, <1>1, <1>3, <2>1 DEF MessagesInOrder, IsMessage
    <3>2. CASE p = Len(accepted) + 1 /\ accepted'[p].number = e.number
      BY <3>2, <1>3, <2>4
    <3> QED
      BY <2>6, <3>1, <3>2
  <2>8. \A p, q \in 1..Len(accepted') :
          (p < q /\ IsMessage(p)' /\ IsMessage(q)') => accepted'[p].number < accepted'[q].number
    <3> SUFFICES ASSUME NEW p \in 1..Len(accepted'), NEW q \in 1..Len(accepted'), p < q,
                        IsMessage(p)', IsMessage(q)'
                 PROVE  accepted'[p].number < accepted'[q].number
      OBVIOUS
    <3>1. p \in 1..Len(accepted) /\ accepted'[p] = accepted[p] /\ IsMessage(p)
      BY <1>4, <2>0, <2>6 DEF IsMessage
    <3>2. CASE q \in 1..Len(accepted) /\ accepted'[q] = accepted[q]
      BY <3>1, <3>2, <1>0 DEF MessagesInOrder, IsMessage
    <3>3. CASE q = Len(accepted) + 1 /\ accepted'[q].number = e.number
      BY <3>1, <3>3, <2>5
    <3> QED
      BY <2>6, <3>2, <3>3
  <2> QED
    BY <2>2, <2>3, <2>7, <2>8 DEF MessagesInOrder
<1> QED
  BY <1>2, <1>3, <1>5, <1>6, FireInv

-----------------------------------------------------------------------------
(* Registrations.                                                          *)

LEMMA RegistrationInv ==
  ASSUME LinkInv, StartBackend \/ Register
  PROVE  LinkInv'
<1>0. TypeOK /\ HeardWasTaken /\ Len(consumers) \in Nat /\ DOMAIN consumers = 1..Len(consumers)
  BY Lengths, LenProperties DEF LinkInv, TypeOK
<1>1. PICK c \in {"backend", "mqtt"} :
        /\ consumers' = Append(consumers, c)
        /\ c = "backend" => \A i \in 1..Len(consumers) : consumers[i] # "backend"
  BY <1>0 DEF StartBackend, Register, RegisterMe
<1>2. /\ consumers' \in Seq({"backend", "mqtt"}) /\ Len(consumers') = Len(consumers) + 1
      /\ \A i \in 1..Len(consumers) : consumers'[i] = consumers[i]
      /\ consumers'[Len(consumers) + 1] = c
  BY <1>0, <1>1, AppendProperties DEF TypeOK
<1>3. UNCHANGED <<broker, worker, events, out, heard>>
  BY DEF StartBackend, Register
<1>4. TypeOK'
  <2>1. last \in 0..Len(consumers')
    BY <1>0, <1>2 DEF TypeOK
  <2>2. UNCHANGED <<todo, initOk, connects, posts, sends, lost>>
    BY DEF StartBackend, Register, client
  <2>3. opened' \in Nat /\ thread' \in {"none", "failed", "connecting", "connected", "subscribing",
                                      "ready", "loop"}
    BY <1>0 DEF StartBackend, Register, client, TypeOK
  <2> QED
    BY <1>0, <1>2, <1>3, <2>1, <2>2, <2>3 DEF TypeOK, broker, worker, events
<1>5. HeardWasTaken'
  <2>1. \A i, j \in 1..Len(consumers') :
          (consumers'[i] = "backend" /\ consumers'[j] = "backend") => i = j
    <3> SUFFICES ASSUME NEW i \in 1..Len(consumers'), NEW j \in 1..Len(consumers'),
                        consumers'[i] = "backend", consumers'[j] = "backend"
                 PROVE  i = j
      OBVIOUS
    <3>1. \A k \in 1..Len(consumers') : k \in 1..Len(consumers) \/ k = Len(consumers) + 1
      BY <1>0, <1>2
    <3>2. CASE c = "backend"
      BY <1>1, <1>2, <3>1, <3>2
    <3>3. CASE c # "backend"
      BY <1>0, <1>2, <3>1, <3>3 DEF HeardWasTaken
    <3> QED
      BY <3>2, <3>3
  <2>2. \A k \in 1..pos - 1 : consumers'[k] = consumers[k]
    <3>1. \A k \in 1..pos - 1 : k \in 1..Len(consumers)
      BY <1>0 DEF TypeOK
    <3> QED
      BY <3>1, <1>2
  <2> QED
    BY <1>0, <1>3, <2>1, <2>2 DEF HeardWasTaken, IsMessage, worker, events
<1>6. QueueIsRest' /\ MessagesInOrder'
  BY <1>3 DEF LinkInv, QueueIsRest, MessagesInOrder, IsMessage, broker, worker, events
<1>7. PublishedInOrder' /\ HeardInOrder' /\ \A i \in DOMAIN out' : out'[i] \in 1..taken'
  BY <1>3 DEF LinkInv, PublishedInOrder, HeardInOrder, worker
<1> QED
  BY <1>4, <1>5, <1>6, <1>7 DEF LinkInv

-----------------------------------------------------------------------------
(* The event worker.                                                       *)

LEMMA TakeInv == ASSUME LinkInv, Take PROVE LinkInv'
<1>0. /\ TypeOK /\ QueueIsRest /\ HeardWasTaken /\ Len(queue) \in Nat /\ Len(accepted) \in Nat
      /\ Len(consumers) \in Nat /\ taken \in Nat /\ queue \in Seq(Events) /\ queue # <<>>
  BY Lengths DEF LinkInv, TypeOK, Take
<1>1. /\ hand' = queue[1] /\ hand' \in Events /\ queue' \in Seq(Events) /\ Len(queue) >= 1
      /\ Len(queue') = Len(queue) - 1 /\ \A i \in 1..Len(queue') : queue'[i] = queue[i + 1]
  BY <1>0, HeadTailProperties DEF Take
<1>2. /\ taken' = taken + 1 /\ pos' = 1 /\ last' = Len(consumers)
      /\ UNCHANGED <<accepted, consumers, out, heard, wire, messages>>
  BY DEF Take, broker
<1>3. TypeOK'
  <2>1. due' \in Seq(Nat)
    BY <1>0, AppendProperties DEF TypeOK, Take
  <2>2. last' \in 0..Len(consumers') /\ pos' \in 1..last' + 1 /\ taken' \in Nat
    BY <1>0, <1>2
  <2> QED
    BY <1>0, <1>1, <1>2, <2>1, <2>2 DEF TypeOK, Take, broker, client
<1>4. QueueIsRest'
  <2>1. /\ taken + Len(queue) = Len(accepted)
        /\ \A p \in 1..Len(accepted) : accepted[p].at = p
        /\ \A i \in 1..Len(queue) : queue[i] = accepted[taken + i]
    BY <1>0 DEF QueueIsRest
  <2>2. taken' + Len(queue') = Len(accepted') /\ taken' # 0
    <3>1. /\ taken \in Nat /\ Len(queue) \in Nat /\ taken + Len(queue) = Len(accepted)
          /\ taken' = taken + 1 /\ Len(queue') = Len(queue) - 1 /\ Len(accepted') = Len(accepted)
      BY <1>0, <1>1, <1>2, <2>1
    <3> QED
      BY <3>1
  <2>3. hand' = accepted'[taken']
    BY <1>0, <1>1, <1>2, <2>1
  <2>4. \A i \in 1..Len(queue') : queue'[i] = accepted'[taken' + i]
    <3> SUFFICES ASSUME NEW i \in 1..Len(queue') PROVE queue'[i] = accepted'[taken' + i]
      OBVIOUS
    <3>1. i + 1 \in 1..Len(queue) /\ taken + (i + 1) = taken' + i
      BY <1>0, <1>1, <1>2
    <3> QED
      BY <1>1, <1>2, <2>1, <3>1
  <2> QED
    BY <1>2, <2>1, <2>2, <2>3, <2>4 DEF QueueIsRest
<1>5. HeardWasTaken'
  <2>1. \A p \in 1..taken : p \in 1..taken' /\ p # taken'
    BY <1>0, <1>2
  <2> QED
    BY <1>0, <1>2, <2>1 DEF HeardWasTaken, IsMessage
<1>6. MessagesInOrder' /\ PublishedInOrder' /\ HeardInOrder'
  BY <1>2 DEF LinkInv, MessagesInOrder, IsMessage, PublishedInOrder, HeardInOrder
<1>7. \A i \in DOMAIN out' : out'[i] \in 1..taken'
  BY <1>0, <1>2 DEF LinkInv
<1> QED
  BY <1>3, <1>4, <1>5, <1>6, <1>7 DEF LinkInv

LEMMA PassInv == ASSUME LinkInv, Pass PROVE LinkInv'
<1>1. /\ TypeOK /\ pos \in Nat /\ pos' = pos + 1 /\ pos <= last
      /\ UNCHANGED <<accepted, queue, taken, hand, last, consumers, out, heard, wire, messages>>
  BY Lengths DEF LinkInv, TypeOK, Pass, broker, events
<1>2. TypeOK'
  <2>1. pos' \in 1..last' + 1
    BY <1>1 DEF TypeOK
  <2> QED
    BY <1>1, <2>1 DEF TypeOK, Pass, broker, client, events
<1>3. HeardWasTaken'
  BY <1>1, HeardStays
<1>4. QueueIsRest' /\ MessagesInOrder' /\ PublishedInOrder' /\ HeardInOrder'
  BY <1>1 DEF LinkInv, QueueIsRest, MessagesInOrder, IsMessage, PublishedInOrder, HeardInOrder
<1> QED
  BY <1>1, <1>2, <1>3, <1>4 DEF LinkInv

(* While the worker hands out, it has taken something: the last event.      *)
LEMMA InHand ==
  ASSUME LinkInv, pos <= last
  PROVE  /\ taken \in 1..Len(accepted) /\ hand = accepted[taken] /\ hand.at = taken
         /\ hand \in Events /\ pos \in 1..Len(consumers) /\ pos \in Nat
<1>1. TypeOK /\ QueueIsRest /\ Len(queue) \in Nat /\ Len(consumers) \in Nat
  BY Lengths DEF LinkInv
<1>2. taken # 0 /\ taken \in Nat /\ taken + Len(queue) = Len(accepted)
  BY <1>1 DEF TypeOK, QueueIsRest
<1>3. taken \in 1..Len(accepted)
  BY <1>1, <1>2
<1>4. hand = accepted[taken] /\ hand.at = taken
  BY <1>1, <1>2, <1>3 DEF QueueIsRest
<1> QED
  BY <1>1, <1>3, <1>4 DEF TypeOK

LEMMA PublishInv == ASSUME LinkInv, Publish PROVE LinkInv'
<1>0. TypeOK /\ pos <= last /\ consumers[pos] = "mqtt" /\ Wanted
  BY DEF LinkInv, Publish
<1>1. /\ pos' = pos + 1
      /\ UNCHANGED <<accepted, queue, taken, hand, last, consumers, heard>>
  BY DEF Publish, events
<1>2. hand.topic \in Topics /\ hand.value \in {"ON", "OFF"}
  BY <1>0, InHand DEF Wanted, Events, EventsOf
<1>3. wire' \in Seq(Message) /\ messages' \in Nat /\ MessagesInOrder'
  <2>1. CASE Deliver(hand.topic, hand.value)
    BY <1>1, <1>2, <2>1, DeliverInOrder
  <2>2. CASE UNCHANGED <<wire, messages>>
    BY <1>1, <2>2 DEF LinkInv, TypeOK, MessagesInOrder, IsMessage
  <2> QED
    BY <2>1, <2>2 DEF Publish
<1>5. /\ out' \in Seq(Nat) /\ PublishedInOrder' /\ \A i \in DOMAIN out' : out'[i] \in 1..taken'
  <2>1. CASE out' = out
    BY <1>0, <1>1, <2>1 DEF LinkInv, TypeOK, PublishedInOrder
  <2>2. CASE out' = Append(out, hand.at)
    <3>1. hand.at = taken /\ taken \in Nat /\ taken >= 1 /\ Len(out) \in Nat
      BY <1>0, InHand, Lengths
    <3>2. /\ out' \in Seq(Nat) /\ Len(out') = Len(out) + 1 /\ DOMAIN out' = 1..Len(out) + 1
          /\ \A i \in 1..Len(out) : out'[i] = out[i]
          /\ out'[Len(out) + 1] = taken
      BY <1>0, <2>2, <3>1, AppendProperties, LenProperties DEF TypeOK
    <3>3. \A i \in 1..Len(out) : i \in DOMAIN out /\ out'[i] \in 1..taken
      BY <1>0, <3>2, Lengths DEF LinkInv
    <3>4. \A i \in DOMAIN out' : out'[i] \in 1..taken'
      <4> SUFFICES ASSUME NEW i \in DOMAIN out' PROVE out'[i] \in 1..taken
        BY <1>1
      <4>1. i \in 1..Len(out) \/ i = Len(out) + 1
        BY <3>1, <3>2
      <4> QED
        BY <4>1, <3>1, <3>2, <3>3
    <3>5. \A i, j \in DOMAIN out' : i <= j => out'[i] <= out'[j]
      <4> SUFFICES ASSUME NEW i \in DOMAIN out', NEW j \in DOMAIN out', i <= j
                   PROVE  out'[i] <= out'[j]
        OBVIOUS
      <4>1. CASE j = Len(out) + 1
        BY <4>1, <1>1, <3>1, <3>2, <3>4
      <4>2. CASE j # Len(out) + 1
        <5>1. i \in 1..Len(out) /\ j \in 1..Len(out)
          BY <4>2, <3>1, <3>2
        <5> QED
          BY <5>1, <3>2, <3>3 DEF LinkInv, PublishedInOrder
      <4> QED
        BY <4>1, <4>2
    <3> QED
      BY <3>2, <3>4, <3>5 DEF PublishedInOrder
  <2> QED
    BY <2>1, <2>2 DEF Publish
<1>6. TypeOK'
  <2>1. pos' \in 1..last' + 1
    BY <1>0, <1>1 DEF TypeOK
  <2>2. lost' \subseteq Nat
    <3>1. hand.at \in Nat
      BY <1>0 DEF TypeOK, Events, EventsOf
    <3> QED
      BY <1>0, <3>1 DEF TypeOK, Publish
  <2>3. UNCHANGED <<up, session, subs, thread, todo, initOk, say, connects, posts, sends, due, opened>>
    BY DEF Publish, client
  <2> QED
    BY <1>0, <1>1, <1>3, <1>5, <2>1, <2>2, <2>3 DEF TypeOK
<1>7. HeardWasTaken'
  BY <1>1, HeardStays
<1>8. QueueIsRest' /\ HeardInOrder'
  BY <1>1 DEF LinkInv, QueueIsRest, HeardInOrder
<1> QED
  BY <1>3, <1>5, <1>6, <1>7, <1>8 DEF LinkInv

LEMMA TwoOf == ASSUME NEW S, NEW a \in S, NEW b \in S PROVE <<a, b>> \in Seq(S)
OBVIOUS

LEMMA RunScriptInv == ASSUME LinkInv, RunScript PROVE LinkInv'
<1>0. /\ TypeOK /\ pos <= last /\ consumers[pos] = "backend" /\ hand.kind = "MqttValue"
      /\ HeardWasTaken /\ MessagesInOrder /\ Len(heard) \in Nat /\ DOMAIN heard = 1..Len(heard)
  BY Lengths DEF LinkInv, RunScript, Wanted
<1>1. /\ pos' = pos + 1
      /\ UNCHANGED <<accepted, queue, taken, hand, last, consumers, wire, messages, out>>
  BY DEF RunScript, broker, events
<1> DEFINE new == [number |-> hand.number, on |-> Answered(hand)]
<1>2. new \in [number : Nat, on : BOOLEAN] /\ new.number = accepted[taken].number
  BY <1>0, InHand DEF Answered, Events, EventsOf
<1>3. heard' = Append(heard, new)
  BY DEF RunScript
<1> HIDE DEF new
<1>4. /\ heard' \in Seq([number : Nat, on : BOOLEAN]) /\ Len(heard') = Len(heard) + 1
      /\ DOMAIN heard' = 1..Len(heard) + 1
      /\ \A i \in 1..Len(heard) : heard'[i] = heard[i]
      /\ heard'[Len(heard) + 1] = new
  BY <1>0, <1>2, <1>3, AppendProperties, LenProperties DEF TypeOK
<1>5. taken \in 1..Len(accepted) /\ taken \in Nat /\ IsMessage(taken) /\ pos \in 1..Len(consumers)
  BY <1>0, InHand DEF IsMessage, TypeOK
<1>6. ASSUME NEW i \in 1..Len(heard)
      PROVE  \E p \in 1..taken :
               /\ IsMessage(p) /\ accepted[p].number = heard[i].number /\ p < taken
  <2>1. PICK p \in 1..taken :
               /\ IsMessage(p) /\ accepted[p].number = heard[i].number
               /\ p = taken => \E k \in 1..pos - 1 : consumers[k] = "backend"
    BY <1>0 DEF HeardWasTaken
  <2>2. \A k \in 1..pos - 1 : k \in 1..Len(consumers) /\ k # pos
    BY <1>0, <1>5 DEF TypeOK
  <2>3. p # taken
    BY <1>0, <1>5, <2>1, <2>2 DEF HeardWasTaken
  <2>4. p < taken
    BY <1>5, <2>3
  <2> QED
    BY <2>1, <2>4
<1>7. HeardInOrder'
  <2>1. \A i \in 1..Len(heard) : heard[i].number < new.number
    <3> SUFFICES ASSUME NEW i \in 1..Len(heard) PROVE heard[i].number < new.number
      OBVIOUS
    <3>1. PICK p \in 1..taken :
            IsMessage(p) /\ accepted[p].number = heard[i].number /\ p < taken
      BY <1>6
    <3>2. p \in 1..Len(accepted)
      BY <1>5
    <3> QED
      BY <1>0, <1>2, <1>5, <3>1, <3>2 DEF MessagesInOrder
  <2> SUFFICES ASSUME NEW i \in 1..Len(heard) + 1, NEW j \in 1..Len(heard) + 1, i < j
               PROVE  heard'[i].number < heard'[j].number
    BY <1>4 DEF HeardInOrder
  <2>2. i \in 1..Len(heard) /\ (j \in 1..Len(heard) \/ j = Len(heard) + 1)
    BY <1>0
  <2>3. CASE j = Len(heard) + 1
    BY <1>4, <2>1, <2>2, <2>3
  <2>4. CASE j \in 1..Len(heard)
    BY <1>0, <1>4, <2>2, <2>4 DEF LinkInv, HeardInOrder
  <2> QED
    BY <2>2, <2>3, <2>4
<1>8. HeardWasTaken'
  <2>1. ASSUME NEW i \in 1..Len(heard')
        PROVE  \E p \in 1..taken :
                 /\ IsMessage(p) /\ accepted[p].number = heard'[i].number
                 /\ p = taken => \E k \in 1..pos' - 1 : consumers[k] = "backend"
    <3>1. i \in 1..Len(heard) \/ i = Len(heard) + 1
      BY <1>0, <1>4
    <3>2. CASE i \in 1..Len(heard)
      <4>1. PICK p \in 1..taken :
              IsMessage(p) /\ accepted[p].number = heard[i].number /\ p < taken
        BY <1>6, <3>2
      <4>2. p # taken
        BY <4>1, <1>5
      <4> QED
        BY <1>4, <3>2, <4>1, <4>2
    <3>3. CASE i = Len(heard) + 1
      <4>1. pos \in 1..pos' - 1 /\ taken \in 1..taken
        BY <1>1, <1>5
      <4> QED
        BY <1>0, <1>2, <1>4, <1>5, <3>3, <4>1
    <3> QED
      BY <3>1, <3>2, <3>3
  <2> QED
    BY <1>0, <1>1, <2>1 DEF HeardWasTaken, IsMessage
<1>9. TypeOK'
  <2>1. pos' \in 1..last' + 1
    BY <1>0, <1>1 DEF TypeOK
  <2>2. say' \in Seq(Answers)
    <3>1. Action(hand.number) \in Answers /\ PublishMqtt("OFF", hand.number) \in Answers
      BY <1>0, LinkAssumption DEF Action, PublishMqtt, Event, Answers, EventsOf, TypeOK, Events
    <3>2. say' = <<>> \/ say' = <<Action(hand.number), PublishMqtt("OFF", hand.number)>>
      BY DEF RunScript
    <3> QED
      BY <3>1, <3>2, EmptySeq, TwoOf
  <2>3. UNCHANGED <<up, session, subs, thread, todo, initOk, connects, posts, sends, due, opened, lost>>
    BY DEF RunScript, broker, client
  <2> QED
    BY <1>0, <1>1, <1>4, <2>1, <2>2, <2>3 DEF TypeOK
<1>10. QueueIsRest' /\ MessagesInOrder' /\ PublishedInOrder'
       /\ \A i \in DOMAIN out' : out'[i] \in 1..taken'
  BY <1>1 DEF LinkInv, QueueIsRest, MessagesInOrder, IsMessage, PublishedInOrder
<1> QED
  BY <1>7, <1>8, <1>9, <1>10 DEF LinkInv

-----------------------------------------------------------------------------
(* The invariant, and what follows from it.                                *)

LEMMA NextInv == ASSUME LinkInv, [Next]_vars PROVE LinkInv'
<1>1. CASE UNCHANGED vars
  <2>1. TypeOK' /\ MessagesInOrder'
    BY <1>1 DEF LinkInv, TypeOK, MessagesInOrder, IsMessage, vars, broker, client, worker, events
  <2> QED
    BY <1>1, <2>1, Undisturbed DEF vars, worker, events
<1>2. CASE Next
  <2>1. CASE \E t \in Topics, v \in {"ON", "OFF"} : Send(t, v)
    BY <2>1, SendInv
  <2>2. CASE \E r \in BOOLEAN : Break(r)
    BY <2>2, BreakInv
  <2>3. CASE Return \/ InitConnector
    BY <2>3, ThreadInv
  <2>4. CASE StartBackend
    BY <2>4, RegistrationInv
  <2>5. CASE \E v \in {"ON", "OFF", "missing"} : Post(v)
    BY <2>5, PostInv
  <2>6. CASE Connecting
    BY <2>6, ConnectInv, ThreadInv, RegistrationInv DEF Connecting
  <2>7. CASE OnMessage
    BY <2>7, OnMessageInv
  <2>8. CASE Working
    BY <2>8, TakeInv, PassInv, PublishInv, RunScriptInv, SayInv DEF Working
  <2> QED
    BY <1>2, <2>1, <2>2, <2>3, <2>4, <2>5, <2>6, <2>7, <2>8 DEF Next
<1> QED
  BY <1>1, <1>2

(* The state of the connector, of the queue and of the worker is well typed, and stays in the   *)
(* order that the invariant describes.                                                          *)
THEOREM LinkInvariant == Spec => []LinkInv
<1>1. Init => LinkInv
  BY InitInv
<1>2. LinkInv /\ [Next]_vars => LinkInv'
  BY NextInv
<1> QED
  BY <1>1, <1>2, PTL DEF Spec

(* However often the connection breaks and the connector registers again, no value reaches the  *)
(* broker after one that was fired later.                                                       *)
THEOREM ValuesLeaveInOrder == Spec => []PublishedInOrder
<1>1. LinkInv => PublishedInOrder
  BY DEF LinkInv
<1> QED
  BY <1>1, LinkInvariant, PTL

(* The script is called with the messages in the order in which the broker sent them, with none *)
(* twice.                                                                                       *)
THEOREM MessagesHeardInOrder == Spec => []HeardInOrder
<1>1. LinkInv => HeardInOrder
  BY DEF LinkInv
<1> QED
  BY <1>1, LinkInvariant, PTL

-----------------------------------------------------------------------------
(* The server as a repeater.                                               *)

(* A step accepts one event at most, and publishes the one in hand at most. *)
LEMMA OneAtATime ==
  ASSUME LinkInv, Next
  PROVE  \/ UNCHANGED out /\ Len(accepted') \in {Len(accepted), Len(accepted) + 1}
         \/ UNCHANGED accepted /\ pos <= last /\ out' = Append(out, hand.at)
<1>1. CASE OnMessage
  <2>1. UNCHANGED <<out, hand, last, taken>> /\ Fire(MqttValue(Head(wire)))
    BY <1>1 DEF OnMessage, worker
  <2>2. MqttValue(Head(wire)) \in Events
    <3>1. Head(wire) \in Message
      BY <1>1, HeadTailProperties DEF OnMessage, LinkInv, TypeOK
    <3> QED
      BY <3>1 DEF MqttValue, Event, Events, EventsOf, Message
  <2> QED
    BY <2>1, <2>2, FireInOrder
<1>2. CASE Say
  <2>1. UNCHANGED <<out, hand, last, taken>> /\ Fire(Head(say))
    BY <1>2 DEF Say
  <2>2. Head(say) \in Events
    <3>1. Head(say) \in Answers
      BY <1>2, HeadTailProperties DEF Say, LinkInv, TypeOK
    <3> QED
      BY <3>1 DEF Answers, Events, EventsOf
  <2> QED
    BY <2>1, <2>2, FireInOrder
<1>3. ASSUME NEW v \in {"ON", "OFF", "missing"}, Post(v)
      PROVE  UNCHANGED out /\ Len(accepted') \in {Len(accepted), Len(accepted) + 1}
  <2>1. UNCHANGED <<out, hand, last, taken>> /\ Fire(PublishMqtt(v, 0))
    BY <1>3 DEF Post, worker
  <2>2. PublishMqtt(v, 0) \in Events
    BY LinkAssumption DEF PublishMqtt, Event, Events, EventsOf
  <2> QED
    BY <2>1, <2>2, FireInOrder
<1>4. CASE Publish
  BY <1>4 DEF Publish, events
<1>5. CASE Take \/ Pass \/ RunScript
  BY <1>5 DEF Take, Pass, RunScript, events
<1>6. CASE Connecting
  BY <1>6 DEF Connecting, Connect, ConnectCallback, SetInitOk, Register, Notice, SubscribeTopic,
              events
<1>7. CASE Return \/ StartBackend \/ InitConnector
  BY <1>7 DEF Return, StartBackend, InitConnector, events
<1>8. ASSUME NEW t \in Topics, NEW v \in {"ON", "OFF"}, Send(t, v)
      PROVE  UNCHANGED <<out, accepted>>
  BY <1>8 DEF Send, events
<1>9. ASSUME NEW r \in BOOLEAN, Break(r) PROVE UNCHANGED <<out, accepted>>
  BY <1>9 DEF Break, events
<1> QED
  BY <1>1, <1>2, <1>3, <1>4, <1>5, <1>6, <1>7, <1>8, <1>9 DEF Next, Working

LEMMA RepeaterStep == ASSUME LinkInv, [Next]_vars PROVE [Repeater!Next]_(Repeater!vars)
<1>0. TypeOK /\ Len(out) \in Nat /\ DOMAIN out = 1..Len(out)
  BY Lengths DEF LinkInv
<1>1. CASE UNCHANGED vars
  BY <1>1 DEF vars, events, Repeater!vars
<1>2. CASE UNCHANGED out /\ Len(accepted') \in {Len(accepted), Len(accepted) + 1}
  BY <1>2 DEF Repeater!vars, Repeater!Next, Repeater!Accept
<1>3. CASE UNCHANGED accepted /\ pos <= last /\ out' = Append(out, hand.at)
  <2>1. taken \in 1..Len(accepted) /\ hand.at = taken
    BY <1>3, InHand
  <2>2. taken \in Repeater!Latest..Len(accepted)
    <3>1. CASE out = <<>>
      BY <2>1, <3>1 DEF Repeater!Latest
    <3>2. CASE out # <<>>
      <4>1. Len(out) \in DOMAIN out
        BY <1>0, <3>2, EmptySeq DEF TypeOK
      <4>2. out[Len(out)] \in 1..taken
        BY <4>1 DEF LinkInv
      <4> QED
        BY <2>1, <3>2, <4>2 DEF Repeater!Latest
    <3> QED
      BY <3>1, <3>2
  <2>3. Repeater!Forward
    BY <1>3, <2>1, <2>2 DEF Repeater!Forward
  <2> QED
    BY <2>3 DEF Repeater!Next
<1> QED
  BY <1>1, <1>2, <1>3, OneAtATime

(* The server implements the repeater: what leaves for the broker is what was accepted, some of *)
(* it missing, some of it several times in a row, none of it swapped.                           *)
THEOREM LinkImplementsRepeater == Spec => ImplementsRepeater
<1>1. Init => Repeater!Init
  BY EmptySeq DEF Init, Repeater!Init
<1>2. LinkInv /\ [Next]_vars => [Repeater!Next]_(Repeater!vars)
  BY RepeaterStep
<1> QED
  BY <1>1, <1>2, LinkInvariant, PTL DEF Spec, ImplementsRepeater, Repeater!Spec

-----------------------------------------------------------------------------
(* How often a value is published.                                         *)

Places(s, x) == {i \in 1..Len(s) : s[i] = x}

(* The registrations among the first n consumers.                          *)
Ups(n) == {i \in 1..n : consumers[i] = "mqtt"}

(* A value that is to be published, and of which nothing was lost.         *)
Sent(p) == /\ p \notin lost
           /\ accepted[p].kind = "PublishMqtt" /\ accepted[p].value # "missing"

(* There is a registration for every connect.  An event goes to those that there were when it   *)
(* was taken: all of them have had the earlier ones, and the one in hand has gone to those that *)
(* the iterator has passed.                                                                     *)
Counted ==
  /\ Cardinality(Places(consumers, "mqtt")) = opened
  /\ Len(due) = taken /\ lost \subseteq 1..taken
  /\ taken > 0 => Cardinality(Ups(last)) = due[taken]
  /\ \A p \in 1..taken : (p < taken /\ Sent(p)) => Copies(p) = due[p]
  /\ (taken > 0 /\ Sent(taken)) => Copies(taken) = Cardinality(Ups(pos - 1))

LEMMA CountAppend ==
  ASSUME NEW S, NEW s \in Seq(S), NEW y \in S, NEW x
  PROVE  Cardinality(Places(Append(s, y), x)) =
           IF y = x THEN Cardinality(Places(s, x)) + 1 ELSE Cardinality(Places(s, x))
<1> DEFINE a == Append(s, y)
<1>1. /\ Len(s) \in Nat /\ Len(a) = Len(s) + 1
      /\ \A i \in 1..Len(s) : a[i] = s[i]
      /\ a[Len(s) + 1] = y
  BY AppendProperties, LenProperties
<1> HIDE DEF a
<1>2. IsFiniteSet(Places(s, x)) /\ Len(s) + 1 \notin Places(s, x)
  <2>1. IsFiniteSet(1..Len(s)) /\ Places(s, x) \in SUBSET (1..Len(s))
    BY <1>1, FS_Interval DEF Places
  <2>2. Len(s) + 1 \notin 1..Len(s)
    BY <1>1
  <2> QED
    BY <2>1, <2>2, FS_Subset
<1>3. 1..Len(a) = 1..Len(s) \cup {Len(s) + 1}
  BY <1>1
<1>4. CASE y = x
  <2>1. Places(a, x) = Places(s, x) \cup {Len(s) + 1}
    BY <1>1, <1>3, <1>4 DEF Places
  <2> QED
    BY <1>2, <1>4, <2>1, FS_AddElement DEF a
<1>5. CASE y # x
  <2>1. Places(a, x) = Places(s, x)
    BY <1>1, <1>3, <1>5 DEF Places
  <2> QED
    BY <1>5, <2>1 DEF a
<1> QED
  BY <1>4, <1>5

LEMMA NextUp ==
  ASSUME NEW n \in Nat
  PROVE  Cardinality(Ups(n + 1)) =
           IF consumers[n + 1] = "mqtt" THEN Cardinality(Ups(n)) + 1 ELSE Cardinality(Ups(n))
<1>1. 1..n + 1 = 1..n \cup {n + 1} /\ n + 1 \notin 1..n
  OBVIOUS
<1>2. IsFiniteSet(Ups(n)) /\ n + 1 \notin Ups(n)
  <2>1. IsFiniteSet(1..n) /\ Ups(n) \in SUBSET (1..n)
    BY FS_Interval DEF Ups
  <2> QED
    BY <1>1, <2>1, FS_Subset
<1>3. CASE consumers[n + 1] = "mqtt"
  <2>1. Ups(n + 1) = Ups(n) \cup {n + 1}
    BY <1>1, <1>3 DEF Ups
  <2> QED
    BY <1>2, <1>3, <2>1, FS_AddElement
<1>4. CASE consumers[n + 1] # "mqtt"
  <2>1. Ups(n + 1) = Ups(n)
    BY <1>1, <1>4 DEF Ups
  <2> QED
    BY <1>4, <2>1
<1> QED
  BY <1>3, <1>4

LEMMA InitCounted == Init => Counted
<1> SUFFICES ASSUME Init PROVE Counted
  OBVIOUS
<1>1. Len(<<>>) = 0
  BY EmptySeq
<1>2. Places(consumers, "mqtt") = {}
  BY <1>1 DEF Init, Places
<1> QED
  BY <1>1, <1>2, FS_EmptySet DEF Init, Counted

(* Steps that only accept events.                                          *)
LEMMA CountKept ==
  ASSUME LinkInv, Counted,
         UNCHANGED <<consumers, opened, taken, due, lost, out, last, pos>>,
         \A p \in 1..Len(accepted) : accepted'[p] = accepted[p]
  PROVE  Counted'
<1>1. \A p \in 1..taken : p \in 1..Len(accepted)
  BY Lengths DEF LinkInv, TypeOK, QueueIsRest
<1>2. taken > 0 => taken \in 1..taken
  BY DEF LinkInv, TypeOK
<1>3. \A p \in 1..taken : Sent(p)' = Sent(p)
  BY <1>1 DEF Sent
<1>4. \A p \in 1..taken : Copies(p)' = Copies(p)
  BY DEF Copies
<1>5. UNCHANGED <<Ups(last), Ups(pos - 1), Places(consumers, "mqtt")>>
  BY DEF Ups, Places
<1> QED
  BY <1>2, <1>3, <1>4, <1>5 DEF Counted

LEMMA RegistrationCounted ==
  ASSUME LinkInv, Counted, StartBackend \/ Register
  PROVE  Counted'
<1>0. /\ TypeOK /\ Len(consumers) \in Nat /\ last \in 0..Len(consumers) /\ pos \in 1..last + 1
      /\ consumers \in Seq({"backend", "mqtt"})
  BY Lengths DEF LinkInv, TypeOK
<1>1. \/ consumers' = Append(consumers, "backend") /\ opened' = opened
      \/ consumers' = Append(consumers, "mqtt") /\ opened' = opened + 1
  BY DEF StartBackend, Register, RegisterMe, client
<1>2. Cardinality(Places(consumers, "mqtt"))' = opened'
  <2>1. Cardinality(Places(consumers, "mqtt")) = opened
    BY DEF Counted
  <2>2. CASE consumers' = Append(consumers, "backend") /\ opened' = opened
    <3>1. Cardinality(Places(Append(consumers, "backend"), "mqtt"))
            = Cardinality(Places(consumers, "mqtt"))
      BY <1>0, CountAppend
    <3> QED
      BY <2>1, <2>2, <3>1
  <2>3. CASE consumers' = Append(consumers, "mqtt") /\ opened' = opened + 1
    <3>1. Cardinality(Places(Append(consumers, "mqtt"), "mqtt"))
            = Cardinality(Places(consumers, "mqtt")) + 1
      BY <1>0, CountAppend
    <3> QED
      BY <2>1, <2>3, <3>1
  <2> QED
    BY <1>1, <2>2, <2>3
<1>3. UNCHANGED <<accepted, taken, due, lost, out, last, pos>>
  BY DEF StartBackend, Register, worker, events
<1>4. \A i \in 1..Len(consumers) : consumers'[i] = consumers[i]
  BY <1>0, <1>1, AppendProperties
<1>5. Ups(last)' = Ups(last) /\ Ups(pos - 1)' = Ups(pos - 1)
  <2>1. /\ \A i \in 1..last : i \in 1..Len(consumers)
        /\ \A i \in 1..pos - 1 : i \in 1..Len(consumers)
    BY <1>0
  <2> QED
    BY <1>3, <1>4, <2>1 DEF Ups
<1>6. \A p : Sent(p)' = Sent(p) /\ Copies(p)' = Copies(p)
  BY <1>3 DEF Sent, Copies
<1> QED
  BY <1>2, <1>3, <1>5, <1>6 DEF Counted

LEMMA TakeCounted == ASSUME LinkInv, Counted, Take PROVE Counted'
<1>0. /\ TypeOK /\ taken \in Nat /\ Len(consumers) \in Nat /\ last \in Nat /\ pos \in Nat
      /\ pos = last + 1 /\ opened \in Nat /\ due \in Seq(Nat)
  BY Lengths DEF LinkInv, TypeOK, Take, Idle
<1>1. /\ taken' = taken + 1 /\ pos' = 1 /\ last' = Len(consumers) /\ due' = Append(due, opened)
      /\ UNCHANGED <<accepted, consumers, opened, out, lost>>
  BY DEF Take, client
<1>2. /\ Len(due') = taken + 1 /\ due'[taken + 1] = opened
      /\ \A p \in 1..taken : due'[p] = due[p]
  BY <1>0, <1>1, AppendProperties DEF Counted
<1>3. \A p : Sent(p)' = Sent(p) /\ Copies(p)' = Copies(p)
  BY <1>1 DEF Sent, Copies
<1>4. Cardinality(Ups(last))' = due'[taken']
  <2>1. Ups(last)' = Places(consumers, "mqtt")
    BY <1>1 DEF Ups, Places
  <2> QED
    BY <1>1, <1>2, <2>1 DEF Counted
<1>5. \A p \in 1..taken' : (p < taken' /\ Sent(p)') => Copies(p)' = due'[p]
  <2> SUFFICES ASSUME NEW p \in 1..taken, Sent(p) PROVE Copies(p) = due[p]
    BY <1>0, <1>1, <1>2, <1>3
  <2>1. CASE p < taken
    BY <2>1 DEF Counted
  <2>2. CASE p = taken
    <3>1. Copies(taken) = Cardinality(Ups(pos - 1)) /\ Cardinality(Ups(last)) = due[taken]
      BY <1>0, <2>2 DEF Counted
    <3>2. pos - 1 = last
      BY <1>0
    <3> QED
      BY <2>2, <3>1, <3>2
  <2> QED
    BY <1>0, <2>1, <2>2
<1>6. Copies(taken)' = Cardinality(Ups(pos - 1))'
  <2>1. {i \in DOMAIN out : out[i] = taken + 1} = {}
    BY <1>0 DEF LinkInv
  <2>2. Ups(pos - 1)' = {}
    BY <1>1 DEF Ups
  <2> QED
    BY <1>1, <2>1, <2>2 DEF Copies
<1>7. lost' \subseteq 1..taken'
  BY <1>0, <1>1 DEF Counted
<1> QED
  BY <1>1, <1>2, <1>4, <1>5, <1>6, <1>7 DEF Counted

LEMMA PassCounted == ASSUME LinkInv, Counted, Pass PROVE Counted'
<1>0. /\ pos' = pos + 1 /\ ~Wanted
      /\ UNCHANGED <<accepted, taken, due, lost, out, last, consumers, opened>>
  BY DEF Pass, client, events
<1>1. /\ taken \in Nat /\ pos \in Nat /\ hand = accepted[taken] /\ pos - 1 \in Nat
  BY InHand DEF LinkInv, TypeOK, Pass
<1>2. UNCHANGED <<Ups(last), Places(consumers, "mqtt")>> /\ Ups(pos - 1)' = Ups(pos)
  <2>1. pos' - 1 = pos
    BY <1>0, <1>1
  <2> QED
    BY <1>0, <2>1 DEF Ups, Places
<1>3. \A p : Sent(p)' = Sent(p) /\ Copies(p)' = Copies(p)
  BY <1>0 DEF Sent, Copies
<1>4. ASSUME Sent(taken) PROVE Cardinality(Ups(pos)) = Cardinality(Ups(pos - 1))
  <2>1. consumers[pos] # "mqtt"
    BY <1>0, <1>1, <1>4 DEF Sent, Wanted
  <2>2. (pos - 1) + 1 = pos
    BY <1>1
  <2> QED
    BY <1>1, <2>1, <2>2, NextUp
<1> QED
  BY <1>0, <1>2, <1>3, <1>4 DEF Counted

LEMMA PublishCounted == ASSUME LinkInv, Counted, Publish PROVE Counted'
<1>0. /\ pos' = pos + 1 /\ Wanted /\ consumers[pos] = "mqtt" /\ pos <= last
      /\ UNCHANGED <<accepted, taken, due, last, consumers, opened>>
  BY DEF Publish, client, events
<1>1. /\ taken \in Nat /\ taken >= 1 /\ pos \in Nat /\ pos - 1 \in Nat /\ hand.at = taken
      /\ out \in Seq(Nat) /\ DOMAIN out = 1..Len(out)
  BY <1>0, InHand, Lengths DEF LinkInv, TypeOK
<1>2. UNCHANGED <<Ups(last), Places(consumers, "mqtt")>> /\ Ups(pos - 1)' = Ups(pos)
  <2>1. pos' - 1 = pos
    BY <1>0, <1>1
  <2> QED
    BY <1>0, <2>1 DEF Ups, Places
<1>3. CASE out' = Append(out, hand.at) /\ UNCHANGED lost
  <2>1. \A p : Sent(p)' = Sent(p)
    BY <1>0, <1>3 DEF Sent
  <2>2. DOMAIN out' = 1..Len(out')
    BY <1>1, <1>3, AppendProperties, LenProperties
  <2>3. \A p : Copies(p) = Cardinality(Places(out, p)) /\ Copies(p)' = Cardinality(Places(out', p))
    BY <1>1, <2>2 DEF Copies, Places
  <2>4. \A p : Copies(p)' = IF p = taken THEN Copies(p) + 1 ELSE Copies(p)
    BY <1>1, <1>3, <2>3, CountAppend
  <2>5. Cardinality(Ups(pos)) = Cardinality(Ups(pos - 1)) + 1
    <3>1. (pos - 1) + 1 = pos
      BY <1>1
    <3> QED
      BY <1>0, <1>1, <3>1, NextUp
  <2>6. \A p \in 1..taken : p < taken => p # taken
    BY <1>1
  <2> QED
    BY <1>0, <1>2, <1>3, <2>1, <2>4, <2>5, <2>6 DEF Counted
<1>4. CASE out' = out /\ lost' = lost \cup {hand.at}
  <2>1. lost' \subseteq 1..taken' /\ ~Sent(taken)'
    BY <1>0, <1>1, <1>4 DEF Counted, Sent
  <2>2. \A p : Copies(p)' = Copies(p) /\ (Sent(p)' => Sent(p))
    BY <1>0, <1>4 DEF Sent, Copies
  <2> QED
    BY <1>0, <1>2, <2>1, <2>2 DEF Counted
<1> QED
  BY <1>3, <1>4 DEF Publish

LEMMA RunScriptCounted == ASSUME LinkInv, Counted, RunScript PROVE Counted'
<1>0. /\ hand.kind = "MqttValue" /\ pos <= last
      /\ UNCHANGED <<accepted, taken, due, lost, out, last, consumers, opened>>
  BY DEF RunScript, Wanted, client, events
<1>1. ~Sent(taken)
  BY <1>0, InHand DEF Sent
<1>2. UNCHANGED <<Ups(last), Places(consumers, "mqtt")>>
  BY <1>0 DEF Ups, Places
<1>3. \A p : Sent(p)' = Sent(p) /\ Copies(p)' = Copies(p)
  BY <1>0 DEF Sent, Copies
<1>4. ~Sent(taken)'
  BY <1>0, <1>1 DEF Sent
<1> QED
  BY <1>0, <1>2, <1>3, <1>4 DEF Counted

LEMMA FireCounted ==
  ASSUME LinkInv, Counted, OnMessage \/ Say \/ \E v \in {"ON", "OFF", "missing"} : Post(v)
  PROVE  Counted'
<1>1. UNCHANGED <<hand, last, pos, taken, due, lost, out, consumers, opened>>
  BY DEF OnMessage, Say, Post, worker, client
<1>2. PICK e \in Events : Fire(e)
  <2>1. CASE OnMessage
    <3>1. Head(wire) \in Message
      BY <2>1, HeadTailProperties DEF OnMessage, LinkInv, TypeOK
    <3> QED
      BY <2>1, <3>1 DEF OnMessage, MqttValue, Event, Events, EventsOf, Message
  <2>2. CASE Say
    <3>1. Head(say) \in Answers
      BY <2>2, HeadTailProperties DEF Say, LinkInv, TypeOK
    <3> QED
      BY <2>2, <3>1 DEF Say, Answers, Events, EventsOf
  <2>3. ASSUME NEW v \in {"ON", "OFF", "missing"}, Post(v) PROVE \E e \in Events : Fire(e)
    BY <2>3, LinkAssumption DEF Post, PublishMqtt, Event, Events, EventsOf
  <2> QED
    BY <2>1, <2>2, <2>3
<1>3. \A p \in 1..Len(accepted) : accepted'[p] = accepted[p]
  BY <1>1, <1>2, FireInOrder
<1> QED
  BY <1>1, <1>3, CountKept

LEMMA NextCounted == ASSUME LinkInv, Counted, [Next]_vars PROVE Counted'
<1>1. CASE UNCHANGED <<accepted, consumers, opened, taken, due, lost, out, last, pos>>
  BY <1>1, CountKept
<1>2. CASE UNCHANGED vars
  BY <1>1, <1>2 DEF vars, client, worker, events
<1>3. CASE Next
  <2>1. CASE Return \/ InitConnector
    BY <1>1, <2>1 DEF Return, InitConnector, client, worker, events
  <2>2. ASSUME NEW t \in Topics, NEW v \in {"ON", "OFF"}, Send(t, v) PROVE Counted'
    BY <1>1, <2>2 DEF Send, client, worker, events
  <2>3. ASSUME NEW r \in BOOLEAN, Break(r) PROVE Counted'
    BY <1>1, <2>3 DEF Break, client, worker, events
  <2>4. CASE StartBackend
    BY <2>4, RegistrationCounted
  <2>5. CASE Connecting
    <3>1. CASE Register
      BY <3>1, RegistrationCounted
    <3>2. CASE Connecting /\ ~Register
      BY <1>1, <3>2 DEF Connecting, Connect, ConnectCallback, SetInitOk, Notice, SubscribeTopic,
                        worker, events
    <3> QED
      BY <2>5, <3>1, <3>2
  <2>6. CASE OnMessage \/ \E v \in {"ON", "OFF", "missing"} : Post(v)
    BY <2>6, FireCounted
  <2>7. CASE Working
    BY <2>7, TakeCounted, PassCounted, PublishCounted, RunScriptCounted, FireCounted DEF Working
  <2> QED
    BY <1>3, <2>1, <2>2, <2>3, <2>4, <2>5, <2>6, <2>7 DEF Next
<1> QED
  BY <1>2, <1>3

(* What is published while the connection holds reaches the broker once for every time the      *)
(* connector had been connected when the worker took it, for any number of connects.            *)
THEOREM PublishedOncePerConnect == Spec => []OncePerConnect
<1>1. Init => Counted
  BY InitCounted
<1>2. LinkInv /\ Counted /\ [Next]_vars => Counted'
  BY NextCounted
<1>3. ASSUME LinkInv, Counted PROVE OncePerConnect
  <2> SUFFICES ASSUME NEW p \in 1..taken, Done(p), Sent(p) PROVE Copies(p) = due[p]
    BY DEF OncePerConnect, Sent
  <2>1. CASE p < taken
    BY <1>3, <2>1 DEF Counted
  <2>2. CASE p = taken /\ Idle
    <3>1. taken > 0 /\ pos - 1 = last
      BY <1>3, <2>2 DEF LinkInv, TypeOK, Idle
    <3> QED
      BY <1>3, <2>2, <3>1 DEF Counted
  <2> QED
    BY <2>1, <2>2 DEF Done
<1> QED
  BY <1>1, <1>2, <1>3, LinkInvariant, PTL DEF Spec

=============================================================================
