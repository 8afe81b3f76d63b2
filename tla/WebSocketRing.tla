--------------------------- MODULE WebSocketRing ----------------------------
(***************************************************************************)
(* Web socket broadcasts.  The event worker's thread inserts messages into *)
(* one ring of RingSize slots; the web server's service thread sends them  *)
(* to the subscribers, each with a read offset (tail) of its own, and      *)
(* frees a slot when the slowest subscriber has passed it.  The two        *)
(* threads share the ring and the list of subscribers without a lock.      *)
(*                                                                         *)
(* lws_ring comes from libwebsockets and is modelled from its use here: an *)
(* insert copies into the slot at head and then advances head; one slot    *)
(* stays free to tell a full ring from an empty one; a destroyed message   *)
(* leaves payload = NULL (0) behind.                                       *)
(***************************************************************************)
EXTENDS Integers, Sequences

CONSTANTS Clients,      \* web socket connections
          Chatty,       \* those whose client sends messages of its own
          RingSize,     \* the count given to lws_ring_create (8)
          MaxMessages   \* bound on the messages made

ASSUME RingAssumption == /\ Chatty \subseteq Clients
                         /\ RingSize \in Nat /\ RingSize >= 2
                         /\ MaxMessages \in Nat

Threads == {"worker", "service"}
Offsets == 0..RingSize - 1

VARIABLES
  slot,     \* slot[i]: the message in the ring's slot i, 0 for payload = NULL
  head,     \* ring->head: where the next message goes
  oldest,   \* ring->oldest_tail: the first slot still in use
  conn,     \* conn[c]: "closed", "refused", "subscriber" or "publisher"
  tail,     \* tail[c]: pss->tail
  wake,     \* clients with a writable callback on order
  stage,    \* stage[t]: how far thread t is with what it does to the ring
  walk,     \* the service thread's locals while it looks for the oldest tail
  sender,   \* the client whose message the service thread handles
  made,     \* the number of messages made: message n is the n-th
  carried,  \* carried[t]: the message thread t is inserting
  log,      \* history: the messages inserted
  got,      \* history: got[c]: the messages sent to c since it connected
  owed,     \* history: owed[c]: how much of log c has been told of
  clash     \* history: the threads have got in each other's way

vars == <<slot, head, oldest, conn, tail, wake, stage, walk, sender, made, carried, log, got,
          owed, clash>>
ring == <<slot, head, oldest>>
ins  == <<sender, made, carried, log, clash>>

\* Slots from offset a up to offset b, and the offset after a.
Dist(a, b) == IF a <= b THEN b - a ELSE b - a + RingSize
After(a)   == IF a = RingSize - 1 THEN 0 ELSE a + 1

\* vhd->pss_list, _webSocketClients and lws_ring's counts.
Subscribers == {c \in Clients : conn[c] = "subscriber"}
Registered  == {c \in Clients : conn[c] \in {"subscriber", "publisher"}}
Waiting(c)  == Dist(tail[c], head)
Used        == Dist(oldest, head)
Free        == RingSize - 1 - Used

RingInit ==
  /\ slot = [i \in Offsets |-> 0] /\ head = 0 /\ oldest = 0
  /\ conn = [c \in Clients |-> "closed"] /\ tail = [c \in Clients |-> 0]
  /\ wake = {} /\ stage = [t \in Threads |-> "idle"] /\ sender \in Clients
  /\ walk \in [by : Clients, left : {{}}, most : {0}, oldest : {0}]
  /\ made = 0 /\ carried = [t \in Threads |-> 0]
  /\ log = <<>> /\ got = [c \in Clients |-> <<>>] /\ owed = [c \in Clients |-> 0]
  /\ clash = FALSE

-----------------------------------------------------------------------------
(* Inserting: SendWebSocketBroadcast on the worker's thread, SendWebSocket  *)
(* (the answer to "ECHO") and a publisher's message on the service thread.  *)

\* The first half of lws_ring_insert.  Both threads' inserts overlap when the
\* other one has copied and not advanced: both copy into the same slot.
Copy(t) ==
  /\ stage[t] = "idle" /\ Free > 0 /\ made < MaxMessages
  /\ made' = made + 1
  /\ carried' = [carried EXCEPT ![t] = made + 1]
  /\ slot' = [slot EXCEPT ![head] = made + 1]
  /\ stage' = [stage EXCEPT ![t] = "copied"]
  /\ clash' = (clash \/ \E u \in Threads : stage[u] = "copied")
  /\ UNCHANGED <<head, oldest, conn, tail, wake, walk, log, got, owed>>

\* With nobody registered, or no free slot, the message is dropped.
Broadcast == Registered # {} /\ Copy("worker") /\ UNCHANGED sender

\* A publisher's text goes to the subscribers, if there are any; another client's
\* text matters when it is "ECHO".  (An "ECHO" of a publisher is left out.)
Receive(c) ==
  /\ c \in Chatty /\ conn[c] # "closed"
  /\ IF conn[c] = "publisher" THEN Subscribers # {} ELSE Registered # {}
  /\ Copy("service") /\ sender' = c

\* The service thread has counted what some subscribers have still to read, and
\* has others to count.
AmidWalk == stage["service"] = "walk" /\ walk.left # {} /\ walk.left # Subscribers

\* The second half of lws_ring_insert.  It takes no notice of a walk along the
\* subscribers: those counted before and after are counted against different heads.
Advance(t) ==
  /\ stage[t] = "copied"
  /\ head' = After(head)
  /\ log' = Append(log, carried[t])
  /\ stage' = [stage EXCEPT ![t] = "inserted"]
  /\ clash' = (clash \/ AmidWalk)
  /\ UNCHANGED <<slot, oldest, conn, tail, wake, walk, sender, made, carried, got, owed>>

\* Broadcasts and publications are for every subscriber, an answer to "ECHO" for
\* the one who asked: those get a writable callback.  The mutation orders it for
\* the publishers.
Audience(t) == IF t = "worker" \/ conn[sender] = "publisher"
               THEN Subscribers ELSE Subscribers \cap {sender}
ToldPublishers(t) == Registered \ Subscribers
Told(t) == Audience(t)
Tell(t) ==
  /\ stage[t] = "inserted"
  /\ wake' = wake \cup Told(t)
  /\ owed' = [c \in Clients |-> IF c \in Audience(t) THEN Len(log) ELSE owed[c]]
  /\ stage' = [stage EXCEPT ![t] = "idle"]
  /\ UNCHANGED <<slot, head, oldest, conn, tail, walk, sender, made, carried, log, got, clash>>

-----------------------------------------------------------------------------
(* The service thread's callbacks; it runs one at a time.                   *)

\* The mutation starts a newcomer at slot 0, as the zeroed session data would.
FirstSlot == 0
StartTail == oldest

\* LWS_CALLBACK_ESTABLISHED.  A client without a valid API key is answered 401
\* and stays connected, outside the list.
Connect(c, as) ==
  /\ stage["service"] = "idle" /\ conn[c] = "closed"
  /\ conn' = [conn EXCEPT ![c] = as]
  /\ tail' = [tail EXCEPT ![c] = IF as = "refused" THEN 0 ELSE StartTail]
  /\ UNCHANGED <<ring, wake, stage, walk, got, owed, ins>>

\* LWS_CALLBACK_CLOSED (also after a failed lws_write): off the list, and the
\* session data is gone.  The ring's oldest tail is not looked at.
Close(c) ==
  /\ stage["service"] = "idle" /\ conn[c] # "closed"
  /\ conn' = [conn EXCEPT ![c] = "closed"]
  /\ wake' = wake \ {c} /\ tail' = [tail EXCEPT ![c] = 0]
  /\ got' = [got EXCEPT ![c] = <<>>] /\ owed' = [owed EXCEPT ![c] = 0]
  /\ UNCHANGED <<ring, stage, walk, ins>>

\* LWS_CALLBACK_SERVER_WRITEABLE sends one message, if there is one with a payload,
\* and consumes it.  Only the consumer at the oldest tail has that one recomputed
\* (lws_ring_consume_and_update_oldest_tail).
Write(c) ==
  /\ stage["service"] = "idle" /\ c \in wake
  /\ wake' = wake \ {c}
  /\ IF Waiting(c) > 0 /\ slot[tail[c]] # 0
     THEN /\ got' = [got EXCEPT ![c] = Append(@, slot[tail[c]])]
          /\ tail' = [tail EXCEPT ![c] = After(@)]
          /\ stage' = [stage EXCEPT !["service"] = IF tail[c] = oldest THEN "walk" ELSE "written"]
          /\ walk' = [by |-> c, left |-> Subscribers, most |-> 0, oldest |-> After(tail[c])]
     ELSE UNCHANGED <<tail, got, stage, walk>>
  /\ UNCHANGED <<ring, conn, owed, ins>>

\* The walk along pss_list, in any order: each subscriber is counted against the
\* head of that moment, and the tail with the most still to read is kept.  The
\* mutation keeps the one with the least.
NoMore(c)   == Waiting(c) <= walk.most
NoFewer(c)  == Waiting(c) >= walk.most
Count(c) ==
  /\ stage["service"] = "walk" /\ c \in walk.left
  /\ walk' = IF NoFewer(c)
             THEN [walk EXCEPT !.left = @ \ {c}, !.most = Waiting(c), !.oldest = tail[c]]
             ELSE [walk EXCEPT !.left = @ \ {c}]
  /\ UNCHANGED <<ring, conn, tail, wake, stage, got, owed, ins>>

\* lws_ring_update_oldest_tail destroys the messages it passes.
MoveOldest(to) ==
  /\ oldest' = to
  /\ slot' = [i \in Offsets |-> IF Dist(oldest, i) < Dist(oldest, to) THEN 0 ELSE slot[i]]
UpdateOldest ==
  /\ stage["service"] = "walk" /\ walk.left = {}
  /\ MoveOldest(walk.oldest)
  /\ stage' = [stage EXCEPT !["service"] = "written"]
  /\ UNCHANGED <<head, conn, tail, wake, walk, got, owed, ins>>

\* "more to do?": another callback if there is; the mutation waits for the next
\* broadcast instead.
MoreNever(c) == FALSE
More(c)      == Waiting(c) > 0
AskMore ==
  /\ stage["service"] = "written"
  /\ wake' = IF More(walk.by) THEN wake \cup {walk.by} ELSE wake
  /\ stage' = [stage EXCEPT !["service"] = "idle"]
  /\ UNCHANGED <<ring, conn, tail, walk, got, owed, ins>>

-----------------------------------------------------------------------------
RingNext ==
  \/ Broadcast
  \/ \E t \in Threads : Advance(t) \/ Tell(t)
  \/ \E c \in Clients :
       \/ \E as \in {"refused", "subscriber", "publisher"} : Connect(c, as)
       \/ Close(c) \/ Write(c) \/ Count(c) \/ Receive(c)
  \/ UpdateOldest \/ AskMore

RingSpec == RingInit /\ [][RingNext]_vars

\* Both threads go on with what they have begun, and a callback that was ordered
\* comes: a peer's socket becomes writable again or the peer is closed.
FairRingSpec == /\ RingSpec
                /\ \A t \in Threads : WF_vars(Advance(t)) /\ WF_vars(Tell(t))
                /\ \A c \in Clients : WF_vars(Write(c)) /\ WF_vars(Count(c))
                /\ WF_vars(UpdateOldest) /\ WF_vars(AskMore)

-----------------------------------------------------------------------------
(* Properties.                                                              *)

RingTypeOK ==
  /\ slot \in [Offsets -> Nat] /\ head \in Offsets /\ oldest \in Offsets
  /\ conn \in [Clients -> {"closed", "refused", "subscriber", "publisher"}]
  /\ tail \in [Clients -> Offsets] /\ wake \subseteq Subscribers
  /\ stage \in [Threads -> {"idle", "copied", "inserted", "walk", "written"}]
  /\ walk \in [by : Clients, left : SUBSET Clients, most : Nat, oldest : Offsets]
  /\ sender \in Clients
  /\ made \in Nat /\ carried \in [Threads -> Nat]
  /\ log \in Seq(Nat \ {0}) /\ got \in [Clients -> Seq(Nat \ {0})]
  /\ owed \in [Clients -> Nat] /\ clash \in BOOLEAN

\* As long as the threads have not clashed (no two inserts overlapped, and head did
\* not move between two counts of one walk), what lies in the ring is the end of the
\* log, and every subscriber's tail lies in it: no subscriber reads a slot that was
\* freed, or that is being written.
Back(k) == IF head >= k THEN head - k ELSE head - k + RingSize
RingHoldsUnread ==
  /\ \A c \in Subscribers : Waiting(c) <= Used
  /\ Used <= Len(log)
  /\ \A k \in 1..Used : slot[Back(k)] = log[Len(log) + 1 - k]
RingSafe == clash \/ RingHoldsUnread

\* A subscriber that has still to be sent what it was told of has a writable
\* callback on order, or its callback is under way and will ask for more: no wake-up
\* is lost between the two threads.
Position(c)  == Len(log) - Waiting(c)
BeingServed(c) == stage["service"] \in {"walk", "written"} /\ walk.by = c
NoLostWakeup ==
  clash \/ \A c \in Subscribers : Position(c) < owed[c] => c \in wake \/ BeingServed(c)

\* A message copied into the ring and not yet part of it is in the slot at head, and
\* its slot stays free until then.
InsertsUnderWay ==
  /\ made <= MaxMessages
  /\ \A t \in Threads : carried[t] <= made /\ (stage[t] = "copied" => carried[t] # 0)
  /\ ~clash => \A t \in Threads : stage[t] = "copied" =>
       /\ Used < RingSize - 1 /\ slot[head] = carried[t]
       /\ \A u \in Threads : stage[u] = "copied" => u = t

\* Nobody is told of more than was inserted; who does not subscribe, of nothing.
ToldOfLog == \A c \in Clients :
  /\ owed[c] <= Len(log)
  /\ conn[c] # "subscriber" => owed[c] = 0 /\ got[c] = <<>>

\* The walk: the tail kept so far lies in the ring, and is behind every subscriber
\* counted; while there are others to count, most is what it has still to read.
Counted      == Subscribers \ walk.left
WalkFindsOldest ==
  /\ stage["worker"] \in {"idle", "copied", "inserted"}
  /\ stage["service"] \in {"walk", "written"} => walk.by \in Subscribers
  /\ stage["service"] = "walk" /\ ~clash =>
       /\ walk.left \subseteq Subscribers
       /\ Dist(walk.oldest, head) <= Used
       /\ \A c \in Counted : Waiting(c) <= Dist(walk.oldest, head)
       /\ walk.left # {} =>
            walk.most = IF Counted = {} THEN 0 ELSE Dist(walk.oldest, head)

\* The inductive strengthening of RingTypeOK, RingSafe and NoLostWakeup.
RingInv == /\ RingTypeOK /\ RingSafe /\ NoLostWakeup
           /\ InsertsUnderWay /\ ToldOfLog /\ WalkFindsOldest

\* The ring, its offsets and the subscribers' tails implement the fan-out log, until
\* the threads clash: each subscriber is sent a gap-free run of the messages.
FanOut == INSTANCE FanOutLog WITH
            Messages <- 1..MaxMessages, Backlog <- RingSize - 1, joined <- Subscribers,
            cursor <- [c \in Clients |-> IF conn[c] = "subscriber" THEN Position(c) ELSE 0]
ServesLikeFanOut == FanOut!Init /\ [][clash' \/ FanOut!Next]_(FanOut!vars)

\* Every message that a subscriber is told of reaches it, unless it disconnects or
\* the threads clash, however many messages are dropped and clients come and go.
ToldIsServed ==
  \A c \in Clients, k \in 1..MaxMessages :
    owed[c] >= k ~> (owed[c] < k \/ Position(c) >= k \/ clash)

\* "destroys the message when everyone has had a copy of it": once every
\* subscriber has read the ring empty and no callback is under way, it is empty.
DestroyedWhenAllHadACopy ==
  (/\ stage["service"] = "idle" /\ Subscribers # {}
   /\ \A c \in Subscribers : Waiting(c) = 0) => Used = 0
=============================================================================
