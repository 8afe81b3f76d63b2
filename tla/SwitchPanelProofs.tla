-------------------------- MODULE SwitchPanelProofs --------------------------
(***************************************************************************)
(* SwitchPanel for any number of frontends, requests, slots and posts: its *)
(* types, and that the light ends up as the switch.  The invariant behind  *)
(* the latter follows the last switch value through the server: it is in   *)
(* the hands of the web thread, or the last one in the queue, or in the    *)
(* hands of the worker, or else the light has it or is about to get it.    *)
(***************************************************************************)
EXTENDS SwitchPanel, SequenceTheorems, TLAPS

Op == [at : {"free", "insert", "assign", "fire", "default"}, name : {Switch, Light},
       value : States]
ServerTypes ==
  /\ store \in [{Switch, Light} -> States \cup {"none"}]
  /\ op \in [Threads -> Op]
  /\ queue \in Seq(Event) /\ hand \in Event
  /\ step \in {"wait", "broadcast", "script", "return"}
  /\ told \in [{Switch, Light} -> States \cup {"none"}]
  /\ stale \in BOOLEAN /\ raced \in BOOLEAN
FrontTypes ==
  /\ posts \in [Clients -> [States -> Nat]] /\ made \in 0..MaxPosts
  /\ load \in [Clients -> [Loads -> LoadStates]]
  /\ panel \in [Clients -> States \cup {"absent", "WAIT"}]
  /\ missed \in [Clients -> BOOLEAN] /\ failed \in [Clients -> BOOLEAN]
  /\ shown \in [Clients -> States \cup {"absent", "WAIT"}]
  /\ blind \in [Clients -> BOOLEAN]
SocketTypes ==
  /\ link \in [Clients -> {"new", "up", "lost"}]
  /\ log \in Seq(Event) /\ cursor \in [Clients -> Nat]
  /\ \A c \in Clients : cursor[c] <= Len(log)

LEMMA Types == TypeOK <=> ServerTypes /\ FrontTypes /\ SocketTypes
  BY DEF TypeOK, ServerTypes, FrontTypes, SocketTypes, Op

LEMMA Constants ==
  /\ "web" \in Threads /\ "worker" \in Threads /\ Switch # Light
  /\ Free \in Op /\ "none" \notin States
  BY DEF Threads, Switch, Light, Free, Op, States

-----------------------------------------------------------------------------
(* The server's types.                                                     *)

LEMMA LookUpTypes ==
  ASSUME ServerTypes, NEW t \in Threads, NEW n \in {Switch, Light}, NEW v \in States,
         LookUp(t, n, v)
  PROVE  op' \in [Threads -> Op]
<1>1. Free \in Op /\ \A at \in {"insert", "assign"} : [at |-> at, name |-> n, value |-> v] \in Op
  BY Constants DEF Op
<1>2. (IF store[n] # v
       THEN [at |-> IF store[n] = "none" THEN "insert" ELSE "assign", name |-> n, value |-> v]
       ELSE Free) \in Op
  BY <1>1
<1> QED
  BY <1>2 DEF ServerTypes, LookUp

LEMMA ThreadTypes ==
  ASSUME ServerTypes, NEW t \in Threads, Store(t) \/ Fire(t) PROVE ServerTypes'
<1>1. op[t] \in Op /\ op[t].name \in {Switch, Light} /\ op[t].value \in States
  BY DEF ServerTypes, Op
<1>2. CASE Store(t)
  <2>1. [op[t] EXCEPT !.at = "fire"] \in Op
    BY <1>1 DEF Op
  <2>2. op' \in [Threads -> Op]
    BY <1>2, <2>1 DEF Store, ServerTypes
  <2>3. store' \in [{Switch, Light} -> States \cup {"none"}]
    BY <1>1, <1>2 DEF Store, ServerTypes
  <2>4. raced' \in BOOLEAN
    BY <1>2 DEF Store, Stored, ServerTypes
  <2> QED
    BY <1>2, <2>2, <2>3, <2>4 DEF Store, ServerTypes
<1>3. CASE Fire(t)
  <2>1. [name |-> op[t].name, value |-> op[t].value] \in Event
    BY <1>1 DEF Event
  <2>2. queue' \in Seq(Event)
    BY <1>3, <2>1 DEF Fire, Push, ServerTypes
  <2>3. op' \in [Threads -> Op] /\ told' \in [{Switch, Light} -> States \cup {"none"}]
    BY <1>1, <1>3, Constants DEF Fire, ServerTypes
  <2> QED
    BY <1>3, <2>2, <2>3 DEF Fire, ServerTypes
<1> QED
  BY <1>2, <1>3

LEMMA WebTypes ==
  ASSUME ServerTypes,
         \/ \E c \in Clients : Web(c)
         \/ \E n \in Remote, v \in States : RemotePost(n, v)
  PROVE  ServerTypes'
<1>1. ASSUME NEW c \in Clients, NEW v \in States, HandlePost(c, v) PROVE ServerTypes'
  BY <1>1, LookUpTypes, Constants DEF HandlePost, ServerTypes, seen
<1>2. ASSUME NEW n \in Remote, NEW v \in States, RemotePost(n, v) PROVE ServerTypes'
  BY <1>2, LookUpTypes, Constants, PanelAssumption DEF RemotePost, ServerTypes, seen
<1>3. ASSUME NEW c \in Clients, NEW k \in Loads, HandleLoad(c, k) PROVE ServerTypes'
  <2>1. [op["web"] EXCEPT !.at = "default"] \in Op
    BY Constants DEF ServerTypes, Op
  <2>2. op' \in [Threads -> Op]
    BY <1>3, <2>1 DEF HandleLoad, ServerTypes
  <2> QED
    BY <1>3, <2>2 DEF HandleLoad, ServerTypes, seen
<1>4. ASSUME NEW c \in Clients, NEW k \in Loads, InsertDefault(c, k) PROVE ServerTypes'
  <2>1. store' \in [{Switch, Light} -> States \cup {"none"}]
    BY <1>4 DEF InsertDefault, ServerTypes, States
  <2> QED
    BY <1>4, <2>1, Constants DEF InsertDefault, ServerTypes, seen
<1> QED
  BY <1>1, <1>2, <1>3, <1>4 DEF Web

LEMMA WorkerTypes == ASSUME ServerTypes, Worker PROVE ServerTypes'
<1>1. CASE Take
  <2>1. Head(queue) \in Event /\ Tail(queue) \in Seq(Event)
    BY <1>1, HeadTailProperties DEF Take, ServerTypes
  <2> QED
    BY <1>1, <2>1 DEF Take, ServerTypes, seen
<1>2. CASE Broadcast \/ DropBroadcast
  BY <1>2 DEF Broadcast, DropBroadcast, ServerTypes
<1>3. CASE RunScript
  <2>1. hand.value \in States
    BY DEF ServerTypes, Event
  <2> QED
    BY <1>3, <2>1, LookUpTypes, Constants DEF RunScript, ServerTypes, seen
<1>4. CASE Return
  BY <1>4 DEF Return, ServerTypes, seen
<1> QED
  BY <1>1, <1>2, <1>3, <1>4 DEF Worker

-----------------------------------------------------------------------------
(* The types of the frontends and their web sockets.                       *)

LEMMA WebFront ==
  ASSUME TypeOK,
         \/ \E c \in Clients : Web(c)
         \/ \E n \in Remote, v \in States : RemotePost(n, v)
  PROVE  FrontTypes' /\ SocketTypes'
<1>0. ServerTypes /\ FrontTypes /\ SocketTypes
  BY Types
<1>1. ASSUME NEW c \in Clients, NEW v \in States, HandlePost(c, v) PROVE FrontTypes'
  <2>1. posts[c][v] \in Nat /\ posts[c][v] > 0
    BY <1>0, <1>1 DEF HandlePost, FrontTypes
  <2>2. posts' \in [Clients -> [States -> Nat]]
    BY <1>0, <1>1, <2>1 DEF HandlePost, FrontTypes
  <2> QED
    BY <1>0, <1>1, <2>2 DEF HandlePost, touch, FrontTypes
<1>2. ASSUME NEW n \in Remote, NEW v \in States, RemotePost(n, v) PROVE FrontTypes'
  <2>1. made' \in 0..MaxPosts
    BY <1>0, <1>2, PanelAssumption DEF RemotePost, FrontTypes
  <2> QED
    BY <1>0, <1>2, <2>1 DEF RemotePost, touch, FrontTypes, frontend
<1>3. ASSUME NEW c \in Clients, NEW k \in Loads, HandleLoad(c, k) PROVE FrontTypes'
  <2>1. store[Light] # "none" => store[Light] \in LoadStates
    BY <1>0 DEF ServerTypes, LoadStates
  <2>2. load' \in [Clients -> [Loads -> LoadStates]]
    <3>1. \A x \in LoadStates : [load[c] EXCEPT ![k] = x] \in [Loads -> LoadStates]
      BY <1>0 DEF FrontTypes
    <3>2. PICK x \in LoadStates : load' = [load EXCEPT ![c] = [load[c] EXCEPT ![k] = x]]
      BY <1>3, <2>1 DEF HandleLoad, LoadStates
    <3> QED
      BY <1>0, <3>1, <3>2 DEF touch, FrontTypes
  <2> QED
    BY <1>0, <1>3, <2>2 DEF HandleLoad, touch, FrontTypes
<1>4. ASSUME NEW c \in Clients, NEW k \in Loads, InsertDefault(c, k) PROVE FrontTypes'
  <2>1. load' \in [Clients -> [Loads -> LoadStates]]
    BY <1>0, <1>4 DEF InsertDefault, FrontTypes, LoadStates, States
  <2> QED
    BY <1>0, <1>4, <2>1 DEF InsertDefault, touch, FrontTypes
<1>5. SocketTypes'
  BY <1>0 DEF Web, HandlePost, HandleLoad, InsertDefault, RemotePost, SocketTypes, socket
<1> QED
  BY <1>1, <1>2, <1>3, <1>4, <1>5 DEF Web

LEMMA WorkerFront ==
  ASSUME TypeOK, Worker \/ \E t \in Threads : Store(t) \/ Fire(t)
  PROVE  FrontTypes' /\ SocketTypes'
<1>0. ServerTypes /\ FrontTypes /\ SocketTypes
  BY Types
<1>1. CASE Broadcast \/ DropBroadcast
  <2>1. log' = log \/ (log' = Append(log, hand) /\ hand \in Event)
    BY <1>0, <1>1 DEF Broadcast, DropBroadcast, socket, ServerTypes
  <2>2. log' \in Seq(Event) /\ Len(log') >= Len(log) /\ Len(log) \in Nat /\ Len(log') \in Nat
    BY <1>0, <2>1 DEF SocketTypes
  <2>3. UNCHANGED <<link, cursor, posts, load, panel, shown, made, failed, blind>>
    BY <1>1 DEF Broadcast, DropBroadcast, socket, frontend, touch
  <2>4. \A c \in Clients : cursor'[c] <= Len(log')
    BY <1>0, <2>2, <2>3 DEF SocketTypes
  <2>5. missed' \in [Clients -> BOOLEAN]
    BY <1>0, <1>1 DEF Broadcast, DropBroadcast, FrontTypes
  <2> QED
    BY <1>0, <2>2, <2>3, <2>4, <2>5 DEF touch, FrontTypes, SocketTypes
<1>2. CASE Take \/ RunScript \/ Return \/ \E t \in Threads : Store(t) \/ Fire(t)
  BY <1>0, <1>2 DEF Take, RunScript, Return, Store, Fire, frontend, socket, touch, FrontTypes,
     SocketTypes
<1> QED
  BY <1>1, <1>2 DEF Worker

LEMMA ClientTypes ==
  ASSUME TypeOK, NEW c \in Clients,
         \/ Build(c) \/ Tap(c) \/ Connect(c) \/ Disconnect(c) \/ LoginAgain(c) \/ Hear(c)
         \/ \E k \in Loads : LoadPage(c, k) \/ PageArrives(c, k) \/ LoadFails(c, k)
         \/ \E v \in States : PostFails(c, v)
  PROVE  ServerTypes' /\ FrontTypes' /\ SocketTypes'
<1>0. ServerTypes /\ FrontTypes /\ SocketTypes
  BY Types
<1>1. ServerTypes'
  <2>1. UNCHANGED server
    BY DEF Build, Tap, Connect, Disconnect, LoginAgain, Hear, LoadPage, PageArrives, LoadFails, PostFails
  <2> QED
    BY <1>0, <2>1 DEF server, seen, ServerTypes
<1>2. CASE Tap(c)
  <2>1. Asked(c) \in States
    BY DEF Asked, States
  <2>2. posts' \in [Clients -> [States -> Nat]]
    BY <1>0, <1>2, <2>1 DEF Tap, FrontTypes
  <2>3. made' \in 0..MaxPosts /\ panel' \in [Clients -> States \cup {"absent", "WAIT"}]
    BY <1>0, <1>2, PanelAssumption DEF Tap, FrontTypes
  <2>4. blind' \in [Clients -> BOOLEAN]
    BY <1>0, <1>2 DEF Tap, FrontTypes
  <2> QED
    BY <1>0, <1>1, <1>2, <2>2, <2>3, <2>4 DEF Tap, socket, touch, FrontTypes, SocketTypes
<1>3. CASE Connect(c)
  <2>1. Len(log) \in Nat
    BY <1>0 DEF SocketTypes
  <2>2. link' \in [Clients -> {"new", "up", "lost"}] /\ cursor' \in [Clients -> Nat]
        /\ \A d \in Clients : cursor'[d] <= Len(log)
    BY <1>0, <1>3, <2>1 DEF Connect, SocketTypes
  <2> QED
    BY <1>0, <1>1, <1>3, <2>2 DEF Connect, frontend, touch, FrontTypes, SocketTypes
<1>4. CASE Disconnect(c)
  <2>1. Len(log) \in Nat
    BY <1>0 DEF SocketTypes
  <2>2. link' \in [Clients -> {"new", "up", "lost"}] /\ cursor' \in [Clients -> Nat]
        /\ \A d \in Clients : cursor'[d] <= Len(log)
    BY <1>0, <1>4, <2>1 DEF Disconnect, SocketTypes
  <2>3. missed' \in [Clients -> BOOLEAN]
    BY <1>0, <1>4 DEF Disconnect, FrontTypes
  <2> QED
    BY <1>0, <1>1, <1>4, <2>2, <2>3 DEF Disconnect, frontend, touch, FrontTypes, SocketTypes
<1>5. CASE LoginAgain(c)
  <2>1. link' \in [Clients -> {"new", "up", "lost"}]
    BY <1>0, <1>5 DEF LoginAgain, SocketTypes
  <2>2. load' \in [Clients -> [Loads -> LoadStates]]
    BY <1>0, <1>5 DEF LoginAgain, FrontTypes, LoadStates
  <2>3. /\ panel' \in [Clients -> States \cup {"absent", "WAIT"}]
        /\ shown' \in [Clients -> States \cup {"absent", "WAIT"}] /\ blind' \in [Clients -> BOOLEAN]
        /\ missed' \in [Clients -> BOOLEAN] /\ failed' \in [Clients -> BOOLEAN]
    BY <1>0, <1>5 DEF LoginAgain, FrontTypes, ServerTypes
  <2> QED
    BY <1>0, <1>1, <1>5, <2>1, <2>2, <2>3 DEF LoginAgain, touch, FrontTypes, SocketTypes
<1>6. CASE Hear(c)
  <2>1. Len(log) \in Nat /\ cursor[c] \in Nat /\ cursor[c] < Len(log)
    BY <1>0, <1>6 DEF Hear, SocketTypes
  <2>2. log[cursor[c] + 1] \in Event
    BY <1>0, <2>1, ElementOfSeq DEF SocketTypes
  <2>3. panel' \in [Clients -> States \cup {"absent", "WAIT"}]
    BY <1>0, <1>6, <2>2 DEF Hear, FrontTypes, Event
  <2>4. missed' \in [Clients -> BOOLEAN]
    BY <1>0, <1>6 DEF Hear, FrontTypes
  <2>5. cursor' \in [Clients -> Nat] /\ \A d \in Clients : cursor'[d] <= Len(log)
    BY <1>0, <1>6, <2>1 DEF Hear, SocketTypes
  <2> QED
    BY <1>0, <1>1, <1>6, <2>3, <2>4, <2>5 DEF Hear, touch, FrontTypes, SocketTypes
<1>7. ASSUME NEW k \in Loads, LoadPage(c, k) \/ PageArrives(c, k) \/ LoadFails(c, k)
      PROVE  FrontTypes' /\ SocketTypes'
  <2>1. load' \in [Clients -> [Loads -> LoadStates]]
    <3>1. \A x \in LoadStates : [load[c] EXCEPT ![k] = x] \in [Loads -> LoadStates]
      BY <1>0 DEF FrontTypes
    <3>2. PICK x \in LoadStates : load' = [load EXCEPT ![c] = [load[c] EXCEPT ![k] = x]]
      BY <1>7 DEF LoadPage, PageArrives, LoadFails, LoadStates
    <3> QED
      BY <1>0, <3>1, <3>2 DEF touch, FrontTypes
  <2>2. panel' \in [Clients -> States \cup {"absent", "WAIT"}]
    BY <1>0, <1>7 DEF LoadPage, PageArrives, LoadFails, FrontTypes
  <2>3. UNCHANGED <<posts, shown, made, missed, failed, blind, link, log, cursor>>
    BY <1>7 DEF LoadPage, PageArrives, LoadFails, socket, touch
  <2> QED
    BY <1>0, <1>1, <2>1, <2>2, <2>3 DEF touch, FrontTypes, SocketTypes
<1>8. ASSUME NEW v \in States, PostFails(c, v) PROVE FrontTypes' /\ SocketTypes'
  <2>1. posts[c][v] \in Nat /\ posts[c][v] > 0
    BY <1>0, <1>8 DEF PostFails, FrontTypes
  <2>2. posts' \in [Clients -> [States -> Nat]] /\ failed' \in [Clients -> BOOLEAN]
    BY <1>0, <1>8, <2>1 DEF PostFails, FrontTypes
  <2> QED
    BY <1>0, <1>1, <1>8, <2>2 DEF PostFails, socket, touch, FrontTypes, SocketTypes
<1>9. CASE Build(c)
  <2>1. shown' \in [Clients -> States \cup {"absent", "WAIT"}]
    BY <1>0, <1>9 DEF Build, FrontTypes
  <2> QED
    BY <1>0, <1>1, <1>9, <2>1 DEF Build, frontend, socket, FrontTypes, SocketTypes
<1> QED
  BY <1>1, <1>2, <1>3, <1>4, <1>5, <1>6, <1>7, <1>8, <1>9

LEMMA TypesAfter == ServerTypes' /\ FrontTypes' /\ SocketTypes' => TypeOK'
  BY DEF TypeOK, ServerTypes, FrontTypes, SocketTypes, Op

LEMMA NextTypes == TypeOK /\ [Next]_vars => TypeOK'
<1> SUFFICES ASSUME TypeOK, [Next]_vars PROVE TypeOK'
  OBVIOUS
<1>0. ServerTypes
  BY Types
<1>1. CASE UNCHANGED vars
  BY <1>1 DEF vars, server, seen, frontend, socket, touch, TypeOK
<1>2. CASE \/ \E t \in Threads : Store(t) \/ Fire(t)
           \/ Worker
  BY <1>0, <1>2, ThreadTypes, WorkerTypes, WorkerFront, TypesAfter
<1>3. CASE \/ \E c \in Clients : Web(c)
           \/ \E n \in Remote, v \in States : RemotePost(n, v)
  BY <1>0, <1>3, WebTypes, WebFront, TypesAfter
<1>4. ASSUME NEW c \in Clients,
             \/ Build(c) \/ Tap(c) \/ Connect(c) \/ Disconnect(c) \/ LoginAgain(c) \/ Hear(c)
             \/ \E k \in Loads : LoadPage(c, k) \/ PageArrives(c, k) \/ LoadFails(c, k)
             \/ \E v \in States : PostFails(c, v)
      PROVE  TypeOK'
  BY <1>4, ClientTypes, TypesAfter
<1> QED
  BY <1>1, <1>2, <1>3, <1>4 DEF Next

LEMMA InitTypes == Init => TypeOK
<1> SUFFICES ASSUME Init PROVE TypeOK
  OBVIOUS
<1>1. ServerTypes
  <2>1. /\ store \in [{Switch, Light} -> States \cup {"none"}]
        /\ told \in [{Switch, Light} -> States \cup {"none"}]
    BY DEF Init
  <2>2. op \in [Threads -> Op]
    BY Constants DEF Init
  <2>3. hand \in Event /\ queue \in Seq(Event)
    BY DEF Init, Event, States
  <2> QED
    BY <2>1, <2>2, <2>3 DEF Init, ServerTypes
<1>2. FrontTypes
  BY PanelAssumption DEF Init, FrontTypes, LoadStates
<1>3. SocketTypes
  BY DEF Init, SocketTypes
<1> QED
  BY <1>1, <1>2, <1>3, Types

(* Every variable keeps its type, and no frontend reads past the end of    *)
(* the web socket log, for any frontends, requests and bounds.             *)
THEOREM PanelTypeCorrect == Spec => []TypeOK
  BY InitTypes, NextTypes, PTL DEF Spec

-----------------------------------------------------------------------------
(* The last switch value on its way.                                       *)

InQueue  == {i \in DOMAIN queue : queue[i].name = Switch}
InHand   == step \in {"broadcast", "script"} /\ hand.name = Switch
WebFires == op["web"].at = "fire"

\* The web thread writes the switch, the worker the light, in its script only.
Roles ==
  /\ op["worker"].name = Light /\ op["worker"].at # "default"
  /\ op["worker"] # Free => step = "return"
  /\ op["web"].at \in {"insert", "assign", "fire"} => op["web"].name = Switch

LightGetsIt ==
  IF op["worker"].at \in {"insert", "assign"} THEN op["worker"].value = store[Switch]
                                             ELSE store[Light] = store[Switch]
OnTheWay ==
  IF WebFires THEN op["web"].value = store[Switch]
  ELSE /\ \A i \in InQueue : (\A j \in InQueue : j <= i) => queue[i].value = store[Switch]
       /\ InQueue = {} =>
            IF InHand THEN hand.value = store[Switch]
                      ELSE store[Switch] # "none" => LightGetsIt
SwitchInv == ServerTypes /\ Roles /\ (~raced => OnTheWay)

LEMMA InitSwitch == Init => SwitchInv
<1> SUFFICES ASSUME Init PROVE SwitchInv
  OBVIOUS
<1>1. ServerTypes
  BY InitTypes, Types
<1>2. Roles
  BY Constants DEF Init, Roles, Free
<1>3. OnTheWay
  BY Constants DEF Init, OnTheWay, WebFires, InQueue, InHand, Free
<1> QED
  BY <1>1, <1>2, <1>3 DEF SwitchInv

LEMMA StoreKeeps == ASSUME SwitchInv, NEW t \in Threads, Store(t) PROVE SwitchInv'
<1>0. ServerTypes /\ Roles /\ (~raced => OnTheWay) /\ op[t] \in Op
  BY DEF SwitchInv, ServerTypes
<1>1. ServerTypes'
  BY <1>0, ThreadTypes
<1>2. /\ op'[t].at = "fire" /\ op'[t].name = op[t].name /\ op'[t].value = op[t].value
      /\ \A u \in Threads \ {t} : op'[u] = op[u]
      /\ op[t].at \in {"insert", "assign"}
      /\ UNCHANGED <<queue, hand, step>>
  BY <1>0 DEF Store, ServerTypes, Op
<1>3. ~raced' => /\ ~raced /\ store'[op[t].name] = op[t].value
                 /\ \A n \in {Switch, Light} \ {op[t].name} : store'[n] = store[n]
  BY <1>0 DEF Store, ServerTypes, Op
<1>4. CASE t = "web"
  <2>1. op[t].name = Switch
    BY <1>0, <1>2, <1>4 DEF Roles
  <2>2. Roles'
    BY <1>0, <1>2, <1>4, <2>1, Constants DEF Roles
  <2>3. ~raced' => OnTheWay'
    BY <1>2, <1>3, <1>4, <2>1 DEF OnTheWay, WebFires
  <2> QED
    BY <1>1, <2>2, <2>3 DEF SwitchInv
<1>5. CASE t = "worker"
  <2>1. op[t].name = Light /\ op'["web"] = op["web"] /\ op[t] # Free
    BY <1>0, <1>2, <1>5, Constants DEF Roles, Free
  <2>2. Roles'
    BY <1>0, <1>2, <1>5, <2>1 DEF Roles
  <2>3. ASSUME ~raced' PROVE OnTheWay'
    <3>1. OnTheWay /\ store'[Light] = op[t].value /\ store'[Switch] = store[Switch]
      BY <1>0, <1>3, <2>1, <2>3, Constants
    <3>2. LightGetsIt => LightGetsIt'
      BY <1>2, <1>5, <3>1 DEF LightGetsIt
    <3>3. InQueue' = InQueue /\ InHand' = InHand /\ WebFires' = WebFires
      BY <1>2, <2>1 DEF InQueue, InHand, WebFires
    <3> QED
      BY <1>2, <2>1, <3>1, <3>2, <3>3 DEF OnTheWay
  <2> QED
    BY <1>1, <2>2, <2>3 DEF SwitchInv
<1> QED
  BY <1>4, <1>5 DEF Threads

LEMMA FireKeeps == ASSUME SwitchInv, NEW t \in Threads, Fire(t) PROVE SwitchInv'
<1> DEFINE e == [name |-> op[t].name, value |-> op[t].value]
<1>0. ServerTypes /\ Roles /\ (~raced => OnTheWay) /\ op[t] \in Op /\ op[t].at = "fire"
  BY DEF SwitchInv, ServerTypes, Fire
<1>1. ServerTypes'
  BY <1>0, ThreadTypes
<1>2. /\ queue' = Append(queue, e) /\ op'[t] = Free
      /\ \A u \in Threads \ {t} : op'[u] = op[u]
      /\ UNCHANGED <<store, hand, step, raced>>
  BY <1>0 DEF Fire, Push, ServerTypes
<1>3. /\ DOMAIN queue = 1..Len(queue) /\ DOMAIN queue' = 1 .. Len(queue) + 1
      /\ Len(queue) \in Nat /\ queue'[Len(queue) + 1] = e
      /\ \A i \in 1..Len(queue) : queue'[i] = queue[i]
  BY <1>0, <1>2 DEF ServerTypes
<1> HIDE DEF e
<1>4. CASE t = "web"
  <2>1. op[t].name = Switch /\ WebFires
    BY <1>0, <1>4 DEF Roles, WebFires
  <2>2. Roles'
    BY <1>0, <1>2, <1>4, Constants DEF Roles, Free
  <2>3. ASSUME ~raced' PROVE OnTheWay'
    <3>1. e.name = Switch /\ e.value = store'[Switch] /\ ~WebFires'
      BY <1>0, <1>2, <1>4, <2>1, <2>3 DEF OnTheWay, WebFires, e, Free
    <3>2. Len(queue) + 1 \in InQueue' /\ InQueue' \subseteq 1 .. Len(queue) + 1
      BY <1>3, <3>1 DEF InQueue
    <3>3. ASSUME NEW i \in InQueue', \A j \in InQueue' : j <= i
          PROVE  queue'[i] = e
      <4>1. i = Len(queue) + 1
        BY <1>3, <3>2, <3>3
      <4> QED
        BY <1>3, <4>1
    <3> QED
      BY <3>1, <3>2, <3>3 DEF OnTheWay
  <2> QED
    BY <1>1, <2>2, <2>3 DEF SwitchInv
<1>5. CASE t = "worker"
  <2>1. op[t].name = Light /\ op'["web"] = op["web"] /\ step = "return"
    BY <1>0, <1>2, <1>5, Constants DEF Roles, Free
  <2>2. Roles'
    BY <1>0, <1>2, <1>5, <2>1 DEF Roles, Free
  <2>3. InQueue' = InQueue /\ \A i \in InQueue : queue'[i] = queue[i]
    <3>1. e.name # Switch
      BY <2>1, Constants DEF e
    <3> QED
      BY <1>3, <3>1 DEF InQueue
  <2>4. WebFires' = WebFires /\ InHand' = InHand /\ (LightGetsIt => LightGetsIt')
    BY <1>0, <1>2, <1>5, <2>1 DEF WebFires, InHand, LightGetsIt, Free
  <2>5. ~raced' => OnTheWay'
    BY <1>0, <1>2, <2>1, <2>3, <2>4 DEF OnTheWay
  <2> QED
    BY <1>1, <2>2, <2>5 DEF SwitchInv
<1> QED
  BY <1>4, <1>5 DEF Threads

\* The web thread begins with a post of the switch, or reads for a page.
LEMMA WebBegins ==
  ASSUME SwitchInv, ServerTypes', UNCHANGED <<store, queue, hand, step, raced>>,
         op["web"] = Free, op'["worker"] = op["worker"],
         op'["web"].at # "fire",
         op'["web"].at \in {"insert", "assign"} => op'["web"].name = Switch
  PROVE  SwitchInv'
<1>0. Roles /\ (~raced => OnTheWay) /\ ~WebFires /\ ~WebFires'
  BY DEF SwitchInv, WebFires, Free
<1>1. Roles'
  BY <1>0 DEF Roles
<1>2. OnTheWay => OnTheWay'
  BY <1>0 DEF OnTheWay, InQueue, InHand, LightGetsIt
<1> QED
  BY <1>0, <1>1, <1>2 DEF SwitchInv

LEMMA LookUpFacts ==
  ASSUME ServerTypes, NEW t \in Threads, NEW n \in {Switch, Light}, NEW v \in States,
         LookUp(t, n, v)
  PROVE  /\ op[t] = Free /\ \A u \in Threads \ {t} : op'[u] = op[u]
         /\ IF store[n] = v THEN op'[t] = Free
            ELSE /\ op'[t].at \in {"insert", "assign"}
                 /\ op'[t].name = n /\ op'[t].value = v
  BY DEF LookUp, ServerTypes

LEMMA WebKeeps ==
  ASSUME Remote \subseteq {Switch}, SwitchInv,
         \/ \E c \in Clients : Web(c)
         \/ \E n \in Remote, v \in States : RemotePost(n, v)
  PROVE  SwitchInv'
<1>0. ServerTypes /\ ServerTypes'
  BY WebTypes DEF SwitchInv
<1>1. ASSUME NEW v \in States, LookUp("web", Switch, v), UNCHANGED <<store, queue, hand, step, raced>>
      PROVE  SwitchInv'
  <2>1. /\ op["web"] = Free /\ op'["worker"] = op["worker"]
        /\ op'["web"] = Free \/ (op'["web"].at \in {"insert", "assign"} /\ op'["web"].name = Switch)
    BY <1>0, <1>1, LookUpFacts, Constants
  <2> QED
    BY <1>0, <1>1, <2>1, WebBegins DEF Free
<1>2. ASSUME NEW c \in Clients, NEW k \in Loads, HandleLoad(c, k) PROVE SwitchInv'
  <2>1. /\ op["web"] = Free /\ op'["worker"] = op["worker"] /\ op'["web"].at \in {"free", "default"}
        /\ UNCHANGED <<store, queue, hand, step, raced>>
    BY <1>0, <1>2, Constants DEF HandleLoad, ServerTypes, seen, Free
  <2> QED
    BY <1>0, <2>1, WebBegins
<1>3. ASSUME NEW c \in Clients, NEW k \in Loads, InsertDefault(c, k) PROVE SwitchInv'
  <2>0. Roles /\ (~raced => OnTheWay)
    BY DEF SwitchInv
  <2>1. /\ op'["web"] = Free /\ op'["worker"] = op["worker"]
        /\ UNCHANGED <<queue, hand, step, raced>>
        /\ store'[Switch] = store[Switch]
        /\ store[Light] # "none" => store'[Light] = store[Light]
        /\ op["web"].at # "fire"
    BY <1>0, <1>3, Constants DEF InsertDefault, ServerTypes, seen
  <2>2. Roles' /\ ~WebFires'
    BY <2>0, <2>1 DEF Roles, WebFires, Free
  <2>3. OnTheWay => OnTheWay'
    <3>1. (store[Switch] # "none" /\ LightGetsIt) => LightGetsIt'
      BY <2>1 DEF LightGetsIt
    <3> QED
      BY <2>1, <2>2, <3>1 DEF OnTheWay, WebFires, InQueue, InHand
  <2> QED
    BY <1>0, <1>3, <2>0, <2>1, <2>2, <2>3 DEF SwitchInv
<1> QED
  BY <1>1, <1>2, <1>3, Constants DEF Web, HandlePost, RemotePost, seen

LEMMA WorkerKeeps == ASSUME SwitchInv, Worker PROVE SwitchInv'
<1>0. ServerTypes /\ ServerTypes' /\ Roles /\ (~raced => OnTheWay)
  BY WorkerTypes DEF SwitchInv
<1>1. CASE Take
  <2>1. /\ hand' = Head(queue) /\ queue' = Tail(queue) /\ step = "wait" /\ step' = "broadcast"
        /\ UNCHANGED <<store, op, raced>> /\ queue # <<>> /\ queue \in Seq(Event)
    BY <1>0, <1>1 DEF Take, seen, ServerTypes
  <2>2. /\ Len(queue) \in Nat \ {0} /\ DOMAIN queue = 1..Len(queue) /\ hand' = queue[1]
        /\ DOMAIN queue' = 1 .. Len(queue) - 1
        /\ \A i \in 1 .. Len(queue) - 1 : queue'[i] = queue[i + 1]
    BY <2>1, HeadTailProperties, EmptySeq, LenProperties
  <2>3. Roles'
    BY <1>0, <2>1 DEF Roles
  <2>4. ASSUME ~raced' PROVE OnTheWay'
    <3>1. OnTheWay /\ WebFires' = WebFires
      BY <1>0, <2>1, <2>4 DEF WebFires
    <3>2. CASE WebFires
      BY <2>1, <3>1, <3>2 DEF OnTheWay
    <3>3. CASE ~WebFires
      <4>1. \A i \in InQueue' : i + 1 \in InQueue /\ i \in Nat /\ queue'[i] = queue[i + 1]
        BY <2>2 DEF InQueue
      <4>2. \A j \in InQueue : j = 1 \/ (j \in Nat \ {0} /\ j - 1 \in InQueue')
        BY <2>2 DEF InQueue
      <4>3. ASSUME NEW i \in InQueue', \A j \in InQueue' : j <= i
            PROVE  queue'[i].value = store'[Switch]
        <5>1. \A j \in InQueue : j <= i + 1
          BY <4>1, <4>2, <4>3
        <5> QED
          BY <2>1, <3>1, <3>3, <4>1, <5>1 DEF OnTheWay
      <4>4. CASE InQueue' = {} /\ InHand'
        <5>1. \A j \in InQueue : j = 1
          BY <4>2, <4>4
        <5>a. queue[1].name = Switch /\ 1 \in DOMAIN queue
          BY <2>1, <2>2, <4>4 DEF InHand
        <5>b. 1 \in InQueue /\ \A j \in InQueue : j <= 1
          BY <5>1, <5>a DEF InQueue
        <5> QED
          BY <2>1, <2>2, <3>1, <3>3, <4>3, <4>4, <5>b DEF OnTheWay
      <4>5. CASE InQueue' = {} /\ ~InHand'
        <5>1. InQueue = {} /\ ~InHand
          BY <2>1, <2>2, <4>2, <4>5 DEF InQueue, InHand
        <5> QED
          BY <2>1, <3>1, <3>3, <4>3, <4>5, <5>1 DEF OnTheWay, LightGetsIt
      <4> QED
        BY <3>1, <3>3, <4>3, <4>4, <4>5 DEF OnTheWay
    <3> QED
      BY <3>2, <3>3
  <2> QED
    BY <1>0, <2>3, <2>4 DEF SwitchInv
<1>2. CASE Broadcast \/ DropBroadcast
  <2>1. UNCHANGED <<store, op, queue, hand, raced>> /\ step = "broadcast" /\ step' = "script"
    BY <1>2 DEF Broadcast, DropBroadcast
  <2>2. Roles' /\ (OnTheWay => OnTheWay')
    BY <1>0, <2>1 DEF Roles, OnTheWay, InQueue, InHand, WebFires, LightGetsIt
  <2> QED
    BY <1>0, <2>1, <2>2 DEF SwitchInv
<1>3. CASE RunScript
  <2>1. /\ step = "script" /\ step' = "return" /\ UNCHANGED <<store, queue, hand, raced>>
        /\ hand.value \in States /\ op["worker"] = Free
    BY <1>0, <1>3 DEF RunScript, seen, ServerTypes, Event, Roles
  <2>2. CASE hand.name = Switch
    <3>1. LookUp("worker", Light, hand.value)
      BY <1>3, <2>1, <2>2 DEF RunScript, Answers
    <3>2. /\ op'["web"] = op["web"]
          /\ IF store[Light] = hand.value THEN op'["worker"] = Free
             ELSE /\ op'["worker"].at \in {"insert", "assign"}
                  /\ op'["worker"].name = Light /\ op'["worker"].value = hand.value
      BY <1>0, <2>1, <3>1, LookUpFacts, Constants
    <3>3. Roles'
      BY <1>0, <2>1, <3>2 DEF Roles, Free
    <3>4. WebFires' = WebFires /\ InQueue' = InQueue /\ InHand /\ ~InHand'
      BY <2>1, <2>2, <3>2 DEF WebFires, InQueue, InHand
    <3>5. hand.value = store[Switch] => LightGetsIt'
      BY <2>1, <3>2 DEF LightGetsIt, Free
    <3>6. OnTheWay => OnTheWay'
      BY <2>1, <3>2, <3>4, <3>5 DEF OnTheWay
    <3> QED
      BY <1>0, <2>1, <3>3, <3>6 DEF SwitchInv
  <2>3. CASE hand.name # Switch
    <3>1. op' = op
      BY <1>3, <2>3 DEF RunScript, Answers
    <3>2. Roles' /\ (OnTheWay => OnTheWay')
      BY <1>0, <2>1, <2>3, <3>1 DEF Roles, OnTheWay, InQueue, InHand, WebFires, LightGetsIt
    <3> QED
      BY <1>0, <2>1, <3>2 DEF SwitchInv
  <2> QED
    BY <2>2, <2>3
<1>4. CASE Return
  <2>1. /\ op["worker"] = Free /\ UNCHANGED <<store, op, queue, hand, raced>>
        /\ step = "return" /\ step' = "wait"
    BY <1>4 DEF Return, seen
  <2>2. Roles' /\ (OnTheWay => OnTheWay')
    BY <1>0, <2>1 DEF Roles, OnTheWay, InQueue, InHand, WebFires, LightGetsIt
  <2> QED
    BY <1>0, <2>1, <2>2 DEF SwitchInv
<1> QED
  BY <1>1, <1>2, <1>3, <1>4 DEF Worker

LEMMA QuietKeeps == ASSUME SwitchInv, UNCHANGED server PROVE SwitchInv'
  BY DEF SwitchInv, server, seen, ServerTypes, Roles, OnTheWay, InQueue, InHand, WebFires, LightGetsIt

LEMMA NextSwitch ==
  ASSUME Remote \subseteq {Switch}, SwitchInv, [Next]_vars PROVE SwitchInv'
<1>1. ASSUME NEW c \in Clients,
             \/ Build(c) \/ Tap(c) \/ Connect(c) \/ Disconnect(c) \/ LoginAgain(c) \/ Hear(c)
             \/ \E k \in Loads : LoadPage(c, k) \/ PageArrives(c, k) \/ LoadFails(c, k)
             \/ \E v \in States : PostFails(c, v)
      PROVE  SwitchInv'
  BY <1>1, QuietKeeps DEF Build, Tap, Connect, Disconnect, LoginAgain, Hear, LoadPage, PageArrives,
     LoadFails, PostFails
<1>2. CASE UNCHANGED vars
  BY <1>2, QuietKeeps DEF vars
<1> QED
  BY <1>1, <1>2, StoreKeeps, FireKeeps, WebKeeps, WorkerKeeps DEF Next

(* If other users post the switch only, and not the light, then the light  *)
(* ends up as the last switch value that was stored, in whatever order     *)
(* posts, page requests, events and the script come, for any number of     *)
(* frontends; an insert that meets another one excepted.                   *)
THEOREM LightEndsAsSwitch ==
  ASSUME Remote \subseteq {Switch} PROVE Spec => []LightFollowsSwitch
<1>1. SwitchInv => LightFollowsSwitch
  BY Constants, EmptySeq DEF SwitchInv, LightFollowsSwitch, Settled, OnTheWay, WebFires, InQueue,
     InHand, LightGetsIt, Free
<1>2. SwitchInv /\ [Next]_vars => SwitchInv'
  BY NextSwitch
<1> QED
  BY <1>1, <1>2, InitSwitch, PTL DEF Spec

-----------------------------------------------------------------------------
(* Sequences of events, by the changes of the light in them.               *)

LEMMA ChangesAppend ==
  ASSUME NEW s \in Seq(Event), NEW e \in Event, NEW v
  PROVE  /\ e.name = Light => /\ Changes(Append(s, e)) = Changes(s) \cup {Len(s) + 1}
                              /\ e.value = v => EndsWith(Append(s, e), v)
         /\ e.name # Light => /\ Changes(Append(s, e)) = Changes(s)
                              /\ EndsWith(s, v) => EndsWith(Append(s, e), v)
<1> DEFINE t == Append(s, e)
<1>1. /\ DOMAIN s = 1..Len(s) /\ DOMAIN t = 1 .. Len(s) + 1 /\ Len(s) \in Nat
      /\ t[Len(s) + 1] = e /\ \A i \in 1..Len(s) : t[i] = s[i]
  BY AppendProperties
<1> HIDE DEF t
<1>2. CASE e.name = Light
  <2>1. Changes(t) = Changes(s) \cup {Len(s) + 1}
    BY <1>1, <1>2 DEF Changes
  <2>2. ASSUME e.value = v PROVE EndsWith(t, v)
    <3>1. ASSUME NEW i \in Changes(t), \A j \in Changes(t) : j <= i PROVE i = Len(s) + 1
      BY <1>1, <2>1, <3>1 DEF Changes
    <3> QED
      BY <1>1, <2>2, <3>1 DEF EndsWith
  <2> QED
    BY <1>2, <2>1, <2>2 DEF t
<1>3. CASE e.name # Light
  <2>1. Changes(t) = Changes(s)
    BY <1>1, <1>3 DEF Changes
  <2>2. ASSUME EndsWith(s, v) PROVE EndsWith(t, v)
    <3>1. Changes(s) \subseteq 1..Len(s)
      BY <1>1 DEF Changes
    <3> QED
      BY <1>1, <2>1, <2>2, <3>1 DEF EndsWith
  <2> QED
    BY <1>3, <2>1, <2>2 DEF t
<1> QED
  BY <1>2, <1>3

LEMMA ChangesTail ==
  ASSUME NEW s \in Seq(Event), s # <<>>, NEW v
  PROVE  /\ Head(s).name = Light <=> 1 \in Changes(s)
         /\ \A i \in Changes(Tail(s)) : i + 1 \in Changes(s)
         /\ \A i \in Changes(s) : i = 1 \/ i - 1 \in Changes(Tail(s))
         /\ EndsWith(s, v) => EndsWith(Tail(s), v)
         /\ (EndsWith(s, v) /\ Changes(Tail(s)) = {} /\ Head(s).name = Light)
              => Head(s).value = v
<1> DEFINE t == Tail(s)
<1>1. /\ DOMAIN s = 1..Len(s) /\ Len(s) \in Nat \ {0} /\ DOMAIN t = 1 .. Len(s) - 1
      /\ Head(s) = s[1] /\ \A i \in 1 .. Len(s) - 1 : t[i] = s[i + 1]
  BY HeadTailProperties, EmptySeq, LenProperties
<1> HIDE DEF t
<1>2. \A i \in Changes(t) : i + 1 \in Changes(s) /\ i \in Nat /\ t[i] = s[i + 1]
  BY <1>1 DEF Changes
<1>3. \A i \in Changes(s) : i = 1 \/ (i \in Nat \ {0} /\ i - 1 \in Changes(t))
  BY <1>1 DEF Changes
<1>4. Head(s).name = Light <=> 1 \in Changes(s)
  BY <1>1 DEF Changes
<1>5. ASSUME EndsWith(s, v) PROVE EndsWith(t, v)
  <2>1. ASSUME NEW i \in Changes(t), \A j \in Changes(t) : j <= i PROVE t[i].value = v
    <3>1. \A j \in Changes(s) : j <= i + 1
      BY <1>2, <1>3, <2>1
    <3> QED
      BY <1>2, <1>5, <3>1 DEF EndsWith
  <2> QED
    BY <2>1 DEF EndsWith
<1>6. ASSUME EndsWith(s, v), Changes(t) = {}, Head(s).name = Light PROVE Head(s).value = v
  <2>1. 1 \in Changes(s) /\ \A j \in Changes(s) : j <= 1
    BY <1>3, <1>4, <1>6
  <2> QED
    BY <1>1, <1>6, <2>1 DEF EndsWith
<1> QED
  BY <1>2, <1>3, <1>4, <1>5, <1>6 DEF t

LEMMA ChangesConcat ==
  ASSUME NEW a \in Seq(Event), NEW b \in Seq(Event), NEW v
  PROVE  /\ a \o b \in Seq(Event)
         /\ Changes(a \o b) = {} <=> (Changes(a) = {} /\ Changes(b) = {})
         /\ (Changes(b) # {} /\ EndsWith(b, v)) => EndsWith(a \o b, v)
         /\ (Changes(b) = {} /\ EndsWith(a, v)) => EndsWith(a \o b, v)
<1> DEFINE t == a \o b
<1>1. /\ DOMAIN a = 1..Len(a) /\ DOMAIN b = 1..Len(b) /\ Len(a) \in Nat /\ Len(b) \in Nat
      /\ t \in Seq(Event) /\ DOMAIN t = 1 .. Len(a) + Len(b)
      /\ \A i \in 1..Len(a) : t[i] = a[i]
      /\ \A i \in 1..Len(b) : t[Len(a) + i] = b[i]
  BY ConcatProperties, LenProperties
<1> HIDE DEF t
<1>2. \A i \in Changes(a) : i \in 1..Len(a) /\ i \in Changes(t)
  BY <1>1 DEF Changes
<1>3. \A i \in Changes(b) : i \in 1..Len(b) /\ Len(a) + i \in Changes(t)
  BY <1>1 DEF Changes
<1>4. ASSUME NEW i \in Changes(t)
      PROVE  \/ i \in 1..Len(a) /\ i \in Changes(a) /\ t[i] = a[i]
             \/ i \in Nat /\ i > Len(a) /\ i - Len(a) \in Changes(b) /\ t[i] = b[i - Len(a)]
  <2>1. i \in 1 .. Len(a) + Len(b) /\ t[i].name = Light
    BY <1>1 DEF Changes
  <2>2. CASE i \in 1..Len(a)
    BY <1>1, <2>1, <2>2 DEF Changes
  <2>3. CASE i \notin 1..Len(a)
    <3>1. i - Len(a) \in 1..Len(b) /\ i = Len(a) + (i - Len(a))
      BY <1>1, <2>1, <2>3
    <3>2. t[i] = b[i - Len(a)]
      BY <1>1, <3>1
    <3> QED
      BY <1>1, <2>1, <3>1, <3>2 DEF Changes
  <2> QED
    BY <2>2, <2>3
<1>5. ASSUME Changes(b) # {}, EndsWith(b, v) PROVE EndsWith(t, v)
  <2>1. ASSUME NEW i \in Changes(t), \A j \in Changes(t) : j <= i PROVE t[i].value = v
    <3>1. PICK k \in Changes(b) : TRUE
      BY <1>5
    <3>2. i > Len(a) /\ i \in Nat /\ i - Len(a) \in Changes(b) /\ t[i] = b[i - Len(a)]
      BY <1>1, <1>3, <1>4, <2>1, <3>1
    <3>3. \A j \in Changes(b) : j <= i - Len(a)
      BY <1>1, <1>3, <2>1, <3>2
    <3> QED
      BY <1>5, <3>2, <3>3 DEF EndsWith
  <2> QED
    BY <2>1 DEF EndsWith
<1>6. ASSUME Changes(b) = {}, EndsWith(a, v) PROVE EndsWith(t, v)
  BY <1>2, <1>4, <1>6 DEF EndsWith
<1> QED
  BY <1>1, <1>2, <1>3, <1>4, <1>5, <1>6 DEF t

LEMMA ChangesBehind ==
  ASSUME NEW s \in Seq(Event), NEW n \in Nat, n <= Len(s), NEW v
  PROVE  /\ SubSeq(s, n + 1, Len(s)) \in Seq(Event)
         /\ Changes(SubSeq(s, n + 1, Len(s))) # {} <=> \E i \in Changes(s) : i > n
         /\ EndsWith(s, v) => EndsWith(SubSeq(s, n + 1, Len(s)), v)
<1> DEFINE t == SubSeq(s, n + 1, Len(s))
<1>0. n + 1 \in Int /\ Len(s) \in Int /\ Len(s) \in Nat /\ DOMAIN s = 1..Len(s)
  BY LenProperties
<1>1. /\ t \in Seq(Event) /\ DOMAIN t = 1 .. Len(s) - n
      /\ \A i \in 1 .. Len(s) - n : t[i] = s[n + i]
  <2> DEFINE m == n + 1
             l == Len(s)
  <2>1. m \in Int /\ l \in Int /\ m <= l + 1 /\ m = n + 1 /\ l = Len(s) /\ m > 0
    BY <1>0
  <2>2. \A i \in m..l : s[i] \in Event
    BY <1>0, ElementOfSeq
  <2> HIDE DEF m, l
  <2>3. /\ SubSeq(s, m, l) \in Seq(Event)
        /\ Len(SubSeq(s, m, l)) = IF m <= l THEN l - m + 1 ELSE 0
        /\ \A i \in 1 .. l - m + 1 : SubSeq(s, m, l)[i] = s[m + i - 1]
    BY <2>1, <2>2, SubSeqProperties
  <2>4. Len(SubSeq(s, m, l)) = l - n
    BY <2>1, <2>3
  <2>5. ASSUME NEW i \in 1 .. l - n PROVE SubSeq(s, m, l)[i] = s[n + i]
    <3>1. i \in 1 .. l - m + 1 /\ m + i - 1 = n + i
      BY <2>1
    <3>2. SubSeq(s, m, l)[i] = s[m + i - 1]
      BY <2>3, <3>1
    <3> QED
      BY <3>1, <3>2
  <2> QED
    BY <2>1, <2>3, <2>4, <2>5, LenProperties
<1> HIDE DEF t
<1>2. \A i \in Changes(t) : i \in Nat \ {0} /\ n + i \in Changes(s) /\ t[i] = s[n + i]
  BY <1>0, <1>1 DEF Changes
<1>3. \A i \in Changes(s) : i \in Nat /\ (i > n => i - n \in Changes(t))
  <2> SUFFICES ASSUME NEW i \in Changes(s), i > n PROVE i - n \in Changes(t)
    BY <1>0 DEF Changes
  <2>1. i \in 1..Len(s) /\ s[i].name = Light /\ i - n \in 1 .. Len(s) - n /\ i = n + (i - n)
    BY <1>0 DEF Changes
  <2> QED
    BY <1>1, <2>1 DEF Changes
<1>4. ASSUME EndsWith(s, v) PROVE EndsWith(t, v)
  <2>1. ASSUME NEW i \in Changes(t), \A j \in Changes(t) : j <= i PROVE t[i].value = v
    <3>1. \A j \in Changes(s) : j <= n + i
      BY <1>2, <1>3, <2>1
    <3> QED
      BY <1>2, <1>4, <3>1 DEF EndsWith
  <2> QED
    BY <2>1 DEF EndsWith
<1> QED
  <2>1. Changes(t) # {} <=> \E i \in Changes(s) : i > n
    BY <1>2, <1>3
  <2> QED
    BY <1>1, <1>4, <2>1 DEF t

-----------------------------------------------------------------------------
(* What a panel shows.  The changes of the light on the server are, from   *)
(* the newest: the one the script has stored and is about to fire, those   *)
(* in the queue, the one in the worker's hand, and those in the ring.  The *)
(* newest of them, wherever it is, has the value of the light, but for one *)
(* in the ring behind which another has been dropped (stale).              *)

Fires   == op["worker"].at = "fire"
Handed  == step = "broadcast" /\ hand.name = Light
Pending == Fires \/ Changes(queue) # {} \/ Handed
Newest ==
  IF Fires THEN op["worker"].value = store[Light]
  ELSE /\ EndsWith(queue, store[Light])
       /\ Changes(queue) = {} =>
            IF Handed THEN hand.value = store[Light]
                      ELSE ~stale => EndsWith(log, store[Light])

\* Before the light is set nobody has been told of it.
Unset ==
  store[Light] = "none" =>
    /\ ~Pending /\ Changes(log) = {}
    /\ \A c \in Clients : panel[c] = "absent" /\ \A k \in Loads : load[c][k] \notin States

\* The web thread is about to insert the default for one request at a time.
OneReads ==
  \A c \in Clients : \A k \in Loads : load[c][k] = "reading" =>
    /\ op["web"].at = "default"
    /\ \A d \in Clients : \A l \in Loads : load[d][l] = "reading" => d = c /\ l = k

\* A change will come to c for certain: it is on its way to the ring, or c's web socket is
\* connected, and it lies before it in the ring.
Coming(c) == Pending \/ (link[c] = "up" /\ \E i \in Changes(log) : i > cursor[c])

Shows(c) ==
  (HasRead(c) /\ ~missed[c] /\ ~Coming(c)) =>
    /\ panel[c] \in {"absent", "WAIT", store[Light]}
    /\ \A k \in Loads : /\ load[c][k] \in States => load[c][k] = store[Light]
                        /\ load[c][k] = "reading" => store[Light] = "none"
Marked == stale => \A c \in Clients : missed[c]
Follows == Newest /\ \A c \in Clients : Shows(c)
Shown    == Unset /\ OneReads /\ Marked /\ (raced \/ Follows)
Typed    == ServerTypes /\ FrontTypes /\ SocketTypes /\ Roles
PanelInv == TypeOK /\ SwitchInv /\ Shown

LEMMA TypedHolds == TypeOK /\ SwitchInv => Typed
  BY Types DEF Typed, SwitchInv

LEMMA TypedFacts ==
  ASSUME Typed
  PROVE  /\ Len(log) \in Nat /\ \A c \in Clients : cursor[c] \in Nat /\ cursor[c] <= Len(log)
         /\ hand \in Event /\ hand.value \in States /\ op["worker"].value \in States
         /\ store[Light] \in States \cup {"none"}
         /\ \A c \in Clients : \A k \in Loads : load[c][k] \in LoadStates
         /\ \A i \in Changes(log) : i \in 1..Len(log) /\ log[i].value \in States
<1>1. Len(log) \in Nat /\ \A c \in Clients : cursor[c] \in Nat /\ cursor[c] <= Len(log)
  BY DEF Typed, SocketTypes
<1>2. hand \in Event /\ hand.value \in States /\ op["worker"].value \in States
  BY Constants DEF Typed, ServerTypes, Event, Op
<1>3. store[Light] \in States \cup {"none"}
  BY DEF Typed, ServerTypes
<1>4. \A c \in Clients : \A k \in Loads : load[c][k] \in LoadStates
  BY DEF Typed, FrontTypes
<1>5. \A i \in Changes(log) : i \in 1..Len(log) /\ log[i].value \in States
  <2>1. \A i \in Changes(log) : i \in 1..Len(log)
    BY LenProperties DEF Typed, SocketTypes, Changes
  <2>2. \A i \in 1..Len(log) : log[i] \in Event
    BY ElementOfSeq DEF Typed, SocketTypes
  <2> QED
    BY <2>1, <2>2 DEF Event
<1> QED
  BY <1>1, <1>2, <1>3, <1>4, <1>5

LEMMA InitPanel == Init => Shown
<1> SUFFICES ASSUME Init PROVE Shown
  OBVIOUS
<1>1. Changes(<<>>) = {}
  BY DEF Changes
<1>2. ~Fires /\ ~Handed /\ ~Pending /\ Changes(log) = {}
  BY <1>1, Constants DEF Init, Fires, Handed, Pending, Free
<1>3. Unset /\ OneReads /\ Marked
  BY <1>2 DEF Init, Unset, OneReads, Marked, States
<1>4. Newest
  BY <1>1, <1>2 DEF Init, Newest, EndsWith
<1>5. \A c \in Clients : Shows(c)
  BY DEF Init, Shows, HasRead, States
<1> QED
  BY <1>3, <1>4, <1>5 DEF Shown, Follows

\* A frontend to which nothing happens, while all that comes to it still does.
LEMMA ShowsKept ==
  ASSUME NEW c \in Clients, Shows(c), panel'[c] = panel[c], load'[c] = load[c],
         missed[c] => missed'[c], Coming(c) => Coming(c)', store'[Light] = store[Light]
  PROVE  Shows(c)'
  BY DEF Shows, HasRead

\* The web thread writes the switch, or begins to: the light is left alone.
LEMMA LightKept ==
  ASSUME Shown, UNCHANGED <<load, panel, link, cursor, log, stale, missed, hand, step>>,
         store'[Light] = store[Light], op'["worker"] = op["worker"],
         op'["web"].at = op["web"].at \/ op["web"].at # "default",
         Changes(queue') = Changes(queue), raced => raced',
         EndsWith(queue, store[Light]) => EndsWith(queue', store[Light])
  PROVE  Shown'
<1>1. (Fires' <=> Fires) /\ (Handed' <=> Handed) /\ (Pending' <=> Pending)
  BY DEF Fires, Handed, Pending
<1>2. Unset' /\ OneReads' /\ Marked'
  BY <1>1 DEF Shown, Unset, OneReads, Marked
<1>3. Newest => Newest'
  BY <1>1 DEF Newest, Fires
<1>4. ASSUME NEW c \in Clients, Shows(c) PROVE Shows(c)'
  BY <1>1, <1>4, ShowsKept DEF Coming
<1> QED
  BY <1>2, <1>3, <1>4 DEF Shown, Follows

LEMMA StoreShown == ASSUME Typed, Shown, NEW t \in Threads, Store(t) PROVE Shown'
<1>0. ServerTypes /\ Roles /\ op[t] \in Op
  BY DEF Typed, ServerTypes
<1>1. /\ op'[t].at = "fire" /\ op'[t].name = op[t].name /\ op'[t].value = op[t].value
      /\ \A u \in Threads \ {t} : op'[u] = op[u]
      /\ op[t].at \in {"insert", "assign"} /\ (raced => raced')
      /\ UNCHANGED <<queue, hand, step, stale, load, panel, link, log, cursor, missed>>
  BY <1>0 DEF Store, ServerTypes, Op, frontend, socket
<1>2. ~raced' => ~raced /\ store'[op[t].name] = op[t].value
  BY <1>0 DEF Store, ServerTypes, Op
<1>3. CASE t = "web"
  <2>1. store'[Light] = store[Light]
    BY <1>0, <1>1, <1>3, Constants DEF Store, ServerTypes, Roles
  <2> QED
    BY <1>1, <1>3, <2>1, LightKept, Constants
<1>4. CASE t = "worker"
  <2>1. op[t].name = Light /\ op[t].value \in States
    BY <1>0, <1>4 DEF Roles, Op
  <2>2. store'[Light] # "none"
    BY <1>0, <1>1, <2>1, Constants DEF Store, Stored, ServerTypes
  <2>3. Fires' /\ Pending'
    BY <1>1, <1>4 DEF Fires, Pending
  <2>4. Unset' /\ Marked'
    BY <1>1, <2>2 DEF Shown, Unset, Marked
  <2>5. OneReads'
    BY <1>1, <1>4, Constants DEF Shown, OneReads
  <2>6. ~raced' => Newest'
    BY <1>1, <1>2, <1>4, <2>1, <2>3 DEF Newest
  <2>7. \A c \in Clients : Shows(c)'
    BY <2>3 DEF Shows, Coming
  <2> QED
    BY <2>4, <2>5, <2>6, <2>7 DEF Shown, Follows
<1> QED
  BY <1>3, <1>4 DEF Threads

LEMMA FireShown == ASSUME Typed, Shown, NEW t \in Threads, Fire(t) PROVE Shown'
<1> DEFINE e == [name |-> op[t].name, value |-> op[t].value]
<1>0. ServerTypes /\ Roles /\ op[t] \in Op /\ op[t].at = "fire"
  BY DEF Typed, ServerTypes, Fire
<1>1. /\ queue' = Append(queue, e) /\ op'[t] = Free
      /\ \A u \in Threads \ {t} : op'[u] = op[u]
      /\ UNCHANGED <<store, hand, step, stale, raced, load, panel, link, log, cursor, missed>>
  BY <1>0 DEF Fire, Push, ServerTypes, frontend, socket
<1>2. queue \in Seq(Event) /\ e \in Event /\ e.name = op[t].name /\ e.value = op[t].value
  BY <1>0 DEF ServerTypes, Event, Op
<1> HIDE DEF e
<1>3. CASE t = "web"
  <2>1. e.name # Light
    BY <1>0, <1>2, <1>3, Constants DEF Roles
  <2>2. /\ Changes(queue') = Changes(queue)
        /\ EndsWith(queue, store[Light]) => EndsWith(queue', store[Light])
    BY <1>1, <1>2, <2>1, ChangesAppend
  <2> QED
    BY <1>0, <1>1, <1>3, <2>2, LightKept, Constants
<1>4. CASE t = "worker"
  <2>1. e.name = Light /\ Fires /\ ~Fires' /\ Pending
    BY <1>0, <1>1, <1>2, <1>4 DEF Roles, Fires, Pending, Free
  <2>2. Changes(queue') # {} /\ (e.value = store[Light] => EndsWith(queue', store[Light]))
    BY <1>1, <1>2, <2>1, ChangesAppend
  <2>3. Pending' /\ store'[Light] # "none" /\ store' = store
    BY <1>1, <2>1, <2>2 DEF Pending, Shown, Unset
  <2>4. Unset' /\ Marked'
    BY <1>1, <2>3 DEF Shown, Unset, Marked
  <2>5. OneReads'
    BY <1>1, <1>4, Constants DEF Shown, OneReads
  <2>6. Newest => Newest'
    BY <1>1, <1>2, <1>4, <2>1, <2>2, <2>3 DEF Newest
  <2>7. \A c \in Clients : Shows(c)'
    BY <2>3 DEF Shows, Coming
  <2> QED
    BY <1>1, <2>4, <2>5, <2>6, <2>7 DEF Shown, Follows
<1> QED
  BY <1>3, <1>4 DEF Threads

LEMMA PostShown ==
  ASSUME Remote \subseteq {Switch}, Typed, Shown,
         \/ \E c \in Clients, v \in States : HandlePost(c, v)
         \/ \E n \in Remote, v \in States : RemotePost(n, v)
  PROVE  Shown'
<1>1. ServerTypes
  BY DEF Typed
<1>2. PICK v \in States : LookUp("web", Switch, v)
  BY DEF HandlePost, RemotePost
<1>3. op["web"] = Free /\ op'["worker"] = op["worker"] /\ op'["web"].at \in {"free", "insert", "assign"}
  BY <1>1, <1>2, LookUpFacts, Constants DEF Free
<1>4. UNCHANGED <<load, panel, link, cursor, log, stale, missed, hand, step, store, queue, raced>>
  BY DEF HandlePost, RemotePost, seen, frontend, socket
<1>5. op["web"].at = "free"
  BY <1>3 DEF Free
<1> QED
  BY <1>4, <1>3, <1>5, LightKept

LEMMA LoadShown ==
  ASSUME Typed, Shown, NEW c \in Clients, NEW k \in Loads, HandleLoad(c, k) PROVE Shown'
<1>0. ServerTypes /\ FrontTypes /\ op["web"] = Free /\ store[Light] \in States \cup {"none"}
  BY TypedFacts DEF Typed, HandleLoad
<1>1. /\ UNCHANGED <<store, queue, hand, step, stale, raced, panel, link, log, cursor, missed>>
      /\ op'["worker"] = op["worker"]
  BY <1>0, Constants DEF HandleLoad, seen, socket, ServerTypes
<1>2. /\ \A d \in Clients, l \in Loads : (d # c \/ l # k) => load'[d][l] = load[d][l]
      /\ load'[c][k] = IF store[Light] = "none" THEN "reading" ELSE store[Light]
      /\ store[Light] = "none" => op'["web"].at = "default"
  <2> DEFINE x == IF store[Light] = "none" THEN "reading" ELSE store[Light]
  <2>1. load' = [load EXCEPT ![c] = [load[c] EXCEPT ![k] = x]]
    BY DEF HandleLoad
  <2>2. store[Light] = "none" => op'["web"].at = "default"
    BY <1>0, Constants DEF HandleLoad, ServerTypes, Free
  <2> HIDE DEF x
  <2>3. /\ \A d \in Clients, l \in Loads : (d # c \/ l # k) => load'[d][l] = load[d][l]
        /\ load'[c][k] = x
    <3>1. load'[c] = [load[c] EXCEPT ![k] = x] /\ \A d \in Clients \ {c} : load'[d] = load[d]
      BY <1>0, <2>1 DEF FrontTypes
    <3>2. DOMAIN load[c] = Loads
      BY <1>0 DEF FrontTypes
    <3> QED
      BY <3>1, <3>2
  <2> QED
    BY <2>2, <2>3 DEF x
<1>3. Fires' = Fires /\ Handed' = Handed /\ Pending' = Pending /\ \A d \in Clients : Coming(d)' = Coming(d)
  BY <1>1 DEF Fires, Handed, Pending, Coming
<1>4. \A d \in Clients : \A l \in Loads : load[d][l] # "reading"
  BY <1>0 DEF Shown, OneReads, Free
<1>5. Unset' /\ Marked'
  <2>1. ASSUME store[Light] = "none", NEW d \in Clients, NEW l \in Loads PROVE load'[d][l] \notin States
    BY <1>2, <2>1 DEF Shown, Unset, States
  <2> QED
    BY <1>1, <1>3, <2>1 DEF Shown, Unset, Marked
<1>6. OneReads'
  <2>1. ASSUME NEW d \in Clients, NEW l \in Loads, load'[d][l] = "reading"
        PROVE  d = c /\ l = k /\ store[Light] = "none"
    <3>1. d = c /\ l = k
      BY <1>2, <1>4, <2>1
    <3> QED
      BY <1>0, <1>2, <2>1, <3>1 DEF States
  <2> QED
    BY <1>2, <2>1 DEF OneReads
<1>7. Newest => Newest'
  BY <1>1, <1>3 DEF Newest
<1>8. ASSUME NEW d \in Clients, d # c, Shows(d) PROVE Shows(d)'
  <2>1. load'[d] = load[d]
    BY <1>0, <1>8 DEF HandleLoad, FrontTypes
  <2> QED
    BY <1>1, <1>3, <1>8, <2>1, ShowsKept
<1>9. ASSUME Shows(c) PROVE Shows(c)'
  <2> SUFFICES ASSUME HasRead(c)', ~missed[c], ~Coming(c)
               PROVE  /\ panel[c] \in {"absent", "WAIT", store[Light]}
                      /\ \A l \in Loads : /\ load'[c][l] \in States => load'[c][l] = store[Light]
                                          /\ load'[c][l] = "reading" => store[Light] = "none"
    BY <1>1, <1>3 DEF Shows
  <2>1. /\ load'[c][k] \in States => load'[c][k] = store[Light]
        /\ load'[c][k] = "reading" => store[Light] = "none"
    BY <1>0, <1>2 DEF States
  <2>2. CASE HasRead(c)
    BY <1>2, <1>9, <2>1, <2>2 DEF Shows
  <2>3. CASE ~HasRead(c)
    BY <1>2, <2>1, <2>3 DEF HasRead
  <2> QED
    BY <2>2, <2>3
<1> QED
  BY <1>1, <1>5, <1>6, <1>7, <1>8, <1>9 DEF Shown, Follows

LEMMA DefaultShown ==
  ASSUME Typed, Shown, NEW c \in Clients, NEW k \in Loads, InsertDefault(c, k) PROVE Shown'
<1>0. ServerTypes /\ FrontTypes /\ store[Light] \in States \cup {"none"}
  BY TypedFacts DEF Typed
<1>1. /\ UNCHANGED <<queue, hand, step, stale, raced, panel, link, log, cursor, missed>>
      /\ op'["worker"] = op["worker"]
      /\ store'[Light] = IF store[Light] = "none" THEN "OFF" ELSE store[Light]
  BY <1>0, Constants DEF InsertDefault, seen, socket, ServerTypes
<1>2. /\ \A d \in Clients, l \in Loads : (d # c \/ l # k) => load'[d][l] = load[d][l]
      /\ load'[c][k] = "OFF" /\ load[c][k] = "reading"
  BY <1>0, Constants DEF InsertDefault, FrontTypes, ServerTypes
<1>3. Fires' = Fires /\ Handed' = Handed /\ Pending' = Pending /\ \A d \in Clients : Coming(d)' = Coming(d)
  BY <1>1 DEF Fires, Handed, Pending, Coming
<1>4. \A d \in Clients : \A l \in Loads : (d # c \/ l # k) => load[d][l] # "reading"
  BY <1>2 DEF Shown, OneReads
<1>5. store'[Light] # "none" /\ Unset' /\ Marked' /\ OneReads'
  <2>1. \A d \in Clients : \A l \in Loads : load'[d][l] # "reading"
    BY <1>2, <1>4
  <2> QED
    BY <1>1, <2>1 DEF Shown, Unset, Marked, OneReads
<1>6. CASE store[Light] = "none"
  <2>1. ~Pending /\ Changes(log) = {} /\ Changes(queue) = {} /\ ~Fires /\ ~Handed
    BY <1>6 DEF Shown, Unset, Pending
  <2>2. \A d \in Clients : panel[d] = "absent" /\ \A l \in Loads : load[d][l] \notin States
    BY <1>6 DEF Shown, Unset
  <2>3. Newest'
    BY <1>1, <1>3, <2>1 DEF Newest, EndsWith
  <2>4. ASSUME NEW d \in Clients PROVE Shows(d)'
    <3>1. panel'[d] = "absent"
      BY <1>1, <2>2
    <3>2. ASSUME NEW l \in Loads
          PROVE  /\ load'[d][l] \in States => load'[d][l] = store'[Light]
                 /\ load'[d][l] # "reading"
      BY <1>1, <1>2, <1>4, <1>6, <2>2
    <3> QED
      BY <3>1, <3>2 DEF Shows
  <2> QED
    BY <1>5, <2>3, <2>4 DEF Shown, Follows
<1>7. CASE store[Light] # "none"
  <2>1. Newest => Newest'
    BY <1>1, <1>3, <1>7 DEF Newest
  <2>2. ASSUME NEW d \in Clients, d # c, Shows(d) PROVE Shows(d)'
    <3>1. load'[d] = load[d]
      BY <2>2 DEF InsertDefault
    <3> QED
      BY <1>1, <1>3, <1>7, <2>2, <3>1, ShowsKept
  <2>3. ASSUME Shows(c) PROVE Shows(c)'
    <3>1. missed[c] \/ Coming(c)
      BY <1>2, <1>7, <2>3 DEF Shows, HasRead
    <3> QED
      BY <1>1, <1>3, <3>1 DEF Shows
  <2> QED
    BY <1>1, <1>5, <2>1, <2>2, <2>3 DEF Shown, Follows
<1> QED
  BY <1>6, <1>7

LEMMA TakeShown == ASSUME Typed, Shown, Take PROVE Shown'
<1>0. queue \in Seq(Event) /\ queue # <<>> /\ step = "wait"
  BY DEF Typed, ServerTypes, Take
<1>1. /\ hand' = Head(queue) /\ queue' = Tail(queue) /\ step' = "broadcast"
      /\ UNCHANGED <<store, op, stale, raced, load, panel, link, log, cursor, missed>>
  BY DEF Take, seen, frontend, socket
<1>2. /\ Handed' <=> 1 \in Changes(queue)
      /\ \A i \in Changes(queue') : i + 1 \in Changes(queue)
      /\ \A i \in Changes(queue) : i = 1 \/ i - 1 \in Changes(queue')
      /\ ~Handed /\ Fires' = Fires
  BY <1>0, <1>1, ChangesTail DEF Handed, Fires
<1>3. Pending' <=> Pending
  BY <1>2 DEF Pending
<1>4. Unset' /\ OneReads' /\ Marked'
  BY <1>1, <1>3 DEF Shown, Unset, OneReads, Marked
<1>5. ASSUME Newest PROVE Newest'
  <2>1. CASE Fires
    BY <1>1, <1>2, <1>5, <2>1 DEF Newest
  <2>2. CASE ~Fires
    <3>1. EndsWith(queue, store[Light])
      BY <1>5, <2>2 DEF Newest
    <3>2. /\ EndsWith(queue', store[Light])
          /\ (Changes(queue') = {} /\ Handed') => hand'.value = store[Light]
      BY <1>0, <1>1, <3>1, ChangesTail DEF Handed
    <3>3. (Changes(queue') = {} /\ ~Handed') => Changes(queue) = {}
      BY <1>2
    <3> QED
      BY <1>1, <1>2, <1>5, <2>2, <3>2, <3>3 DEF Newest
  <2> QED
    BY <2>1, <2>2
<1>6. ASSUME NEW c \in Clients, Shows(c) PROVE Shows(c)'
  BY <1>1, <1>3, <1>6, ShowsKept DEF Coming
<1> QED
  BY <1>1, <1>4, <1>5, <1>6 DEF Shown, Follows

LEMMA BroadcastShown == ASSUME Typed, Shown, Broadcast PROVE Shown'
<1>0. log \in Seq(Event) /\ hand \in Event /\ Len(log) \in Nat
  BY TypedFacts DEF Typed, SocketTypes
<1>1. /\ log' = Append(log, hand) /\ stale' = (stale /\ hand.name # Light)
      /\ step = "broadcast" /\ step' = "script"
      /\ UNCHANGED <<store, op, queue, hand, raced, load, panel, link, cursor>>
  BY DEF Broadcast, frontend
<1>2. /\ hand.name = Light => /\ Changes(log') = Changes(log) \cup {Len(log) + 1}
                              /\ hand.value = store[Light] => EndsWith(log', store[Light])
      /\ hand.name # Light => /\ Changes(log') = Changes(log)
                              /\ EndsWith(log, store[Light]) => EndsWith(log', store[Light])
  BY <1>0, <1>1, ChangesAppend
<1>3. /\ (Handed <=> hand.name = Light) /\ ~Handed' /\ Fires' = Fires
      /\ (Pending' <=> Fires \/ Changes(queue) # {})
  BY <1>1 DEF Handed, Fires, Pending
<1>4. \A c \in Clients : /\ missed[c] => missed'[c]
                         /\ (hand.name = Light /\ link[c] # "up" /\ HasRead(c)) => missed'[c]
  BY DEF Broadcast
<1>5. Unset' /\ OneReads' /\ Marked'
  BY <1>1, <1>2, <1>3, <1>4 DEF Shown, Unset, OneReads, Marked, Pending
<1>6. ASSUME Newest PROVE Newest'
  BY <1>1, <1>2, <1>3, <1>6 DEF Newest
<1>7. ASSUME NEW c \in Clients, Shows(c) PROVE Shows(c)'
  <2>1. CASE hand.name # Light
    BY <1>1, <1>2, <1>3, <1>4, <1>7, <2>1, ShowsKept DEF Coming, Pending
  <2>2. CASE hand.name = Light /\ link[c] # "up"
    BY <1>1, <1>4, <2>2 DEF Shows, HasRead
  <2>3. CASE hand.name = Light /\ link[c] = "up"
    <3>1. Len(log) + 1 \in Changes(log') /\ Len(log) + 1 > cursor'[c]
      BY <1>0, <1>1, <1>2, <2>3, TypedFacts
    <3>2. Coming(c)'
      BY <1>1, <2>3, <3>1 DEF Coming
    <3> QED
      BY <3>2 DEF Shows
  <2> QED
    BY <2>1, <2>2, <2>3
<1> QED
  BY <1>1, <1>5, <1>6, <1>7 DEF Shown, Follows

LEMMA DropShown == ASSUME Typed, Shown, DropBroadcast PROVE Shown'
<1>1. /\ step = "broadcast" /\ step' = "script"
      /\ stale' = (stale \/ (hand.name = Light /\ log # <<>>))
      /\ UNCHANGED <<store, op, queue, hand, raced, load, panel, link, log, cursor>>
  BY DEF DropBroadcast, frontend, socket
<1>2. /\ (Handed <=> hand.name = Light) /\ ~Handed' /\ Fires' = Fires
      /\ (Pending' <=> Fires \/ Changes(queue) # {})
  BY <1>1 DEF Handed, Fires, Pending
<1>3. \A c \in Clients : /\ missed[c] => missed'[c]
                         /\ (hand.name = Light /\ (HasRead(c) \/ log # <<>>)) => missed'[c]
  BY DEF DropBroadcast
<1>4. Unset' /\ OneReads' /\ Marked'
  BY <1>1, <1>2, <1>3 DEF Shown, Unset, OneReads, Marked, Pending
<1>5. ASSUME Newest PROVE Newest'
  <2>1. CASE hand.name # Light
    BY <1>1, <1>2, <1>5, <2>1 DEF Newest
  <2>2. CASE hand.name = Light
    <3>1. Changes(<<>>) = {}
      BY DEF Changes
    <3>2. ~stale' => EndsWith(log, store[Light])
      BY <1>1, <2>2, <3>1 DEF EndsWith
    <3> QED
      BY <1>1, <1>2, <1>5, <3>2 DEF Newest
  <2> QED
    BY <2>1, <2>2
<1>6. ASSUME NEW c \in Clients, Shows(c) PROVE Shows(c)'
  <2>1. CASE hand.name # Light
    BY <1>1, <1>2, <1>3, <1>6, <2>1, ShowsKept DEF Coming, Pending
  <2>2. CASE hand.name = Light
    BY <1>1, <1>3, <2>2 DEF Shows, HasRead
  <2> QED
    BY <2>1, <2>2
<1> QED
  BY <1>1, <1>4, <1>5, <1>6 DEF Shown, Follows

LEMMA ScriptShown == ASSUME Typed, Shown, RunScript \/ Return PROVE Shown'
<1>0. ServerTypes /\ hand.value \in States
  BY TypedFacts DEF Typed
<1>1. /\ step \in {"script", "return"} /\ step' \in {"return", "wait"}
      /\ UNCHANGED <<store, queue, hand, stale, raced, load, panel, link, log, cursor, missed>>
  BY DEF RunScript, Return, seen, frontend, socket
<1>2. op' = op \/ LookUp("worker", Light, hand.value)
  BY DEF RunScript, Return
<1>3. op'["web"] = op["web"] /\ (op' = op \/ (~Fires /\ ~Fires'))
  BY <1>0, <1>2, LookUpFacts, Constants DEF Fires, Free
<1>4. ~Handed /\ ~Handed' /\ (Fires' <=> Fires) /\ (Pending' <=> Pending)
  BY <1>1, <1>3 DEF Handed, Fires, Pending
<1>5. Unset' /\ OneReads' /\ Marked'
  BY <1>1, <1>3, <1>4 DEF Shown, Unset, OneReads, Marked
<1>6. Newest => Newest'
  BY <1>1, <1>3, <1>4 DEF Newest
<1>7. ASSUME NEW c \in Clients, Shows(c) PROVE Shows(c)'
  BY <1>1, <1>4, <1>7, ShowsKept DEF Coming
<1> QED
  BY <1>1, <1>5, <1>6, <1>7 DEF Shown, Follows

\* What happens to one frontend leaves the server alone; requests and answers.
LEMMA FrontendShown ==
  ASSUME Typed, Shown, NEW c \in Clients,
         \/ Build(c) \/ Tap(c) \/ \E v \in States : PostFails(c, v)
         \/ \E k \in Loads : LoadPage(c, k) \/ PageArrives(c, k) \/ LoadFails(c, k)
  PROVE  Shown'
<1>0. FrontTypes
  BY DEF Typed
<1>1. UNCHANGED <<server, link, log, cursor, missed>>
  BY DEF Build, Tap, PostFails, LoadPage, PageArrives, LoadFails, frontend, socket
<1>2. \A d \in Clients \ {c} : load'[d] = load[d] /\ panel'[d] = panel[d]
  BY <1>0 DEF Build, Tap, PostFails, LoadPage, PageArrives, LoadFails, frontend, FrontTypes
<1>3. /\ panel'[c] \in {panel[c], "WAIT"} \/ \E k \in Loads : load[c][k] \in States /\ panel'[c] = load[c][k]
      /\ panel'[c] # panel[c] => (panel[c] \in States \/ \E k \in Loads : load[c][k] \in States)
  BY <1>0 DEF Build, Tap, PostFails, LoadPage, PageArrives, LoadFails, frontend, FrontTypes
<1>4. \A l \in Loads : load'[c][l] \in {load[c][l], "idle", "asked"}
  <2>1. ASSUME NEW k \in Loads, LoadPage(c, k) \/ PageArrives(c, k) \/ LoadFails(c, k),
               NEW l \in Loads
        PROVE  load'[c][l] \in {load[c][l], "idle", "asked"}
    <3>1. PICK x \in {"idle", "asked"} : load' = [load EXCEPT ![c] = [load[c] EXCEPT ![k] = x]]
      BY <2>1 DEF LoadPage, PageArrives, LoadFails
    <3>2. load'[c] = [load[c] EXCEPT ![k] = x] /\ DOMAIN load[c] = Loads
      BY <1>0, <3>1 DEF FrontTypes
    <3> QED
      BY <3>2
  <2> QED
    BY <2>1 DEF Build, Tap, PostFails, frontend
<1>5. /\ (Pending' <=> Pending) /\ \A d \in Clients : Coming(d)' <=> Coming(d)
      /\ UNCHANGED <<store, op, raced, stale>>
  BY <1>1 DEF server, seen, Pending, Fires, Handed, Coming
<1>6. Newest => Newest'
  BY <1>1, <1>5 DEF server, seen, Newest, Fires, Handed
<1>7. Unset' /\ OneReads' /\ Marked'
  <2>1. \A d \in Clients, l \in Loads : /\ load'[d][l] \in States => load[d][l] \in States
                                        /\ load'[d][l] = "reading" => load[d][l] = "reading"
    BY <1>2, <1>4 DEF States
  <2>2. Unset'
    <3>1. ASSUME store[Light] = "none", NEW d \in Clients PROVE panel'[d] = "absent"
      <4>1. panel[d] = "absent" /\ \A l \in Loads : load[d][l] \notin States
        BY <3>1 DEF Shown, Unset
      <4> QED
        BY <1>2, <1>3, <4>1 DEF States
    <3> QED
      BY <1>1, <1>5, <2>1, <3>1 DEF Shown, Unset
  <2> QED
    BY <1>1, <1>5, <2>1, <2>2 DEF Shown, OneReads, Marked
<1>8. ASSUME NEW d \in Clients, Shows(d) PROVE Shows(d)'
  <2>1. CASE d # c
    BY <1>1, <1>2, <1>5, <1>8, <2>1, ShowsKept
  <2>2. CASE d = c
    <3> SUFFICES ASSUME HasRead(c)', ~missed[c], ~Coming(c)
                 PROVE  /\ panel'[c] \in {"absent", "WAIT", store[Light]}
                        /\ \A l \in Loads : /\ load'[c][l] \in States => load'[c][l] = store[Light]
                                            /\ load'[c][l] = "reading" => store[Light] = "none"
      BY <1>1, <1>5, <2>2 DEF Shows
    <3>1. HasRead(c)
      <4>1. \A l \in Loads : load'[c][l] \in States \cup {"reading"} => load[c][l] = load'[c][l]
        BY <1>4 DEF States
      <4> QED
        BY <1>3, <4>1 DEF HasRead, States
    <3>2. /\ panel[c] \in {"absent", "WAIT", store[Light]}
          /\ \A l \in Loads : /\ load[c][l] \in States => load[c][l] = store[Light]
                              /\ load[c][l] = "reading" => store[Light] = "none"
      BY <1>8, <2>2, <3>1 DEF Shows
    <3> QED
      BY <1>3, <1>4, <3>2 DEF States
  <2> QED
    BY <2>1, <2>2
<1> QED
  BY <1>5, <1>6, <1>7, <1>8 DEF Shown, Follows

LEMMA LinkShown ==
  ASSUME Typed, Shown, NEW c \in Clients, Connect(c) \/ Disconnect(c) PROVE Shown'
<1>0. FrontTypes /\ SocketTypes
  BY DEF Typed
<1>1. UNCHANGED <<server, load, panel, log>>
  BY DEF Connect, Disconnect, frontend
<1>2. /\ \A d \in Clients \ {c} : link'[d] = link[d] /\ cursor'[d] = cursor[d]
      /\ \A d \in Clients : missed[d] => missed'[d]
  BY <1>0 DEF Connect, Disconnect, FrontTypes, SocketTypes
<1>3. (Pending' <=> Pending) /\ UNCHANGED <<store, op, raced, stale>>
  BY <1>1 DEF server, seen, Pending, Fires, Handed
<1>4. Newest => Newest'
  BY <1>1, <1>3 DEF server, seen, Newest, Fires, Handed
<1>5. Unset' /\ OneReads' /\ Marked'
  BY <1>1, <1>2, <1>3 DEF Shown, Unset, OneReads, Marked
<1>6. ASSUME NEW d \in Clients, Shows(d) PROVE Shows(d)'
  <2>1. CASE d # c
    BY <1>1, <1>2, <1>3, <1>6, <2>1, ShowsKept DEF Coming
  <2>2. CASE d = c /\ Connect(c)
    <3>1. Coming(c) => Coming(c)'
      BY <1>3, <2>2 DEF Coming, Connect
    <3> QED
      BY <1>1, <1>2, <1>3, <1>6, <2>2, <3>1, ShowsKept
  <2>3. CASE d = c /\ Disconnect(c)
    <3>1. ~missed'[c] => cursor[c] >= Len(log)
      <4>1. missed'[c] = (missed[c] \/ cursor[c] < Len(log))
        BY <1>0, <2>3 DEF Disconnect, FrontTypes
      <4>2. ~missed'[c] => ~(cursor[c] < Len(log))
        BY <4>1, Zenon
      <4> QED
        BY <4>2, TypedFacts
    <3>2. ~missed'[c] => (Coming(c) => Coming(c)')
      BY <1>3, <3>1, TypedFacts DEF Coming
    <3> QED
      BY <1>1, <1>2, <1>3, <1>6, <2>3, <3>2 DEF Shows, HasRead
  <2> QED
    BY <2>1, <2>2, <2>3
<1> QED
  BY <1>3, <1>4, <1>5, <1>6 DEF Shown, Follows

LEMMA LoginShown ==
  ASSUME Typed, Shown, NEW c \in Clients, LoginAgain(c) PROVE Shown'
<1>0. FrontTypes /\ SocketTypes
  BY DEF Typed
<1>1. UNCHANGED <<server, log, cursor>>
  BY DEF LoginAgain
<1>2. /\ \A d \in Clients \ {c} : /\ link'[d] = link[d] /\ load'[d] = load[d]
                                  /\ panel'[d] = panel[d] /\ missed'[d] = missed[d]
      /\ panel'[c] = "absent" /\ missed'[c] = stale /\ \A l \in Loads : load'[c][l] = "idle"
  BY <1>0 DEF LoginAgain, FrontTypes, SocketTypes
<1>3. (Pending' <=> Pending) /\ UNCHANGED <<store, op, raced, stale>>
  BY <1>1 DEF server, seen, Pending, Fires, Handed
<1>4. Newest => Newest'
  BY <1>1, <1>3 DEF server, seen, Newest, Fires, Handed
<1>5. Unset' /\ OneReads' /\ Marked'
  <2>1. \A d \in Clients, l \in Loads : /\ load'[d][l] \in States => load[d][l] \in States
                                        /\ load'[d][l] = "reading" => d # c /\ load[d][l] = "reading"
    BY <1>2 DEF States
  <2>2. OneReads'
    BY <1>3, <2>1 DEF Shown, OneReads
  <2>3. Unset'
    BY <1>1, <1>2, <1>3, <2>1 DEF Shown, Unset
  <2>4. Marked'
    BY <1>2, <1>3 DEF Shown, Marked
  <2> QED
    BY <2>2, <2>3, <2>4
<1>6. ASSUME NEW d \in Clients, Shows(d) PROVE Shows(d)'
  <2>1. CASE d # c
    BY <1>1, <1>2, <1>3, <1>6, <2>1, ShowsKept DEF Coming
  <2>2. CASE d = c
    BY <1>2, <2>2 DEF Shows, HasRead, States
  <2> QED
    BY <2>1, <2>2
<1> QED
  BY <1>3, <1>4, <1>5, <1>6 DEF Shown, Follows

LEMMA HearShown == ASSUME Typed, Shown, NEW c \in Clients, Hear(c) PROVE Shown'
<1> DEFINE i == cursor[c] + 1
           e == log[i]
<1>0. FrontTypes /\ SocketTypes /\ log \in Seq(Event)
  BY DEF Typed, SocketTypes
<1>1. UNCHANGED <<server, load, link, log>> /\ link[c] = "up"
  BY DEF Hear
<1>2. /\ \A d \in Clients \ {c} : /\ cursor'[d] = cursor[d] /\ panel'[d] = panel[d]
                                  /\ missed'[d] = missed[d]
      /\ cursor'[c] = i /\ (missed[c] => missed'[c])
      /\ panel'[c] = IF e.name = Light /\ panel[c] # "absent" THEN e.value ELSE panel[c]
      /\ (e.name = Light /\ \E k \in Loads : load[c][k] \in States \cup {"reading"}) => missed'[c]
  BY <1>0 DEF Hear, Known, FrontTypes, SocketTypes
<1>3. (Pending' <=> Pending) /\ UNCHANGED <<store, op, raced, stale>>
  BY <1>1 DEF server, seen, Pending, Fires, Handed
<1>4. Newest => Newest'
  BY <1>1, <1>3 DEF server, seen, Newest, Fires, Handed
<1>5. i \in 1..Len(log) /\ (e.name = Light <=> i \in Changes(log))
  <2>1. cursor[c] \in Nat /\ cursor[c] < Len(log) /\ Len(log) \in Nat
    BY TypedFacts DEF Hear
  <2>2. i \in 1..Len(log) /\ DOMAIN log = 1..Len(log)
    BY <1>0, <2>1, LenProperties
  <2> QED
    BY <2>2 DEF Changes
<1> HIDE DEF e, i
<1>6. Unset' /\ OneReads' /\ Marked'
  <2>1. Unset'
    BY <1>1, <1>2, <1>3 DEF Shown, Unset
  <2>2. OneReads'
    BY <1>1, <1>3 DEF Shown, OneReads
  <2>3. Marked'
    BY <1>2, <1>3 DEF Shown, Marked
  <2> QED
    BY <2>1, <2>2, <2>3
<1>7. ASSUME NEW d \in Clients, Shows(d), Newest PROVE Shows(d)'
  <2>1. CASE d # c
    BY <1>1, <1>2, <1>3, <1>7, <2>1, ShowsKept DEF Coming
  <2>2. CASE d = c /\ e.name # Light
    <3>1. \A j \in Changes(log) : j > cursor[c] => j > i
      BY <1>5, <2>2, TypedFacts DEF i
    <3>2. Coming(c) => Coming(c)'
      BY <1>1, <1>2, <1>3, <3>1 DEF Coming
    <3> QED
      BY <1>1, <1>2, <1>3, <1>7, <2>2, <3>2, ShowsKept
  <2>3. CASE d = c /\ e.name = Light
    <3> SUFFICES ASSUME ~missed'[c], ~Coming(c)'
                 PROVE  /\ panel'[c] \in {"absent", "WAIT", store[Light]}
                        /\ \A l \in Loads : load[c][l] \notin States \cup {"reading"}
      BY <1>1, <1>3, <2>3 DEF Shows
    <3>1. ~stale /\ ~Pending
      BY <1>2, <1>3 DEF Shown, Marked, Coming
    <3>2. EndsWith(log, store[Light])
      BY <1>7, <3>1 DEF Newest, Pending
    <3>3. i \in Changes(log) /\ \A j \in Changes(log) : j <= i
      BY <1>1, <1>2, <1>5, <2>3, TypedFacts DEF Coming
    <3>4. e.value = store[Light]
      BY <3>2, <3>3 DEF EndsWith, e
    <3> QED
      BY <1>2, <2>3, <3>4
  <2> QED
    BY <2>1, <2>2, <2>3
<1> QED
  BY <1>3, <1>4, <1>6, <1>7 DEF Shown, Follows

LEMMA NextShown ==
  ASSUME Remote \subseteq {Switch}, Typed, Shown, [Next]_vars PROVE Shown'
<1>1. CASE UNCHANGED vars
  <2>1. UNCHANGED <<store, op, queue, hand, step, stale, raced, load, panel, link, log, cursor, missed>>
    BY <1>1 DEF vars, server, seen, frontend, socket
  <2> QED
    BY <2>1, LightKept
<1> QED
  BY <1>1, StoreShown, FireShown, PostShown, LoadShown, DefaultShown, TakeShown, BroadcastShown,
     DropShown, ScriptShown, FrontendShown, LinkShown, LoginShown, HearShown
     DEF Next, Web, Worker

\* What the invariant says of all that is on the way to c.
LEMMA WayFacts ==
  ASSUME Typed, Shown, Follows, NEW c \in Clients, ~missed[c]
  PROVE  IF Changes(Way(c)) # {} THEN EndsWith(Way(c), store[Light]) ELSE ~Coming(c)
<1> DEFINE a == SubSeq(log, cursor[c] + 1, Len(log))
           v == store[Light]
<1>0. /\ log \in Seq(Event) /\ queue \in Seq(Event) /\ hand \in Event
      /\ cursor[c] \in Nat /\ cursor[c] <= Len(log)
  BY TypedFacts DEF Typed, SocketTypes, ServerTypes
<1>1. /\ a \in Seq(Event) /\ (EndsWith(log, v) => EndsWith(a, v))
      /\ (Changes(a) # {}) <=> \E i \in Changes(log) : i > cursor[c]
  BY <1>0, ChangesBehind
<1>2. /\ InHands \in Seq(Event) /\ (Changes(InHands) # {} <=> Handed)
      /\ (Handed /\ hand.value = v) => EndsWith(InHands, v)
  <2>1. Changes(<<>>) = {} /\ <<>> \in Seq(Event)
    BY DEF Changes
  <2>2. /\ <<hand>> \in Seq(Event) /\ (hand.name = Light => Changes(<<hand>>) = {1})
        /\ hand.name # Light => Changes(<<hand>>) = {}
    BY <1>0 DEF Changes
  <2> QED
    BY <2>1, <2>2 DEF InHands, Handed, EndsWith
<1>3. /\ Firing \in Seq(Event) /\ (Changes(Firing) # {} <=> Fires)
      /\ (Fires /\ op["worker"].value = v) => EndsWith(Firing, v)
  <2> DEFINE f == [name |-> Light, value |-> op["worker"].value]
  <2>1. Changes(<<>>) = {} /\ <<>> \in Seq(Event)
    BY DEF Changes
  <2>2. f \in Event /\ f.name = Light /\ f.value = op["worker"].value
    BY TypedFacts DEF Event
  <2> HIDE DEF f
  <2>3. <<f>> \in Seq(Event) /\ Changes(<<f>>) = {1}
    BY <2>2 DEF Changes
  <2>4. Firing = IF Fires THEN <<f>> ELSE <<>>
    BY DEF Firing, Fires, f
  <2> QED
    BY <2>1, <2>2, <2>3, <2>4 DEF EndsWith
<1> DEFINE b == a \o InHands
           d == b \o queue
<1>4. Way(c) = d \o Firing
  BY DEF Way
<1> HIDE DEF a, b, d, v
<1>5. /\ b \in Seq(Event) /\ (Changes(b) = {} <=> (Changes(a) = {} /\ ~Handed))
      /\ (Handed /\ EndsWith(InHands, v)) => EndsWith(b, v)
      /\ (~Handed /\ EndsWith(a, v)) => EndsWith(b, v)
  BY <1>1, <1>2, ChangesConcat DEF b
<1>6. /\ d \in Seq(Event) /\ (Changes(d) = {} <=> (Changes(b) = {} /\ Changes(queue) = {}))
      /\ (Changes(queue) # {} /\ EndsWith(queue, v)) => EndsWith(d, v)
      /\ (Changes(queue) = {} /\ EndsWith(b, v)) => EndsWith(d, v)
  BY <1>0, <1>5, ChangesConcat DEF d
<1>7. /\ Changes(Way(c)) = {} <=> (Changes(d) = {} /\ ~Fires)
      /\ (Fires /\ EndsWith(Firing, v)) => EndsWith(Way(c), v)
      /\ (~Fires /\ EndsWith(d, v)) => EndsWith(Way(c), v)
  <2>1. /\ Changes(d \o Firing) = {} <=> (Changes(d) = {} /\ Changes(Firing) = {})
        /\ (Changes(Firing) # {} /\ EndsWith(Firing, v)) => EndsWith(d \o Firing, v)
        /\ (Changes(Firing) = {} /\ EndsWith(d, v)) => EndsWith(d \o Firing, v)
    BY <1>3, <1>6, ChangesConcat
  <2> QED
    BY <1>3, <1>4, <2>1
<1>8. ~stale
  BY DEF Shown, Marked
<1>9. EndsWith(Way(c), v)
  BY <1>1, <1>2, <1>3, <1>5, <1>6, <1>7, <1>8 DEF Follows, Newest, v
<1>10. Changes(Way(c)) = {} => ~Coming(c)
  BY <1>1, <1>5, <1>6, <1>7 DEF Coming, Pending
<1> QED
  BY <1>9, <1>10 DEF v

(* Whatever page requests, events, taps, losses of the web socket and new  *)
(* logins overtake each other, for any number of frontends, requests and   *)
(* slots: a frontend that no change has passed by shows the light as the   *)
(* server has it, or the last change on its way to it makes it do so; when *)
(* nobody but the script sets the light, and no insert has met another.    *)
THEOREM PanelsFollow ==
  ASSUME Remote \subseteq {Switch} PROVE Spec => []PanelFollowsLight
<1>1. ASSUME PanelInv PROVE PanelFollowsLight
  <2>1. Typed /\ Shown
    BY <1>1, TypedHolds DEF PanelInv
  <2>2. ASSUME Follows, NEW c \in Clients, HasRead(c), ~missed[c]
        PROVE  IF Changes(Way(c)) # {} THEN EndsWith(Way(c), store[Light])
               ELSE /\ panel[c] \in {"absent", "WAIT", store[Light]}
                    /\ \A k \in Loads : load[c][k] \in States => load[c][k] = store[Light]
    BY <2>1, <2>2, WayFacts DEF Follows, Shows
  <2> QED
    BY <2>1, <2>2 DEF Shown, PanelFollowsLight
<1>2. Init => PanelInv
  BY InitTypes, InitSwitch, InitPanel DEF PanelInv
<1>3. PanelInv /\ [Next]_vars => PanelInv'
  BY NextTypes, NextSwitch, NextShown, TypedHolds DEF PanelInv
<1> QED
  BY <1>1, <1>2, <1>3, PTL DEF Spec
=============================================================================
