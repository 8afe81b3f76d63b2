---------------------------- MODULE SwitchPanel -----------------------------
(***************************************************************************)
(* One on/off button from end to end: the panels of several frontends, the *)
(* REST calls that load a page and post a switch, the variable store on    *)
(* the server, the ValueChanged events and the script that answers them,   *)
(* and the web sockets that bring the events back to the panels.           *)
(*                                                                         *)
(* The button posts SETHOFLIGHT; sample.py answers by setting HOFLIGHT;    *)
(* the panel shows HOFLIGHT, and WAIT from a tap until the next event.     *)
(* The variables live in a map that the web server's thread and the event  *)
(* worker use without a lock: each single access to it is one step here.   *)
(* The event queue and the web sockets are those of EventBus and           *)
(* WebSocketRing, by what their refinements say of them: a queue in order, *)
(* and one log of messages with a position for each subscriber.            *)
(***************************************************************************)
EXTENDS Integers, Sequences

CONSTANTS Clients,     \* frontends
          Loads,       \* requests for the page one frontend can have on its way
          Remote,      \* variables that other users of the REST interface post
          Backlog,     \* usable slots of the web socket ring (7)
          MaxPosts     \* bound on the posts, of frontends and others

Light  == "HOFLIGHT"
Switch == "SETHOFLIGHT"
States == {"ON", "OFF"}
Threads == {"web", "worker"}

ASSUME PanelAssumption == /\ Remote \subseteq {Switch, Light}
                          /\ Backlog \in Nat /\ MaxPosts \in Nat

VARIABLES
  store,    \* _internalVariables; "none" for a name that is not in the map
  op,       \* op[t]: what thread t is doing with the map
  queue,    \* ValueChanged events: [name, value]
  hand,     \* the event the worker hands out
  step,     \* how far Backend::EventCallback is with it
  posts,    \* posts[c][v]: POST requests of c for v that are on their way
  made,     \* how many POST requests there were
  load,     \* load[c][k]: request k for the page; "ON" and "OFF" are answers
  panel,    \* panel[c]: c's value for its button; "absent" before the page is there
  shown,    \* shown[c]: the value the button was last built with
  link,     \* link[c]: c's web socket: "new", "up" or "lost"
  log,      \* the events put into the web socket ring
  cursor,   \* cursor[c]: how much of log lies behind c
  told,     \* history: told[n]: the value of the last event fired for n
  missed,   \* history: missed[c]: a change of the light has passed c by
  failed,   \* history: failed[c]: a POST of c has failed
  blind,    \* history: blind[c]: c's last tap has posted what panel[c] was already
  stale,    \* history: the ring's last event for the light is not the last one
  raced     \* history: an insert has found that the other thread was faster

seen     == <<told, stale, raced>>
server   == <<store, op, queue, hand, step, seen>>
frontend == <<posts, load, panel>>
socket   == <<link, log, cursor>>
touch    == <<shown, blind>>
vars     == <<server, frontend, socket, made, missed, failed, touch>>

Free == [at |-> "free", name |-> Light, value |-> "OFF"]

Init ==
  /\ store = [n \in {Switch, Light} |-> "none"] /\ op = [t \in Threads |-> Free]
  /\ queue = <<>> /\ hand = [name |-> Light, value |-> "OFF"] /\ step = "wait"
  /\ posts = [c \in Clients |-> [v \in States |-> 0]] /\ made = 0
  /\ load = [c \in Clients |-> [k \in Loads |-> "idle"]]
  /\ panel = [c \in Clients |-> "absent"]
  /\ link = [c \in Clients |-> "new"] /\ log = <<>> /\ cursor = [c \in Clients |-> 0]
  /\ told = [n \in {Switch, Light} |-> "none"]
  /\ missed = [c \in Clients |-> FALSE] /\ failed = [c \in Clients |-> FALSE]
  /\ shown = [c \in Clients |-> "absent"] /\ blind = [c \in Clients |-> FALSE]
  /\ stale = FALSE /\ raced = FALSE

-----------------------------------------------------------------------------
(* SetInternalVariable, on either thread: look the name up, store, fire.   *)

LookUp(t, n, v) ==
  /\ op[t] = Free
  /\ op' = [op EXCEPT ![t] =
              IF store[n] # v
              THEN [at |-> IF store[n] = "none" THEN "insert" ELSE "assign",
                    name |-> n, value |-> v]
              ELSE Free]

\* std::map::insert leaves alone what it finds.
Stored(o) == o.at = "insert" /\ store[o.name] # "none"
Store(t) ==
  /\ op[t].at \in {"insert", "assign"}
  /\ store' = IF Stored(op[t]) THEN store ELSE [store EXCEPT ![op[t].name] = op[t].value]
  /\ raced' = (raced \/ Stored(op[t]))
  /\ op' = [op EXCEPT ![t].at = "fire"]
  /\ UNCHANGED <<queue, hand, step, told, stale, frontend, socket,
                 made, missed, failed, touch>>

\* The parameter of the event names the variable and its new value.  The mutation
\* serves the latest event first.
PushFirst(q, e) == <<e>> \o q
Push(q, e)      == Append(q, e)
Fire(t) ==
  /\ op[t].at = "fire"
  /\ queue' = Push(queue, [name |-> op[t].name, value |-> op[t].value])
  /\ told' = [told EXCEPT ![op[t].name] = op[t].value]
  /\ op' = [op EXCEPT ![t] = Free]
  /\ UNCHANGED <<store, hand, step, stale, raced, frontend, socket,
                 made, missed, failed, touch>>

-----------------------------------------------------------------------------
(* The web server's thread.                                                *)

\* POST .../Variable of a frontend, and of any other user with the API key.
HandlePost(c, v) ==
  /\ posts[c][v] > 0 /\ LookUp("web", Switch, v)
  /\ posts' = [posts EXCEPT ![c][v] = @ - 1]
  /\ UNCHANGED <<store, queue, hand, step, seen, load, panel, socket, made, missed,
                 failed, touch>>

RemotePost(n, v) ==
  /\ made < MaxPosts /\ made' = made + 1 /\ LookUp("web", n, v)
  /\ UNCHANGED <<store, queue, hand, step, seen, frontend, socket, missed, failed, touch>>

\* GET .../page/<name>: GetInternalVariable(HOFLIGHT, "OFF").  What it does not find
\* it inserts, without an event, and answers "OFF" whatever is there by then.
HandleLoad(c, k) ==
  /\ load[c][k] = "asked" /\ op["web"] = Free
  /\ IF store[Light] = "none"
     THEN /\ load' = [load EXCEPT ![c][k] = "reading"]
          /\ op' = [op EXCEPT !["web"].at = "default"]
     ELSE /\ load' = [load EXCEPT ![c][k] = store[Light]]
          /\ UNCHANGED op
  /\ UNCHANGED <<store, queue, hand, step, seen, posts, panel, socket, made, missed,
                 failed, touch>>

InsertDefault(c, k) ==
  /\ load[c][k] = "reading" /\ op["web"].at = "default"
  /\ store' = IF store[Light] = "none" THEN [store EXCEPT ![Light] = "OFF"] ELSE store
  /\ load' = [load EXCEPT ![c][k] = "OFF"] /\ op' = [op EXCEPT !["web"] = Free]
  /\ UNCHANGED <<queue, hand, step, seen, posts, panel, socket, made, missed, failed,
                 touch>>

-----------------------------------------------------------------------------
(* The event worker: Backend::EventCallback for a ValueChanged event.      *)

Take ==
  /\ step = "wait" /\ queue # <<>>
  /\ hand' = Head(queue) /\ queue' = Tail(queue) /\ step' = "broadcast"
  /\ UNCHANGED <<store, op, seen, frontend, socket, made, missed, failed, touch>>

\* A value of the light has been read for c and is shown or on its way.
HasRead(c) ==
  panel[c] # "absent" \/ \E k \in Loads : load[c][k] \in States \cup {"reading"}

\* The event goes into the ring: to those who are connected now, and to those
\* who connect while it is still there.
Broadcast ==
  /\ step = "broadcast" /\ step' = "script"
  /\ \E c \in Clients : link[c] = "up"
  /\ log' = Append(log, hand) /\ stale' = (stale /\ hand.name # Light)
  /\ missed' = [c \in Clients |-> missed[c] \/
                  (hand.name = Light /\ link[c] # "up" /\ HasRead(c))]
  /\ UNCHANGED <<store, op, queue, hand, told, raced, frontend, link, cursor,
                 made, failed, touch>>

\* Nobody is connected, or the ring is full (its slots can be in use although
\* everybody connected has read them).
DropBroadcast ==
  /\ step = "broadcast" /\ step' = "script"
  /\ (\A c \in Clients : link[c] # "up") \/ Len(log) >= Backlog
  /\ missed' = [c \in Clients |-> missed[c] \/
                  (hand.name = Light /\ (HasRead(c) \/ log # <<>>))]
  /\ stale' = (stale \/ (hand.name = Light /\ log # <<>>))
  /\ UNCHANGED <<store, op, queue, hand, told, raced, frontend, socket,
                 made, failed, touch>>

\* callbackValueChanged of sample.py: SETHOFLIGHT ON and OFF set HOFLIGHT.
\* The mutation answers ON only.
OnOnly(e)  == e.name = Switch /\ e.value = "ON"
Answers(e) == e.name = Switch /\ e.value \in States
RunScript ==
  /\ step = "script" /\ step' = "return"
  /\ IF Answers(hand) THEN LookUp("worker", Light, hand.value) ELSE UNCHANGED op
  /\ UNCHANGED <<store, queue, hand, seen, frontend, socket,
                 made, missed, failed, touch>>

Return ==
  /\ step = "return" /\ op["worker"] = Free /\ step' = "wait"
  /\ UNCHANGED <<store, op, queue, hand, seen, frontend, socket,
                 made, missed, failed, touch>>

-----------------------------------------------------------------------------
(* The frontends and their web sockets.                                    *)

\* The page is built, and not there yet: every rebuild asks for it once more.
LoadPage(c, k) ==
  /\ panel[c] = "absent" /\ load[c][k] = "idle"
  /\ load' = [load EXCEPT ![c][k] = "asked"]
  /\ UNCHANGED <<server, posts, panel, socket, made, missed, failed,
                 touch>>

\* addEntry overwrites what the button shows, WAIT included.
PageArrives(c, k) ==
  /\ load[c][k] \in States
  /\ panel' = [panel EXCEPT ![c] = load[c][k]]
  /\ load' = [load EXCEPT ![c][k] = "idle"]
  /\ UNCHANGED <<server, posts, socket, made, missed, failed, touch>>

LoadFails(c, k) ==
  /\ load[c][k] \in States \cup {"asked"}
  /\ load' = [load EXCEPT ![c][k] = "idle"]
  /\ UNCHANGED <<server, posts, panel, socket, made, missed, failed,
                 touch>>

\* A change of the value has the button built anew, some time later.
Build(c) ==
  /\ panel[c] # "absent" /\ shown[c] # panel[c]
  /\ shown' = [shown EXCEPT ![c] = panel[c]]
  /\ UNCHANGED <<server, frontend, socket, made, missed, failed, blind>>

\* onTap posts the opposite of what the button was built with, where WAIT counts as
\* on; switchPanelSet looks at the value of now, and does nothing while it is WAIT.
Asked(c) == IF shown[c] = "OFF" THEN "ON" ELSE "OFF"
Tap(c) ==
  /\ shown[c] # "absent" /\ panel[c] \in States /\ made < MaxPosts /\ made' = made + 1
  /\ posts' = [posts EXCEPT ![c][Asked(c)] = @ + 1]
  /\ panel' = [panel EXCEPT ![c] = "WAIT"]
  /\ blind' = [blind EXCEPT ![c] = (Asked(c) = panel[c])]
  /\ UNCHANGED <<server, load, socket, shown, missed, failed>>

\* setValueForId swallows the error (the server is away, the session has ended).
PostFails(c, v) ==
  /\ posts[c][v] > 0
  /\ posts' = [posts EXCEPT ![c][v] = @ - 1]
  /\ failed' = [failed EXCEPT ![c] = TRUE]
  /\ UNCHANGED <<server, load, panel, socket, made, missed, touch>>

\* A new subscriber starts with whatever the ring still holds.
Connect(c) ==
  /\ link[c] = "new" /\ link' = [link EXCEPT ![c] = "up"]
  /\ \E at \in 0..Len(log) :
       at + Backlog >= Len(log) /\ cursor' = [cursor EXCEPT ![c] = at]
  /\ UNCHANGED <<server, frontend, log, made, missed, failed, touch>>

\* What the socket has not brought is lost.  The dashboard then logs out (see Sessions).
Disconnect(c) ==
  /\ link[c] = "up" /\ link' = [link EXCEPT ![c] = "lost"]
  /\ missed' = [missed EXCEPT ![c] = @ \/ cursor[c] < Len(log)]
  /\ cursor' = [cursor EXCEPT ![c] = Len(log)]
  /\ UNCHANGED <<server, frontend, log, made, failed, touch>>

\* The user logs in again, which takes requests to the web server's thread: a new dashboard
\* with a new web socket and its page still to load, while POSTs of the old one may be
\* under way.  (PanelValueMap keeps the value of
\* before, which is shown nowhere until the answer for the page overwrites it.)
LoginAgain(c) ==
  /\ link[c] = "lost" /\ op["web"] = Free /\ link' = [link EXCEPT ![c] = "new"]
  /\ load' = [load EXCEPT ![c] = [k \in Loads |-> "idle"]]
  /\ panel' = [panel EXCEPT ![c] = "absent"]
  /\ shown' = [shown EXCEPT ![c] = "absent"] /\ blind' = [blind EXCEPT ![c] = FALSE]
  /\ missed' = [missed EXCEPT ![c] = stale] /\ failed' = [failed EXCEPT ![c] = FALSE]
  /\ UNCHANGED <<server, posts, log, cursor, made>>

\* _onWebSocketMessage.  updateEntry knows no variable before the page is there, so
\* an event that comes between the answer to a request and its arrival is missed.
\* The mutation ignores events while the button shows WAIT.
NotWaiting(c) == panel[c] \in States
Known(c)      == panel[c] # "absent"
Hear(c) ==
  /\ link[c] = "up" /\ cursor[c] < Len(log)
  /\ cursor' = [cursor EXCEPT ![c] = @ + 1]
  /\ LET e == log[cursor[c] + 1]
     IN /\ panel' = IF e.name = Light /\ Known(c)
                    THEN [panel EXCEPT ![c] = e.value] ELSE panel
        /\ missed' = [missed EXCEPT ![c] = @ \/ (e.name = Light /\ \E k \in Loads :
                                            load[c][k] \in States \cup {"reading"})]
  /\ UNCHANGED <<server, posts, load, link, log, made, failed, touch>>

-----------------------------------------------------------------------------
Web(c) == \/ \E v \in States : HandlePost(c, v)
          \/ \E k \in Loads : HandleLoad(c, k) \/ InsertDefault(c, k)
Worker == Take \/ Broadcast \/ DropBroadcast \/ RunScript \/ Return

Next ==
  \/ \E t \in Threads : Store(t) \/ Fire(t)
  \/ \E n \in Remote, v \in States : RemotePost(n, v)
  \/ Worker
  \/ \E c \in Clients :
       \/ Web(c) \/ Build(c) \/ Tap(c) \/ Connect(c) \/ Disconnect(c) \/ LoginAgain(c)
       \/ Hear(c)
       \/ \E k \in Loads : LoadPage(c, k) \/ PageArrives(c, k) \/ LoadFails(c, k)
       \/ \E v \in States : PostFails(c, v)

Spec == Init /\ [][Next]_vars

\* Both threads go on; a request reaches the server and its answer the frontend, or
\* fails (the service thread takes each connection in turn, so that none starves);
\* a connected web socket is written to; the frontend builds what has changed.
\* Nobody has to tap, load or connect.
FairSpec ==
  /\ Spec
  /\ WF_vars(Worker) /\ \A t \in Threads : WF_vars(Store(t)) /\ WF_vars(Fire(t))
  /\ \A c \in Clients :
       /\ WF_vars(Hear(c)) /\ WF_vars(Build(c))
       /\ \A k \in Loads : /\ SF_vars(HandleLoad(c, k)) /\ WF_vars(InsertDefault(c, k))
                           /\ WF_vars(PageArrives(c, k))
       /\ \A v \in States : SF_vars(HandlePost(c, v))

-----------------------------------------------------------------------------
(* Properties.                                                             *)

Event == [name : {Switch, Light}, value : States]
LoadStates == States \cup {"idle", "asked", "reading"}

TypeOK ==
  /\ store \in [{Switch, Light} -> States \cup {"none"}]
  /\ op \in [Threads -> [at : {"free", "insert", "assign", "fire", "default"},
                         name : {Switch, Light}, value : States]]
  /\ queue \in Seq(Event) /\ hand \in Event
  /\ step \in {"wait", "broadcast", "script", "return"}
  /\ posts \in [Clients -> [States -> Nat]] /\ made \in 0..MaxPosts
  /\ load \in [Clients -> [Loads -> LoadStates]]
  /\ panel \in [Clients -> States \cup {"absent", "WAIT"}]
  /\ shown \in [Clients -> States \cup {"absent", "WAIT"}]
  /\ link \in [Clients -> {"new", "up", "lost"}]
  /\ log \in Seq(Event) /\ cursor \in [Clients -> Nat]
  /\ \A c \in Clients : cursor[c] <= Len(log)
  /\ told \in [{Switch, Light} -> States \cup {"none"}]
  /\ missed \in [Clients -> BOOLEAN] /\ failed \in [Clients -> BOOLEAN]
  /\ blind \in [Clients -> BOOLEAN]
  /\ stale \in BOOLEAN /\ raced \in BOOLEAN

\* What is on its way to c, the oldest first, and the changes of the light among it.
Firing == IF op["worker"].at = "fire" THEN <<[name |-> Light, value |-> op["worker"].value]>>
                                      ELSE <<>>
InHands == IF step = "broadcast" THEN <<hand>> ELSE <<>>
Way(c) == SubSeq(log, cursor[c] + 1, Len(log)) \o InHands \o queue \o Firing
Changes(s) == {i \in DOMAIN s : s[i].name = Light}
EndsWith(s, v) == \A i \in Changes(s) : (\A j \in Changes(s) : j <= i) => s[i].value = v

\* A panel shows the light as the server has it, or the change that makes it do so is
\* on its way and nothing behind it on that way undoes it: whatever page requests,
\* broadcasts and taps overtake each other.  This holds of every frontend that no
\* change has passed by, as long as no insert has met another one.
PanelFollowsLight ==
  raced \/ \A c \in Clients : (HasRead(c) /\ ~missed[c]) =>
    IF Changes(Way(c)) # {}
    THEN EndsWith(Way(c), store[Light])
    ELSE /\ panel[c] \in {"absent", "WAIT", store[Light]}
         /\ \A k \in Loads : load[c][k] \in States => load[c][k] = store[Light]

\* When nothing is under way on the server, the light is what the switch says.
Settled == queue = <<>> /\ step = "wait" /\ \A t \in Threads : op[t] = Free
LightFollowsSwitch ==
  (Settled /\ ~raced /\ store[Switch] # "none") => store[Light] = store[Switch]

\* A tap is answered: the button's value leaves WAIT, unless the tap was on a button
\* not yet built with the value of now and posts that value again, the POST fails, or
\* the frontend misses a change; also when the POST changes nothing because somebody
\* else's was faster.
TapIsAnswered ==
  \A c \in Clients : panel[c] = "WAIT" ~>
    (panel[c] # "WAIT" \/ blind[c] \/ missed[c] \/ failed[c] \/ raced)

\* No panel stays wrong for good: again and again each frontend has the light's value
\* as the server has it, and has its button built with that (or WAIT, which
\* TapIsAnswered is about), unless it is away, has missed a change, or two inserts
\* have met.
PanelSettles ==
  \A c \in Clients :
    []<>(\/ {panel[c], shown[c]} \subseteq {"absent", "WAIT", store[Light]}
         \/ link[c] # "up" \/ missed[c] \/ raced)

\* "ValueChanged -> a variable was changed": once nothing is under way, each variable
\* has the value that the last event fired for it has announced.
AnnouncedIsStored ==
  \A n \in {Switch, Light} : (Settled /\ told[n] # "none") => store[n] = told[n]
=============================================================================
