# AnOtherAutomationServer in TLA+

AnOtherAutomationServer is a home-automation server in C++ (`src/src/IoBackend`) with a Flutter
frontend (`src/src/Frontend/automation_ui`). The server takes values from an MQTT broker, from
REST calls and from attached devices, hands them as events to scripts and device drivers, and
pushes changes over web sockets to the switch panels in the browser. Its code is short; what is
hard in it are four threads that share almost everything without locks, connections that come and
go, and steps that belong together and are done one by one. This directory holds a model of these
parts, the runs that check it with TLC, and proofs of its main results that TLAPS checks.

Paths below are relative to the repository's `src/` directory.

## 1. Inventory

### Threads

| Thread | Started by | What it runs |
|---|---|---|
| main | `IoBackend/main.cpp` | makes everything, reads console commands, deletes everything |
| event worker | `ServiceEventManager::Init` | `WorkerLoop`: hands events to the registered consumers |
| service thread | `WebServer::Start` | `lws_service`: HTTP transactions and web sockets, one callback at a time |
| MQTT thread | `mosquitto_loop_start` | connection, (re)subscription, received messages |
| serial reader | `SerialBase::Start` | splits what a serial device (GPS) sends into lines |

### Components

| Component | State | Operations | Talks to |
|---|---|---|---|
| Event manager (`ServiceEvents`, `common/utils/waitingqueue.h`) | list of consumers, event queue, `_run` | `FireNewEvent`, `RegisterMe`, worker loop, `Deinit` | everybody fires; Backend, MqttConnector, GPIOManager, IODeviceManager consume |
| Web socket broadcast (`WebServer/WebSocketProtokoll.cpp`, `WebServer.cpp`) | ring of 8 messages, tail of each subscriber, list of subscribers, `_webSocketClients` | broadcast, answer to `ECHO`, publisher's text, connect, writable, close | called by Backend on the event worker, by libwebsockets on the service thread |
| Variables (`GlobalFunctions.cpp`) | `_internalVariables` (a `std::map`) | set, get, get with default | REST resources (service thread), scripts and IODeviceManager (event worker) |
| Backend and scripts (`Backend.cpp`, `PythonRunner`) | configuration of events, Python interpreter | broadcast of an event, call of a script function, `WriteMqtt`, `ChangeValue`, `Action` | a consumer of all events; fires events of its own |
| Panels of the frontend (`automation_panel_controller.dart`, `panel_value_model.dart`, `message_stream.dart`, `client.dart`) | value of each panel, web socket | load a page, tap, hear an event | REST calls and the web socket |
| Database (`common/database`, callbacks of `GlobalFunctions`) | SQLite file: version, pages, types, elements | open, install, check, touch up, close | opened by main, read by the REST resources |
| Life cycle (`main.cpp`) | which objects exist | start, console commands, shutdown | makes and deletes all the others |
| MQTT connector (`Mqtt`) | `_initOk`, `_topics`, the client's session | init, connected, message, publish | event manager, broker |
| HTTP transactions (`MainCallBack`, `HandleResource`, `HttpRequest`, `HttpResponse`) | data of one transaction, map of resources | request, body, writable, drop | resources |
| REST resources (`resources`) | none | auth, pages, variables, blockly files, mqtt, wlan | `GlobalFunctions` |
| Sessions (`GlobalFunctions.cpp`, `CurrentUserData`) | a session for each user | create, look up, delete | AuthResource, login of the frontend |
| Configuration (`Config.cpp`) | the file and its image in memory | load, save | main; read by all |
| GPIO manager, IO device manager (`SystemFunktions`) | pins, port expanders; last CPU temperature | init, event, deinit | event manager, variables |
| Serial line and GPS (`SerialBase`, `NewLineSerial`, `NMEA`) | read buffer, reader thread, last position | open, start, read, close | IO device manager |
| Network manager, mDNS, ESPHome, HTTP client | none of their own | D-Bus, multicast, socket, libcurl | outside world |
| Frontend bootstrap and login | session, API key in the settings | boot steps, login, logout | AuthResource |

`PROJECT.json` lists the remaining parts (screens, demonstration page, helpers, data types,
separate client programs, vendored libraries) with the reason why they are not modelled.

### What is hard, and what makes each part correct

* **Event manager.** The worker iterates over a `std::vector` of consumers that other threads
  append to; consumers fire and register from inside a callback; the worker sleeps with a time
  limit. *Correct:* each consumer gets the events it wants in the order in which they were fired,
  each once, none from before it registered, all consumers in step; whatever was accepted is
  handed out in the end; `Deinit` returns.
* **Web socket broadcast.** Two threads insert into the ring, one reads and frees, without a lock;
  offsets wrap; slots are freed at the pace of the slowest subscriber, who is looked for subscriber by
  subscriber while the head can move; a wake-up is ordered on one thread and its need is judged on the
  other. *Correct:* a subscriber is sent a gap-free run of the
  messages, never a freed or half-written slot; no wake-up is lost; what a subscriber was told of
  reaches it.
* **Variables, scripts and panels.** A tap travels by HTTP, through the variable map, the event
  queue, a script, the map again, the queue again, the ring and a web socket back to the panel that
  waits for it, while page answers travel on another connection. *Correct:* the light ends up as the
  switch was set last; a panel shows the light, or the change that will make it do so is on its way;
  a tap is answered.
* **Database.** An installation of 14 statements commits one by one; `VERSION` comes first and is
  all that a later start looks at; the touch-up also runs at shutdown. *Correct:* no ID ever changes
  its meaning; a server runs only on a file of its own release; an installation is done once, by one
  process.
* **Life cycle.** main deletes the backend and the event manager while the threads that use them
  still run, and the web server answers before the database is open. *Correct:* nothing is used
  before it is made; which uses after a delete there can be, and no others; `q` ends the process.
* **Configuration.** Load and save know different settings, a save empties the file first, and what
  could not be loaded must not be saved. *Correct:* over any starts, deaths and edits the file is
  what somebody wrote, what one or two processes make of it, or empty; settings known to both are
  kept.
* **HTTP.** The callbacks of several transactions mix, bodies come in parts, connections break in
  between, and the writable callback has to be ordered. *Correct:* a resource acts on the whole body
  of its own request, as often as the request was made; a refusal has changed nothing; an answer
  that is there is written.
* **Sessions.** All browsers of the one user share a session; requests can arrive late, pages are
  reloaded, the server restarts, and the frontend logs out by itself when its web socket closes.
  *Correct:* an ended session is never accepted again; who has come to the dashboard is accepted
  until somebody who holds the same session ends it; a lost dashboard comes back to the login form.
* **Serial line.** Reads cut lines anywhere, the buffer is compacted and overruns, a callback can
  throw in the middle, and the start is a handshake over a condition variable. *Correct:* each whole
  line is handed out once and in order; start and close return.
* **MQTT.** The connector registers as a consumer again at every connect; a broker that is away at
  start-up is never tried again; values are dropped while it is away; what the script answers goes
  through the same queue as what it answers to. *Correct:* values reach the broker in the order in
  which they were fired, and as often as is known; messages reach the script in their order, each
  once; the subscriptions come back with the broker.

`PROJECT.json` names each hazard with its line, and the properties that cover it.

## 2. What is modelled

### EventBus (refines BroadcastLog): the event manager

| Model | Code |
|---|---|
| `consumers`, `queue`, `run` | `_eventConsumer`, `_eventQueue`, `_run` |
| `worker`, `event`, `pos`, `last` | where `WorkerLoop` stands, and the iterators of its range-for |
| `stale` | a `push_back` has moved the vector under these iterators |
| `FireNewEvent`, `RegisterMe`, `Deinit` | the functions of these names, on any thread at any time |
| `TakeEvent`, `TimeOut` | `WaitingQueue::tryRemove` with and without an item |
| `CallConsumer`, `SkipConsumer`, `CallbackReturns`, `EndDispatch` | the loop over the consumers |
| `CallbackThrows`, `StaleRead` | an exception that nobody catches ends the process; a read through a dangling iterator finds the old contents or faults |

`accepted`, `taken` and the field `seen` of a consumer are history. BroadcastLog is the promise
without queue, worker and iteration: one log, and for each member a position that moves from one
event it wants to the next.

### WebSocketRing (refines FanOutLog): broadcasts

| Model | Code |
|---|---|
| `slot`, `head`, `oldest` | the `lws_ring`: its slots, where it inserts, its oldest tail |
| `conn`, `tail` | state of each connection, `pss->tail` |
| `wake` | writable callbacks that are on order |
| `stage`, `carried`, `sender` | how far each of the two threads is with an insert, or the service thread with a message it has sent |
| `walk` | the locals of `lws_ring_consume_and_update_oldest_tail`: who consumed, whom it has still to count, the largest count and the tail with it |
| `Broadcast`, `Receive`; `Copy`, `Advance`, `Tell` | `SendWebSocketBroadcast`, the `RECEIVE` callback and `SendWebSocket`; an insert copies, then moves the head, then orders callbacks |
| `Connect`, `Close` | `ESTABLISHED`, `CLOSED` |
| `Write`; `Count`, `UpdateOldest`, `AskMore` | `SERVER_WRITEABLE`: one message is sent and consumed; if its sender was at the oldest tail each subscriber is counted, against the head of that moment, and the messages that the new oldest tail passes are destroyed; another callback is ordered if there is more |

libwebsockets is not part of the repository: its ring is modelled from how the code uses it, and
marked external. The worker and the service thread clash in two ways (`clash`). An insert is two
steps, and two inserts that overlap write the same slot. The walk that looks for the oldest tail is a
step for each subscriber, and reads the head again each time; when the worker advances it between two
counts, a tail that is not the oldest can win, and a message is destroyed that some subscriber has
still to read. From a clash on nothing is promised, and the properties say so explicitly; a head that
moves before the first count or after the last one does no harm. FanOutLog is the promise: one log, a position for each subscriber,
messages one after the other.

### SwitchPanel: one switch from end to end

`store` is `_internalVariables`; `op` tells how far each thread is with `SetInternalVariable` (look
up, store, fire) or with the default that a page request inserts; `queue`, `hand`, `step` are the
event queue and `Backend::EventCallback` (broadcast, then the script); `posts`, `load`, `panel`,
`link` are a frontend's requests, the value of its button and its web socket; `shown` is the value
with which the button was last built, from which `Tap` takes what it posts (`Asked`), while
`switchPanelSet` looks at `panel`: a tap before the next `Build` can post the value that the light
has already, and then no event ends the WAIT (`blind`); `log`, `cursor` stand for the ring.
Event queue and ring are taken by what the two refinements say of them - an ordered queue, and one
log with positions - which is why those were proved first; a full ring drops (`DropBroadcast`).
Every frontend action is one Dart callback; requests and answers are reordered freely, fail, and
overtake web socket messages. `Remote` users post variables with the API key and no frontend. When
its web socket is lost a frontend logs out, and `LoginAgain` stands for the way back through the
form (module Sessions): a new controller and socket, and a page to be loaded, while POSTs of the old
dashboard can still be under way.

### Database (refines InstallOnce): the SQLite file over many processes

`todo` is the list of statements a process has still to execute, `Step` executes one and commits,
`Die` ends the process between any two, `Refused` is a statement that SQLite does not accept
(nobody catches the exception). `Accepts` and `Apply` are SQLite's part: names, references,
uniqueness. `Upgrade` installs the next release. InstallOnce says what becomes of the file over all
starts: it is installed by one process, completely, or stays unfinished for good. That is what the
code does, and it is stated because a reader would hope for more: nothing repairs a half-installed
file.

### MqttLink (refines RepeaterLog): the connector and its broker

| Model | Code |
|---|---|
| `thread`, `todo` | where the MQTT thread stands: loop, `my_connect_callback`, `Connected` and its loop over the topics |
| `initOk`, `consumers` | `_initOk`; the entries "Backend" and "MqttConnector" of the event manager's list |
| `up`, `session`, `subs`, `wire` | the broker: in reach, the clean session of this client, its subscriptions, what is on its way |
| `queue`, `hand`, `pos`, `last` | the event queue and the worker's iteration |
| `say` | what `callbackMqtt` of `sample.py` has still to fire |
| `InitConnector`, `Connect`, `ConnectCallback`, `SubscribeTopic`, `SetInitOk`, `Register` | `MqttConnector::Init`, libmosquitto's (re)connect, and `Connected` call by call |
| `OnMessage`, `Publish` | the functions of these names; `Wanted` includes the checks of `EventCallback` |
| `Post`, `RunScript`, `Say` | `POST .../mqtt/set`; the backend's call of the script; `connector.Action`, `connector.WriteMqtt` |
| `Send`, `Break`, `Return`, `Notice` | other clients of the broker, the network, and how libmosquitto meets it (external) |

The connection can break between any two of these steps, also in the middle of `Connected`. The
rest are histories: `accepted` (all events, in order), `out` (what has reached the broker, as
positions in `accepted`), `opened` and `due` (how often `Connected` had run, now and when each
event was taken), `lost`, `heard`. RepeaterLog is the promise: what leaves may be missing or
repeated, but a value never leaves after a later one. That each value is repeated once per connect
is what the code does; `OncePerConnect` says so exactly, since whoever counts pulses behind the
broker has to know.

### Lifecycle, on top of ConfigFile: main, its threads, its objects, its file

| Model | Code |
|---|---|
| `at`, `Startup`, `Shutdown` | where main stands in the sequence of its statements, from `Config::Load` to the last `delete` |
| `alive`, `consumers` | the objects that exist (with the web server's `lws_context`), and the names in `_eventConsumer` |
| `running`, `stopping`, `call` | the three threads, which of them are told to stop, and what the call uses that each is in |
| `Make`, `Launch`, `Register`, `Open`, `Quit`, `Delete`, `TellToStop`, `Join`, `Return` | one statement of main |
| `Wait`, `TakeEvent`, `CallConsumer`, `Request`, `Connected`, `Message`, `CallReturns`, `Leave` | what the threads call in between |
| `Load`, `Truncate`, `Write` | `Config::Load`, and `Config::Save` before and after its `ofstream` empties the file |
| `Start`, `Die`, `Edit` | processes, their death at any step, and somebody who writes the file in between |

The worker tests its flag and then waits (`Wait`), so that it can hand out one more event after it was
told to stop. `misused` collects who has used what while it was not there; main goes on as if nothing had
happened, so that every misuse is found and not only the first. ConfigFile has the conversions
between the file and its image (`Loaded`, `Saved`) with settings that fare alike taken together: a
setting both know, one only Load knows, one only Save knows, the port that changes its name (and
is a third thing when the file has no `Resources`), and the events.

### HttpTransaction: requests on the service thread

| Model | Code |
|---|---|
| `body`, `response`, `ordered` | `httpSesssionData` of a transaction, and whether its writable callback is ordered |
| `Begin`, `Body`, `Completion`, `Writeable`, `Drop` | the cases of `MainCallBack` |
| `Handle` with `Answer`, `Fail` | `HandleResource`, and the headers of its answer: they are written, or they cannot be and the connection is closed, after the resource has done its work |
| `Code`, `NotJson`, `Throws`, `ThrowsEarly`, `Changes` | what the resources answer, when reading a parameter throws a `parse_error` or a `type_error`, before or after the key is looked at, what they change |
| `Close` | a connection is closed, by the client or by libwebsockets |

The order of the callbacks of one transaction is libwebsockets', external; those of different
transactions mix freely. A body is a sequence of parts, and only the whole sequence is a JSON text.

### Sessions: login, logout and several browsers

| Model | Code |
|---|---|
| `session`, `born` | `_mapCurrentUserData` for the one user there is; ids are numbered as they are created |
| `screen`, `client`, `typed`, `stored`, `cookie`, `socket` | a browser: what it shows ("entering" between the answer to the login and the dashboard), the credentials of its `ServerClient`, the form, the preference `storeAuth`, the cookie, the dashboard's web socket |
| `net`, `late` | the request a frontend waits for, and those nobody waits for that can still be served |
| `HandleLogin`, `CreateUserSession`, `DeleteUserSession` | `AuthResource::HandleLogin` and `GlobalFunctions` |
| `Boot`, `Press`, `Checked`, `LoggedOut`, `LoggedIn`, `Logout`, `Closed` | the Dart code between two awaits |
| `Enter`, `CloseUnheard` | `DashboardState.initState`, which registers for the close of the web socket, and a close before that, which calls nobody |
| `Restart`, `GiveUp`, `Break`, `Reload` | server, network and browser (external) |

`ended` is history: the ids a logout was served for, or that a restart has lost.

### SerialLine: the GPS receiver

| Model | Code |
|---|---|
| `main`, `loop`, `run` | where `Start`/`Close` and the reader thread stand, `_run` |
| `tty` | bytes in the terminal; a sentence is one number, CR and LF |
| `memory`, `pos` | `readBuffer_`, `currentReadPos_` |
| `bad` | the sentences at which a decoder throws (`DecodeUtcTime` of an empty field, for one) |
| `Read` with `AnalyseBuffer`, `Received`, `Stop`, `Compact` | one round of `SerialBase::Loop` |
| `Start`, `Wait`, `Notify`, `Wake` | the handshake over `cv` |

A read takes whatever has come in, so that lines are cut at every place. `took`, `heard` and
`ordered` are history: what was read since the line was opened or overran, which sentences were
decoded of it, and whether that was each once and in the order in which they were sent. Nobody in the
server calls `Close` on the line; it is modelled because `NMEAReader::Deinit` offers it.

## 3. The runs

| Run | Instance | Distinct states | What it shows |
|---|---|---|---|
| `event_bus` | 2 kinds of event, 3 filters, 3 events, 3 registrations | 215,302 | order, no loss, no repetition, consumers in step; refinement; every accepted event is dispatched, `Deinit` returns |
| `ws_ring` | 2 clients (one chatty), 3 slots, 4 messages | 523,365 | until the threads clash: no freed or half-written slot is read, no wake-up is lost, refinement, delivery |
| `ring_not_freed` | 2 clients, none chatty, 3 slots, 3 messages | violation | slots are not freed when the slowest subscriber leaves |
| `switch_panel` | 1 frontend, 2 page requests, one other user, 2 posts | 310,712 | panel follows light, light follows switch, a tap is answered, panel and variable agree again and again |
| `announced_not_stored` | no frontend, others post switch and light, 3 posts | violation | the last announced value is not always the stored one |
| `mqtt_link` | 2 watched topics, 2 connects, 1 value posted, 1 message of others | 301,399 | values leave in order and once per connect, messages are heard in order, refinement; subscriptions come back, a notification is switched off again |
| `database` | 2 releases | 309 (the whole state space) | IDs keep their meaning, installed once, starts end |
| `sessions` | 2 browsers, 2 credentials, 2 ids, 2 faults | 433,065 | ended sessions stay ended, every login counts, logins end, a lost dashboard comes back to the form |
| `cookie_hangs` | 1 browser, 1 fault | violation | a saved login with an accepted cookie does not come up |
| `http` | 2 transactions, 49 requests | 148,265 | own and whole bodies, as often as asked, also when headers cannot be written; refusals change nothing, answers end |
| `life_cycle` | 2 processes, 5 files | 94,672 | which uses after a delete there are, what becomes of the file, `q` ends the process |
| `serial_line` | buffer of 5, 3 sentences, 1 line feed | 155,269 | each line heard once and in order up to a bad one, the buffer keeps what was read, start and close return |

**Bounds.** `event_bus`: a vector reallocates at sizes 0, 1, 2, 4, so three registrations cover the
move of a list that is being walked and one that is not; three events put one in the hand, one in
the queue and one fired from a callback. `ws_ring`: three slots are two usable ones, so that two
messages fill the ring, the offsets wrap at the third, and the fourth meets slots that were used
before; two clients are a slow and a fast one, and the worker can insert between the counts of the
two. `switch_panel`: two posts,
of the frontend or of the other user, are the smallest number that can overtake each other; the
other user stands for every other frontend too, since frontends meet only in the server, and what one
does there is to post. Two requests for the page are the case in which a late answer overwrites a
newer value. `Backlog` is 2 instead of the 7 usable slots, so that the ring is full at the third
event. The safety properties have also held with two frontends (1.18 million states) and with
three posts (15.8 million), which are not kept as runs. `mqtt_link`: two
connects are a session, its loss at any point, and a second registration beside the first; the one
message and the one posted value are answered by the script and sent back by the broker, so that
several events are in the queue, in the hand and on the wire at a time (a second message of others
makes 5 minutes out of half a minute). `database` has no bound but the number of releases.
`sessions`: two browsers are enough for one to end what the other holds; two ids and two faults let
a restart or a reload fall into a login that is under way. `http`: bodies of none, one and two
parts, with and without key, parameters in the URL or in a body that is no JSON text, has a value
of the wrong type first or later, or is well formed, for each resource that changes something. `life_cycle`: two processes, since a file changes over the first two only
(`SettingsSurvive`); a full file, the one of the documentation, one without
`Resources`, one that cannot be loaded, and none.
`serial_line`: the buffer holds a line and a half, so that reads cut lines, compact and overrun;
any of the sentences can be bad.

`CHECK_DEADLOCK FALSE` appears where the system may come to rest: the manager after `Deinit`, the
panel and MQTT runs once the bounded posts and messages are used up, the transactions when all are
done, and the sessions when the ids are used up or every browser hangs. The ring, database, life
cycle and serial line runs check deadlock.

**Fairness.** `EventBus`: the worker thread is scheduled and consumers return; nobody has to fire or
to stop. `WebSocketRing`: both threads finish what they have begun, and a callback on order comes,
because the service loop polls, a peer that lives reads what it is sent, and a dead one is closed by
the TCP keep-alive that `Start` configures. `SwitchPanel`: both threads go on; a posted request is handled or fails (strong
fairness, since the service thread serves all connections in turn and one being handled blocks the
others meanwhile); a connected socket is written to, and a frontend builds the button whose value has
changed. `Database`: a running process goes on. Nothing
obliges a user to tap, a client to connect, or a process to start. `MqttLink`: main gets through its
start-up, and the MQTT thread and the worker go on, libmosquitto noticing a lost connection and
trying again for as long as the broker is in reach; that the broker comes back is not assumed, it
is the premise `<>[]up` of `SubscriptionsReturn`. `Sessions`: the event loop of a browser runs and
the server answers what reaches it. `HttpTransaction`: an ordered writable callback comes, unless
the connection is closed. `Lifecycle`: main goes on, calls return, and a thread that is told to stop
comes to the end of its loop between two calls (strong fairness: it does so again and again, since
its loop tests the flag each time round); nobody has to type `q`. `SerialLine`: main and the reader
thread go on, nobody has to send, open or close.

Each property of a passing run has a mutant in `PROJECT.json`: a version of one definition that a
plausible slip in the code would give, under which TLC finds the property violated. They stand next
to the definitions they replace.

## 4. Where the code and its documentation differ

* **The ring keeps what nobody needs** (`ring_not_freed`). `WebSocketProtokoll.cpp` says that a
  message is destroyed "when everyone has had a copy of it". `LWS_CALLBACK_CLOSED` takes a client
  off the list and does not look at the oldest tail: the slots that only this client held stay in
  use until the one at the oldest tail reads again. If nobody is there - everybody else has read on
  - and the ring is full, later broadcasts are dropped for all.
* **Announced is not stored** (`announced_not_stored`). `SoftwareApi.md` says of `ValueChanged` that
  a variable has been changed. With two threads in `SetInternalVariable`, a store and its event are
  not one step: two of them can store in one order and fire in the other, and `insert` can lose a
  value whose event is fired. The last event then announces a value that the variable does not have.
  The run has another user post the light itself, which any holder of the API key can do.

* **A saved login hangs** (`cookie_hangs`). With "Save authentication" the bootstrap asks
  `GET login` with the cookie that the browser still has. If the server accepts it, the answer has no
  `userCtx`, reading its name throws an error that nobody catches, and the spinner stays: the
  frontend comes up with neither the dashboard nor the form, until the cookie is gone or the server
  has been restarted. `LoginEnds` leaves out exactly these cases.

Met while reading, without a run of their own:

* *Events.* `SoftwareApi.md` documents the key of an entry of `EventRoot` as `Name`; `from_json` reads
  `Event` (`Config.cpp:107`), so that such an entry becomes `Idle`, whose empty parameter the backend
  then parses as JSON: an exception on the worker that nobody catches. `Action` and `ChatMessage` are
  not in the table of names and become `ChangeValue`. The file of a server without one gets an entry
  for `ValueChanged` that keeps the function of the entry before it, `callbackMqtt`
  (`Config.cpp:344`, `map::insert`).
* *Configuration.* The headers, the web site path and the pin types of a file are gone after the first
  save; the port of the GPS receiver is saved as `ComPort` and read from `Address`, so that from the
  second start on the server tries to open a line called `None`. What is written to the file while
  the server runs is overwritten when it ends. After a load that failed `ServerPort` is
  indeterminate.
* *Pins.* Nothing in the repository fires `ChangeValue`, the only event `GPIOManager` listens to, so
  that no script switches a relay; if one did, `_mcp23017Impl` is indexed by the number of the pin
  (`GPIOManager.cpp:53`).
* *Web sockets.* Without a lock on the ring, a broadcast that comes while the service thread looks for
  the oldest tail can have a message destroyed that one subscriber has still to read
  (`WebSocketProtokoll.cpp:141`); that subscriber then finds an empty slot and is sent nothing more
  until it disconnects or the ring has come round.
* *Frontend.* A second tap before the button is built anew can post the value that is there, and the
  button waits for ever (`panels.dart:41`). A web socket that closes between the login and the
  dashboard's `initState` is noticed by nobody (`message_stream.dart:60`).
* *Serial line.* The rest of the buffer is moved by `memcpy` between ranges that may overlap; a
  line handed out of a full buffer without a NUL is read past its end. Nobody calls
  `NMEAReader::Deinit`, so that the reader thread lives until the process ends.
* *Web server.* An answer of more than 2048 bytes does not fit into `responseData`. If the web server
  did not start, its shutdown passes a null context to libwebsockets, before the configuration is
  saved (`<<"main", "context">>` of `OnlyKnownMisuse`).

## 5. What is proved

Eight modules hold the proofs: `BroadcastProofs` (the event bus and the web socket ring),
`SwitchPanelProofs`, `MqttLinkProofs`, `DatabaseProofs`, `SessionsProofs`,
`HttpTransactionProofs`, `LifecycleProofs` and `SerialLineProofs`. No constant has a bound in them:
any number of consumers, events, clients, slots, messages, topics, connects, browsers, transactions,
releases, processes and files, and a buffer of any size. Every invariant that a passing run checks is
the statement of a theorem, and so is every refinement.

| Theorem | Statement |
|---|---|
| `BusInvariant` | `Spec => []BusInv` (with `TypeOK`) |
| `ConsumersInStep` | `Spec => []NoConsumerFallsBehind` |
| `BusImplementsLog` | `Spec => ImplementsBroadcastLog` |
| `RingInvariant`, `RingTypeCorrect` | `RingSpec => []RingInv`, `RingSpec => []RingTypeOK` |
| `TailsLieInRing` | `RingSpec => []RingSafe` |
| `WakeupsKept` | `RingSpec => []NoLostWakeup` |
| `RingServesLikeFanOut` | `RingSpec => ServesLikeFanOut` |
| `LinkInvariant` | `Spec => []LinkInv` |
| `ValuesLeaveInOrder` | `Spec => []PublishedInOrder` |
| `MessagesHeardInOrder` | `Spec => []HeardInOrder` |
| `LinkImplementsRepeater` | `Spec => ImplementsRepeater` |
| `PublishedOncePerConnect` | `Spec => []OncePerConnect` |
| `PanelTypeCorrect` | `Spec => []TypeOK` (of SwitchPanel) |
| `LightEndsAsSwitch` | `Remote \subseteq {Switch}` implies `Spec => []LightFollowsSwitch` |
| `PanelsFollow` | `Remote \subseteq {Switch}` implies `Spec => []PanelFollowsLight` |
| `RowsKeepTheirMeaning` | `Spec => []RowsMeanWhatTheyDid` (with `TypeOK`) |
| `InstallationsAccepted` | `Spec => []InstallationIsAccepted` |
| `RunningHasItsRelease` | `Spec => []RunningMatchesRelease` |
| `InstallsOnce` | `Spec => InstalledOnce` |
| `SessionsSound` (SessionsProofs) | `Spec => []SessionInv` |
| `LoginsCount` | `Spec => []EveryLoginCounts` |
| `SessionsSound` (HttpTransactionProofs) | `Spec => []HttpInv` |
| `ChangesSound` | `Spec => []ChangedAsAsked` |
| `RefusalSound` | `Spec => []RefusedChangesNothing` |
| `ConfigurationSurvives` | `Spec => []SettingsSurvive` |
| `UsedObjectsAreThere` | `Spec => []OnlyKnownMisuse` |
| `BufferKeepsTheEnd` | `Spec => []SerialInv` (with `TypeOK`) |
| `HearsWhatWasRead` | `Spec => []HeardUpToBad` |

**Assumptions.** `BusAssumption`: `Idle` is not among the fired events, filters are sets of events,
the bounds are natural numbers. `RingAssumption`: the ring has at least two slots, the chatty clients
are clients, the bound is a natural number. `LinkAssumption`: the notification topic is
watched, the bounds are natural numbers. `PanelAssumption`: the variables other users post are the
two of the switch. `SessionsAssumption`: the right credentials can be typed. `KindsAssumption`: the
requests are requests, with a body of one of the four kinds. `LifeAssumption`: what somebody writes is a file, and not one that a save has
left empty. `DatabaseAssumption`: there is at least one release. `SerialAssumption`: the buffer has at
least one byte, the bounds are natural numbers. `LightEndsAsSwitch` and `PanelsFollow` have one more
premise, that nobody but the script sets the light (whoever posts the light itself makes it differ
from the switch). TLC evaluates all of them in the runs.

**Event bus.** That no consumer falls behind is not inductive by itself: when an event is taken one
has to know that what comes out of the queue is the next event of the log (`QueueIsRestOfLog`), and
when a consumer is called, that the event in hand is the last one taken and that the consumers still
ahead have not had it (`DispatchIsCurrent`). `BusInv` is the conjunction; the proof has a lemma for
each group of actions. The refinement then maps the log to `accepted` and the members to
`consumers`: firing is `Accept`, registering is `Join` at the position of `taken`, a call is
`Deliver` of exactly the next wanted event - the step where `NoConsumerFallsBehind` is needed - and
everything else stutters.

**Ring.** `RingSafe` speaks of the slots from the oldest tail to the head. It needs to be known that
a message which is copied and not yet part of the ring lies in the slot at `head`, that this slot
stays free, and that it is the only such message as long as no two inserts have overlapped
(`InsertsUnderWay`); `NoLostWakeup` needs that nobody is told of more than was inserted
(`ToldOfLog`). `WalkFindsOldest` is about the walk: the tail that it keeps lies in the ring and is
behind every subscriber counted so far, and the largest count is what that tail has still to read. A
head that moves before the first count or after the last one keeps this, since all distances grow
alike; in between they do not, which is the second clash. All of it is said relative to distances
from the head, going backwards (`Back`), because both offsets wrap; the lemmas on `Dist`, `After` and
`Back` come first and carry the arithmetic. The longest cases are `Count`, and `UpdateOldest`, where
the slots that the oldest tail passes are emptied and none of them is one that somebody has to read.

**MQTT link.** `PublishedInOrder` follows once all positions in `out` are known to be of events that
were taken, and the event in hand to be the last of these (`QueueIsRest`). `HeardInOrder` needs the
whole way of a message: its number on the wire is greater than all that were accepted
(`MessagesInOrder`), and a message is in `heard` only when it was taken, and, if it is the one in
hand, only when the iterator has passed the one backend (`HeardWasTaken`). `LinkInv` is the
conjunction. For `OncePerConnect`, `Counted` says that there is a registration
for every connect, and that the event in hand has been published by exactly the registrations that
the iterator has passed; cardinalities grow by one with each. `Counted` is the second inductive
invariant, relative to `LinkInv`; TLC finds it to hold in the instance of `mqtt_link`, too.

**Switch and light.** `LightFollowsSwitch` is about moments of rest, and says nothing on the way
there. The invariant (`SwitchInv`) follows the last switch value through the server, unless two
inserts have met: while the web thread has stored and not fired it is in its hands; then it is the
last one for the switch in the queue; then in the hands of the worker before its script; and then the
light has it, or the worker is about to store it there (`OnTheWay`). `Roles` adds what makes these
four cases exclude each other: the web thread writes only the switch and the worker only the light,
and that only during its script.

**Panels.** `PanelFollowsLight` speaks of the last change of the light on its way to a frontend, which
may be an answer that is still at the server, an event in the queue, a message that the worker is
copying, one of the log that the socket has not delivered, or what the panel shows. The invariant
(`PanelInv`, on top of `SwitchInv`) has, for each frontend that has missed nothing, that the newest of
these has the value of the light: of the unread part of the log with what the worker has in hand the
last (`Newest`), and otherwise the panel and every answer that is under way (`Shows`); unless the
worker is between the store of the light and its event. `Unset`, `OneReads` and `Marked` say where a
stale value can hide: a frontend that does not listen has nothing to show, the slots of an old
connection are not read, and a change that a full ring drops marks everybody it passes by. What makes
the proof long is that each action moves the newest change from one of these places to the next;
`WayFacts` and the lemmas on sequences say what `Changes` and `EndsWith` make of a concatenation.

**Database.** The file is always what the first k statements of one script have made of it, apart from the types,
and the process at work has the rest of that script to do (`StateAt`, `FileAt`); `Installed` says so, and that
the statement at k is accepted. The scripts of the releases differ only in the version row. A file
that was left between two statements is never completed, with two exceptions that the invariant has
to allow: a death before the first statement leaves an empty file, of which the next start makes a new one, and
`CheckElementTypeTable`, which runs at an update and at every shutdown, adds the types that are missing. The meaning
of the rows then follows from counting them: an element is inserted only behind its page and its
type. `InstalledOnce` maps the file to empty, partial or complete, and the process that installs to
the owner.

**Sessions.** `SessionInv` is inductive with one more conjunct, that no request names an id the
server has not given away yet (`IdsKnown`): otherwise a late logout could end a session of the
future. Every device then keeps its part (`DeviceOK`), since what one device does changes the others
only through `session`, `born` and `ended`. A device that was let in holds its cookie from the answer
to its login on (`Inside`), before the dashboard is there.

**HTTP.** `HttpInv` is inductive: it says of each transaction in which phase it has handled what, and
of each change that its request was handled and has asked for it. `HandleKeeps` is the one step of
it that matters, `HandleResource` with the whole body, with its two ends: headers that are written,
and headers that are not, which leave the handling counted, its changes made and the answer unsent. Only
a connection that is closed can lack the headers of its last handling, so that `RefusedChangesNothing`
can say what a client sees: an answer 401 or 500 means that nothing was changed, and a change
without an answer means a connection that was closed. That nothing is changed twice needs the order
of the list of changes besides: what is appended is of a transaction that has no entry yet.

**Configuration.** `ConfigInv` adds what a process knows in between: an image that was not loaded
belongs to a file that cannot be loaded, and one that was loaded is saved as one of the two forms the
file can still have (`ImageInv`). The lemma behind it is that a third process changes no more:
`Cycle` is idempotent from its second application on.

**Life cycle.** `LifeInv` says what there is where main stands: each object is there from the step
that makes it to the one that deletes it (`MadeAt`, `GoneAt`), each thread runs at most between its
launch and its join, a consumer is in the list only after its registration, and a call uses only
what was made when it began. The known misuses are then the pairs of a thread and an object it uses
whose `GoneAt` lies before the thread's `JoinedAt`; of the tables of numbers, `StepFacts` shows that
they are those of `Program`.

**Serial line.** That the buffer holds the end of what was read (`Holds`) is inductive as it stands;
the step is `AnalyseBuffer`, which either leaves the memory or moves what is behind the last line
feed to its front. For `HeardUpToBad` bytes are counted from the beginning of the stream: without
noise what was read and what waits are one piece of it (`Stream(b)`, b being its first byte), line q
takes the bytes 3q to 3q+2, and the sentences heard are exactly those of the lines in that piece which
lie before the first bad one (`Sound`). The buffer begins at b or where a line begins, and no line
before it is bad (`Reading`): this is what makes the lines decoded now continue the ones decoded
before (`SoundMore`), and after a bad one the same lines be decoded again. An overrun begins a new
piece. `SentenceOfLine` is the lemma about the splitting of lines: whatever is in front of it, a line
whose three bytes are in the buffer is handed over with its sentence, and one whose first byte was
lost is not.

## 6. What is only model-checked, and what is left out

*Model-checked only.* The liveness properties (`AcceptedIsDispatched`, `DeinitReturns`,
`ToldIsServed`, `TapIsAnswered`, `PanelSettles`, `StartEnds`, `SubscriptionsReturn`, `NotifyIsAnswered`, `LoginEnds`,
`LossEndsAtForm`, `AnswerEnds`, `QuitEnds`, `SerialGoesOn`): liveness under fairness and `ENABLED` are
beyond the prover. What the three runs that expect a violation check is false. Every other property
is the statement of a theorem.

*Left out of what is modelled.*

* Two `RegisterMe` calls at the same instant, and the walk over `pss_list` while a client is
  unlinked: undefined behaviour without outcomes to enumerate. Both are listed as hazards.
* Accesses to `_internalVariables` are single steps; a `std::map` changed by two threads at once can
  also be damaged.
* In `SwitchPanel`: a second controller while the first is still there, other variables, and
  values other than ON and OFF. A frontend which has missed a change, whose POST has failed, or
  whose user tapped a button not yet built anew is excepted by the properties (`missed`, `failed`,
  `blind`), the first two until its next login; that it does not recover before is what the code does.
* An `ECHO` sent by a publisher, and the fragments of a message larger than the receive buffer.
* In `MqttLink`: a refused CONNACK, retained messages and the broker's own `$SYS` topics; watched
  topics that overlap (a message would be fired for each); what the backend broadcasts of a value
  and the other answers of the script (SwitchPanel has the way of a variable); the IO device
  manager's registration, which wants none of these events; bodies that are not JSON and iterators
  gone stale, which end or mislead the worker (`CallbackThrows` and `StaleRead` of EventBus);
  `Deinit`.
* In `Lifecycle`: commands of the console other than `q`; two threads in `RegisterMe` at once; the
  state of the database between its open and its close; the callbacks of pins, which nothing fires;
  the reader thread of the GPS receiver, which is never stopped and uses only what is never deleted.
* In `HttpTransaction`: files served by libwebsockets itself, URLs, the text of headers and cookies, the length
  of an answer, and what the reading resources find (pages, networks, files).
* In `Sessions`: `LossEndsAtForm` excepts a web socket that closes before the dashboard has
  registered for it (`CloseUnheard`): the dashboard then stays, as in the code. Left out is more than the one user that the code knows; the API key, which is read from the
  settings and does not end with a session; two tabs of one browser.
* In `ConfigFile`: settings that fare alike are one, as named there; a write that ends halfway is a
  death between `Truncate` and `Write` or after it.
* In `SerialLine`: what a sentence says; `Write`, `Read` and the raw log; a port that fails while it
  is open.
* In `Database`: columns that nothing refers to; `SaveSmallImageDatabase`, which nobody calls; two
  servers on one file.

*Not modelled.* The GPIO manager (its event is fired by nobody, the rest is I/O), the network manager,
mDNS, HTTP and ESPHome clients (calls of system services without state of their own), screens, audio
and themes of the frontend, the demonstration page, helpers for strings and files, data types, the
separate programs for e-paper and Arduino, and the vendored libraries (`json.hpp` and
`easylogging++`, four fifths of the lines of the repository's sources). `PROJECT.json` has a note for
each.

## 7. Plan

What would add most, in this order:

1. **Composition** - `Sessions` with `SwitchPanel`: a dashboard whose session ends while its panels
   have requests under way, and the API key that outlives the session.
2. **Hazards without a property** - the answer that does not fit into `responseData`, and a script
   run from the console while the worker runs one.
3. **Proofs** - the safety part of the liveness properties: that a state in which an answer is owed
   is left only by the step that gives it.
