------------------------------ MODULE Lifecycle -----------------------------
(***************************************************************************)
(* The life of the server: main makes objects and starts threads that use  *)
(* them, waits at the console, and takes all of it down again.  Main is a  *)
(* program of steps; the event worker, the service thread of the web       *)
(* server and the thread of the MQTT client call, in between, whatever     *)
(* they call.  A process ends in Return or dies at any point; the          *)
(* configuration file stays, and the next process starts with it.          *)
(***************************************************************************)
EXTENDS ConfigFile, Integers, Sequences

CONSTANTS Edits,     \* the files that somebody may put there before a start
          MaxStarts  \* bound: processes

ASSUME LifeAssumption ==
  /\ \A f \in Edits : IsFile(f) /\ f # Cut
  /\ MaxStarts \in Nat

Threads == {"worker", "service", "link"}

\* GlobalFunctions lives on main's stack.  "context" is the web server's lws_context.
Objects == {"config", "network", "events", "database", "web", "connector", "python",
            "gpio", "io", "backend", "context"}

Step(op, of) == [op |-> op, of |-> of]
Startup ==
  << Step("load", "config"), Step("write", "config"), Step("make", "network"),
     Step("make", "events"), Step("launch", "worker"), Step("make", "database"),
     Step("make", "web"), Step("make", "connector"), Step("launch", "link"),
     Step("make", "python"), Step("make", "gpio"), Step("make", "io"), Step("register", "io"),
     Step("launch", "service"), Step("make", "backend"), Step("open", "database"),
     Step("register", "backend") >>

\* The mutation deletes the web server before its thread is joined.
WebFirst ==
  << Step("delete", "backend"), Step("delete", "gpio"), Step("stop", "worker"),
     Step("join", "worker"), Step("delete", "events"), Step("delete", "web"),
     Step("stop", "service"), Step("join", "service"), Step("delete", "python"),
     Step("stop", "link"), Step("join", "link"), Step("delete", "connector"),
     Step("save", "config"), Step("write", "config"), Step("delete", "database"),
     Step("delete", "network") >>
Shutdown ==
  << Step("delete", "backend"), Step("delete", "gpio"),
     Step("stop", "worker"), Step("join", "worker"), Step("delete", "events"),
     Step("stop", "service"), Step("join", "service"), Step("delete", "web"),
     Step("delete", "python"),
     Step("stop", "link"), Step("join", "link"), Step("delete", "connector"),
     Step("save", "config"), Step("write", "config"),
     Step("delete", "database"), Step("delete", "network") >>

Program == Startup \o <<Step("console", "main")>> \o Shutdown \o <<Step("return", "main")>>
Console == Len(Startup) + 1

VARIABLES
  at,         \* the step of Program main is at; 0 when there is no process
  alive,      \* the objects that are made and not deleted
  running,    \* the threads that run
  stopping,   \* the threads that are told to stop
  consumers,  \* the names in _eventConsumer
  left,       \* the consumers the worker's iteration has still to reach
  call,       \* call[th]: the objects the call uses that th is in
  starts,     \* how many processes there were
  wrote,      \* history: the file as somebody has left it last
  misused     \* history: <<who, what>> was used by this process and was not there

objects == <<alive, consumers>>
threads == <<running, stopping, left, call>>
process == <<at, objects, threads>>
vars    == <<process, configVars, starts, wrote, misused>>

NoCall == [th \in Threads |-> {}]

Init ==
  /\ at = 0 /\ alive = {} /\ running = {} /\ stopping = {} /\ consumers = {} /\ left = {}
  /\ call = NoCall /\ starts = 0 /\ misused = {}
  /\ file \in Edits /\ wrote = file /\ config = Nothing /\ loadFailed = FALSE

-----------------------------------------------------------------------------
(* Main.                                                                   *)

Op == Program[at].op
Of == Program[at].of
At(op) == at # 0 /\ Op = op
Go     == at' = at + 1

MakeIt    == alive' = alive \cup {Of} /\ UNCHANGED <<consumers, threads, configVars>>
Make      == At("make") /\ MakeIt /\ Go
LoadIt    == At("load") /\ Load /\ alive' = {"config"} /\ Go /\ UNCHANGED <<consumers, threads>>
SaveIt    == At("save") /\ Truncate /\ Go /\ UNCHANGED <<objects, threads>>
WriteIt   == At("write") /\ Write /\ Go /\ UNCHANGED <<objects, threads>>

\* MqttConnector::Init and WebServer::Start can fail; main goes on.
Launch ==
  /\ At("launch") /\ Go
  /\ \/ /\ running' = running \cup {Of}
        /\ alive' = IF Of = "service" THEN alive \cup {"context"} ELSE alive
     \/ Of # "worker" /\ UNCHANGED <<running, alive>>
  /\ UNCHANGED <<consumers, stopping, left, call, configVars>>

Register ==
  /\ At("register") /\ consumers' = consumers \cup {Of} /\ Go
  /\ UNCHANGED <<alive, threads, configVars>>

\* DatabaseManager::Init: a file it refuses ends the process, see Die.
Open == At("open") /\ Go /\ UNCHANGED <<objects, threads, configVars>>

\* The user has typed q, or a command has thrown.
Quit == At("console") /\ Go /\ UNCHANGED <<objects, threads, configVars>>

Delete ==
  /\ At("delete") /\ alive' = alive \ {Of} /\ Go
  /\ UNCHANGED <<consumers, threads, configVars>>

\* The mutation forgets the flag.
NotTold   == At("stop") /\ Go /\ UNCHANGED <<objects, threads, configVars>>
TellToStop ==
  /\ At("stop") /\ stopping' = stopping \cup {Of} /\ Go
  /\ UNCHANGED <<objects, running, left, call, configVars>>

Join ==
  /\ At("join") /\ Of \notin running /\ Go
  /\ alive' = IF Of = "service" THEN alive \ {"context"} ELSE alive
  /\ UNCHANGED <<consumers, threads, configVars>>

\* What is not deleted goes with the process.
Down == /\ at' = 0 /\ alive' = {} /\ running' = {} /\ stopping' = {} /\ consumers' = {}
        /\ left' = {} /\ call' = NoCall
Return == At("return") /\ Down /\ UNCHANGED configVars

Main == Make \/ LoadIt \/ SaveIt \/ WriteIt \/ Launch \/ Register \/ Open \/ Delete
          \/ TellToStop \/ Join \/ Return

-----------------------------------------------------------------------------
(* The threads.  What a thread uses all the time is in Base, what it uses  *)
(* during a call in call.                                                  *)

Base == [worker |-> {"events"}, service |-> {"web", "context"}, link |-> {"connector"}]
Idle(th) == th \in running /\ call[th] = {}
Calls(th, used) == Idle(th) /\ call' = [call EXCEPT ![th] = used]

\* WorkerLoop has looked at _run and waits in tryRemove.
Wait ==
  /\ left = {} /\ "worker" \notin stopping /\ Calls("worker", {"events"})
  /\ UNCHANGED <<at, objects, running, stopping, left, configVars>>

\* It comes back with an event for the consumers that want it, also when it has been told to
\* stop meanwhile.  They all want different ones: the backend any, the IO device manager
\* Idle, the connector PublishMqtt.  (Nothing fires ChangeValue, the event of the GPIO
\* manager.)
TakeEvent ==
  /\ left = {} /\ call["worker"] = {"events"} /\ call' = [call EXCEPT !["worker"] = {}]
  /\ \E wanted \in {{"backend"}, {"backend", "io"}, {"backend", "connector"}} :
       left' = consumers \cap wanted
  /\ UNCHANGED <<at, objects, running, stopping, configVars>>

\* The backend broadcasts, reads the configuration and calls a script, which fires events.
Used == [backend |-> {"backend", "config", "web", "python", "events"},
         io |-> {"io", "events"}, connector |-> {"connector"}]
CallConsumer(c) ==
  /\ c \in left /\ left' = left \ {c} /\ Calls("worker", Used[c])
  /\ UNCHANGED <<at, objects, running, stopping, configVars>>

\* A request: every one needs the API key; a page, a variable or MQTT value, the networks.
Request ==
  /\ \E what \in {{"config"}, {"config", "database"}, {"config", "events"},
                  {"config", "network"}} : Calls("service", what)
  /\ UNCHANGED <<at, objects, running, stopping, left, configVars>>

\* Connected and OnMessage.
Connected ==
  /\ Calls("link", {"config", "events"}) /\ consumers' = consumers \cup {"connector"}
  /\ UNCHANGED <<at, alive, running, stopping, left, configVars>>
Message ==
  /\ Calls("link", {"events"}) /\ UNCHANGED <<at, objects, running, stopping, left, configVars>>

CallReturns(th) ==
  /\ th \in running /\ call[th] # {} /\ call' = [call EXCEPT ![th] = {}]
  /\ UNCHANGED <<at, objects, running, stopping, left, configVars>>

\* A thread ends when it was told to and is through with what it has begun; the service
\* thread also when lws_service fails.
Leave(th) ==
  /\ Idle(th) /\ th \in stopping \cup {"service"} /\ (th = "worker" => left = {})
  /\ running' = running \ {th} /\ UNCHANGED <<at, objects, stopping, left, call, configVars>>

-----------------------------------------------------------------------------
(* Processes.                                                              *)

Start ==
  /\ at = 0 /\ starts < MaxStarts /\ starts' = starts + 1 /\ at' = 1 /\ misused' = {}
  /\ UNCHANGED <<objects, threads, configVars, wrote>>

Edit(f) ==
  /\ at = 0 /\ file' = f /\ wrote' = f
  /\ UNCHANGED <<process, config, loadFailed, starts, misused>>

\* The process ends in the middle: it is killed, an exception is caught by nobody, or what
\* it misused has ended it.
Die == at # 0 /\ Down /\ UNCHANGED <<configVars, starts, wrote, misused>>

\* Who uses what is not there.  Main uses the context when it stops the web server.
UsedBy(who) ==
  IF who = "main" THEN IF At("stop") /\ Of = "service" THEN {"context"} ELSE {}
  ELSE IF who \in running THEN Base[who] \cup call[who] ELSE {}
Misuse == {u \in (Threads \cup {"main"}) \X Objects : u[2] \in UsedBy(u[1]) \ alive}

Act ==
  \/ Main \/ Quit \/ Wait \/ TakeEvent \/ (\E c \in {"backend", "io", "connector"} : CallConsumer(c))
  \/ Request \/ Connected \/ Message \/ \E th \in Threads : CallReturns(th) \/ Leave(th)
Runs == Act /\ UNCHANGED <<starts, wrote>> /\ misused' = misused \cup Misuse'

Next == Runs \/ Start \/ (\E f \in Edits : Edit(f)) \/ Die
Spec == Init /\ [][Next]_vars

\* Main and the threads go on and calls return; a thread that is told to stop comes to the
\* end of its loop.
FairSpec ==
  /\ Spec /\ WF_vars(Runs /\ Main)
  /\ WF_vars(Runs /\ \E c \in {"backend", "io", "connector"} : CallConsumer(c))
  /\ \A th \in Threads :
       WF_vars(Runs /\ CallReturns(th)) /\ SF_vars(Runs /\ th \in stopping /\ Leave(th))

-----------------------------------------------------------------------------
(* Properties.                                                             *)

TypeOK ==
  /\ at \in 0..Len(Program) /\ alive \subseteq Objects
  /\ running \subseteq Threads /\ stopping \subseteq Threads
  /\ consumers \subseteq {"backend", "io", "connector"} /\ left \subseteq consumers
  /\ call \in [Threads -> SUBSET Objects] /\ starts \in 0..MaxStarts
  /\ IsFile(file) /\ wrote \in Edits
  /\ config \in Images /\ loadFailed \in BOOLEAN
  /\ misused \subseteq (Threads \cup {"main"}) \X Objects

\* In whatever order threads and main go on, nothing is used that is not there while the
\* server starts and runs, and after that only this: the backend by the worker, events by
\* the web server and the MQTT client, and the context of a web server that did not start.
\* The other objects outlive all who use them.
OnlyKnownMisuse ==
  /\ TypeOK
  /\ misused \subseteq {<<"worker", "backend">>, <<"service", "events">>, <<"link", "events">>,
                        <<"main", "context">>}
  /\ at \in 1..Console => misused = {}

\* What a file becomes after one process that was not interrupted.
Cycle(f) == IF f.is = "missing" THEN Written(Saved(First))
            ELSE IF f.is = "written" THEN Written(Saved(Loaded(f.text))) ELSE f

\* Over any number of processes and deaths the file is what somebody wrote, what one or two
\* processes make of it, or cut; after that it changes no more.  A file that could not be
\* loaded is never touched, and what is saved keeps the plain settings.
SettingsSurvive ==
  /\ file \in {wrote, Cycle(wrote), Cycle(Cycle(wrote)), Cut}
  /\ wrote = Bad => file = Bad
  /\ (file.is = "written" /\ wrote.is = "written" /\ wrote.text.plain = "own")
       => file.text.plain = "own"

\* After q the process ends.
QuitEnds == at > Console ~> at = 0
=============================================================================
