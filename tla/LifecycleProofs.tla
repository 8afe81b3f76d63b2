--------------------------- MODULE LifecycleProofs ---------------------------
(***************************************************************************)
(* Lifecycle for any files that somebody writes and any number of          *)
(* processes: what is left of the configuration.  The invariant adds to    *)
(* SettingsSurvive what the process in between knows: an image that was    *)
(* not loaded belongs to a file that cannot be loaded, and one that was    *)
(* loaded is saved as one of the two forms the file can still have.  And   *)
(* for every order of main and the threads: what is used and not there.    *)
(***************************************************************************)
EXTENDS Lifecycle, TLAPS

\* The images that Load makes, and what is left of one after two processes.
Usable(c) ==
  /\ c \in [plain : {"own", "default"}, headers : {"own", "default", "nothing"},
            port : Ports, events : SUBSET (EventNames \X Functions)]
Settled(c) == [plain |-> c.plain, headers |-> Absent, site |-> "empty", address |-> Absent,
               comPort |-> "None", events |-> c.events, pins |-> FALSE]

Owns(f) == f.is = "written" /\ f.text.plain = "own"

FileInv ==
  /\ at \in Nat /\ wrote \in Edits /\ IsFile(file)
  /\ file \in {wrote, Cycle(wrote), Cycle(Cycle(wrote)), Cut}
  /\ wrote = Bad => file = Bad
  /\ (file.is = "written" /\ Owns(wrote)) => Owns(file)
ImageInv ==
  at > 1 => IF loadFailed THEN file \in {Bad, Cut}
            ELSE /\ wrote # Bad
                 /\ Written(Saved(config)) \in {Cycle(wrote), Cycle(Cycle(wrote))}
                 /\ Written(Saved(config)).text \in Texts
                 /\ Owns(wrote) => config.plain = "own"
ConfigInv == FileInv /\ ImageInv

-----------------------------------------------------------------------------
(* The conversions.                                                        *)

LEMMA Kinds ==
  ASSUME NEW f, IsFile(f)
  PROVE  /\ f.is \in {"missing", "bad", "cut", "written"}
         /\ f.is = "missing" <=> f = Missing
         /\ f.is = "bad" <=> f = Bad
         /\ f.is = "cut" <=> f = Cut
         /\ f.is = "written" => f.text \in Texts /\ f = Written(f.text)
  BY DEF IsFile, Missing, Bad, Cut, Written

LEMMA LoadedRootFacts ==
  ASSUME NEW root \in Roots
  PROVE  /\ LoadedRoot(root) \in SUBSET (EventNames \X Functions)
         /\ root \in SUBSET (EventNames \X Functions) => LoadedRoot(root) = root
<1>1. CASE root = NoRoot
  <2>1. <<"absent", "absent">> \in root /\ "absent" \notin EventNames
    BY <1>1 DEF NoRoot, EventNames, Absent
  <2>2. LoadedRoot(root) = {<<"MqttValue", "callbackMqtt">>}
    BY <1>1 DEF LoadedRoot
  <2>3. "MqttValue" \in EventNames /\ "callbackMqtt" \in Functions
    BY DEF EventNames, Functions
  <2>4. root \notin SUBSET (EventNames \X Functions)
    BY <2>1
  <2> QED
    BY <2>2, <2>3, <2>4
<1>2. CASE root # NoRoot
  <2>1. root \in SUBSET ((EventNames \cup {"other", "none"}) \X Functions)
    BY <1>2 DEF Roots
  <2>2. LoadedRoot(root) = {<<EventOf(e[1]), e[2]>> : e \in root}
    BY <1>2 DEF LoadedRoot
  <2>3. \A name \in EventNames : EventOf(name) = name
    BY DEF EventOf, EventNames
  <2>4. \A name \in EventNames \cup {"other", "none"} : EventOf(name) \in EventNames
    BY DEF EventOf, EventNames
  <2>5. \A e \in root : <<EventOf(e[1]), e[2]>> \in EventNames \X Functions
    BY <2>1, <2>4
  <2>6. root \in SUBSET (EventNames \X Functions)
          => \A e \in root : <<EventOf(e[1]), e[2]>> = e
    BY <2>3
  <2> QED
    BY <2>2, <2>5, <2>6
<1> QED
  BY <1>1, <1>2

LEMMA LoadedFacts ==
  ASSUME NEW t \in Texts
  PROVE  Usable(Loaded(t)) /\ (t.plain = "own" => Loaded(t).plain = "own")
<1>1. LoadedRoot(t.events) \in SUBSET (EventNames \X Functions)
  BY LoadedRootFacts DEF Texts
<1> QED
  BY <1>1 DEF Texts, Loaded, Usable, Ports, Absent, NoList

LEMMA FirstFacts == Usable(First)
  BY DEF First, Usable, EventNames, Functions, Ports

LEMMA SavedFacts ==
  ASSUME NEW c, Usable(c)
  PROVE  /\ Saved(c) \in Texts /\ Settled(c) \in Texts
         /\ Saved(Loaded(Saved(c))) = Settled(c)
         /\ Saved(Loaded(Settled(c))) = Settled(c)
<1>1. c.events \in SUBSET (EventNames \X Functions) /\ c.events \in Roots
  BY DEF Usable, Roots
<1>2. LoadedRoot(c.events) = c.events
  BY <1>1, LoadedRootFacts
<1>3. c.plain \in {"own", "default"} /\ c.port \in Ports
  BY DEF Usable
<1> QED
  BY <1>1, <1>2, <1>3 DEF Texts, Saved, Settled, Loaded, Ports, Absent, NoList

\* What becomes of a file after one, two and more processes.
LEMMA Cycles ==
  ASSUME NEW f, IsFile(f), f # Cut
  PROVE  /\ IsFile(Cycle(f)) /\ IsFile(Cycle(Cycle(f)))
         /\ Cycle(Cycle(Cycle(f))) = Cycle(Cycle(f))
         /\ f # Bad => Cycle(f).is = "written" /\ Cycle(Cycle(f)).is = "written"
         /\ f = Bad => Cycle(f) = Bad
         /\ Owns(f) => Owns(Cycle(f)) /\ Owns(Cycle(Cycle(f)))
<1>1. CASE f = Bad
  BY <1>1 DEF Cycle, Bad, Owns, IsFile
<1>2. CASE f # Bad
  <2>1. PICK c : Usable(c) /\ Cycle(f) = Written(Saved(c)) /\ (Owns(f) => c.plain = "own")
    <3>1. CASE f = Missing
      BY <3>1, FirstFacts DEF Cycle, Missing, Owns
    <3>2. CASE f # Missing
      <4>1. f.is = "written" /\ f.text \in Texts
        BY <1>2, <3>2, Kinds
      <4> QED
        BY <4>1, LoadedFacts DEF Cycle, Owns
    <3> QED
      BY <3>1, <3>2
  <2>2. Cycle(Written(Saved(c))) = Written(Settled(c))
    BY <2>1, SavedFacts DEF Cycle, Written
  <2>3. Cycle(Written(Settled(c))) = Written(Settled(c))
    BY <2>1, SavedFacts DEF Cycle, Written
  <2>4. IsFile(Written(Saved(c))) /\ IsFile(Written(Settled(c)))
    BY <2>1, SavedFacts DEF IsFile, Written
  <2>5. c.plain = "own" => Owns(Written(Saved(c))) /\ Owns(Written(Settled(c)))
    BY DEF Owns, Written, Saved, Settled
  <2>6. Written(Saved(c)).is = "written" /\ Written(Settled(c)).is = "written"
    BY DEF Written
  <2> QED
    BY <1>2, <2>1, <2>2, <2>3, <2>4, <2>5, <2>6
<1> QED
  BY <1>1, <1>2

LEMMA WroteFacts ==
  ASSUME wrote \in Edits
  PROVE  IsFile(wrote) /\ wrote # Cut
  BY LifeAssumption

-----------------------------------------------------------------------------
(* The steps.                                                              *)

LEMMA FirstStep == Program[1].op = "load"
  BY DEF Program, Startup, Shutdown, Step

LEMMA InitConfig == Init => ConfigInv
  BY WroteFacts DEF Init, ConfigInv, FileInv, ImageInv, IsFile

LEMMA LoadKeeps == ASSUME ConfigInv, Load, at' = at + 1, wrote' = wrote PROVE ConfigInv'
<1>1. FileInv /\ IsFile(wrote) /\ wrote # Cut
  BY WroteFacts DEF ConfigInv, FileInv
<1>2. CASE file.is = "written"
  <2>1. /\ file.text \in Texts /\ file = Written(file.text) /\ file # Cut /\ file # Bad
        /\ config' = Loaded(file.text) /\ loadFailed' = FALSE /\ file' = file
    BY <1>1, <1>2, Kinds DEF FileInv, Load, Cut, Bad
  <2>2. /\ Cycle(file) = Written(Saved(config'))
        /\ Cycle(file) \in {Cycle(wrote), Cycle(Cycle(wrote))}
    BY <1>1, <1>2, <2>1, Cycles DEF FileInv, Cycle
  <2>3. Saved(config') \in Texts /\ Written(Saved(config')).text = Saved(config')
    BY <2>1, LoadedFacts, SavedFacts DEF Written
  <2>4. Owns(wrote) => config'.plain = "own"
    BY <1>1, <1>2, <2>1, LoadedFacts DEF FileInv, Owns
  <2>5. wrote # Bad
    BY <1>1, <2>1 DEF FileInv
  <2> QED
    BY <1>1, <2>1, <2>2, <2>3, <2>4, <2>5 DEF ConfigInv, FileInv, ImageInv
<1>3. CASE file.is \in {"bad", "cut"}
  BY <1>1, <1>3, Kinds DEF Load, ConfigInv, FileInv, ImageInv
<1>4. CASE file.is = "missing"
  <2>1. file = Missing /\ config' = First /\ loadFailed' = FALSE /\ file' = Cut
    BY <1>1, <1>4, Kinds DEF FileInv, Load
  <2>2. wrote = Missing
    BY <1>1, <1>4, <2>1, Cycles DEF FileInv, Missing, Cut, Bad
  <2>3. Cycle(wrote) = Written(Saved(config')) /\ ~Owns(wrote) /\ wrote # Bad
    BY <2>1, <2>2 DEF Cycle, Missing, Owns, Bad
  <2>4. Saved(config') \in Texts /\ Written(Saved(config')).text = Saved(config')
    BY <2>1, FirstFacts, SavedFacts DEF Written
  <2>5. IsFile(Cut) /\ Cut.is # "written"
    BY DEF IsFile, Cut
  <2> QED
    BY <1>1, <2>1, <2>2, <2>3, <2>4, <2>5 DEF ConfigInv, FileInv, ImageInv
<1> QED
  BY <1>1, <1>2, <1>3, <1>4, Kinds DEF FileInv

LEMMA SaveKeeps ==
  ASSUME ConfigInv, Truncate \/ Write, at # 0, at # 1, at' = at + 1, wrote' = wrote
  PROVE  ConfigInv'
<1>1. FileInv /\ ImageInv /\ at > 1
  BY DEF ConfigInv, FileInv
<1>2. loadFailed' = loadFailed /\ config' = config
  BY DEF Truncate, Write
<1>3. CASE loadFailed
  BY <1>1, <1>2, <1>3 DEF Truncate, Write, ConfigInv, FileInv, ImageInv
<1>4. CASE ~loadFailed /\ file' = Cut
  <2>1. IsFile(Cut) /\ Cut.is # "written"
    BY DEF IsFile, Cut
  <2> QED
    BY <1>1, <1>2, <1>4, <2>1 DEF ConfigInv, FileInv, ImageInv
<1>5. CASE ~loadFailed /\ file' = Written(Saved(config))
  <2>1. /\ wrote # Bad /\ file' \in {Cycle(wrote), Cycle(Cycle(wrote))}
        /\ file'.text = Saved(config) /\ file'.is = "written" /\ Saved(config) \in Texts
    BY <1>1, <1>5 DEF ImageInv, Written
  <2>2. IsFile(file')
    BY <1>5, <2>1 DEF IsFile, Written
  <2>3. Owns(wrote) => Owns(file')
    BY <1>1, <1>5, <2>1 DEF ImageInv, Owns, Saved
  <2> QED
    BY <1>1, <1>2, <1>5, <2>1, <2>2, <2>3 DEF ConfigInv, FileInv, ImageInv
<1>6. CASE file' = file
  BY <1>1, <1>2, <1>6 DEF ConfigInv, FileInv, ImageInv
<1> QED
  BY <1>3, <1>4, <1>5, <1>6 DEF Truncate, Write

LEMMA QuietKeeps ==
  ASSUME ConfigInv, UNCHANGED <<configVars, wrote>>,
         at' \in {at, 0, 1} \/ (at \notin {0, 1} /\ at' = at + 1)
  PROVE  ConfigInv'
  BY DEF ConfigInv, FileInv, ImageInv, configVars

LEMMA NextConfig == ConfigInv /\ [Next]_vars => ConfigInv'
<1> SUFFICES ASSUME ConfigInv, [Next]_vars PROVE ConfigInv'
  OBVIOUS
<1>1. ASSUME LoadIt, wrote' = wrote PROVE ConfigInv'
  BY <1>1, LoadKeeps DEF LoadIt, Go
<1>2. ASSUME SaveIt \/ WriteIt, wrote' = wrote PROVE ConfigInv'
  BY <1>2, SaveKeeps, FirstStep DEF SaveIt, WriteIt, At, Op, Go
<1>3. ASSUME Make \/ Launch \/ Register \/ Open \/ Delete \/ TellToStop \/ Join \/ Quit,
             wrote' = wrote
      PROVE  ConfigInv'
  <2>1. at \notin {0, 1} /\ at' = at + 1
    BY <1>3, FirstStep DEF Make, Launch, Register, Open, Delete, TellToStop, Join, Quit, At, Op, Go
  <2>2. UNCHANGED configVars
    BY <1>3 DEF Make, MakeIt, Launch, Register, Open, Delete, TellToStop, Join, Quit
  <2> QED
    BY <1>3, <2>1, <2>2, QuietKeeps
<1>4. ASSUME Return, wrote' = wrote PROVE ConfigInv'
  BY <1>4, QuietKeeps DEF Return, Down
<1>5. ASSUME \/ Wait \/ TakeEvent \/ \E c \in {"backend", "io", "connector"} : CallConsumer(c)
             \/ Request \/ Connected \/ Message
             \/ \E th \in Threads : CallReturns(th) \/ Leave(th),
             wrote' = wrote
      PROVE  ConfigInv'
  BY <1>5, QuietKeeps DEF Wait, TakeEvent, CallConsumer, Request, Connected, Message, CallReturns, Leave
<1>6. CASE Start
  BY <1>6, QuietKeeps DEF Start
<1>7. ASSUME NEW f \in Edits, Edit(f) PROVE ConfigInv'
  BY <1>7, LifeAssumption DEF Edit, ConfigInv, FileInv, ImageInv, process, Owns
<1>8. CASE Die
  BY <1>8, QuietKeeps DEF Die, Down
<1>9. CASE UNCHANGED vars
  BY <1>9, QuietKeeps DEF vars, process
<1> QED
  BY <1>1, <1>2, <1>3, <1>4, <1>5, <1>6, <1>7, <1>8, <1>9 DEF Next, Runs, Act, Main

LEMMA ConfigInvariant == Spec => []ConfigInv
  BY InitConfig, NextConfig, PTL DEF Spec

(* Over any number of processes and deaths, with any files that somebody   *)
(* writes in between, Config::Load and Save leave the file as it was       *)
(* written, as one or two processes make of it, or cut; a file that could  *)
(* not be loaded is left alone, and the plain settings are kept.           *)
THEOREM ConfigurationSurvives == Spec => []SettingsSurvive
<1>1. ConfigInv => SettingsSurvive
  BY DEF ConfigInv, FileInv, SettingsSurvive, Owns
<1> QED
  BY <1>1, ConfigInvariant, PTL

-----------------------------------------------------------------------------
(* What main has made where it stands.  An object is there between two     *)
(* steps of main, a thread runs between two others, and what a thread uses *)
(* was made before it was started or before its consumer was registered.   *)

Plain == Objects \ {"context"}

\* The step that makes an object, and the one that deletes it (the last, if none does).
MadeAt(o) ==
  CASE o = "config" -> 1 [] o = "network" -> 3 [] o = "events" -> 4 [] o = "database" -> 6
    [] o = "web" -> 7 [] o = "connector" -> 8 [] o = "python" -> 10 [] o = "gpio" -> 11
    [] o = "io" -> 12 [] OTHER -> 15
GoneAt(o) ==
  CASE o = "backend" -> 19 [] o = "gpio" -> 20 [] o = "events" -> 23 [] o = "web" -> 26
    [] o = "python" -> 27 [] o = "connector" -> 30 [] o = "database" -> 33
    [] o = "network" -> 34 [] OTHER -> 35
LaunchedAt(th)  == CASE th = "worker" -> 5 [] th = "link" -> 9 [] OTHER -> 14
JoinedAt(th)    == CASE th = "worker" -> 22 [] th = "service" -> 25 [] OTHER -> 29
RegisteredAt(c) == CASE c = "backend" -> 17 [] c = "io" -> 13 [] OTHER -> 9

Uses(th) ==
  CASE th = "worker"  -> {"events", "backend", "config", "web", "python", "io", "connector"}
    [] th = "service" -> {"web", "context", "config", "database", "events", "network"}
    [] OTHER          -> {"connector", "config", "events"}

Consumers == {"backend", "io", "connector"}

LifeTypes ==
  /\ at \in 0..35 /\ alive \subseteq Objects
  /\ running \subseteq Threads /\ stopping \subseteq Threads
  /\ consumers \subseteq Consumers /\ left \subseteq consumers
  /\ call \in [Threads -> SUBSET Objects] /\ starts \in 0..MaxStarts
  /\ config \in Images /\ loadFailed \in BOOLEAN
ObjectsThere == \A o \in Plain : (MadeAt(o) < at /\ at <= GoneAt(o)) => o \in alive
ThreadsRun ==
  /\ \A th \in running : LaunchedAt(th) < at /\ at <= JoinedAt(th)
  /\ "service" \in running => "context" \in alive
  /\ left # {} => "worker" \in running
  /\ \A c \in consumers : RegisteredAt(c) < at
CallsKnown ==
  \A th \in Threads :
    /\ call[th] # {} => th \in running
    /\ call[th] \subseteq Uses(th)
    /\ \A o \in call[th] \cap Plain : MadeAt(o) < at
LifeInv == LifeTypes /\ ObjectsThere /\ ThreadsRun /\ CallsKnown

LEMMA Lengths == Len(Startup) = 17 /\ Len(Shutdown) = 16 /\ Console = 18 /\ Len(Program) = 35
  BY DEF Startup, Shutdown, Console, Program

LEMMA StartupSteps ==
  /\ Program[1] = Step("load", "config") /\ Program[2] = Step("write", "config")
  /\ Program[3] = Step("make", "network") /\ Program[4] = Step("make", "events")
  /\ Program[5] = Step("launch", "worker") /\ Program[6] = Step("make", "database")
  /\ Program[7] = Step("make", "web") /\ Program[8] = Step("make", "connector")
  /\ Program[9] = Step("launch", "link") /\ Program[10] = Step("make", "python")
  /\ Program[11] = Step("make", "gpio") /\ Program[12] = Step("make", "io")
  /\ Program[13] = Step("register", "io") /\ Program[14] = Step("launch", "service")
  /\ Program[15] = Step("make", "backend") /\ Program[16] = Step("open", "database")
  /\ Program[17] = Step("register", "backend") /\ Program[18] = Step("console", "main")
  BY DEF Program, Startup, Shutdown

LEMMA ShutdownSteps ==
  /\ Program[19] = Step("delete", "backend") /\ Program[20] = Step("delete", "gpio")
  /\ Program[21] = Step("stop", "worker") /\ Program[22] = Step("join", "worker")
  /\ Program[23] = Step("delete", "events") /\ Program[24] = Step("stop", "service")
  /\ Program[25] = Step("join", "service") /\ Program[26] = Step("delete", "web")
  /\ Program[27] = Step("delete", "python") /\ Program[28] = Step("stop", "link")
  /\ Program[29] = Step("join", "link") /\ Program[30] = Step("delete", "connector")
  /\ Program[31] = Step("save", "config") /\ Program[32] = Step("write", "config")
  /\ Program[33] = Step("delete", "database") /\ Program[34] = Step("delete", "network")
  /\ Program[35] = Step("return", "main")
  BY DEF Program, Startup, Shutdown

LEMMA StepFacts ==
  ASSUME at \in 1..35
  PROVE  /\ \A o \in Plain : MadeAt(o) = at => Op \in {"make", "load"} /\ Of = o
         /\ \A th \in Threads : JoinedAt(th) = at => Op = "join" /\ Of = th
         /\ Op = "make" => Of \in Objects
         /\ Op = "load" => at = 1
         /\ Op = "launch" => Of \in Threads /\ LaunchedAt(Of) = at
         /\ Op = "register" => Of \in {"backend", "io"} /\ RegisteredAt(Of) = at
         /\ Op = "stop" => Of \in Threads /\ at > 18
         /\ Op = "join" => Of \in Threads /\ JoinedAt(Of) = at
         /\ Op = "delete" => GoneAt(Of) = at /\ Of # "context"
         /\ Op = "return" <=> at = 35
<1>1. CASE at \in 1..9
  BY <1>1, StartupSteps DEF Op, Of, Step, MadeAt, GoneAt, JoinedAt, LaunchedAt, RegisteredAt,
     Plain, Objects, Threads
<1>2. CASE at \in 10..18
  BY <1>2, StartupSteps DEF Op, Of, Step, MadeAt, GoneAt, JoinedAt, LaunchedAt, RegisteredAt,
     Plain, Objects, Threads
<1>3. CASE at \in 19..27
  BY <1>3, ShutdownSteps DEF Op, Of, Step, MadeAt, GoneAt, JoinedAt, LaunchedAt, RegisteredAt,
     Plain, Objects, Threads
<1>4. CASE at \in 28..35
  BY <1>4, ShutdownSteps DEF Op, Of, Step, MadeAt, GoneAt, JoinedAt, LaunchedAt, RegisteredAt,
     Plain, Objects, Threads
<1> QED
  BY <1>1, <1>2, <1>3, <1>4

LEMMA ImageFacts ==
  /\ \A c : Usable(c) => c \in Images
  /\ Nothing \in Images
  BY DEF Usable, Images, Nothing

\* The steps of main that lead to the next one: all but the last.
Steps == Make \/ LoadIt \/ SaveIt \/ WriteIt \/ Launch \/ Register \/ Open \/ Delete
           \/ TellToStop \/ Join \/ Quit

LEMMA StepsGo ==
  ASSUME LifeInv, Steps
  PROVE  /\ at \in 1..34 /\ at' = at + 1 /\ UNCHANGED <<left, call>>
         /\ \A th \in running : JoinedAt(th) # at
<1>1. at \in 0..35
  BY DEF LifeInv, LifeTypes
<1>2. at # 0 /\ at' = at + 1 /\ Op # "return" /\ UNCHANGED <<left, call>>
  BY DEF Steps, Make, MakeIt, LoadIt, SaveIt, WriteIt, Launch, Register, Open, Delete, TellToStop,
     Join, Quit, At, Go, objects, threads
<1>3. at \in 1..34
  BY <1>1, <1>2, StepFacts
<1>4. ASSUME NEW th \in running, JoinedAt(th) = at PROVE FALSE
  <2>1. th \in Threads /\ Op = "join" /\ Of = th
    BY <1>3, <1>4, StepFacts DEF LifeInv, LifeTypes
  <2>2. Join
    BY <2>1 DEF Steps, Make, LoadIt, SaveIt, WriteIt, Launch, Register, Open, Delete, TellToStop,
       Quit, At
  <2> QED
    BY <2>1, <2>2 DEF Join
<1> QED
  BY <1>2, <1>3, <1>4

LEMMA StepsMake ==
  ASSUME LifeInv, Steps
  PROVE  /\ \A o \in Plain : MadeAt(o) = at => o \in alive'
         /\ \A o \in Plain : (o \in alive /\ at < GoneAt(o) /\ MadeAt(o) < at) => o \in alive'
         /\ alive' \subseteq Objects
         /\ "context" \in alive => "context" \in alive' \/ at = 1 \/ JoinedAt("service") = at
<1>1. at \in 1..35 /\ alive \subseteq Objects
  BY StepsGo DEF LifeInv, LifeTypes
<1>2. CASE Make
  <2>1. Op = "make" /\ Of \in Objects /\ alive' = alive \cup {Of}
    BY <1>1, <1>2, StepFacts DEF Make, MakeIt, At
  <2> QED
    BY <1>1, <2>1, StepFacts
<1>3. CASE LoadIt
  <2>1. Op = "load" /\ at = 1 /\ alive' = {"config"}
    BY <1>1, <1>3, StepFacts DEF LoadIt, At
  <2>2. \A o \in Plain : MadeAt(o) = 1 => o = "config"
    BY <1>1, <2>1, StepFacts, StartupSteps DEF Of, Step
  <2>3. \A o \in Plain : ~(MadeAt(o) < 1)
    BY DEF MadeAt, Plain, Objects
  <2> QED
    BY <2>1, <2>2, <2>3 DEF Objects
<1>4. CASE Delete
  <2>1. Op = "delete" /\ GoneAt(Of) = at /\ Of # "context" /\ alive' = alive \ {Of}
    BY <1>1, <1>4, StepFacts DEF Delete, At
  <2> QED
    BY <1>1, <2>1, StepFacts
<1>5. CASE Launch
  <2>1. Op = "launch" /\ alive \subseteq alive' /\ alive' \subseteq alive \cup {"context"}
    BY <1>5 DEF Launch, At
  <2> QED
    BY <1>1, <2>1, StepFacts DEF Objects
<1>6. CASE Join
  <2>1. Op = "join" /\ alive \ {"context"} \subseteq alive' /\ alive' \subseteq alive
    BY <1>6 DEF Join, At
  <2>2. "context" \in alive /\ "context" \notin alive' => Of = "service"
    BY <1>6 DEF Join
  <2>3. Of = "service" => JoinedAt("service") = at
    BY <1>1, <2>1, StepFacts
  <2> QED
    BY <1>1, <2>1, <2>2, <2>3, StepFacts DEF Plain
<1>7. CASE SaveIt \/ WriteIt \/ Register \/ Open \/ TellToStop \/ Quit
  <2>1. alive' = alive /\ Op \notin {"make", "load"}
    BY <1>7 DEF SaveIt, WriteIt, Register, Open, TellToStop, Quit, At, objects
  <2> QED
    BY <1>1, <2>1, StepFacts
<1> QED
  BY <1>2, <1>3, <1>4, <1>5, <1>6, <1>7 DEF Steps

LEMMA StepsRun ==
  ASSUME LifeInv, Steps
  PROVE  /\ \A th \in running' : LaunchedAt(th) < at' /\ at' <= JoinedAt(th)
         /\ running \subseteq running' /\ running' \subseteq Threads /\ stopping' \subseteq Threads
         /\ "service" \in running' => "context" \in alive'
<1>1. /\ at \in 1..34 /\ at' = at + 1 /\ running \subseteq Threads /\ stopping \subseteq Threads
      /\ \A th \in running : LaunchedAt(th) < at /\ at <= JoinedAt(th) /\ JoinedAt(th) # at
      /\ "service" \in running => "context" \in alive
  BY StepsGo DEF LifeInv, LifeTypes, ThreadsRun
<1>2. \A th \in Threads : LaunchedAt(th) \in 5..14 /\ JoinedAt(th) \in 22..29
  BY DEF Threads, LaunchedAt, JoinedAt
<1>3. \A th \in running : LaunchedAt(th) < at' /\ at' <= JoinedAt(th)
  BY <1>1, <1>2
<1>4. CASE Launch
  <2>1. Op = "launch" /\ running \subseteq running' /\ running' \subseteq running \cup {Of}
        /\ stopping' = stopping
    BY <1>4 DEF Launch, At
  <2>2. Of \in Threads /\ LaunchedAt(Of) = at
    BY <1>1, <2>1, StepFacts
  <2>3. "service" \in running' => "context" \in alive'
    BY <1>1, <1>4 DEF Launch
  <2> QED
    BY <1>1, <1>2, <1>3, <2>1, <2>2, <2>3
<1>5. CASE ~Launch
  <2>1. running' = running
    BY <1>5 DEF Steps, Make, MakeIt, LoadIt, SaveIt, WriteIt, Register, Open, Delete, TellToStop,
       Join, Quit, threads
  <2>2. stopping' \subseteq Threads
    <3>1. stopping' = stopping \/ (At("stop") /\ stopping' = stopping \cup {Of})
      BY <1>5 DEF Steps, Make, MakeIt, LoadIt, SaveIt, WriteIt, Register, Open, Delete, TellToStop,
         Join, Quit, threads
    <3> QED
      BY <1>1, <3>1, StepFacts DEF At
  <2>3. "service" \in running => at # 1 /\ JoinedAt("service") # at
    BY <1>1, <1>2
  <2> QED
    BY <1>1, <1>3, <2>1, <2>2, <2>3, StepsMake
<1> QED
  BY <1>4, <1>5

LEMMA StepsRegister ==
  ASSUME LifeInv, Steps
  PROVE  /\ consumers \subseteq consumers' /\ consumers' \subseteq Consumers
         /\ \A c \in consumers' : RegisteredAt(c) < at'
<1>1. /\ at \in 1..34 /\ at' = at + 1 /\ consumers \subseteq Consumers
      /\ \A c \in consumers : RegisteredAt(c) < at
  BY StepsGo DEF LifeInv, LifeTypes, ThreadsRun
<1>2. \A c \in Consumers : RegisteredAt(c) \in Nat
  BY DEF Consumers, RegisteredAt
<1>3. CASE Register
  <2>1. Op = "register" /\ consumers' = consumers \cup {Of}
    BY <1>3 DEF Register, At
  <2>2. Of \in Consumers /\ RegisteredAt(Of) = at
    BY <1>1, <2>1, StepFacts DEF Consumers
  <2> QED
    BY <1>1, <1>2, <2>1, <2>2
<1>4. CASE ~Register
  <2>1. consumers' = consumers
    BY <1>4 DEF Steps, Make, MakeIt, LoadIt, SaveIt, WriteIt, Launch, Open, Delete, TellToStop,
       Join, Quit, objects
  <2> QED
    BY <1>1, <1>2, <2>1
<1> QED
  BY <1>3, <1>4

LEMMA LoadMakesAnImage ==
  ASSUME config \in Images, IsFile(file), Load
  PROVE  config' \in Images /\ loadFailed' \in BOOLEAN
<1>1. CASE file.is = "written"
  BY <1>1, Kinds, LoadedFacts, ImageFacts DEF Load
<1>2. CASE file.is # "written"
  BY <1>2, FirstFacts, ImageFacts DEF Load
<1> QED
  BY <1>1, <1>2

LEMMA StepsKeep ==
  ASSUME LifeInv, IsFile(file), Steps, starts' = starts
  PROVE  LifeInv'
<1>1. config' \in Images /\ loadFailed' \in BOOLEAN
  <2>1. config \in Images /\ loadFailed \in BOOLEAN
    BY DEF LifeInv, LifeTypes
  <2>2. CASE LoadIt
    BY <2>1, <2>2, LoadMakesAnImage DEF LoadIt
  <2>3. CASE ~LoadIt
    BY <2>1, <2>3 DEF Steps, Make, MakeIt, SaveIt, WriteIt, Launch, Register, Open, Delete,
       TellToStop, Join, Quit, configVars, Truncate, Write
  <2> QED
    BY <2>2, <2>3
<1>2. LifeTypes'
  <2>1. at' \in 0..35 /\ left' = left /\ call' = call
    BY StepsGo
  <2> QED
    BY <1>1, <2>1, StepsMake, StepsRun, StepsRegister DEF LifeInv, LifeTypes
<1>3. ObjectsThere'
  <2> SUFFICES ASSUME NEW o \in Plain, MadeAt(o) < at + 1, at + 1 <= GoneAt(o)
               PROVE  o \in alive'
    BY StepsGo DEF ObjectsThere
  <2>1. MadeAt(o) \in Nat /\ GoneAt(o) \in Nat /\ at \in 1..34
    BY StepsGo DEF MadeAt, GoneAt
  <2>2. CASE MadeAt(o) = at
    BY <2>2, StepsMake
  <2>3. CASE MadeAt(o) < at
    <3>1. at < GoneAt(o)
      BY <2>1
    <3>2. o \in alive
      BY <2>1, <2>3, <3>1 DEF LifeInv, ObjectsThere
    <3> QED
      BY <2>3, <3>1, <3>2, StepsMake
  <2> QED
    BY <2>1, <2>2, <2>3
<1>4. ThreadsRun'
  BY StepsGo, StepsRun, StepsRegister DEF LifeInv, ThreadsRun
<1>5. CallsKnown'
  <2>1. call' = call /\ running \subseteq running' /\ at' = at + 1 /\ at \in 1..34
    BY StepsGo, StepsRun
  <2>2. \A o \in Plain : MadeAt(o) \in Nat
    BY DEF MadeAt
  <2> QED
    BY <2>1, <2>2 DEF LifeInv, CallsKnown
<1> QED
  BY <1>2, <1>3, <1>4, <1>5 DEF LifeInv

\* What the worker uses for a consumer, and what the callers on the other threads use.
LEMMA UsesFacts ==
  /\ \A c \in Consumers :
       /\ Used[c] \subseteq Uses("worker") /\ Used[c] # {}
       /\ \A o \in Used[c] : MadeAt(o) <= RegisteredAt(c)
  /\ \A o \in Uses("service") : MadeAt(o) <= 15
  /\ \A th \in Threads : Uses(th) \in SUBSET Objects
  /\ \A o \in Uses("service") \ {"context"} : MadeAt(o) < LaunchedAt("service")
  /\ \A o \in Uses("link") : MadeAt(o) < LaunchedAt("link")
  BY DEF Consumers, Used, Uses, MadeAt, RegisteredAt, LaunchedAt, Threads, Objects

\* A call with what main has made when it begins.
LEMMA CallsKeep ==
  ASSUME LifeInv, NEW th \in Threads, NEW used \in SUBSET Objects, Calls(th, used),
         used \subseteq Uses(th), \A o \in used \cap Plain : MadeAt(o) < at,
         UNCHANGED <<at, alive, running, stopping, starts, configVars>>,
         left' \subseteq left, left' \subseteq consumers', consumers' \subseteq Consumers,
         \A c \in consumers' : RegisteredAt(c) < at
  PROVE  LifeInv'
<1>1. call' = [call EXCEPT ![th] = used] /\ th \in running
  BY DEF Calls, Idle
<1>2. call \in [Threads -> SUBSET Objects] /\ call' \in [Threads -> SUBSET Objects]
  BY <1>1 DEF LifeInv, LifeTypes
<1>3. LifeTypes'
  BY <1>2 DEF LifeInv, LifeTypes, configVars
<1>4. ObjectsThere' /\ ThreadsRun'
  BY DEF LifeInv, ObjectsThere, ThreadsRun
<1>5. CallsKnown'
  <2> SUFFICES ASSUME NEW t \in Threads
               PROVE  /\ call'[t] # {} => t \in running
                      /\ call'[t] \subseteq Uses(t)
                      /\ \A o \in call'[t] \cap Plain : MadeAt(o) < at
    BY DEF CallsKnown
  <2>1. CASE t = th
    BY <1>1, <1>2, <2>1
  <2>2. CASE t # th
    BY <1>1, <1>2, <2>2 DEF LifeInv, CallsKnown
  <2> QED
    BY <2>1, <2>2
<1> QED
  BY <1>3, <1>4, <1>5 DEF LifeInv

Calling == Wait \/ TakeEvent \/ (\E c \in Consumers : CallConsumer(c)) \/ Request \/ Connected \/ Message
             \/ \E th \in Threads : CallReturns(th) \/ Leave(th)

LEMMA CallingKeeps ==
  ASSUME LifeInv, Calling, starts' = starts
  PROVE  LifeInv'
<1>1. /\ at \in 0..35 /\ left \subseteq consumers /\ consumers \subseteq Consumers
      /\ \A c \in consumers : RegisteredAt(c) < at
      /\ \A th \in running : LaunchedAt(th) < at
      /\ running \subseteq Threads /\ call \in [Threads -> SUBSET Objects]
  BY DEF LifeInv, LifeTypes, ThreadsRun
<1>2. \A o \in Objects : MadeAt(o) \in Nat
  BY DEF MadeAt
<1>3. CASE TakeEvent
  <2>1. /\ call["worker"] # {} /\ "worker" \in Threads /\ left' \subseteq consumers
        /\ call' = [call EXCEPT !["worker"] = {}]
        /\ UNCHANGED <<at, alive, consumers, running, stopping, starts, config, loadFailed>>
    BY <1>3 DEF TakeEvent, objects, configVars, Threads
  <2>2. "worker" \in running /\ call' \in [Threads -> SUBSET Objects]
    BY <1>1, <2>1 DEF LifeInv, CallsKnown
  <2>3. LifeTypes' /\ ObjectsThere' /\ ThreadsRun'
    BY <2>1, <2>2 DEF LifeInv, LifeTypes, ObjectsThere, ThreadsRun
  <2>4. \A t \in Threads : call'[t] \subseteq call[t]
    BY <1>1, <2>1
  <2>5. CallsKnown'
    BY <2>1, <2>4 DEF LifeInv, CallsKnown
  <2> QED
    BY <2>3, <2>5 DEF LifeInv
<1>a. CASE Wait
  <2>1. /\ Calls("worker", {"events"})
        /\ UNCHANGED <<at, alive, consumers, running, stopping, left, configVars>>
    BY <1>a DEF Wait, objects
  <2>2. {"events"} \subseteq Uses("worker") /\ {"events"} \in SUBSET Objects
    BY DEF Uses, Objects
  <2>3. "worker" \in running /\ "worker" \in Threads /\ LaunchedAt("worker") = 5 /\ 5 < at
    BY <1>1, <2>1 DEF Calls, Idle, Threads, LaunchedAt
  <2>4. \A o \in {"events"} : MadeAt(o) < at
    BY <1>1, <2>3 DEF MadeAt
  <2> QED
    BY <1>1, <2>1, <2>2, <2>3, <2>4, CallsKeep
<1>4. ASSUME NEW c \in Consumers, CallConsumer(c) PROVE LifeInv'
  <2>1. /\ c \in left /\ left' = left \ {c} /\ Calls("worker", Used[c])
        /\ UNCHANGED <<at, alive, consumers, running, stopping, configVars>>
    BY <1>4 DEF CallConsumer, objects
  <2>2. RegisteredAt(c) < at /\ RegisteredAt(c) \in Nat
    BY <1>1, <2>1 DEF RegisteredAt
  <2>3. Used[c] \subseteq Uses("worker") /\ Uses("worker") \in SUBSET Objects
    BY UsesFacts DEF Threads
  <2>4. \A o \in Used[c] : MadeAt(o) < at
    BY <1>1, <1>2, <2>2, <2>3, UsesFacts
  <2>5. "worker" \in Threads
    BY DEF Threads
  <2> QED
    BY <1>1, <2>1, <2>3, <2>4, <2>5, CallsKeep
<1>5. CASE Request
  <2>1. PICK used \in {{"config"}, {"config", "database"}, {"config", "events"},
                       {"config", "network"}} :
          Calls("service", used)
    BY <1>5 DEF Request
  <2>2. used \subseteq Uses("service") \ {"context"} /\ used \in SUBSET Objects
    BY DEF Uses, Objects
  <2>3. "service" \in running /\ "service" \in Threads /\ LaunchedAt("service") = 14 /\ 14 < at
    BY <1>1, <2>1 DEF Calls, Idle, Threads, LaunchedAt
  <2>4. \A o \in used : MadeAt(o) < at
    BY <1>1, <1>2, <2>2, <2>3, UsesFacts
  <2>5. UNCHANGED <<at, alive, consumers, running, stopping, left, configVars>>
    BY <1>5 DEF Request, objects
  <2> QED
    BY <1>1, <2>1, <2>2, <2>3, <2>4, <2>5, CallsKeep
<1>6. CASE Connected \/ Message
  <2>1. PICK used \in {{"config", "events"}, {"events"}} : Calls("link", used)
    BY <1>6 DEF Connected, Message
  <2>2. used \subseteq Uses("link") /\ used \in SUBSET Objects
    BY DEF Uses, Objects
  <2>3. "link" \in running /\ "link" \in Threads /\ LaunchedAt("link") = 9 /\ 9 < at
    BY <1>1, <2>1 DEF Calls, Idle, Threads, LaunchedAt
  <2>4. \A o \in used : MadeAt(o) < at
    BY <1>1, <1>2, <2>2, <2>3, UsesFacts
  <2>5. /\ UNCHANGED <<at, alive, running, stopping, left, configVars>>
        /\ consumers' \in {consumers, consumers \cup {"connector"}}
    BY <1>6 DEF Connected, Message, objects
  <2>6. "connector" \in Consumers /\ RegisteredAt("connector") = 9
    BY DEF Consumers, RegisteredAt
  <2> QED
    BY <1>1, <2>1, <2>2, <2>3, <2>4, <2>5, <2>6, CallsKeep
<1>7. ASSUME NEW th \in Threads, CallReturns(th) PROVE LifeInv'
  <2>1. /\ call' = [call EXCEPT ![th] = {}]
        /\ UNCHANGED <<at, alive, consumers, running, stopping, left, config, loadFailed, starts>>
    BY <1>7 DEF CallReturns, objects, configVars
  <2>2. call' \in [Threads -> SUBSET Objects]
    BY <1>1, <2>1
  <2>3. LifeTypes' /\ ObjectsThere' /\ ThreadsRun'
    BY <2>1, <2>2 DEF LifeInv, LifeTypes, ObjectsThere, ThreadsRun
  <2>4. \A t \in Threads : call'[t] \subseteq call[t]
    BY <1>1, <2>1
  <2>5. CallsKnown'
    BY <2>1, <2>4 DEF LifeInv, CallsKnown
  <2> QED
    BY <2>3, <2>5 DEF LifeInv
<1>8. ASSUME NEW th \in Threads, Leave(th) PROVE LifeInv'
  <2>1. /\ running' = running \ {th} /\ call[th] = {} /\ (th = "worker" => left = {})
        /\ UNCHANGED <<at, alive, consumers, stopping, left, call, config, loadFailed, starts>>
    BY <1>8 DEF Leave, Idle, objects, configVars
  <2>2. LifeTypes' /\ ObjectsThere' /\ ThreadsRun'
    BY <2>1 DEF LifeInv, LifeTypes, ObjectsThere, ThreadsRun
  <2>3. CallsKnown'
    BY <2>1 DEF LifeInv, CallsKnown
  <2> QED
    BY <2>2, <2>3 DEF LifeInv
<1> QED
  BY <1>3, <1>4, <1>5, <1>6, <1>7, <1>8, <1>a DEF Calling

LEMMA NoCallFacts ==
  NoCall \in [Threads -> SUBSET Objects] /\ \A th \in Threads : NoCall[th] = {}
  BY DEF NoCall

LEMMA InitLife == Init => LifeInv
<1> SUFFICES ASSUME Init PROVE LifeInv
  OBVIOUS
<1>1. LifeTypes
  <2>1. call \in [Threads -> SUBSET Objects] /\ config \in Images /\ loadFailed \in BOOLEAN
    BY NoCallFacts, ImageFacts DEF Init
  <2>2. starts \in 0..MaxStarts
    BY LifeAssumption DEF Init
  <2>3. /\ at = 0 /\ alive = {} /\ running = {} /\ stopping = {} /\ consumers = {} /\ left = {}
    BY DEF Init
  <2> QED
    BY <2>1, <2>2, <2>3 DEF LifeTypes
<1>2. ObjectsThere
  BY DEF Init, ObjectsThere, MadeAt
<1>3. ThreadsRun /\ CallsKnown
  BY NoCallFacts DEF Init, ThreadsRun, CallsKnown
<1> QED
  BY <1>1, <1>2, <1>3 DEF LifeInv

LEMMA DownKeeps ==
  ASSUME LifeInv, Down, UNCHANGED <<configVars, starts>>
  PROVE  LifeInv'
<1>1. LifeTypes'
  BY NoCallFacts DEF LifeInv, LifeTypes, Down, configVars
<1>2. ObjectsThere'
  BY DEF Down, ObjectsThere, MadeAt
<1>3. ThreadsRun' /\ CallsKnown'
  BY NoCallFacts DEF Down, ThreadsRun, CallsKnown
<1> QED
  BY <1>1, <1>2, <1>3 DEF LifeInv

LEMMA StartKeeps == ASSUME LifeInv, Start PROVE LifeInv'
<1>1. /\ at = 0 /\ at' = 1 /\ starts' = starts + 1 /\ starts < MaxStarts
      /\ UNCHANGED <<alive, consumers, running, stopping, left, call, config, loadFailed>>
  BY DEF Start, objects, threads, configVars
<1>2. running = {} /\ consumers = {} /\ left = {} /\ \A th \in Threads : call[th] = {}
  <2>1. running \subseteq Threads /\ \A th \in running : LaunchedAt(th) < 0
    BY <1>1 DEF LifeInv, LifeTypes, ThreadsRun
  <2>2. consumers \subseteq Consumers /\ \A c \in consumers : RegisteredAt(c) < 0
    BY <1>1 DEF LifeInv, LifeTypes, ThreadsRun
  <2>3. ASSUME NEW th \in running PROVE FALSE
    BY <2>1 DEF Threads, LaunchedAt
  <2>4. ASSUME NEW c \in consumers PROVE FALSE
    BY <2>2 DEF Consumers, RegisteredAt
  <2> QED
    BY <2>3, <2>4 DEF LifeInv, LifeTypes, CallsKnown
<1>3. LifeTypes'
  BY <1>1, LifeAssumption DEF LifeInv, LifeTypes
<1>4. ObjectsThere'
  BY <1>1 DEF ObjectsThere, MadeAt
<1> QED
  BY <1>1, <1>2, <1>3, <1>4 DEF LifeInv, ThreadsRun, CallsKnown

LEMMA NextLife == LifeInv /\ ConfigInv /\ [Next]_vars => LifeInv'
<1> SUFFICES ASSUME LifeInv, ConfigInv, [Next]_vars PROVE LifeInv'
  OBVIOUS
<1>1. ASSUME Steps, starts' = starts PROVE LifeInv'
  BY <1>1, StepsKeep DEF ConfigInv, FileInv
<1>2. ASSUME Calling, starts' = starts PROVE LifeInv'
  BY <1>2, CallingKeeps
<1>3. ASSUME Return, starts' = starts PROVE LifeInv'
  BY <1>3, DownKeeps DEF Return
<1>4. CASE Runs
  BY <1>1, <1>2, <1>3, <1>4 DEF Runs, Act, Main, Steps, Calling, Consumers
<1>5. CASE Start
  BY <1>5, StartKeeps
<1>6. ASSUME NEW f \in Edits, Edit(f) PROVE LifeInv'
  BY <1>6 DEF Edit, process, objects, threads, LifeInv, LifeTypes, ObjectsThere, ThreadsRun,
     CallsKnown
<1>7. CASE Die
  BY <1>7, DownKeeps DEF Die
<1>8. CASE UNCHANGED vars
  BY <1>8 DEF vars, process, objects, threads, configVars, LifeInv, LifeTypes, ObjectsThere,
     ThreadsRun, CallsKnown
<1> QED
  BY <1>4, <1>5, <1>6, <1>7, <1>8 DEF Next

-----------------------------------------------------------------------------
(* What is used that is not there.                                         *)

Known == {<<"worker", "backend">>, <<"service", "events">>, <<"link", "events">>,
          <<"main", "context">>}
MisuseKnown == Misuse \subseteq Known /\ (at <= Console => Misuse = {})

\* What a thread uses was made before, and nearly all of it goes after the thread is joined.
LEMMA LifeMisuse == LifeInv => MisuseKnown
<1> SUFFICES ASSUME LifeInv, NEW u \in Misuse PROVE u \in Known /\ ~(at <= 18)
  BY Lengths DEF MisuseKnown
<1>1. /\ u \in (Threads \cup {"main"}) \X Objects /\ u[2] \in UsedBy(u[1]) /\ u[2] \notin alive
      /\ u = <<u[1], u[2]>>
  BY DEF Misuse
<1>2. at \in 0..35
  BY DEF LifeInv, LifeTypes
<1>3. CASE u[1] = "main"
  <2>1. At("stop") /\ Of = "service" /\ u[2] = "context"
    BY <1>1, <1>3 DEF UsedBy
  <2>2. at > 18
    BY <1>2, <2>1, StepFacts DEF At
  <2> QED
    BY <1>1, <1>2, <1>3, <2>1, <2>2 DEF Known
<1>4. ASSUME NEW th \in Threads, u[1] = th PROVE u \in Known /\ ~(at <= 18)
  <2>1. th # "main"
    BY DEF Threads
  <2>2. th \in running /\ u[2] \in Base[th] \cup call[th]
    BY <1>1, <1>4, <2>1 DEF UsedBy
  <2>3. LaunchedAt(th) < at /\ at <= JoinedAt(th)
    BY <2>2 DEF LifeInv, ThreadsRun
  <2>4. u[2] \in Uses(th)
    BY <1>4, <2>2 DEF Base, Uses, LifeInv, CallsKnown, Threads
  <2>5. u[2] \in Plain
    <3>1. th = "service" => "context" \in alive
      BY <2>2 DEF LifeInv, ThreadsRun
    <3>2. u[2] = "context" => th = "service"
      BY <2>4, <1>4 DEF Uses, Threads
    <3> QED
      BY <1>1, <3>1, <3>2 DEF Plain
  <2>6. MadeAt(u[2]) < at
    <3>1. CASE u[2] \in call[th]
      BY <2>5, <3>1 DEF LifeInv, CallsKnown
    <3>2. CASE u[2] \in Base[th]
      <4>1. MadeAt(u[2]) < LaunchedAt(th)
        BY <1>4, <2>5, <3>2 DEF Base, Threads, Plain, MadeAt, LaunchedAt
      <4> QED
        BY <1>2, <2>3, <4>1 DEF MadeAt, LaunchedAt
    <3> QED
      BY <2>2, <3>1, <3>2
  <2>7. GoneAt(u[2]) < at
    <3>1. GoneAt(u[2]) \in 19..35
      BY DEF GoneAt
    <3> QED
      BY <1>1, <1>2, <2>5, <2>6, <3>1 DEF LifeInv, ObjectsThere
  <2>8. GoneAt(u[2]) < JoinedAt(th) /\ ~(at <= 18)
    BY <1>2, <2>3, <2>7 DEF GoneAt, JoinedAt
  <2>9. <<th, u[2]>> \in Known
    <3>1. CASE th = "worker"
      BY <2>4, <2>8, <3>1 DEF Uses, GoneAt, JoinedAt, Known
    <3>2. CASE th = "service"
      BY <2>4, <2>5, <2>8, <3>2 DEF Uses, GoneAt, JoinedAt, Known, Plain
    <3>3. CASE th = "link"
      BY <2>4, <2>8, <3>3 DEF Uses, GoneAt, JoinedAt, Known
    <3> QED
      BY <3>1, <3>2, <3>3 DEF Threads
  <2> QED
    BY <1>1, <1>4, <2>8, <2>9
<1> QED
  BY <1>1, <1>3, <1>4

LEMMA LifeInvariant == Spec => [](LifeInv /\ ConfigInv)
<1>1. Init => LifeInv /\ ConfigInv
  BY InitLife, InitConfig
<1>2. LifeInv /\ ConfigInv /\ [Next]_vars => LifeInv' /\ ConfigInv'
  BY NextLife, NextConfig
<1> QED
  BY <1>1, <1>2, PTL DEF Spec

MisusedInv ==
  /\ misused \subseteq (Threads \cup {"main"}) \X Objects /\ misused \subseteq Known
  /\ at \in 1..18 => misused = {}

LEMMA NextMisused == LifeInv /\ MisusedInv /\ [Next]_vars /\ MisuseKnown' => MisusedInv'
<1> SUFFICES ASSUME LifeInv, MisusedInv, [Next]_vars, MisuseKnown' PROVE MisusedInv'
  OBVIOUS
<1>1. CASE Runs
  <2>1. misused' = misused \cup Misuse'
    BY <1>1 DEF Runs
  <2>2. Misuse' \subseteq Known /\ Misuse' \subseteq (Threads \cup {"main"}) \X Objects
    BY DEF MisuseKnown, Misuse
  <2>3. at' \in 1..18 => Misuse' = {}
    BY Lengths DEF MisuseKnown
  <2>4. at' \in 1..18 => at \in 1..18
    <3>1. CASE Steps
      BY <3>1, StepsGo
    <3>2. CASE Return
      BY <3>2 DEF Return, Down
    <3>3. CASE Calling
      BY <3>3 DEF Calling, Wait, TakeEvent, CallConsumer, Request, Connected, Message, CallReturns, Leave
    <3> QED
      BY <1>1, <3>1, <3>2, <3>3 DEF Runs, Act, Main, Steps, Calling, Consumers
  <2> QED
    BY <2>1, <2>2, <2>3, <2>4 DEF MisusedInv
<1>2. CASE Start
  BY <1>2 DEF Start, MisusedInv
<1>3. CASE Die
  BY <1>3 DEF Die, Down, MisusedInv
<1>4. ASSUME NEW f \in Edits, Edit(f) PROVE MisusedInv'
  BY <1>4 DEF Edit, process, MisusedInv
<1>5. CASE UNCHANGED vars
  BY <1>5 DEF vars, process, MisusedInv
<1> QED
  BY <1>1, <1>2, <1>3, <1>4, <1>5 DEF Next

(* For any number of processes, and in whatever order main, the event      *)
(* worker, the web server's thread and the MQTT client go on: what one of  *)
(* them uses was made by main before and is not deleted, except the        *)
(* backend by the worker, events by the web server and the MQTT client and *)
(* the context by main, and those only after the console.                  *)
THEOREM UsedObjectsAreThere == Spec => []OnlyKnownMisuse
<1>1. Spec => []MisuseKnown
  BY LifeInvariant, LifeMisuse, PTL
<1>2. Init => MisusedInv
  BY DEF Init, MisusedInv
<1>3. Spec => []MisusedInv
  BY <1>1, <1>2, NextMisused, LifeInvariant, PTL DEF Spec
<1>4. LifeInv /\ ConfigInv /\ MisusedInv => OnlyKnownMisuse
  BY Lengths DEF LifeInv, LifeTypes, ConfigInv, FileInv, MisusedInv, Known, OnlyKnownMisuse, TypeOK,
     Consumers
<1> QED
  BY <1>3, <1>4, LifeInvariant, PTL

=============================================================================
