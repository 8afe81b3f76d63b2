----------------------------- MODULE ConfigFile -----------------------------
(***************************************************************************)
(* The configuration: the JSON file, its image in memory, and what         *)
(* Config::Load and Config::Save make of the one and the other.  Settings  *)
(* that fare alike are one field:                                          *)
(*   plain    MqttServer, ServerPort, ApiKey, WatchTopics, the MCP23017    *)
(*            resources: loaded and saved under the same names;            *)
(*   headers  GobalHttpHeaders, which only Load knows;                     *)
(*   site     UiWebSitePath, which only Save knows;                        *)
(*   address, comPort  of a GPSMouse: loaded from one, saved as the other; *)
(*            a file without Resources has no address;                     *)
(*   events   what EventRoot reacts to and with which function of a        *)
(*            script; pins  the GPIOPin resources, which Load skips.       *)
(***************************************************************************)

Absent == "absent"
NoList == "no Resources"

\* What an entry of EventRoot names as its event.  "other" is a name the table does not
\* have (Action and ChatMessage are such), "none" an entry without the key "Event".
EventNames == {"MqttValue", "ValueChanged", "Idle", "ChangeValue", "PublishMqtt"}
Functions  == {"callbackMqtt", "callbackValueChanged"}
NoRoot     == {<<Absent, Absent>>}
Roots      == (SUBSET ((EventNames \cup {"other", "none"}) \X Functions)) \cup {NoRoot}
Ports      == {"none", "None", "line"}

Texts == [plain : {"own", "default", Absent}, headers : {"own", Absent}, site : {"own", "empty", Absent},
           address : Ports \cup {Absent, NoList}, comPort : Ports \cup {Absent}, events : Roots, pins : BOOLEAN]
Images == [plain : {"own", "default", "nothing"}, headers : {"own", "default", "nothing"},
            port : Ports \cup {"nothing"}, events : SUBSET (EventNames \X Functions)]

Blank == [plain |-> Absent, headers |-> Absent, site |-> Absent, address |-> Absent,
           comPort |-> Absent, events |-> NoRoot, pins |-> FALSE]
Nothing == [plain |-> "nothing", headers |-> "nothing", port |-> "nothing", events |-> {}]

\* A file.  bad: what somebody has written is not what Load expects; cut: opened for
\* writing, and not written yet.
Missing    == [is |-> "missing", text |-> Blank]
Bad        == [is |-> "bad", text |-> Blank]
Cut        == [is |-> "cut", text |-> Blank]
Written(t) == [is |-> "written", text |-> t]
IsFile(f)  == f \in {Missing, Bad, Cut} \/ (f.text \in Texts /\ f = Written(f.text))

VARIABLES
  file,       \* the file
  config,     \* _configFile
  loadFailed  \* _loadFailed

configVars == <<file, config, loadFailed>>

-----------------------------------------------------------------------------
(* The conversions.                                                        *)

EventOf(name) == CASE name = "none" -> "Idle" [] name = "other" -> "ChangeValue" [] OTHER -> name

\* from_json.
LoadedRoot(root) == IF root = NoRoot THEN {<<"MqttValue", "callbackMqtt">>}
                    ELSE {<<EventOf(e[1]), e[2]>> : e \in root}
Loaded(t) ==
  [plain   |-> IF t.plain = Absent THEN "default" ELSE t.plain,
   headers |-> IF t.headers = Absent THEN "default" ELSE t.headers,
   port    |-> CASE t.address = Absent -> "None" [] t.address = NoList -> "none"
                 [] OTHER -> t.address,
   events  |-> LoadedRoot(t.events)]

\* to_json.
Saved(c) ==
  [plain |-> c.plain, headers |-> Absent, site |-> "empty", address |-> Absent,
   comPort |-> c.port, events |-> c.events, pins |-> FALSE]

\* The image of a server without a file.  The second entry of EventRoot is made of the
\* first one, and insert leaves the function alone that is there.
First == [plain |-> "default", headers |-> "nothing", port |-> "none",
          events |-> {<<"MqttValue", "callbackMqtt">>, <<"ValueChanged", "callbackMqtt">>}]

-----------------------------------------------------------------------------
(* Load, and Save up to its ofstream; Write is the rest of both.           *)

Load ==
  \/ /\ file.is = "written"
     /\ config' = Loaded(file.text) /\ loadFailed' = FALSE /\ UNCHANGED file
  \/ /\ file.is \in {"bad", "cut"}
     /\ config' = Nothing /\ loadFailed' = TRUE /\ UNCHANGED file
  \/ /\ file.is = "missing"
     /\ config' = First /\ loadFailed' = FALSE /\ file' = Cut

\* The mutation opens the file whatever Load has found.
AlwaysTruncate == file' = Cut /\ UNCHANGED <<config, loadFailed>>
Truncate ==
  /\ file' = IF loadFailed THEN file ELSE Cut
  /\ UNCHANGED <<config, loadFailed>>

Write ==
  /\ file' = IF file = Cut /\ ~loadFailed THEN Written(Saved(config)) ELSE file
  /\ UNCHANGED <<config, loadFailed>>
=============================================================================
