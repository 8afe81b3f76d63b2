------------------------------ MODULE Database ------------------------------
(***************************************************************************)
(* DatabaseManager and the callbacks of GlobalFunctions: how the SQLite    *)
(* file is created at the first start, checked at the later ones, and      *)
(* touched up at shutdown.  Every statement commits by itself, no          *)
(* transaction holds them together, and the process may end between any    *)
(* two of them.                                                            *)
(***************************************************************************)
EXTENDS Integers, Sequences

CONSTANT Releases   \* the DATABASE_SCHEMA_VERSIONs of the program, one after the other

ASSUME DatabaseAssumption == Releases \in Seq(STRING) /\ Releases # <<>>

VARIABLES
  tables,   \* the tables and indexes in sqlite_master
  rows,     \* rows[t]: the rows of table t; row i has the ID i (AUTOINCREMENT)
  proc,     \* what the server's process is doing; "off" when there is none
  todo,     \* the statements it has still to execute
  release,  \* which of Releases is installed
  refused   \* history: SQLite has refused a statement of an installation

vars == <<tables, rows, proc, todo, release, refused>>

-----------------------------------------------------------------------------
(* The statements: a table or index to create (of = the indexed table), a row to   *)
(* insert, and a row to insert unless it is there.                                  *)

Nothing         == "nothing"
Table(t)        == [do |-> "create", name |-> t, of |-> Nothing]
Index(i, t)     == [do |-> "create", name |-> i, of |-> t]
Row(t, k, refs) == [do |-> "insert", name |-> k, of |-> t, refs |-> refs]
Missing(t, k)   == [do |-> "check",  name |-> k, of |-> t, refs |-> <<>>]

RowTables == {"VERSION", "PAGES", "TYPES", "ELEMENTS"}

\* CreateTableVersion.
VersionTable == <<Table("VERSION"), Row("VERSION", Releases[release], <<>>)>>

\* CreateAutoTables.  The index for the names of the types is made on the pages.
AutoTables == <<Table("PAGES"), Index("PAGES_NAME", "PAGES"),
                Table("TYPES"), Index("TYPES_NAME", "PAGES"),
                Table("ELEMENTS"), Index("ELEMENTS_NAME", "ELEMENTS")>>

\* CheckElementTypeTable.
ElementTypes == <<Missing("TYPES", "ONOFFBUTTON"), Missing("TYPES", "VALUETEXT")>>

\* CreateDefaultData: the elements name their page and type by ID.
DefaultData == <<Row("PAGES", "pageHaus", <<>>),
                 Row("ELEMENTS", "lightYard", [PAGES |-> 1, TYPES |-> 1]),
                 Row("PAGES", "pageBarn", <<>>),
                 Row("ELEMENTS", "lightLooseBarn", [PAGES |-> 2, TYPES |-> 1])>>

\* OnDatabaseStartup, for StartupNew and for every other state.  The mutation
\* inserts the data before the types they refer to.
DataFirst == AutoTables \o DefaultData \o ElementTypes
OnNew     == AutoTables \o ElementTypes \o DefaultData
OnOther   == ElementTypes

-----------------------------------------------------------------------------
(* What SQLite does with a statement (foreign_keys=on).                     *)

Names(t) == {rows[t][i] : i \in DOMAIN rows[t]}
Accepts(s) ==
  IF s.do = "create"
  THEN s.name \notin tables /\ (s.of # Nothing => s.of \in tables)
  ELSE /\ s.of \in tables
       /\ (s.of = "PAGES" /\ {"PAGES_NAME", "TYPES_NAME"} \cap tables # {})
            => s.name \notin Names("PAGES")
       /\ (s.of = "ELEMENTS" /\ "ELEMENTS_NAME" \in tables) => s.name \notin Names("ELEMENTS")
       /\ \A t \in DOMAIN s.refs : s.refs[t] \in DOMAIN rows[t]

Apply(s) ==
  IF s.do = "create"
  THEN tables' = tables \cup {s.name} /\ UNCHANGED rows
  ELSE rows' = [rows EXCEPT ![s.of] = Append(@, s.name)] /\ UNCHANGED tables

\* The select of GetIdFromStringKey finds the row.  The mutation never does.
NotFound(s) == FALSE
Found(s)    == s.do = "check" /\ s.of \in tables /\ s.name \in Names(s.of)

-----------------------------------------------------------------------------
Init ==
  /\ tables = {} /\ rows = [t \in RowTables |-> <<>>]
  /\ proc = "off" /\ todo = <<>> /\ release = 1 /\ refused = FALSE

\* A new program is installed while the server does not run.
Upgrade ==
  /\ proc = "off" /\ release < Len(Releases) /\ release' = release + 1
  /\ UNCHANGED <<tables, rows, proc, todo, refused>>

\* Init opens (or creates) the file.
Open ==
  /\ proc = "off" /\ proc' = "open"
  /\ UNCHANGED <<tables, rows, todo, release, refused>>

\* CheckDabaseOk and CheckSchema: whether there is a table VERSION decides, and what
\* its row says.  Two mutations: one looks for the row as well, one for any row.
HasVersionRow  == "VERSION" \in tables /\ rows["VERSION"] # <<>>
HasVersion     == "VERSION" \in tables
AnyVersion     == rows["VERSION"] # <<>>
VersionMatches == rows["VERSION"] = <<Releases[release]>>
CheckDabaseOk ==
  /\ proc = "open"
  /\ IF ~HasVersion
     THEN proc' = "new" /\ todo' = VersionTable \o OnNew
     ELSE IF VersionMatches THEN proc' = "running" /\ UNCHANGED todo
                            ELSE proc' = "update" /\ todo' = OnOther
  /\ UNCHANGED <<tables, rows, release, refused>>

\* The next statement is executed or not needed.
Step ==
  /\ todo # <<>> /\ (Found(Head(todo)) \/ Accepts(Head(todo)))
  /\ IF Found(Head(todo)) THEN UNCHANGED <<tables, rows>> ELSE Apply(Head(todo))
  /\ todo' = Tail(todo)
  /\ UNCHANGED <<proc, release, refused>>

\* SQLite refuses it: SqliteException, which nobody catches.
Refused ==
  /\ todo # <<>> /\ ~Found(Head(todo)) /\ ~Accepts(Head(todo))
  /\ refused' = (refused \/ proc = "new")
  /\ proc' = "off" /\ todo' = <<>>
  /\ UNCHANGED <<tables, rows, release>>

\* Init returns after a first start.  After StartupUpdate it throws
\* NotImplementedException; after Shutdown the file is closed and the process ends.
\* The mutation checks the file again after an update.
CheckAgain ==
  /\ todo = <<>> /\ proc \in {"new", "update", "shutdown"}
  /\ proc' = IF proc = "new" THEN "running" ELSE IF proc = "update" THEN "open" ELSE "off"
  /\ UNCHANGED <<tables, rows, todo, release, refused>>
Return ==
  /\ todo = <<>> /\ proc \in {"new", "update", "shutdown"}
  /\ proc' = IF proc = "new" THEN "running" ELSE "off"
  /\ UNCHANGED <<tables, rows, todo, release, refused>>

\* Deinit: the callbacks are called before the file is closed.
Deinit ==
  /\ proc = "running" /\ proc' = "shutdown" /\ todo' = OnOther
  /\ UNCHANGED <<tables, rows, release, refused>>

\* The process is killed, or a statement fails for want of disk space or a lock.
Die ==
  /\ proc # "off" /\ proc' = "off" /\ todo' = <<>>
  /\ UNCHANGED <<tables, rows, release, refused>>

Next == Upgrade \/ Open \/ CheckDabaseOk \/ Step \/ Refused \/ Return \/ Deinit \/ Die

Spec == Init /\ [][Next]_vars

\* A process that runs goes on; nobody has to start, stop, upgrade or kill it.
FairSpec == Spec /\ WF_vars(CheckDabaseOk \/ Step \/ Refused \/ Return)

-----------------------------------------------------------------------------
(* Properties.                                                              *)

AllTables == {"VERSION", "PAGES", "PAGES_NAME", "TYPES", "TYPES_NAME", "ELEMENTS",
              "ELEMENTS_NAME"}
RowNames == {"ONOFFBUTTON", "VALUETEXT", "pageHaus", "pageBarn", "lightYard",
             "lightLooseBarn"} \cup {Releases[r] : r \in DOMAIN Releases}

TypeOK ==
  /\ tables \subseteq AllTables /\ rows \in [RowTables -> Seq(RowNames)]
  /\ proc \in {"off", "open", "new", "update", "running", "shutdown"}
  /\ \A i \in 1..Len(todo) : todo[i].do \in {"create", "insert", "check"}
  /\ todo # <<>> => proc \in {"new", "update", "shutdown"}
  /\ release \in 1..Len(Releases) /\ refused \in BOOLEAN

Count(t) == Len(rows[t])
Complete == /\ tables = AllTables /\ Count("VERSION") = 1 /\ Count("TYPES") = 2
            /\ Count("PAGES") = 2 /\ Count("ELEMENTS") = 2
Empty    == tables = {}

\* However often it starts, stops, dies and is upgraded, nothing is inserted twice, and
\* what an element refers to by ID is the row the installation means: ID 1 is the
\* button, and the page with the element's number is its page.
RowsMeanWhatTheyDid ==
  /\ TypeOK
  /\ rows["TYPES"] \in {<<>>, <<"ONOFFBUTTON">>, <<"ONOFFBUTTON", "VALUETEXT">>}
  /\ rows["PAGES"] \in {<<>>, <<"pageHaus">>, <<"pageHaus", "pageBarn">>}
  /\ rows["ELEMENTS"] \in {<<>>, <<"lightYard">>, <<"lightYard", "lightLooseBarn">>}
  /\ Count("ELEMENTS") > 0 => Count("TYPES") > 0
  /\ Count("ELEMENTS") <= Count("PAGES") /\ Count("VERSION") <= 1

\* No installation fails of itself: SQLite accepts each of its statements where it
\* stands (names are new, what they refer to is there).
InstallationIsAccepted == ~refused

\* A server that runs has the version row of its own release; but of a database that was
\* left unfinished it can run on any part that has this row.
RunningMatchesRelease ==
  proc \in {"running", "shutdown"} => rows["VERSION"] = <<Releases[release]>>

\* The file is installed once, by one process, or never.
Once == INSTANCE InstallOnce WITH
          file  <- IF Empty THEN "empty" ELSE IF Complete THEN "complete" ELSE "partial",
          owner <- proc = "new" /\ ~Empty /\ ~Complete
InstalledOnce == Once!Spec

\* Every start comes to an end: the server runs, or its process has ended.
StartEnds == proc = "open" ~> proc \in {"running", "off"}
=============================================================================
