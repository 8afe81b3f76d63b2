--------------------------- MODULE DatabaseProofs ----------------------------
(***************************************************************************)
(* Database for any releases and any number of starts, deaths and          *)
(* upgrades.  Whatever happened, the file is what the first k statements   *)
(* of an installation have made of it, but for the types, which a later    *)
(* start can have completed; the process that installs has executed these  *)
(* k and has the others still to do.                                       *)
(***************************************************************************)
EXTENDS Database, SequenceTheorems, TLAPS

Script   == VersionTable \o OnNew
Rest(k)  == SubSeq(Script, k + 1, 14)
LastType == <<Missing("TYPES", "VALUETEXT")>>

\* The statement that creates a table or an index, and the rows of a table after k statements.
CreatedBy(name) ==
  CASE name = "VERSION" -> 1 [] name = "PAGES" -> 3 [] name = "PAGES_NAME" -> 4
    [] name = "TYPES" -> 5 [] name = "TYPES_NAME" -> 6 [] name = "ELEMENTS" -> 7 [] OTHER -> 8
TablesAt(k) == {name \in AllTables : CreatedBy(name) <= k}

Types(t)    == IF t = 0 THEN <<>> ELSE IF t = 1 THEN <<"ONOFFBUTTON">>
               ELSE <<"ONOFFBUTTON", "VALUETEXT">>
Pages(k)    == IF k < 11 THEN <<>> ELSE IF k < 13 THEN <<"pageHaus">>
               ELSE <<"pageHaus", "pageBarn">>
Elements(k) == IF k < 12 THEN <<>> ELSE IF k < 14 THEN <<"lightYard">>
               ELSE <<"lightYard", "lightLooseBarn">>

\* The file after k statements of an installation of release v; t types are there.
FileAt(k, t, v) ==
  /\ tables = TablesAt(k) /\ rows \in [RowTables -> Seq(RowNames)]
  /\ rows["VERSION"] = (IF k < 2 THEN <<>> ELSE <<Releases[v]>>)
  /\ rows["TYPES"] = Types(t) /\ rows["PAGES"] = Pages(k) /\ rows["ELEMENTS"] = Elements(k)

\* How many types the installation itself has inserted.
TypesAt(k) == IF k < 9 THEN 0 ELSE IF k = 9 THEN 1 ELSE 2

\* What the process is about, with the file as it is.
Installs(k, t, v) == proc = "new" /\ todo = Rest(k) /\ t = TypesAt(k) /\ v = release
TouchesUp(k, t)   == /\ proc \in {"update", "shutdown"} /\ k >= 1
                     /\ todo \in {OnOther, LastType, <<>>} /\ (todo = LastType => t >= 1)
Works(k, t, v) ==
  /\ \/ Installs(k, t, v) \/ TouchesUp(k, t)
     \/ proc \in {"off", "open", "running"} /\ todo = <<>>
  /\ proc \in {"running", "shutdown"} => k >= 2 /\ v = release

StateAt(k, t, v) == /\ t >= TypesAt(k) /\ (t > 0 => k >= 5)
                    /\ FileAt(k, t, v) /\ Works(k, t, v)
Installed ==
  /\ release \in DOMAIN Releases /\ refused = FALSE
  /\ \E k \in 0..14, t \in 0..2, v \in DOMAIN Releases : StateAt(k, t, v)

-----------------------------------------------------------------------------
(* The statements of an installation.                                      *)

LEMMA ScriptList ==
  /\ Len(Script) = 14
  /\ Script[1] = Table("VERSION") /\ Script[2] = Row("VERSION", Releases[release], <<>>)
  /\ Script[3] = Table("PAGES") /\ Script[4] = Index("PAGES_NAME", "PAGES")
  /\ Script[5] = Table("TYPES") /\ Script[6] = Index("TYPES_NAME", "PAGES")
  /\ Script[7] = Table("ELEMENTS") /\ Script[8] = Index("ELEMENTS_NAME", "ELEMENTS")
  /\ Script[9] = Missing("TYPES", "ONOFFBUTTON") /\ Script[10] = Missing("TYPES", "VALUETEXT")
  /\ Script[11] = Row("PAGES", "pageHaus", <<>>)
  /\ Script[12] = Row("ELEMENTS", "lightYard", [PAGES |-> 1, TYPES |-> 1])
  /\ Script[13] = Row("PAGES", "pageBarn", <<>>)
  /\ Script[14] = Row("ELEMENTS", "lightLooseBarn", [PAGES |-> 2, TYPES |-> 1])
<1>1. Len(VersionTable) = 2 /\ Len(AutoTables) = 6 /\ Len(ElementTypes) = 2 /\ Len(DefaultData) = 4
  BY DEF VersionTable, AutoTables, ElementTypes, DefaultData
<1> QED
  BY <1>1 DEF Script, OnNew, VersionTable, AutoTables, ElementTypes, DefaultData

Statements == {VersionTable[i] : i \in 1..2} \cup {AutoTables[i] : i \in 1..6}
                \cup {ElementTypes[i] : i \in 1..2} \cup {DefaultData[i] : i \in 1..4}

LEMMA ScriptIsSeq == Script \in Seq(Statements)
<1>1. VersionTable \in Seq(Statements)
  BY DEF VersionTable, Statements
<1>2. AutoTables \in Seq(Statements)
  BY DEF AutoTables, Statements
<1>3. ElementTypes \in Seq(Statements)
  BY DEF ElementTypes, Statements
<1>4. DefaultData \in Seq(Statements)
  BY DEF DefaultData, Statements
<1> QED
  BY <1>1, <1>2, <1>3, <1>4, ConcatProperties DEF Script, OnNew

LEMMA RestList ==
  ASSUME NEW k \in 0..14
  PROVE  Len(Rest(k)) = 14 - k /\ \A i \in 1 .. 14 - k : k + i \in 1..14 /\ Rest(k)[i] = Script[k + i]
<1>1. \A i \in k + 1 .. 14 : Script[i] \in Statements
  <2>1. Len(Script) = 14
    BY ScriptList
  <2>2. \A i \in 1..Len(Script) : Script[i] \in Statements
    BY ScriptIsSeq, ElementOfSeq
  <2> QED
    BY <2>1, <2>2
<1>2. k + 1 \in Int /\ 14 \in Int
  OBVIOUS
<1>3. /\ Len(Rest(k)) = IF k + 1 <= 14 THEN 14 - (k + 1) + 1 ELSE 0
      /\ \A i \in 1 .. 14 - (k + 1) + 1 : Rest(k)[i] = Script[k + 1 + i - 1]
  BY <1>1, <1>2, SubSeqProperties DEF Rest
<1>4. Len(Rest(k)) = 14 - k
  BY <1>3
<1>5. ASSUME NEW i \in 1 .. 14 - k PROVE k + i \in 1..14 /\ Rest(k)[i] = Script[k + i]
  <2>1. k + 1 + i - 1 = k + i /\ i \in 1 .. 14 - (k + 1) + 1
    OBVIOUS
  <2> QED
    BY <1>3, <2>1
<1> QED
  BY <1>4, <1>5

LEMMA RestFacts ==
  /\ Rest(0) = Script /\ Rest(14) = <<>>
  /\ \A k \in 0..13 : Rest(k) # <<>> /\ Head(Rest(k)) = Script[k + 1] /\ Tail(Rest(k)) = Rest(k + 1)
<1>1. Rest(0) = Script
  BY ScriptList, ScriptIsSeq, SubSeqFull DEF Rest
<1>2. Rest(14) = <<>>
  BY ScriptIsSeq, SubSeqEmpty DEF Rest
<1>3. ASSUME NEW k \in 0..13
      PROVE  Rest(k) # <<>> /\ Head(Rest(k)) = Script[k + 1] /\ Tail(Rest(k)) = Rest(k + 1)
  <2>1. k + 1 \in 1..Len(Script) /\ 14 \in k + 1 .. Len(Script)
    BY ScriptList
  <2>2. Head(Rest(k)) = Script[k + 1] /\ Tail(Rest(k)) = Rest(k + 1)
    BY <2>1, ScriptIsSeq, HeadTailOfSubSeq DEF Rest
  <2>3. k \in 0..14 /\ 14 - k # 0
    OBVIOUS
  <2>4. Len(Rest(k)) # 0
    BY <2>3, RestList
  <2> QED
    BY <2>2, <2>4
<1> QED
  BY <1>1, <1>2, <1>3

-----------------------------------------------------------------------------
(* Single statements.                                                      *)

LEMMA Facts ==
  ASSUME Installed
  PROVE  /\ release \in 1..Len(Releases) /\ refused = FALSE
         /\ \A r \in 1..Len(Releases) : Releases[r] \in RowNames
  BY DatabaseAssumption, LenProperties DEF Installed, RowNames

LEMMA CreateKeeps ==
  ASSUME NEW k \in 0..13, NEW t \in 0..2, NEW v \in DOMAIN Releases, FileAt(k, t, v),
         NEW name \in AllTables, NEW of \in AllTables \cup {Nothing},
         CreatedBy(name) = k + 1, of # Nothing => CreatedBy(of) <= k,
         k + 1 \notin {2, 11, 12, 13, 14}, NEW s, s = [do |-> "create", name |-> name, of |-> of]
  PROVE  ~Found(s) /\ Accepts(s) /\ (Apply(s) => FileAt(k + 1, t, v)')
<1>1. ~Found(s)
  BY DEF Found
<1>2. \A x \in AllTables : CreatedBy(x) \in 1..8
  BY DEF CreatedBy
<1>3. Accepts(s)
  BY <1>2 DEF Accepts, FileAt, TablesAt
<1>4. ASSUME Apply(s) PROVE FileAt(k + 1, t, v)'
  <2>1. tables' = tables \cup {name} /\ rows' = rows
    BY <1>4 DEF Apply
  <2>2. \A x \in AllTables : CreatedBy(x) = k + 1 => x = name
    BY DEF CreatedBy, AllTables
  <2>3. tables' = TablesAt(k + 1)
    <3>1. \A x \in AllTables : CreatedBy(x) <= k + 1 <=> (CreatedBy(x) <= k \/ x = name)
      BY <1>2, <2>2
    <3> QED
      BY <2>1, <3>1 DEF FileAt, TablesAt
  <2>4. Pages(k + 1) = Pages(k) /\ Elements(k + 1) = Elements(k) /\ (k < 2 <=> k + 1 < 2)
    BY DEF Pages, Elements
  <2> QED
    BY <2>1, <2>3, <2>4 DEF FileAt
<1> QED
  BY <1>1, <1>3, <1>4

\* A table gets one more row.
LEMMA InsertKeeps ==
  ASSUME rows \in [RowTables -> Seq(RowNames)], NEW s, s.do # "create",
         NEW t \in RowTables, s.of = t, NEW name \in RowNames, s.name = name, Apply(s)
  PROVE  /\ tables' = tables /\ rows' \in [RowTables -> Seq(RowNames)]
         /\ rows'[t] = Append(rows[t], name)
         /\ \A x \in RowTables \ {t} : rows'[x] = rows[x]
<1>1. tables' = tables /\ rows' = [rows EXCEPT ![t] = Append(@, name)]
  BY DEF Apply
<1>2. Append(rows[t], name) \in Seq(RowNames)
  BY AppendProperties
<1> QED
  BY <1>1, <1>2

LEMMA Appends == \A a, b : Append(<<>>, a) = <<a>> /\ Append(<<a>>, b) = <<a, b>>
<1> TAKE a, b
<1>1. Append(<<>>, a) = <<a>>
  OBVIOUS
<1>2. <<a>> \in Seq({a, b}) /\ b \in {a, b} /\ <<a, b>> \in Seq({a, b})
  OBVIOUS
<1>3. Append(<<a>>, b) \in Seq({a, b}) /\ Len(Append(<<a>>, b)) = 2
  BY <1>2, AppendProperties
<1>4. Append(<<a>>, b)[1] = a /\ Append(<<a>>, b)[2] = b
  BY <1>2, AppendProperties
<1>5. \A i \in 1..2 : Append(<<a>>, b)[i] = <<a, b>>[i]
  BY <1>4
<1>6. Len(<<a, b>>) = 2
  OBVIOUS
<1>7. Append(<<a>>, b) = <<a, b>>
  BY <1>2, <1>3, <1>5, <1>6, SeqEqual
<1> QED
  BY <1>1, <1>7

LEMMA NamesInDatabase ==
  {"ONOFFBUTTON", "VALUETEXT", "pageHaus", "pageBarn", "lightYard", "lightLooseBarn"}
    \subseteq RowNames
  BY DEF RowNames

\* The six statements of an installation that insert a row, where they stand.
LEMMA VersionStatement ==
  ASSUME NEW v \in DOMAIN Releases, v = release, FileAt(1, 0, v)
  PROVE  LET s == Script[2]
         IN  ~Found(s) /\ Accepts(s) /\ (Apply(s) => FileAt(2, 0, v)')
<1> DEFINE s == Script[2]
<1>1. s.do = "insert" /\ s.of = "VERSION" /\ s.name = Releases[v] /\ s.refs = <<>>
  BY ScriptList DEF Row
<1>2. ~Found(s) /\ Accepts(s)
  BY <1>1 DEF Found, Accepts, FileAt, TablesAt, CreatedBy, AllTables
<1>3. ASSUME Apply(s) PROVE FileAt(2, 0, v)'
  <2>1. "VERSION" \in RowTables /\ Releases[v] \in RowNames
        /\ rows \in [RowTables -> Seq(RowNames)]
    BY DEF RowTables, RowNames, FileAt
  <2>2. /\ tables' = tables /\ rows' \in [RowTables -> Seq(RowNames)]
        /\ rows'["VERSION"] = Append(rows["VERSION"], Releases[v])
        /\ \A x \in RowTables \ {"VERSION"} : rows'[x] = rows[x]
    <3> HIDE DEF s
    <3> QED
      BY <1>1, <1>3, <2>1, InsertKeeps
  <2>3. TablesAt(2) = TablesAt(1)
    BY DEF TablesAt, CreatedBy, AllTables
  <2> QED
    BY <2>2, <2>3 DEF FileAt, Pages, Elements, RowTables
<1> QED
  BY <1>2, <1>3

\* A type that is looked for and inserted, in an installation or later.
LEMMA TypeStatement ==
  ASSUME NEW k \in 0..14, NEW t \in 0..2, NEW v \in DOMAIN Releases, FileAt(k, t, v), t > 0 => k >= 5,
         NEW n \in 1..2, t >= n - 1,
         NEW s, s = Missing("TYPES", IF n = 1 THEN "ONOFFBUTTON" ELSE "VALUETEXT")
  PROVE  /\ Found(s) <=> t >= n
         /\ (~Found(s) /\ Accepts(s)) => k >= 5
         /\ (~Found(s) /\ k >= 5) => Accepts(s)
         /\ (~Found(s) /\ Accepts(s) /\ Apply(s)) => FileAt(k, n, v)'
<1> DEFINE name == IF n = 1 THEN "ONOFFBUTTON" ELSE "VALUETEXT"
<1>1. /\ s.do = "check" /\ s.of = "TYPES" /\ s.name = name /\ s.refs = <<>>
      /\ name \in RowNames /\ "TYPES" \in RowTables
  BY NamesInDatabase DEF Missing, RowTables
<1>2. "TYPES" \in tables <=> k >= 5
  BY DEF FileAt, TablesAt, CreatedBy, AllTables
<1>3. Names("TYPES") = IF t = 0 THEN {} ELSE IF t = 1 THEN {"ONOFFBUTTON"}
                       ELSE {"ONOFFBUTTON", "VALUETEXT"}
  <2>1. rows["TYPES"] = Types(t)
    BY DEF FileAt
  <2>2. CASE t = 0
    BY <2>1, <2>2 DEF Names, Types
  <2>3. CASE t = 1
    BY <2>1, <2>3 DEF Names, Types
  <2>4. CASE t = 2
    BY <2>1, <2>4 DEF Names, Types
  <2> QED
    BY <2>2, <2>3, <2>4
<1>4. Found(s) <=> t >= n
  BY <1>1, <1>2, <1>3 DEF Found
<1>5. Accepts(s) <=> k >= 5
  BY <1>1, <1>2 DEF Accepts
<1>6. ASSUME ~Found(s), Apply(s) PROVE FileAt(k, n, v)'
  <2>1. t = n - 1
    BY <1>4, <1>6
  <2>2. /\ tables' = tables /\ rows' \in [RowTables -> Seq(RowNames)]
        /\ rows'["TYPES"] = Append(rows["TYPES"], name)
        /\ \A x \in RowTables \ {"TYPES"} : rows'[x] = rows[x]
    <3> HIDE DEF name
    <3>1. rows \in [RowTables -> Seq(RowNames)] /\ s.do # "create"
      BY <1>1 DEF FileAt
    <3> QED
      BY <1>1, <1>6, <3>1, InsertKeeps
  <2>3. rows'["TYPES"] = Types(n)
    <3>1. rows["TYPES"] = Types(t)
      BY DEF FileAt
    <3>2. CASE n = 1
      BY <2>1, <2>2, <3>1, <3>2, Appends DEF Types
    <3>3. CASE n = 2
      BY <2>1, <2>2, <3>1, <3>3, Appends DEF Types
    <3> QED
      BY <3>2, <3>3
  <2> QED
    BY <2>2, <2>3 DEF FileAt, RowTables
<1> QED
  BY <1>4, <1>5, <1>6

\* The four rows of the default data, where they stand.
LEMMA DataStatement ==
  ASSUME NEW k \in 10..13, NEW v \in DOMAIN Releases, FileAt(k, 2, v)
  PROVE  LET s == Script[k + 1]
         IN  ~Found(s) /\ Accepts(s) /\ (Apply(s) => FileAt(k + 1, 2, v)')
<1> DEFINE table == IF k \in {10, 12} THEN "PAGES" ELSE "ELEMENTS"
           name  == IF k = 10 THEN "pageHaus" ELSE IF k = 11 THEN "lightYard"
                    ELSE IF k = 12 THEN "pageBarn" ELSE "lightLooseBarn"
           s     == Script[k + 1]
<1>1. /\ s.do = "insert" /\ s.of = table /\ s.name = name
      /\ name \in RowNames /\ table \in RowTables
  BY ScriptList, NamesInDatabase DEF Row, RowTables
<1>2. k \in {10, 12} => s.refs = <<>>
  BY ScriptList DEF Row
<1>3. k \in {11, 13} => s.refs = [PAGES |-> IF k = 11 THEN 1 ELSE 2, TYPES |-> 1]
  BY ScriptList DEF Row
<1>4. tables = AllTables
  BY DEF FileAt, TablesAt, CreatedBy, AllTables
<1>5. /\ rows["PAGES"] = Pages(k) /\ rows["ELEMENTS"] = Elements(k) /\ rows["TYPES"] = Types(2)
      /\ rows \in [RowTables -> Seq(RowNames)]
  BY DEF FileAt
<1>6. name \notin Names(table)
  BY <1>5 DEF Names, Pages, Elements
<1>7. \A t \in DOMAIN s.refs : s.refs[t] \in DOMAIN rows[t]
  <2>1. CASE k \in {10, 12}
    BY <1>2, <2>1
  <2>2. CASE k = 11
    <3>1. rows["PAGES"] = <<"pageHaus">> /\ rows["TYPES"] = <<"ONOFFBUTTON", "VALUETEXT">>
      BY <1>5, <2>2 DEF Pages, Types
    <3> QED
      BY <1>3, <2>2, <3>1
  <2>3. CASE k = 13
    <3>1. rows["PAGES"] = <<"pageHaus", "pageBarn">> /\ rows["TYPES"] = <<"ONOFFBUTTON", "VALUETEXT">>
      BY <1>5, <2>3 DEF Pages, Types
    <3> QED
      BY <1>3, <2>3, <3>1
  <2> QED
    BY <2>1, <2>2, <2>3
<1>8. ~Found(s) /\ Accepts(s)
  BY <1>1, <1>4, <1>6, <1>7 DEF Found, Accepts, AllTables
<1>9. ASSUME Apply(s) PROVE FileAt(k + 1, 2, v)'
  <2>1. /\ tables' = tables /\ rows' \in [RowTables -> Seq(RowNames)]
        /\ rows'[table] = Append(rows[table], name)
        /\ \A x \in RowTables \ {table} : rows'[x] = rows[x]
    <3> HIDE DEF name, table, s
    <3>1. s.do # "create"
      BY <1>1
    <3> QED
      BY <1>1, <1>5, <1>9, <3>1, InsertKeeps
  <2>2. TablesAt(k + 1) = TablesAt(k)
    BY DEF TablesAt, CreatedBy, AllTables
  <2>3. rows'["PAGES"] = Pages(k + 1) /\ rows'["ELEMENTS"] = Elements(k + 1)
    <3>1. CASE k = 10
      BY <1>5, <2>1, <3>1, Appends DEF Pages, Elements, RowTables
    <3>2. CASE k = 11
      BY <1>5, <2>1, <3>2, Appends DEF Pages, Elements, RowTables
    <3>3. CASE k = 12
      <4>1. rows["PAGES"] = <<"pageHaus">> /\ Pages(13) = <<"pageHaus", "pageBarn">>
            /\ Elements(13) = Elements(12) /\ rows'["ELEMENTS"] = rows["ELEMENTS"]
        BY <1>5, <2>1, <3>3 DEF Pages, Elements, RowTables
      <4>2. rows'["PAGES"] = Append(rows["PAGES"], "pageBarn")
        BY <2>1, <3>3
      <4> QED
        BY <1>5, <3>3, <4>1, <4>2, Appends
    <3>4. CASE k = 13
      <4>1. rows["ELEMENTS"] = <<"lightYard">> /\ Elements(14) = <<"lightYard", "lightLooseBarn">>
            /\ Pages(14) = Pages(13) /\ rows'["PAGES"] = rows["PAGES"]
        BY <1>5, <2>1, <3>4 DEF Pages, Elements, RowTables
      <4>2. rows'["ELEMENTS"] = Append(rows["ELEMENTS"], "lightLooseBarn")
        BY <2>1, <3>4
      <4> QED
        BY <1>5, <3>4, <4>1, <4>2, Appends
    <3> QED
      BY <3>1, <3>2, <3>3, <3>4
  <2> QED
    BY <2>1, <2>2, <2>3 DEF FileAt, RowTables
<1> QED
  BY <1>8, <1>9

\* Each statement of an installation is executed where it stands, and leads to the next one.
LEMMA ScriptStatement ==
  ASSUME NEW k \in 0..13, NEW v \in DOMAIN Releases, v = release, FileAt(k, TypesAt(k), v)
  PROVE  LET s == Script[k + 1]
         IN  ~Found(s) /\ Accepts(s) /\ (Apply(s) => FileAt(k + 1, TypesAt(k + 1), v)')
<1> DEFINE s == Script[k + 1]
<1>1. CASE k = 1
  BY <1>1, VersionStatement DEF TypesAt
<1>2. CASE k \in {0, 2, 3, 4, 5, 6, 7}
  <2>1. PICK name \in AllTables, of \in AllTables \cup {Nothing} :
          /\ s = [do |-> "create", name |-> name, of |-> of]
          /\ CreatedBy(name) = k + 1 /\ (of # Nothing => CreatedBy(of) <= k)
    <3>1. s \in {Table("VERSION"), Table("PAGES"), Index("PAGES_NAME", "PAGES"),
                 Table("TYPES"), Index("TYPES_NAME", "PAGES"), Table("ELEMENTS"),
                 Index("ELEMENTS_NAME", "ELEMENTS")}
      BY <1>2, ScriptList
    <3>2. s = [do |-> "create", name |-> s.name, of |-> s.of]
      BY <3>1 DEF Table, Index
    <3>3. s.name \in AllTables /\ s.of \in AllTables \cup {Nothing}
      BY <3>1 DEF Table, Index, AllTables
    <3>4. CreatedBy(s.name) = k + 1 /\ (s.of # Nothing => CreatedBy(s.of) <= k)
      BY <1>2, ScriptList DEF Table, Index, CreatedBy, Nothing
    <3> QED
      BY <3>2, <3>3, <3>4
  <2>2. TypesAt(k) = 0 /\ TypesAt(k + 1) = 0 /\ 0 \in 0..2 /\ k + 1 \notin {2, 11, 12, 13, 14}
    BY <1>2 DEF TypesAt
  <2>3. ~Found(s) /\ Accepts(s) /\ (Apply(s) => FileAt(k + 1, 0, v)')
    <3> HIDE DEF s
    <3>1. FileAt(k, 0, v)
      BY <2>2
    <3> QED
      BY <2>1, <2>2, <3>1, CreateKeeps
  <2> QED
    BY <2>2, <2>3
<1>3. CASE k \in {8, 9}
  <2> DEFINE n == k - 7
  <2>1. s = Missing("TYPES", IF n = 1 THEN "ONOFFBUTTON" ELSE "VALUETEXT")
    BY <1>3, ScriptList
  <2>2. n \in 1..2 /\ TypesAt(k) = n - 1 /\ TypesAt(k + 1) = n /\ k \in 0..14 /\ k >= 5
    BY <1>3 DEF TypesAt
  <2>3. ~Found(s) /\ Accepts(s) /\ (Apply(s) => FileAt(k, n, v)')
    <3> HIDE DEF s, n
    <3> QED
      BY <2>1, <2>2, TypeStatement
  <2>4. FileAt(k, n, v)' => FileAt(k + 1, n, v)'
    <3>1. TablesAt(k + 1) = TablesAt(k) /\ Pages(k + 1) = Pages(k) /\ Elements(k + 1) = Elements(k)
      BY <1>3 DEF TablesAt, CreatedBy, AllTables, Pages, Elements
    <3> QED
      BY <1>3, <3>1 DEF FileAt
  <2> QED
    BY <2>2, <2>3, <2>4
<1>4. CASE k \in 10..13
  <2>1. TypesAt(k) = 2 /\ TypesAt(k + 1) = 2
    BY <1>4 DEF TypesAt
  <2> QED
    BY <1>4, <2>1, DataStatement
<1> QED
  BY <1>1, <1>2, <1>3, <1>4

-----------------------------------------------------------------------------
(* The steps of the processes.                                             *)

LEMMA InitInstalled == Init => Installed
<1> SUFFICES ASSUME Init PROVE Installed
  OBVIOUS
<1>1. 1 \in DOMAIN Releases
  <2>1. Len(Releases) \in Nat \ {0} /\ DOMAIN Releases = 1..Len(Releases)
    BY DatabaseAssumption, EmptySeq, LenProperties
  <2> QED
    BY <2>1
<1>2. FileAt(0, 0, 1)
  <2>1. TablesAt(0) = {}
    BY DEF TablesAt, CreatedBy
  <2>2. \A x \in RowTables : rows[x] = <<>>
    BY DEF Init
  <2>3. rows \in [RowTables -> Seq(RowNames)]
    BY EmptySeq DEF Init
  <2> QED
    BY <2>1, <2>2, <2>3 DEF Init, FileAt, Types, Pages, Elements, RowTables
<1>3. StateAt(0, 0, 1)
  BY <1>2 DEF Init, StateAt, TypesAt, Works
<1> QED
  BY <1>1, <1>3 DEF Init, Installed

\* The file stays, and what the process is about changes.
LEMMA FileStays ==
  ASSUME NEW k, NEW t, NEW v, UNCHANGED <<tables, rows>>, FileAt(k, t, v)
  PROVE  FileAt(k, t, v)'
  BY DEF FileAt

LEMMA TodoFacts ==
  /\ OnOther # <<>> /\ LastType # <<>> /\ OnOther # LastType
  /\ Head(OnOther) = Missing("TYPES", "ONOFFBUTTON") /\ Tail(OnOther) = LastType
  /\ Head(LastType) = Missing("TYPES", "VALUETEXT") /\ Tail(LastType) = <<>>
<1>1. OnOther = <<Missing("TYPES", "ONOFFBUTTON"), Missing("TYPES", "VALUETEXT")>>
  BY DEF OnOther, ElementTypes
<1>2. Len(OnOther) = 2 /\ Len(LastType) = 1
  BY <1>1 DEF LastType
<1> QED
  BY <1>1, <1>2 DEF LastType

LEMMA CheckKeeps ==
  ASSUME NEW k \in 0..14, NEW t \in 0..2, NEW v \in DOMAIN Releases, StateAt(k, t, v),
         release \in DOMAIN Releases, CheckDabaseOk
  PROVE  \E w \in DOMAIN Releases : StateAt(k, t, w)'
<1>1. /\ FileAt(k, t, v) /\ t >= TypesAt(k) /\ (t > 0 => k >= 5) /\ proc = "open" /\ todo = <<>>
      /\ UNCHANGED <<tables, rows, release>>
  BY DEF StateAt, Works, Installs, TouchesUp, CheckDabaseOk
<1>2. HasVersion <=> k >= 1
  BY <1>1 DEF HasVersion, FileAt, TablesAt, CreatedBy, AllTables
<1>3. CASE ~HasVersion
  <2>1. k = 0 /\ t = 0 /\ TypesAt(0) = 0
    BY <1>1, <1>2, <1>3 DEF TypesAt
  <2>2. FileAt(0, 0, release)'
    BY <1>1, <2>1 DEF FileAt
  <2>3. proc' = "new" /\ todo' = Rest(0)
    BY <1>3, RestFacts DEF CheckDabaseOk, Script
  <2>4. Installs(0, 0, release)'
    BY <1>1, <2>1, <2>3 DEF Installs, Rest, Script, VersionTable
  <2>5. StateAt(0, 0, release)'
    BY <2>1, <2>2, <2>3, <2>4 DEF StateAt, Works
  <2> QED
    BY <1>1, <2>1, <2>5
<1>4. CASE HasVersion /\ VersionMatches
  <2>1. k >= 2
    <3>1. rows["VERSION"] = <<Releases[release]>> /\ Len(rows["VERSION"]) = 1
      BY <1>4 DEF VersionMatches
    <3> QED
      BY <1>1, <3>1 DEF FileAt
  <2>2. FileAt(k, t, release)'
    BY <1>1, <1>4, <2>1 DEF FileAt, VersionMatches
  <2>3. proc' = "running" /\ todo' = <<>>
    BY <1>1, <1>4 DEF CheckDabaseOk
  <2>4. StateAt(k, t, release)'
    BY <1>1, <2>1, <2>2, <2>3 DEF StateAt, Works
  <2> QED
    BY <1>1, <2>4
<1>5. CASE HasVersion /\ ~VersionMatches
  <2>1. proc' = "update" /\ todo' = OnOther
    BY <1>5 DEF CheckDabaseOk
  <2>2. TouchesUp(k, t)'
    BY <1>2, <1>5, <2>1, TodoFacts DEF TouchesUp
  <2>3. StateAt(k, t, v)'
    BY <1>1, <2>1, <2>2, FileStays DEF StateAt, Works
  <2> QED
    BY <2>3
<1> QED
  BY <1>3, <1>4, <1>5

LEMMA InstallStep ==
  ASSUME NEW k \in 0..14, NEW t \in 0..2, NEW v \in DOMAIN Releases, StateAt(k, t, v),
         proc = "new", todo # <<>>
  PROVE  /\ k \in 0..13 /\ ~Found(Head(todo)) /\ Accepts(Head(todo))
         /\ Step => StateAt(k + 1, TypesAt(k + 1), v)'
<1>1. FileAt(k, t, v) /\ todo = Rest(k) /\ t = TypesAt(k) /\ v = release
  BY DEF StateAt, Works, Installs, TouchesUp
<1>2. k \in 0..13 /\ Head(todo) = Script[k + 1] /\ Tail(todo) = Rest(k + 1)
  <2>1. k # 14
    BY <1>1, RestFacts
  <2>2. k \in 0..13
    BY <2>1
  <2> QED
    BY <1>1, <2>2, RestFacts
<1>3. /\ ~Found(Head(todo)) /\ Accepts(Head(todo))
      /\ Apply(Head(todo)) => FileAt(k + 1, TypesAt(k + 1), v)'
  BY <1>1, <1>2, ScriptStatement
<1>4. ASSUME Step PROVE StateAt(k + 1, TypesAt(k + 1), v)'
  <2>1. FileAt(k + 1, TypesAt(k + 1), v)' /\ todo' = Rest(k + 1) /\ UNCHANGED <<proc, release>>
    BY <1>2, <1>3, <1>4 DEF Step
  <2>2. Installs(k + 1, TypesAt(k + 1), v)'
    BY <1>1, <2>1 DEF Installs, Rest, Script, VersionTable
  <2>3. TypesAt(k + 1) > 0 => k + 1 >= 5
    BY DEF TypesAt
  <2>4. TypesAt(k + 1) >= TypesAt(k + 1)
    BY DEF TypesAt
  <2> QED
    BY <2>1, <2>2, <2>3, <2>4 DEF StateAt, Works
<1> QED
  BY <1>2, <1>3, <1>4

LEMMA TouchUpStep ==
  ASSUME NEW k \in 0..14, NEW t \in 0..2, NEW v \in DOMAIN Releases, StateAt(k, t, v),
         TouchesUp(k, t), Step
  PROVE  \E u \in 0..2 : StateAt(k, u, v)'
<1>1. /\ FileAt(k, t, v) /\ t >= TypesAt(k) /\ (t > 0 => k >= 5) /\ TypesAt(k) \in Nat
      /\ proc \in {"running", "shutdown"} => k >= 2 /\ v = release
  BY DEF StateAt, Works, TypesAt
<1>2. PICK n \in 1..2 : /\ Head(todo) = Missing("TYPES", IF n = 1 THEN "ONOFFBUTTON" ELSE "VALUETEXT")
                        /\ t >= n - 1 /\ Tail(todo) = (IF n = 1 THEN LastType ELSE <<>>)
  <2>1. CASE todo = OnOther
    BY <2>1, TodoFacts
  <2>2. CASE todo = LastType
    BY <2>2, TodoFacts DEF TouchesUp
  <2> QED
    BY <2>1, <2>2 DEF TouchesUp, Step
<1> DEFINE u == IF t >= n THEN t ELSE n
<1>3. u \in 0..2 /\ u >= n /\ u >= t
  OBVIOUS
<1>4. FileAt(k, u, v)' /\ (u > 0 => k >= 5)
  <2>1. CASE Found(Head(todo))
    <3>1. t >= n /\ UNCHANGED <<tables, rows>>
      BY <1>1, <1>2, <2>1, TypeStatement DEF Step
    <3> QED
      BY <1>1, <3>1, FileStays
  <2>2. CASE ~Found(Head(todo))
    <3>1. Accepts(Head(todo)) /\ Apply(Head(todo))
      BY <2>2 DEF Step
    <3>2. k >= 5 /\ ~(t >= n) /\ FileAt(k, n, v)'
      BY <1>1, <1>2, <2>2, <3>1, TypeStatement
    <3> QED
      BY <3>2
  <2> QED
    BY <2>1, <2>2
<1>5. UNCHANGED <<proc, release>> /\ todo' = (IF n = 1 THEN LastType ELSE <<>>)
  BY <1>2 DEF Step
<1>6. TouchesUp(k, u)'
  BY <1>3, <1>5 DEF TouchesUp
<1>7. u >= TypesAt(k)
  BY <1>1, <1>3
<1>8. StateAt(k, u, v)'
  BY <1>1, <1>4, <1>5, <1>6, <1>7 DEF StateAt, Works
<1> QED
  BY <1>3, <1>8

LEMMA NextInstalled == Installed /\ [Next]_vars => Installed'
<1> SUFFICES ASSUME Installed, [Next]_vars PROVE Installed'
  OBVIOUS
<1>1. release \in DOMAIN Releases /\ refused = FALSE
  BY DEF Installed
<1>2. PICK k \in 0..14, t \in 0..2, v \in DOMAIN Releases : StateAt(k, t, v)
  BY DEF Installed
<1>3. /\ FileAt(k, t, v) /\ t >= TypesAt(k) /\ (t > 0 => k >= 5) /\ Works(k, t, v)
  BY <1>2 DEF StateAt
<1>4. ASSUME UNCHANGED <<tables, rows, release, refused>>, Works(k, t, v)'
      PROVE  Installed'
  <2>1. StateAt(k, t, v)'
    BY <1>3, <1>4, FileStays DEF StateAt
  <2> QED
    BY <1>1, <1>4, <2>1 DEF Installed
<1>5. CASE Upgrade
  <2>1. /\ release' \in DOMAIN Releases /\ proc = "off" /\ todo = <<>>
        /\ UNCHANGED <<tables, rows, proc, todo, refused>>
    BY <1>1, <1>3, <1>5, DatabaseAssumption, LenProperties
       DEF Upgrade, Works, Installs, TouchesUp
  <2>2. StateAt(k, t, v)'
    BY <1>3, <2>1, FileStays DEF StateAt, Works
  <2> QED
    BY <1>1, <2>1, <2>2 DEF Installed
<1>6. CASE Open
  BY <1>3, <1>4, <1>6 DEF Open, Works, Installs, TouchesUp
<1>7. CASE CheckDabaseOk
  <2>1. release' = release /\ refused' = refused
    BY <1>7 DEF CheckDabaseOk
  <2>2. \E w \in DOMAIN Releases : StateAt(k, t, w)'
    BY <1>1, <1>2, <1>7, CheckKeeps
  <2> QED
    BY <1>1, <2>1, <2>2 DEF Installed
<1>8. CASE Step
  <2>1. release' = release /\ refused' = refused /\ todo # <<>>
    BY <1>8 DEF Step
  <2>2. CASE Installs(k, t, v)
    <3>1. k \in 0..13 /\ StateAt(k + 1, TypesAt(k + 1), v)'
      BY <1>2, <1>8, <2>1, <2>2, InstallStep DEF Installs
    <3>2. k + 1 \in 0..14 /\ TypesAt(k + 1) \in 0..2
      BY <3>1 DEF TypesAt
    <3> QED
      BY <1>1, <2>1, <3>1, <3>2 DEF Installed
  <2>3. CASE TouchesUp(k, t)
    BY <1>1, <1>2, <1>8, <2>1, <2>3, TouchUpStep DEF Installed
  <2> QED
    BY <1>3, <2>1, <2>2, <2>3 DEF Works
<1>9. CASE Refused
  <2>1. proc # "new"
    BY <1>2, <1>9, InstallStep DEF Refused
  <2>2. refused' = FALSE /\ proc' = "off" /\ todo' = <<>> /\ UNCHANGED <<tables, rows, release>>
    BY <1>1, <1>9, <2>1 DEF Refused
  <2> QED
    BY <1>1, <1>4, <2>2 DEF Works
<1>10. CASE Return
  <2>1. UNCHANGED <<tables, rows, todo, release, refused>> /\ todo = <<>>
    BY <1>10 DEF Return
  <2>2. CASE proc = "new"
    <3>1. todo = Rest(k) /\ v = release
      BY <1>3, <2>2 DEF Works, Installs, TouchesUp
    <3>2. k \notin 0..13
      BY <2>1, <3>1, RestFacts
    <3>3. proc' = "running" /\ k >= 2
      BY <1>10, <2>2, <3>2 DEF Return
    <3> QED
      BY <1>4, <2>1, <3>1, <3>3 DEF Works
  <2>3. CASE proc # "new"
    <3>1. proc' = "off"
      BY <1>10, <2>3 DEF Return
    <3> QED
      BY <1>4, <2>1, <3>1 DEF Works
  <2> QED
    BY <2>2, <2>3
<1>11. CASE Deinit
  <2>1. /\ proc = "running" /\ proc' = "shutdown" /\ todo' = OnOther
        /\ UNCHANGED <<tables, rows, release, refused>>
    BY <1>11 DEF Deinit
  <2>2. k >= 2 /\ v = release
    BY <1>3, <2>1 DEF Works
  <2>3. TouchesUp(k, t)'
    BY <2>1, <2>2, TodoFacts DEF TouchesUp
  <2> QED
    BY <1>4, <2>1, <2>2, <2>3 DEF Works
<1>12. CASE Die
  BY <1>4, <1>12 DEF Die, Works
<1>13. CASE UNCHANGED vars
  BY <1>3, <1>4, <1>13 DEF vars, Works, Installs, TouchesUp, Rest, Script, VersionTable
<1> QED
  BY <1>5, <1>6, <1>7, <1>8, <1>9, <1>10, <1>11, <1>12, <1>13 DEF Next

LEMMA InstallInvariant == Spec => []Installed
  BY InitInstalled, NextInstalled, PTL DEF Spec

-----------------------------------------------------------------------------
(* What is known of the file.                                              *)

LEMMA TypesOfTodo ==
  ASSUME NEW k \in 0..14, NEW t \in 0..2, NEW v \in DOMAIN Releases, StateAt(k, t, v)
  PROVE  /\ \A i \in 1..Len(todo) : todo[i].do \in {"create", "insert", "check"}
         /\ todo # <<>> => proc \in {"new", "update", "shutdown"}
<1>1. CASE Installs(k, t, v)
  <2>1. \A i \in 1..14 : Script[i].do \in {"create", "insert", "check"}
    BY ScriptList DEF Table, Index, Row, Missing
  <2> QED
    BY <1>1, <2>1, RestList DEF Installs
<1>2. CASE TouchesUp(k, t)
  <2>1. /\ Len(OnOther) = 2 /\ OnOther[1] = Missing("TYPES", "ONOFFBUTTON")
        /\ OnOther[2] = Missing("TYPES", "VALUETEXT")
        /\ Len(LastType) = 1 /\ LastType[1] = Missing("TYPES", "VALUETEXT")
    BY DEF OnOther, ElementTypes, LastType
  <2> QED
    BY <1>2, <2>1 DEF TouchesUp, Missing
<1>3. CASE todo = <<>>
  BY <1>3
<1> QED
  BY <1>1, <1>2, <1>3 DEF StateAt, Works

LEMMA TypeFacts == Installed => TypeOK
<1> SUFFICES ASSUME Installed PROVE TypeOK
  OBVIOUS
<1>1. PICK k \in 0..14, t \in 0..2, v \in DOMAIN Releases : StateAt(k, t, v)
  BY DEF Installed
<1>2. tables \subseteq AllTables /\ rows \in [RowTables -> Seq(RowNames)]
  BY <1>1 DEF StateAt, FileAt, TablesAt
<1>3. proc \in {"off", "open", "new", "update", "running", "shutdown"}
  BY <1>1 DEF StateAt, Works, Installs, TouchesUp
<1> QED
  BY <1>1, <1>2, <1>3, Facts, TypesOfTodo DEF TypeOK

\* How many rows there are after k statements.
LEMMA Counts ==
  ASSUME NEW k \in 0..14, NEW t \in 0..2
  PROVE  /\ Types(t) \in {<<>>, <<"ONOFFBUTTON">>, <<"ONOFFBUTTON", "VALUETEXT">>}
         /\ Pages(k) \in {<<>>, <<"pageHaus">>, <<"pageHaus", "pageBarn">>}
         /\ Elements(k) \in {<<>>, <<"lightYard">>, <<"lightYard", "lightLooseBarn">>}
         /\ Len(Types(t)) = t
         /\ Len(Pages(k)) = IF k < 11 THEN 0 ELSE IF k < 13 THEN 1 ELSE 2
         /\ Len(Elements(k)) = IF k < 12 THEN 0 ELSE IF k < 14 THEN 1 ELSE 2
<1>1. Len(Types(t)) = t
  BY DEF Types
<1>2. Len(Pages(k)) = IF k < 11 THEN 0 ELSE IF k < 13 THEN 1 ELSE 2
  BY DEF Pages
<1>3. Len(Elements(k)) = IF k < 12 THEN 0 ELSE IF k < 14 THEN 1 ELSE 2
  BY DEF Elements
<1> QED
  BY <1>1, <1>2, <1>3 DEF Types, Pages, Elements

LEMMA RowFacts == Installed => RowsMeanWhatTheyDid
<1> SUFFICES ASSUME Installed PROVE RowsMeanWhatTheyDid
  OBVIOUS
<1>1. PICK k \in 0..14, t \in 0..2, v \in DOMAIN Releases : StateAt(k, t, v)
  BY DEF Installed
<1>2. /\ rows["VERSION"] = (IF k < 2 THEN <<>> ELSE <<Releases[v]>>)
      /\ rows["TYPES"] = Types(t) /\ rows["PAGES"] = Pages(k) /\ rows["ELEMENTS"] = Elements(k)
      /\ t >= TypesAt(k)
  BY <1>1 DEF StateAt, FileAt
<1>3. Len(rows["VERSION"]) <= 1
  BY <1>2
<1>4. k >= 12 => t > 0
  BY <1>2 DEF TypesAt
<1>5. /\ Count("ELEMENTS") > 0 => Count("TYPES") > 0
      /\ Count("ELEMENTS") <= Count("PAGES") /\ Count("VERSION") <= 1
  <2>1. /\ Count("TYPES") = t /\ Count("PAGES") = (IF k < 11 THEN 0 ELSE IF k < 13 THEN 1 ELSE 2)
        /\ Count("ELEMENTS") = (IF k < 12 THEN 0 ELSE IF k < 14 THEN 1 ELSE 2)
    BY <1>2, Counts DEF Count
  <2> QED
    BY <1>3, <1>4, <2>1 DEF Count
<1> QED
  BY <1>2, <1>5, Counts, TypeFacts DEF RowsMeanWhatTheyDid

(* For any releases, and however often the server starts, stops, dies and  *)
(* is upgraded: CheckElementTypeTable and CreateDefaultData insert nothing *)
(* twice, and the IDs in ELEMENTS are those of the rows that were meant.   *)
THEOREM RowsKeepTheirMeaning == Spec => []RowsMeanWhatTheyDid
  BY InstallInvariant, RowFacts, PTL

(* SQLite refuses no statement of an installation.                         *)
THEOREM InstallationsAccepted == Spec => []InstallationIsAccepted
<1>1. Installed => InstallationIsAccepted
  BY DEF Installed, InstallationIsAccepted
<1> QED
  BY <1>1, InstallInvariant, PTL

(* A server that runs (or shuts down) has the version row of its own       *)
(* release: CheckDabaseOk has seen it, or the installation inserted it.    *)
THEOREM RunningHasItsRelease == Spec => []RunningMatchesRelease
<1>1. Installed => RunningMatchesRelease
  BY DEF Installed, StateAt, FileAt, Works, RunningMatchesRelease
<1> QED
  BY <1>1, InstallInvariant, PTL

-----------------------------------------------------------------------------
(* Installed once.                                                         *)

\* The two ends of an installation.
LEMMA Ends ==
  ASSUME NEW k \in 0..14, NEW t \in 0..2, t >= TypesAt(k)
  PROVE  /\ (TablesAt(k) = {}) <=> (k = 0)
         /\ (Len(Elements(k)) = 2) <=> (k = 14)
         /\ (k = 14) => /\ TablesAt(k) = AllTables
                        /\ Len(Types(t)) = 2 /\ Len(Pages(k)) = 2
<1>1. (TablesAt(k) = {}) <=> (k = 0)
  <2>1. ASSUME k = 0 PROVE TablesAt(k) = {}
    BY <2>1 DEF TablesAt, CreatedBy, AllTables
  <2>2. ASSUME k # 0 PROVE "VERSION" \in TablesAt(k)
    BY <2>2 DEF TablesAt, CreatedBy, AllTables
  <2> QED
    BY <2>1, <2>2
<1>2. ASSUME k = 14 PROVE TablesAt(k) = AllTables /\ t = 2
  <2>1. TablesAt(k) = AllTables
    BY <1>2 DEF TablesAt, CreatedBy, AllTables
  <2> QED
    BY <1>2, <2>1 DEF TypesAt
<1>3. Len(Types(t)) = t
  BY Counts
<1>4. (k = 14) => (Len(Pages(k)) = 2)
  BY Counts
<1>5. (Len(Elements(k)) = 2) <=> (k = 14)
  <2>1. Len(Elements(k)) = IF k < 12 THEN 0 ELSE IF k < 14 THEN 1 ELSE 2
    BY Counts
  <2> QED
    BY <2>1
<1> QED
  BY <1>1, <1>2, <1>3, <1>4, <1>5

LEMMA FileFacts ==
  ASSUME NEW k \in 0..14, NEW t \in 0..2, NEW v, t >= TypesAt(k), FileAt(k, t, v)
  PROVE  (Empty <=> (k = 0)) /\ (Complete <=> (k = 14))
<1>1. /\ tables = TablesAt(k) /\ rows["VERSION"] = (IF k < 2 THEN <<>> ELSE <<Releases[v]>>)
      /\ rows["TYPES"] = Types(t) /\ rows["PAGES"] = Pages(k)
      /\ rows["ELEMENTS"] = Elements(k)
  BY DEF FileAt
<1>2. Empty <=> (k = 0)
  BY <1>1, Ends DEF Empty
<1>3. ASSUME k = 14 PROVE Complete
  <2>1. Len(rows["VERSION"]) = 1
    BY <1>1, <1>3
  <2> QED
    BY <1>1, <1>3, <2>1, Ends DEF Complete, Count
<1>4. ASSUME Complete PROVE k = 14
  <2>1. Len(rows["ELEMENTS"]) = 2
    BY <1>4 DEF Complete, Count
  <2> QED
    BY <1>1, <2>1, Ends
<1> QED
  BY <1>2, <1>3, <1>4 DEF Complete

LEMMA FileFactsNext ==
  ASSUME NEW k \in 0..14, NEW t \in 0..2, NEW v, t >= TypesAt(k), FileAt(k, t, v)'
  PROVE  (Empty' <=> (k = 0)) /\ (Complete' <=> (k = 14))
<1>1. /\ tables' = TablesAt(k) /\ rows'["VERSION"] = (IF k < 2 THEN <<>> ELSE <<Releases[v]>>)
      /\ rows'["TYPES"] = Types(t) /\ rows'["PAGES"] = Pages(k)
      /\ rows'["ELEMENTS"] = Elements(k)
  BY DEF FileAt
<1>2. Empty' <=> (k = 0)
  BY <1>1, Ends DEF Empty
<1>3. ASSUME k = 14 PROVE Complete'
  <2>1. Len(rows'["VERSION"]) = 1
    BY <1>1, <1>3
  <2> QED
    BY <1>1, <1>3, <2>1, Ends DEF Complete, Count
<1>4. ASSUME Complete' PROVE k = 14
  <2>1. Len(rows'["ELEMENTS"]) = 2
    BY <1>4 DEF Complete, Count
  <2> QED
    BY <1>1, <2>1, Ends
<1> QED
  BY <1>2, <1>3, <1>4 DEF Complete

\* The variables of InstallOnce.
Progress == IF Empty THEN "empty" ELSE IF Complete THEN "complete" ELSE "partial"
Owner    == proc = "new" /\ ~Empty /\ ~Complete

LEMMA InitRefines == Init => Once!Init
<1> SUFFICES ASSUME Init PROVE Once!Init
  OBVIOUS
<1>1. Empty /\ proc # "new"
  BY DEF Init, Empty
<1> QED
  BY <1>1 DEF Once!Init

LEMMA NextRefines == Installed /\ [Next]_vars => [Once!Next]_(Once!vars)
<1> SUFFICES ASSUME Installed, [Next]_vars PROVE [Once!Next]_(Once!vars)
  OBVIOUS
<1>1. PICK k \in 0..14, t \in 0..2, v \in DOMAIN Releases : StateAt(k, t, v)
  BY DEF Installed
<1>2. (Empty <=> k = 0) /\ (Complete <=> k = 14)
  BY <1>1, FileFacts DEF StateAt
<1>3. ASSUME Empty' <=> Empty, Complete' <=> Complete, proc' = "new" => proc = "new" \/ Empty
      PROVE  [Once!Next]_(Once!vars)
  <2>1. Progress' = Progress
    BY <1>3 DEF Progress
  <2>2. Owner' => Owner
    BY <1>3 DEF Owner
  <2>3. CASE Owner' <=> Owner
    BY <2>1, <2>3 DEF Once!vars, Progress, Owner
  <2>4. CASE Owner /\ ~Owner'
    BY <2>1, <2>4 DEF Once!Next, Once!Abandon, Progress, Owner
  <2> QED
    BY <2>2, <2>3, <2>4
<1>4. ASSUME UNCHANGED <<tables, rows>>, proc' = "new" => proc = "new" \/ Empty
      PROVE  [Once!Next]_(Once!vars)
  <2>1. (Empty' <=> Empty) /\ (Complete' <=> Complete)
    BY <1>4 DEF Empty, Complete, Count
  <2> QED
    BY <1>3, <1>4, <2>1
<1>5. CASE Step
  <2>1. proc' = proc /\ todo # <<>>
    BY <1>5 DEF Step
  <2>2. CASE proc = "new"
    <3>1. k \in 0..13 /\ StateAt(k + 1, TypesAt(k + 1), v)'
      BY <1>1, <1>5, <2>1, <2>2, InstallStep
    <3>2. k + 1 \in 0..14 /\ TypesAt(k + 1) \in 0..2 /\ TypesAt(k + 1) >= TypesAt(k + 1)
      BY <3>1 DEF TypesAt
    <3>3. (Empty' <=> k + 1 = 0) /\ (Complete' <=> k + 1 = 14)
      BY <3>1, <3>2, FileFactsNext DEF StateAt
    <3>4. CASE k = 0
      <4>1. Empty /\ ~Complete /\ ~Empty' /\ ~Complete'
        BY <1>2, <3>3, <3>4
      <4>2. Once!Begin
        BY <2>1, <2>2, <4>1 DEF Once!Begin
      <4> QED
        BY <4>2 DEF Once!Next
    <3>5. CASE k = 13
      <4>1. ~Empty /\ ~Complete /\ ~Empty' /\ Complete'
        BY <1>2, <3>3, <3>5
      <4>2. Once!Finish
        BY <2>1, <2>2, <4>1 DEF Once!Finish
      <4> QED
        BY <4>2 DEF Once!Next
    <3>6. CASE k \in 1..12
      <4>1. ~Empty /\ ~Complete /\ ~Empty' /\ ~Complete'
        BY <1>2, <3>3, <3>6
      <4> QED
        BY <1>3, <2>1, <2>2, <4>1
    <3> QED
      BY <3>1, <3>4, <3>5, <3>6
  <2>3. CASE proc # "new"
    <3>1. TouchesUp(k, t)
      BY <1>1, <2>1, <2>3 DEF StateAt, Works, Installs
    <3>2. PICK u \in 0..2 : StateAt(k, u, v)'
      BY <1>1, <1>5, <3>1, TouchUpStep
    <3>3. (Empty' <=> k = 0) /\ (Complete' <=> k = 14)
      <4>1. u >= TypesAt(k) /\ FileAt(k, u, v)'
        BY <3>2 DEF StateAt, TypesAt
      <4> QED
        BY <4>1, FileFactsNext
    <3> QED
      BY <1>2, <1>3, <2>1, <2>3, <3>3
  <2> QED
    BY <2>2, <2>3
<1>6. CASE CheckDabaseOk
  <2>1. UNCHANGED <<tables, rows>> /\ (proc' = "new" => ~HasVersion)
    BY <1>6 DEF CheckDabaseOk
  <2>2. ~HasVersion => Empty
    BY <1>1, <1>2 DEF StateAt, FileAt, TablesAt, CreatedBy, AllTables, HasVersion
  <2> QED
    BY <1>4, <2>1, <2>2
<1>7. CASE Upgrade \/ Open \/ Refused \/ Return \/ Deinit \/ Die \/ UNCHANGED vars
  <2>1. UNCHANGED <<tables, rows>> /\ (proc' = "new" => proc = "new")
    BY <1>7 DEF Upgrade, Open, Refused, Return, Deinit, Die, vars
  <2> QED
    BY <1>4, <2>1
<1> QED
  BY <1>5, <1>6, <1>7 DEF Next

(* Over all starts, deaths and upgrades the file is installed by one       *)
(* process, from the first statement to the last, or never: nobody goes on *)
(* with what OnDatabaseStartup has left unfinished.                        *)
THEOREM InstallsOnce == Spec => InstalledOnce
  BY InitRefines, NextRefines, InstallInvariant, PTL DEF Spec, InstalledOnce, Once!Spec

=============================================================================
