--------------------------- MODULE SessionsProofs ----------------------------
(***************************************************************************)
(* Sessions for any devices, credentials and bounds: SessionInv, and that  *)
(* every login counts.  SessionInv becomes inductive with one more         *)
(* conjunct: no request names an id the server has not given away yet.     *)
(***************************************************************************)
EXTENDS Sessions, TLAPS

IdsKnown == (\A d \in Devices : net[d].id \in 0..born) /\ \A r \in late : r.id \in 0..born

\* SessionInv by what it is about: the ids on the server, and each device.
Ids == EndedStaysEnded /\ 1..born \subseteq {session} \cup ended
DeviceOK(d) ==
  /\ screen[d] = "boot" => InitNeeded(d)
  /\ Inside(d) => cookie[d] # None
  /\ (net[d].do = "login" /\ net[d].code = "ok") => cookie[d] # None
IInv == TypeOK /\ IdsKnown /\ Ids /\ \A d \in Devices : DeviceOK(d)

LEMMA Parts == IInv => SessionInv
  BY DEF IInv, SessionInv, Ids, DeviceOK, Inside

LEMMA QuietIsRequest == Quiet \in Request /\ Quiet.id = 0 /\ Quiet.do = "none"
  BY SessionsAssumption DEF Quiet, Request, None

LEMMA InitInv == Init => IInv
<1> SUFFICES ASSUME Init PROVE IInv
  OBVIOUS
<1>1. TypeOK
  BY QuietIsRequest, SessionsAssumption DEF Init, TypeOK, None
<1>2. IdsKnown /\ Ids
  BY QuietIsRequest DEF Init, IdsKnown, Ids, EndedStaysEnded, None
<1>3. \A d \in Devices : DeviceOK(d)
  BY QuietIsRequest DEF Init, DeviceOK, Inside, InitNeeded
<1> QED
  BY <1>1, <1>2, <1>3 DEF IInv

-----------------------------------------------------------------------------
(* The server.                                                             *)

\* What a served request does to the ids.
LEMMA HandleKeeps ==
  ASSUME IInv, NEW r \in Request, r.id \in 0..born, HandleLogin(r)
  PROVE  /\ born' \in Nat /\ born' >= born /\ session' \in 0..born' /\ ended' \subseteq 1..born'
         /\ Ids'
         /\ (r.do = "login" /\ ~Refuses(r)) => session' # None /\ (born' # born => born' # None)
<1>1. /\ born \in Nat /\ session \in 0..born /\ ended \subseteq 1..born
      /\ session \notin ended /\ 1..born \subseteq {session} \cup ended
  BY DEF IInv, TypeOK, Ids, EndedStaysEnded
<1>2. CASE r.do = "logout"
  <2>1. /\ born' = born /\ ended' = ended \cup ({r.id} \ {0})
        /\ session' = IF session = r.id THEN 0 ELSE session
    BY <1>2 DEF HandleLogin, DeleteUserSession, None
  <2>a. r.id \in {0} \cup 1..born /\ 0 \notin 1..born /\ 0 \in 0..born
    BY <1>1
  <2>b. ended' \subseteq 1..born /\ 0 \notin ended'
    BY <1>1, <2>1, <2>a
  <2>c. session' \notin ended' /\ session' \in 0..born
    BY <1>1, <2>1, <2>a, <2>b
  <2>2. session' \notin ended' /\ session' \in 0..born' /\ ended' \subseteq 1..born'
    BY <2>1, <2>b, <2>c
  <2>3. 1..born' \subseteq {session'} \cup ended'
    BY <1>1, <2>1
  <2> QED
    BY <1>1, <1>2, <2>1, <2>2, <2>3 DEF Ids, EndedStaysEnded
<1>3. CASE r.do = "login" /\ ~Refuses(r)
  <2>1. CreateUserSession /\ ended' = ended
    BY <1>3 DEF HandleLogin
  <2>2. CASE session # None
    BY <1>1, <2>1, <2>2 DEF CreateUserSession, Ids, EndedStaysEnded
  <2>3. CASE session = None
    <3>1. session' = born + 1 /\ born' = born + 1
      BY <2>1, <2>3 DEF CreateUserSession, Fresh
    <3> QED
      BY <1>1, <2>1, <2>3, <3>1 DEF Ids, EndedStaysEnded, None
  <2> QED
    BY <2>2, <2>3
<1>4. CASE r.do # "logout" /\ ~(r.do = "login" /\ ~Refuses(r))
  BY <1>1, <1>4 DEF HandleLogin, server, Ids, EndedStaysEnded
<1> QED
  BY <1>2, <1>3, <1>4

LEMMA ServeKeeps == ASSUME IInv, NEW d \in Devices, Serve(d) PROVE IInv'
<1> DEFINE r == net[d]
           new == IF r.do = "login" /\ ~Refuses(r)
                  THEN IF born' = born THEN session ELSE born' ELSE cookie[d]
<1>0. TypeOK /\ IdsKnown /\ r \in Request /\ r.id \in 0..born
  BY DEF IInv, TypeOK, IdsKnown
<1>1. /\ HandleLogin(r)
      /\ net' = [net EXCEPT ![d].at = "back",
                            ![d].code = IF Refuses(r) THEN "refused" ELSE "ok"]
      /\ cookie' = [cookie EXCEPT ![d] = new]
      /\ UNCHANGED <<screen, client, typed, stored, socket, late, faults>>
  BY DEF Serve
<1>2. /\ born' \in Nat /\ born' >= born /\ session' \in 0..born' /\ ended' \subseteq 1..born'
      /\ Ids'
  BY <1>0, <1>1, HandleKeeps
<1>3. cookie[d] \in 0..born /\ session \in 0..born /\ born \in Nat
  BY <1>0 DEF TypeOK
<1>4. new \in 0..born' /\ ((r.do = "login" /\ ~Refuses(r)) => new # None)
  <2>1. (r.do = "login" /\ ~Refuses(r)) => CreateUserSession
    BY <1>1 DEF HandleLogin
  <2> QED
    BY <1>2, <1>3, <2>1 DEF CreateUserSession, Fresh, None
<1>5. /\ net'[d].do = r.do /\ net'[d].id = r.id
      /\ net'[d].code = IF Refuses(r) THEN "refused" ELSE "ok"
      /\ net'[d] \in Request /\ \A e \in Devices \ {d} : net'[e] = net[e]
  BY <1>0, <1>1 DEF TypeOK, Request
<1>6. net' \in [Devices -> Request] /\ cookie' \in [Devices -> 0..born']
      /\ cookie'[d] = new /\ \A e \in Devices \ {d} : cookie'[e] = cookie[e]
  BY <1>0, <1>1, <1>2, <1>3, <1>4, <1>5 DEF TypeOK
<1>7. TypeOK'
  BY <1>0, <1>1, <1>2, <1>6 DEF TypeOK
<1>8. IdsKnown'
  BY <1>0, <1>1, <1>2, <1>3, <1>5 DEF IdsKnown, TypeOK, Request
<1>9. ASSUME NEW e \in Devices PROVE DeviceOK(e)'
  <2>1. DeviceOK(e)
    BY DEF IInv
  <2>2. CASE e # d
    BY <1>1, <1>5, <1>6, <2>1, <2>2 DEF DeviceOK, Inside, InitNeeded
  <2>3. CASE e = d
    <3>1. Inside(d) => new # None
      BY <1>4, <2>1, <2>3 DEF DeviceOK, Inside
    <3>2. (net'[d].do = "login" /\ net'[d].code = "ok") => new # None
      BY <1>4, <1>5
    <3> QED
      BY <1>1, <1>6, <2>1, <2>3, <3>1, <3>2 DEF DeviceOK, Inside, InitNeeded
  <2> QED
    BY <2>2, <2>3
<1> QED
  BY <1>2, <1>7, <1>8, <1>9 DEF IInv

LEMMA ServeLateKeeps == ASSUME IInv, NEW r \in late, ServeLate(r) PROVE IInv'
<1>0. TypeOK /\ IdsKnown /\ r \in Request /\ r.id \in 0..born
  BY DEF IInv, TypeOK, IdsKnown
<1>1. HandleLogin(r) /\ late' = late \ {r} /\ UNCHANGED <<browser, net, faults>>
  BY DEF ServeLate
<1>2. /\ born' \in Nat /\ born' >= born /\ session' \in 0..born' /\ ended' \subseteq 1..born'
      /\ Ids'
  BY <1>0, <1>1, HandleKeeps
<1>3. 0..born \subseteq 0..born' /\ \A x \in 0..born : x \in 0..born'
  BY <1>0, <1>2 DEF TypeOK
<1>4. TypeOK'
  BY <1>0, <1>1, <1>2, <1>3 DEF TypeOK, browser
<1>5. IdsKnown'
  BY <1>0, <1>1, <1>3 DEF IdsKnown
<1>6. \A e \in Devices : DeviceOK(e)'
  BY <1>1 DEF IInv, DeviceOK, Inside, InitNeeded, browser
<1> QED
  BY <1>2, <1>4, <1>5, <1>6 DEF IInv

LEMMA RestartKeeps == ASSUME IInv, Restart PROVE IInv'
<1>0. TypeOK /\ IdsKnown /\ Ids
  BY DEF IInv
<1>1. /\ faults < MaxFaults /\ faults' = faults + 1 /\ session' = None /\ late' = {}
      /\ ended' = ended \cup ({session} \ {None})
      /\ UNCHANGED <<born, screen, client, typed, stored, cookie>>
      /\ socket' = [d \in Devices |-> IF socket[d] = "up" THEN "closed" ELSE socket[d]]
      /\ net' = [d \in Devices |-> IF net[d].at = "out"
                                   THEN [net[d] EXCEPT !.at = "back", !.code = "failed"]
                                   ELSE net[d]]
  BY DEF Restart, Fault
<1>2. ASSUME NEW d \in Devices
      PROVE  /\ net'[d] \in Request /\ net'[d].id = net[d].id /\ net'[d].do = net[d].do
             /\ net'[d].code = "ok" => net[d].code = "ok"
             /\ socket'[d] \in {"none", "up", "closed", "unheard"}
  <2>1. net[d] \in Request /\ socket[d] \in {"none", "up", "closed", "unheard"}
    BY <1>0 DEF TypeOK
  <2>2. socket'[d] \in {"none", "up", "closed", "unheard"}
    BY <1>1, <2>1
  <2>3. net'[d] = IF net[d].at = "out" THEN [net[d] EXCEPT !.at = "back", !.code = "failed"]
                                       ELSE net[d]
    BY <1>1
  <2> QED
    BY <2>1, <2>2, <2>3 DEF Request
<1>3. net' \in [Devices -> Request] /\ socket' \in [Devices -> {"none", "up", "closed", "unheard"}]
  <2>1. socket' = [d \in Devices |-> socket'[d]] /\ net' = [d \in Devices |-> net'[d]]
    BY <1>1
  <2>2. \A d \in Devices : socket'[d] \in {"none", "up", "closed", "unheard"} /\ net'[d] \in Request
    BY <1>2
  <2> QED
    BY <2>1, <2>2, Zenon
<1>a. /\ born \in Nat /\ session \in 0..born /\ ended \subseteq 1..born
      /\ session \notin ended /\ 1..born \subseteq {session} \cup ended
  BY <1>0 DEF TypeOK, Ids, EndedStaysEnded
<1>b. session \in {0} \cup 1..born /\ 0 \notin 1..born /\ 0 \in 0..born
  BY <1>a
<1>c. ended' = ended \cup ({session} \ {0}) /\ session' = 0 /\ born' = born
  BY <1>1 DEF None
<1>d. ended' \subseteq 1..born /\ session' \in 0..born
  BY <1>a, <1>b, <1>c
<1>e. faults' \in 0..MaxFaults
  <2>1. faults \in 0..MaxFaults
    BY <1>0 DEF TypeOK
  <2>2. faults < MaxFaults /\ faults' = faults + 1
    BY <1>1
  <2> QED
    BY <2>1, <2>2, SessionsAssumption
<1>4. TypeOK'
  BY <1>0, <1>1, <1>3, <1>d, <1>e DEF TypeOK
<1>5. IdsKnown'
  BY <1>0, <1>1, <1>2 DEF IdsKnown
<1>6. Ids'
  BY <1>a, <1>b, <1>c, <1>d DEF Ids, EndedStaysEnded
<1>7. ASSUME NEW e \in Devices PROVE DeviceOK(e)'
  BY <1>1, <1>2 DEF IInv, DeviceOK, Inside, InitNeeded
<1> QED
  BY <1>4, <1>5, <1>6, <1>7 DEF IInv

-----------------------------------------------------------------------------
(* The browsers: the ids stay as they are, and only one device changes.    *)

LEMMA DeviceKeeps ==
  ASSUME IInv, NEW d \in Devices,
         UNCHANGED server, TypeOK',
         net'[d].id \in 0..born, \A r \in late' : r.id \in 0..born,
         \A e \in Devices \ {d} : /\ screen'[e] = screen[e] /\ client'[e] = client[e]
                                  /\ cookie'[e] = cookie[e] /\ net'[e] = net[e],
         DeviceOK(d)'
  PROVE  IInv'
<1>1. IdsKnown'
  BY DEF IInv, IdsKnown, server
<1>2. Ids'
  BY DEF IInv, Ids, EndedStaysEnded, server
<1>3. ASSUME NEW e \in Devices PROVE DeviceOK(e)'
  BY DEF IInv, DeviceOK, Inside, InitNeeded
<1> QED
  BY <1>1, <1>2, <1>3 DEF IInv

LEMMA TroubleKeeps == ASSUME IInv, NEW d \in Devices, Trouble(d) PROVE IInv'
<1>0. TypeOK /\ IdsKnown /\ DeviceOK(d) /\ net[d] \in Request /\ net[d].id \in 0..born
  BY DEF IInv, TypeOK, IdsKnown
<1>1. Leave(d) => late' \subseteq Request /\ \A r \in late' : r.id \in 0..born
  BY <1>0 DEF Leave, TypeOK, IdsKnown
<1>2. CASE GiveUp(d)
  <2>1. /\ net'[d] \in Request /\ net'[d].id = net[d].id /\ net'[d].code = "failed"
        /\ net' \in [Devices -> Request] /\ \A e \in Devices \ {d} : net'[e] = net[e]
    BY <1>0, <1>2 DEF GiveUp, TypeOK, Request
  <2>2. TypeOK'
    BY <1>0, <1>1, <1>2, <2>1, SessionsAssumption DEF GiveUp, Fault, TypeOK, server, browser
  <2>3. DeviceOK(d)'
    BY <1>0, <1>2, <2>1 DEF GiveUp, DeviceOK, Inside, InitNeeded, browser
  <2> QED
    BY <1>0, <1>1, <1>2, <2>1, <2>2, <2>3, DeviceKeeps DEF GiveUp, browser
<1>3. CASE Break(d)
  <2>1. TypeOK'
    BY <1>0, <1>3, SessionsAssumption DEF Break, Fault, TypeOK, server
  <2>2. DeviceOK(d)'
    BY <1>0, <1>3 DEF Break, DeviceOK, Inside, InitNeeded
  <2> QED
    BY <1>0, <1>3, <2>1, <2>2, DeviceKeeps DEF Break, IdsKnown
<1>4. ASSUME NEW kept \in BOOLEAN, Reload(d, kept) PROVE IInv'
  <2>1. TypeOK'
    BY <1>0, <1>1, <1>4, QuietIsRequest, SessionsAssumption
    DEF Reload, Fault, TypeOK, server, None
  <2>2. DeviceOK(d)'
    BY <1>0, <1>4, QuietIsRequest DEF Reload, DeviceOK, Inside, InitNeeded, TypeOK
  <2>3. net'[d] = Quiet
    BY <1>0, <1>4 DEF Reload, TypeOK
  <2> QED
    BY <1>0, <1>1, <1>4, <2>1, <2>2, <2>3, QuietIsRequest, DeviceKeeps DEF Reload, TypeOK
<1> QED
  BY <1>2, <1>3, <1>4 DEF Trouble

\* What Send leaves behind.
LEMMA Sent ==
  ASSUME TypeOK, NEW d \in Devices, NEW do \in {"check", "login", "logout"},
         NEW cred \in Creds, Send(d, do, cred)
  PROVE  /\ net' \in [Devices -> Request] /\ net'[d].id = cookie[d] /\ net'[d].code = "none"
         /\ net'[d].id \in 0..born /\ \A e \in Devices \ {d} : net'[e] = net[e]
  BY DEF TypeOK, Send, Request

LEMMA QuietNow ==
  ASSUME TypeOK, NEW d \in Devices, net' = [net EXCEPT ![d] = Quiet]
  PROVE  /\ net' \in [Devices -> Request] /\ net'[d].id \in 0..born /\ net'[d].do = "none"
         /\ \A e \in Devices \ {d} : net'[e] = net[e]
  BY QuietIsRequest DEF TypeOK

LEMMA LeavingKeeps == ASSUME IInv, NEW d \in Devices, Leaving(d) PROVE IInv'
<1>0. TypeOK /\ DeviceOK(d) /\ typed[d] \in Creds /\ \A r \in late : r.id \in 0..born
  BY DEF IInv, TypeOK, IdsKnown
<1>1. TypeOK'
  BY <1>0, Sent DEF Leaving, Show, TypeOK, server
<1>2. DeviceOK(d)'
  BY <1>0, Sent DEF Leaving, Show, DeviceOK, Inside, TypeOK
<1> QED
  BY <1>0, <1>1, <1>2, Sent, DeviceKeeps DEF Leaving, Show, TypeOK

LEMMA FrontendKeeps == ASSUME IInv, NEW d \in Devices, Frontend(d) PROVE IInv'
<1>0. /\ TypeOK /\ DeviceOK(d) /\ net[d] \in Request /\ net[d].id \in 0..born
      /\ typed[d] \in Creds /\ \A r \in late : r.id \in 0..born
  BY DEF IInv, TypeOK, IdsKnown
<1>1. CASE Boot(d)
  <2>1. CASE stored[d] /\ InitNeeded(d)
    <3>1. Become(d, Anonymous) /\ Send(d, "check", typed[d]) /\ UNCHANGED screen
      BY <1>1, <2>1 DEF Boot
    <3>2. TypeOK'
      BY <1>0, <1>1, <3>1, Sent DEF Boot, Become, TypeOK, server
    <3>3. DeviceOK(d)'
      BY <1>0, <1>1, <3>1, Sent DEF Boot, Become, DeviceOK, Inside, InitNeeded, TypeOK
    <3> QED
      BY <1>0, <1>1, <3>1, <3>2, <3>3, Sent, DeviceKeeps DEF Boot, Become, TypeOK
  <2>2. CASE ~(stored[d] /\ InitNeeded(d))
    <3>1. Show(d, "form") /\ UNCHANGED <<client, net>>
      BY <1>0, <1>1, <2>2 DEF Boot, DeviceOK, Inside
    <3>2. TypeOK'
      BY <1>0, <1>1, <3>1 DEF Boot, Show, TypeOK, server
    <3>3. DeviceOK(d)'
      BY <1>0, <1>1, <3>1 DEF Boot, Show, DeviceOK, Inside, InitNeeded, TypeOK
    <3> QED
      BY <1>0, <1>1, <3>1, <3>2, <3>3, DeviceKeeps DEF Boot, Show, TypeOK
  <2> QED
    BY <2>1, <2>2
<1>2. CASE Checked(d)
  <2>1. CASE Show(d, "hung") /\ net' = [net EXCEPT ![d] = Quiet]
    <3>1. TypeOK'
      BY <1>0, <1>2, <2>1, QuietNow DEF Checked, Show, TypeOK, server
    <3>2. DeviceOK(d)'
      BY <1>0, <1>2, <2>1, QuietNow DEF Checked, Show, DeviceOK, Inside, TypeOK
    <3> QED
      BY <1>0, <1>2, <2>1, <3>1, <3>2, QuietNow, DeviceKeeps DEF Checked, Show, TypeOK
  <2>2. CASE Show(d, "form") /\ net' = [net EXCEPT ![d] = Quiet]
    <3>1. TypeOK'
      BY <1>0, <1>2, <2>2, QuietNow DEF Checked, Show, TypeOK, server
    <3>2. DeviceOK(d)'
      BY <1>0, <1>2, <2>2, QuietNow DEF Checked, Show, DeviceOK, Inside, TypeOK
    <3> QED
      BY <1>0, <1>2, <2>2, <3>1, <3>2, QuietNow, DeviceKeeps DEF Checked, Show, TypeOK
  <2>3. CASE Send(d, "login", typed[d]) /\ UNCHANGED screen
    <3>1. TypeOK'
      BY <1>0, <1>2, <2>3, Sent DEF Checked, TypeOK, server
    <3>2. DeviceOK(d)'
      BY <1>0, <1>2, <2>3, Sent DEF Checked, DeviceOK, Inside, InitNeeded
    <3> QED
      BY <1>0, <1>2, <2>3, <3>1, <3>2, Sent, DeviceKeeps DEF Checked
  <2> QED
    BY <1>2, <2>1, <2>2, <2>3 DEF Checked
<1>3. CASE LoggedOut(d)
  <2>1. CASE Show(d, "boot") /\ net' = [net EXCEPT ![d] = Quiet]
    <3>1. TypeOK'
      BY <1>0, <1>3, <2>1, QuietNow DEF LoggedOut, Show, Become, TypeOK, server
    <3>2. DeviceOK(d)'
      BY <1>0, <1>3, <2>1, QuietNow DEF LoggedOut, Show, Become, DeviceOK, Inside, InitNeeded, TypeOK
    <3> QED
      BY <1>0, <1>3, <2>1, <3>1, <3>2, QuietNow, DeviceKeeps DEF LoggedOut, Show, Become, TypeOK
  <2>2. CASE screen[d] # "bye" /\ Send(d, "login", typed[d]) /\ UNCHANGED screen
    <3>1. TypeOK'
      BY <1>0, <1>3, <2>2, Sent DEF LoggedOut, Become, TypeOK, server
    <3>2. DeviceOK(d)'
      BY <1>0, <1>3, <2>2, Sent DEF LoggedOut, Become, DeviceOK, Inside, InitNeeded, TypeOK
    <3> QED
      BY <1>0, <1>3, <2>2, <3>1, <3>2, Sent, DeviceKeeps DEF LoggedOut, Become, TypeOK
  <2> QED
    BY <1>3, <2>1, <2>2 DEF LoggedOut
<1>4. CASE LoggedIn(d)
  <2>1. TypeOK'
    BY <1>0, <1>4, QuietNow DEF LoggedIn, Show, Become, TypeOK, server
  <2>2. net[d].code = "ok" => cookie[d] # None
    BY <1>0, <1>4 DEF LoggedIn, DeviceOK, Inside
  <2>3. screen'[d] = (IF net[d].code = "ok" THEN "entering" ELSE "form")
    BY <1>0, <1>4 DEF LoggedIn, Show, TypeOK
  <2>4. DeviceOK(d)'
    BY <1>0, <1>4, <2>2, <2>3, QuietNow DEF LoggedIn, DeviceOK, Inside
  <2> QED
    BY <1>0, <1>4, <2>1, <2>4, QuietNow, DeviceKeeps DEF LoggedIn, Show, Become, TypeOK
<1>5. CASE Enter(d)
  <2>1. TypeOK'
    BY <1>0, <1>5 DEF Enter, Show, TypeOK, server
  <2>2. DeviceOK(d)'
    BY <1>0, <1>5 DEF Enter, Show, DeviceOK, Inside, InitNeeded, TypeOK
  <2> QED
    BY <1>0, <1>5, <2>1, <2>2, DeviceKeeps DEF Enter, Show, TypeOK
<1>6. CASE CloseUnheard(d)
  <2>1. TypeOK'
    BY <1>0, <1>6 DEF CloseUnheard, TypeOK, server
  <2>2. DeviceOK(d)'
    BY <1>0, <1>6 DEF CloseUnheard, DeviceOK, Inside, InitNeeded
  <2> QED
    BY <1>0, <1>6, <2>1, <2>2, DeviceKeeps DEF CloseUnheard
<1> QED
  BY <1>1, <1>2, <1>3, <1>4, <1>5, <1>6, LeavingKeeps DEF Frontend, Closed

LEMMA UserKeeps == ASSUME IInv, NEW d \in Devices, User(d) PROVE IInv'
<1>0. /\ TypeOK /\ DeviceOK(d) /\ typed[d] \in Creds /\ \A r \in late : r.id \in 0..born
  BY DEF IInv, TypeOK, IdsKnown
<1>1. CASE Logout(d)
  BY <1>1, LeavingKeeps DEF Logout
<1>2. ASSUME NEW cred \in Creds, NEW save \in BOOLEAN, Press(d, cred, save) PROVE IInv'
  <2>1. PICK do \in {"check", "logout"} : Send(d, do, cred)
    BY <1>2 DEF Press
  <2>2. client' \in [Devices -> Creds \cup {NoClient, Anonymous}]
        /\ \A e \in Devices \ {d} : client'[e] = client[e]
    BY <1>0, <1>2 DEF Press, Become, TypeOK
  <2>3. TypeOK'
    BY <1>0, <1>2, <2>1, <2>2, Sent DEF Press, Show, TypeOK, server
  <2>4. DeviceOK(d)'
    BY <1>0, <1>2, <2>1, Sent DEF Press, Show, DeviceOK, Inside, TypeOK
  <2> QED
    BY <1>0, <1>2, <2>1, <2>2, <2>3, <2>4, Sent, DeviceKeeps DEF Press, Show, TypeOK
<1> QED
  BY <1>1, <1>2 DEF User

LEMMA NextInv == IInv /\ [Next]_vars => IInv'
<1> SUFFICES ASSUME IInv, [Next]_vars PROVE IInv'
  OBVIOUS
<1>1. CASE UNCHANGED vars
  BY <1>1 DEF vars, server, browser, IInv, TypeOK, IdsKnown, Ids, EndedStaysEnded, DeviceOK, Inside,
     InitNeeded
<1> QED
  BY <1>1, ServeKeeps, ServeLateKeeps, RestartKeeps, TroubleKeeps, FrontendKeeps, UserKeeps
  DEF Next

LEMMA Inductive == Spec => []IInv
  BY InitInv, NextInv, PTL DEF Spec

(* For any number of devices, credentials and faults: every id is the one  *)
(* the server accepts or has ended for good, and a login that was accepted *)
(* has left its cookie in the browser.                                     *)
THEOREM SessionsSound == Spec => []SessionInv
  BY Parts, Inductive, PTL

(* Whoever has come to the dashboard holds the id the server accepts, or   *)
(* one that a logout was served for or a restart has lost.                 *)
THEOREM LoginsCount == Spec => []EveryLoginCounts
<1>1. IInv => EveryLoginCounts
  BY DEF IInv, Ids, DeviceOK, Inside, TypeOK, EveryLoginCounts, None
<1> QED
  BY <1>1, Inductive, PTL
=============================================================================
