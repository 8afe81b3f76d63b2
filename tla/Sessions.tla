------------------------------ MODULE Sessions ------------------------------
(***************************************************************************)
(* Login, session and logout: the sessions of GlobalFunctions with the     *)
(* /auth/login resource, and the frontend in several web browsers: the     *)
(* step of its bootstrap that asks for a login, the login form, and the    *)
(* ways out of the dashboard.                                              *)
(*                                                                         *)
(* There is one user, and so one session at a time, which all devices      *)
(* share.  The browser keeps the session id as a cookie and the choice to  *)
(* save the authentication; a reload forgets everything else.  A request   *)
(* that fails for the device may still be served, later and for nobody.    *)
(***************************************************************************)
EXTENDS Integers, FiniteSets

CONSTANTS Devices,      \* browsers, each with one tab of the frontend
          Creds,        \* what can be typed into the login form
          Right,        \* the name and password that the server accepts
          MaxSessions,  \* bound on the session ids
          MaxFaults     \* bound on restarts, reloads, and broken connections

ASSUME SessionsAssumption ==
  Right \in Creds /\ MaxSessions \in Nat \ {0} /\ MaxFaults \in Nat

None      == 0          \* no session, no cookie
NoClient  == "no client"          \* CoreClientHelper._pillowClient is null
Anonymous == "no credentials"     \* a client without user name and password
Quiet     == [at |-> "quiet", do |-> "none", id |-> None, cred |-> Right, code |-> "none"]

VARIABLES
  session,  \* the id in _mapCurrentUserData, or None
  born,     \* how many ids there were; they are numbered in their order
  screen,   \* screen[d]: what the frontend of d shows; "entering": on the way to the
            \* dashboard, "hung": a spinner for ever
  client,   \* client[d]: the credentials in its ServerClient
  typed,    \* typed[d]: what was last typed into the form
  stored,   \* stored[d]: the preference storeAuth
  cookie,   \* cookie[d]: the browser's X-USER-SESSION-ID
  socket,   \* socket[d]: the web socket; "unheard": closed, and nobody was called
  net,      \* net[d]: the request the frontend waits for
  late,     \* requests nobody waits for that the server may yet serve
  faults,   \* how many faults there were
  ended     \* history: the ids named in a served DELETE or lost in a restart

server  == <<session, born, ended>>
browser == <<screen, client, typed, stored, cookie, socket>>
vars    == <<server, browser, net, late, faults>>

Init ==
  /\ session = None /\ born = 0
  /\ screen = [d \in Devices |-> "boot"] /\ client = [d \in Devices |-> NoClient]
  /\ typed = [d \in Devices |-> Right] /\ stored = [d \in Devices |-> FALSE]
  /\ cookie = [d \in Devices |-> None] /\ socket = [d \in Devices |-> "none"]
  /\ net = [d \in Devices |-> Quiet] /\ late = {} /\ faults = 0 /\ ended = {}

-----------------------------------------------------------------------------
(* The server.                                                             *)

\* CurrentUserData::CreateSession.  The mutation counts again after a restart.
Recount == IF session = None THEN 1 ELSE born + 1
Fresh   == born + 1

\* CreateUserSession.  The mutation hands out a new id that the map, where insert
\* leaves alone what is there, does not take.
InsertOnly == born' = born + 1 /\ session' = IF session = None THEN Fresh ELSE session
CreateUserSession == IF session # None THEN UNCHANGED <<session, born>>
                                       ELSE session' = Fresh /\ born' = Fresh

\* DeleteUserSession.  The mutation deletes the session of the user.
EraseUser(id)         == session' = None
DeleteUserSession(id) == session' = IF session = id THEN None ELSE session

\* HandleLogin for GET ("check"), DELETE ("logout") and POST ("login"), and whether it
\* refuses.  The mutation does not look the cookie up.
RefusesNone(r) == \/ r.do = "check" /\ r.id = None
                  \/ r.do = "login" /\ r.cred # Right
Refuses(r) == \/ r.do = "check" /\ (r.id = None \/ r.id # session)
              \/ r.do = "login" /\ r.cred # Right
HandleLogin(r) ==
  CASE r.do = "logout" ->
         DeleteUserSession(r.id) /\ ended' = ended \cup ({r.id} \ {None}) /\ UNCHANGED born
    [] r.do = "login" /\ ~Refuses(r) -> CreateUserSession /\ UNCHANGED ended
    [] OTHER -> UNCHANGED server

\* The server answers; the browser keeps the cookie of the answer.
Serve(d) ==
  LET r == net[d] IN
  /\ r.at = "out" /\ HandleLogin(r)
  /\ net' = [net EXCEPT ![d].at = "back", ![d].code = IF Refuses(r) THEN "refused" ELSE "ok"]
  /\ cookie' = [cookie EXCEPT ![d] = IF r.do = "login" /\ ~Refuses(r)
                                     THEN IF born' = born THEN session ELSE born' ELSE @]
  /\ UNCHANGED <<screen, client, typed, stored, socket, late, faults>>
ServeLate(r) == r \in late /\ HandleLogin(r) /\ late' = late \ {r}
                /\ UNCHANGED <<browser, net, faults>>

Fault == faults < MaxFaults /\ faults' = faults + 1

\* The server starts anew: its sessions and all connections are gone.
Restart ==
  /\ Fault /\ session' = None /\ ended' = ended \cup ({session} \ {None})
  /\ late' = {} /\ UNCHANGED <<born, screen, client, typed, stored, cookie>>
  /\ socket' = [d \in Devices |-> IF socket[d] = "up" THEN "closed" ELSE socket[d]]
  /\ net' = [d \in Devices |-> IF net[d].at = "out"
                               THEN [net[d] EXCEPT !.at = "back", !.code = "failed"] ELSE net[d]]

-----------------------------------------------------------------------------
(* The network, and the browser around the frontend.                       *)

\* What becomes of a request that d does not wait for any more.
Leave(d) == late' \in {late, late \cup {r \in {net[d]} : r.at = "out"}}

GiveUp(d) == /\ Fault /\ net[d].at = "out" /\ Leave(d)
             /\ net' = [net EXCEPT ![d].at = "back", ![d].code = "failed"]
             /\ UNCHANGED <<server, browser>>
Break(d)  == /\ Fault /\ socket[d] = "up" /\ socket' = [socket EXCEPT ![d] = "closed"]
             /\ UNCHANGED <<server, screen, client, typed, stored, cookie, net, late>>

\* The page is loaded again, or the browser closed and opened: its cookies have no age.
Reload(d, kept) ==
  /\ Fault /\ Leave(d) /\ net' = [net EXCEPT ![d] = Quiet]
  /\ screen' = [screen EXCEPT ![d] = "boot"] /\ client' = [client EXCEPT ![d] = NoClient]
  /\ socket' = [socket EXCEPT ![d] = "none"]
  /\ cookie' = [cookie EXCEPT ![d] = IF kept THEN @ ELSE None]
  /\ UNCHANGED <<server, typed, stored>>

-----------------------------------------------------------------------------
(* The frontend.                                                           *)

Send(d, do, cred) == net' = [net EXCEPT ![d] = [at |-> "out", do |-> do, id |-> cookie[d],
                                                cred |-> cred, code |-> "none"]]
Show(d, s)   == screen' = [screen EXCEPT ![d] = s]
Become(d, c) == client' = [client EXCEPT ![d] = c]
InitNeeded(d) == client[d] \in {NoClient, Anonymous}

\* stepRequired: with storeAuth the cookie is checked.  Without, and after the check
\* has failed, the form is shown, unless there is a client with credentials.
Boot(d) ==
  /\ screen[d] = "boot" /\ net[d] = Quiet
  /\ IF stored[d] /\ InitNeeded(d)
     THEN Become(d, Anonymous) /\ Send(d, "check", typed[d]) /\ UNCHANGED screen
     ELSE Show(d, IF InitNeeded(d) THEN "form" ELSE "dashboard") /\ UNCHANGED <<client, net>>
  /\ UNCHANGED <<server, typed, stored, cookie, socket, late, faults>>

\* The logins under way, each of which can need a new id.
Logins == Cardinality({d \in Devices : screen[d] = "running"})
          + Cardinality({r \in late : r.do = "login"})

\* tryLogin up to the first await of authenticate: a check with the credentials the
\* client has, or a logout of what it had before.
Press(d, cred, save) ==
  /\ screen[d] = "form" /\ Show(d, "running") /\ born + Logins < MaxSessions
  /\ typed' = [typed EXCEPT ![d] = cred] /\ stored' = [stored EXCEPT ![d] = save]
  /\ IF InitNeeded(d) THEN Become(d, cred) ELSE UNCHANGED client
  /\ Send(d, IF client'[d] = cred THEN "check" ELSE "logout", cred)
  /\ UNCHANGED <<server, cookie, socket, late, faults>>

\* checkAuthentication reads userCtx.name of what it is answered.  HandleLogin sends a
\* token and the session: an Error, which nobody catches, ends the bootstrap or the login.
Checked(d) ==
  /\ net[d].at = "back" /\ net[d].do = "check"
  /\ CASE net[d].code = "ok" -> Show(d, "hung") /\ net' = [net EXCEPT ![d] = Quiet]
       [] net[d].code # "ok" /\ screen[d] = "boot" ->
            Show(d, "form") /\ net' = [net EXCEPT ![d] = Quiet]
       [] OTHER -> Send(d, "login", typed[d]) /\ UNCHANGED screen
  /\ UNCHANGED <<server, client, typed, stored, cookie, socket, late, faults>>

\* removeSessionIfExists returns, whatever the answer: to authenticate, or to the
\* dashboard, which leaves for the bootstrap.
LoggedOut(d) ==
  /\ net[d].at = "back" /\ net[d].do = "logout" /\ Become(d, Anonymous)
  /\ socket' = [socket EXCEPT ![d] = "none"]
  /\ IF screen[d] = "bye"
     THEN Show(d, "boot") /\ net' = [net EXCEPT ![d] = Quiet]
     ELSE Send(d, "login", typed[d]) /\ UNCHANGED screen
  /\ UNCHANGED <<server, typed, stored, cookie, late, faults>>

\* authenticate has the answer to its POST: the client has the credentials, right or
\* wrong, unless the request has failed, and the web socket is opened.
LoggedIn(d) ==
  /\ net[d].at = "back" /\ net[d].do = "login" /\ net' = [net EXCEPT ![d] = Quiet]
  /\ Show(d, IF net[d].code = "ok" THEN "entering" ELSE "form")
  /\ Become(d, IF net[d].code = "failed" THEN client[d] ELSE typed[d])
  /\ socket' = [socket EXCEPT ![d] = IF net[d].code = "ok" THEN "up" ELSE @]
  /\ UNCHANGED <<server, typed, stored, cookie, late, faults>>

\* initState of the dashboard, which registers itself for the close of the web socket:
\* some awaits and a frame after the socket was opened.
Enter(d) == /\ screen[d] = "entering" /\ Show(d, "dashboard")
            /\ UNCHANGED <<server, client, typed, stored, cookie, socket, net, late, faults>>

\* onDone before that calls nobody, and is not called again.
CloseUnheard(d) == /\ screen[d] = "entering" /\ socket[d] = "closed"
                   /\ socket' = [socket EXCEPT ![d] = "unheard"]
                   /\ UNCHANGED <<server, screen, client, typed, stored, cookie, net, late, faults>>

\* The logout button, or the web socket has closed.  The mutation ignores the close.
Deaf(d)       == FALSE
HearsClose(d) == socket[d] = "closed"
Leaving(d) == /\ screen[d] = "dashboard" /\ Show(d, "bye") /\ Send(d, "logout", typed[d])
              /\ UNCHANGED <<server, client, typed, stored, cookie, socket, late, faults>>
Logout(d)  == Leaving(d)
Closed(d)  == HearsClose(d) /\ Leaving(d)

-----------------------------------------------------------------------------
Frontend(d) == Boot(d) \/ Checked(d) \/ LoggedOut(d) \/ LoggedIn(d) \/ Enter(d)
               \/ CloseUnheard(d) \/ Closed(d)
User(d)     == Logout(d) \/ \E cred \in Creds, save \in BOOLEAN : Press(d, cred, save)
Trouble(d)  == GiveUp(d) \/ Break(d) \/ \E kept \in BOOLEAN : Reload(d, kept)

Next == \/ \E d \in Devices : Frontend(d) \/ Serve(d) \/ User(d) \/ Trouble(d)
        \/ \E r \in late : ServeLate(r)
        \/ Restart
Spec == Init /\ [][Next]_vars

\* The frontend's event loop runs and the server answers what reaches it; whether and
\* when the user does something, and what fails, is open.
Fairness == \A d \in Devices : WF_vars(Frontend(d)) /\ WF_vars(Serve(d))
FairSpec == Spec /\ Fairness

-----------------------------------------------------------------------------
(* Properties.                                                             *)

Request == [at : {"quiet", "out", "back"}, do : {"none", "check", "login", "logout"},
            id : Nat, cred : Creds, code : {"none", "ok", "refused", "failed"}]

TypeOK ==
  /\ born \in Nat /\ session \in 0..born /\ ended \subseteq 1..born
  /\ screen \in [Devices -> {"boot", "form", "running", "entering", "dashboard", "bye",
                         "hung"}]
  /\ client \in [Devices -> Creds \cup {NoClient, Anonymous}]
  /\ typed \in [Devices -> Creds] /\ stored \in [Devices -> BOOLEAN]
  /\ cookie \in [Devices -> 0..born]
  /\ socket \in [Devices -> {"none", "up", "closed", "unheard"}]
  /\ net \in [Devices -> Request] /\ late \subseteq Request /\ faults \in 0..MaxFaults

Inside(d) == screen[d] \in {"entering", "dashboard"}

\* Whoever is let in to the dashboard holds the id that the server accepts, however many
\* devices log in and out around it, until a device that holds the same id logs out or
\* the server restarts: no logout with another id ends it.
EveryLoginCounts ==
  \A d \in Devices : Inside(d) =>
    cookie[d] # None /\ cookie[d] \in {session} \cup ended

\* An id that a logout was served for, or that a restart has lost, is never accepted
\* again, whichever request comes late.
EndedStaysEnded == session \notin ended

\* Every id the server has given away is the one it accepts or has been ended, a login
\* that was accepted has left its cookie, and nobody comes to the bootstrap with
\* credentials in the client, which would pass the form by.
SessionInv ==
  /\ TypeOK /\ EndedStaysEnded
  /\ 1..born \subseteq {session} \cup ended
  /\ \A d \in Devices :
       /\ screen[d] = "boot" => InitNeeded(d)
       /\ Inside(d) => cookie[d] # None
       /\ (net[d].do = "login" /\ net[d].code = "ok") => cookie[d] # None

\* A login comes to an end, whatever fails meanwhile, if the server does not accept the
\* cookie of the browser and has not done so in the check before the login; or the
\* user loads the page again.
Foreign(d) == cookie[d] = None \/ cookie[d] # session
LoginEnds ==
  \A d \in Devices :
    (screen[d] = "running" /\ Foreign(d) /\ net[d].code # "ok")
      ~> screen[d] \in {"form", "dashboard", "boot"}

\* A dashboard whose server goes away comes back to the login form: the close of the
\* web socket logs out, and the bootstrap refuses the old cookie.  Only a close between
\* the login and the dashboard's initState, which is "unheard", leaves it as it is.
LossEndsAtForm ==
  \A d \in Devices :
    (screen[d] = "dashboard" /\ socket[d] = "closed" /\ Foreign(d))
      ~> screen[d] = "form"

\* "Either stores your user and password or checks the authentication cookie": the
\* frontend comes up with the form or with the dashboard.
CookieIsChecked ==
  \A d \in Devices : screen[d] = "boot" ~> screen[d] \in {"form", "dashboard"}
=============================================================================
