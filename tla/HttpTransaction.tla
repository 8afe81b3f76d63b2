-------------------------- MODULE HttpTransaction ---------------------------
(***************************************************************************)
(* The HTTP transactions of the web server: MainCallBack as libwebsockets  *)
(* calls it on the service thread, HandleResource, and what the resources  *)
(* that change something (variables, MQTT values, blockly files) do with   *)
(* a request.  The callbacks of all open transactions mix; each has its    *)
(* own httpSesssionData, which lasts as long as the transaction.           *)
(*                                                                         *)
(* A body comes in parts; parts and contents are numbers.  Answers are     *)
(* their status code.                                                      *)
(***************************************************************************)
EXTENDS Integers, Sequences

CONSTANTS Transactions,  \* the transactions there can be
          Kinds          \* the requests a client can send

\* to: the resource.  key: with the right X-API-KEY.  length: what Content-Length says, in
\* parts; -1 when it is not there.  json: the body is no JSON text ("none"), the parameter
\* that is read first ("first") or another one ("later") is not a text, or all is well.
\* args: the parameters are in the URL.  full: all of them are there.
Targets == {"variable", "set", "blockly", "page", "nowhere"}
ASSUME KindsAssumption ==
  Kinds \subseteq [to : Targets, key : BOOLEAN, length : Int,
                    json : {"none", "first", "later", "good"},
                    args : BOOLEAN, full : BOOLEAN]

NoBody     == <<>>
NoResponse == 0
End        == 0     \* in sent: the answer is complete

VARIABLES
  phase,     \* phase[t]: how far transaction t is
  request,   \* request[t]: what the client has asked for
  body,      \* body[t]: the parts in pss->body
  response,  \* response[t]: the code in pss->response, or NoResponse
  ordered,   \* ordered[t]: a writable callback is ordered
  sent,      \* sent[t]: the codes of the headers written, and End
  handled,   \* history: how often HandleResource was called for t
  changes    \* history: what resources changed, in its order: [by, to, body]

session == <<body, response, ordered>>
vars    == <<phase, request, session, sent, handled, changes>>

Length(r) == IF r.length > 0 THEN r.length ELSE 0
Whole(r)  == [i \in 1..Length(r) |-> i]

Init ==
  /\ phase = [t \in Transactions |-> "new"] /\ request \in [Transactions -> Kinds]
  /\ body = [t \in Transactions |-> NoBody]
  /\ response = [t \in Transactions |-> NoResponse]
  /\ ordered = [t \in Transactions |-> FALSE] /\ sent = [t \in Transactions |-> <<>>]
  /\ handled = [t \in Transactions |-> 0] /\ changes = <<>>

-----------------------------------------------------------------------------
(* The resources.                                                          *)

\* GetParameter parses the body unless the URL has the parameter.  A parse_error is thrown
\* if it is not a JSON text, and a body that misses a part is none; a type_error, if the
\* parameter is not a text.
NotJson(r, b) == r.json = "none" \/ b # Whole(r)
Throws(r, b)  == ~r.args /\ b # NoBody /\ (NotJson(r, b) \/ r.json # "good")

\* MqttResource reads its parameters before it looks at the key, ConfigResource one of them.
ThrowsEarly(r, b) ==
  Throws(r, b) /\ (r.to = "set" \/ (r.to = "blockly" /\ (NotJson(r, b) \/ r.json = "first")))

\* Process.  ConfigResource catches a parse_error; 500 stands for no response object.
Code(r, b) ==
  IF r.to = "nowhere" THEN 500
  ELSE IF ThrowsEarly(r, b) THEN IF r.to = "blockly" /\ NotJson(r, b) THEN 400 ELSE 500
  ELSE IF ~r.key THEN 401
  ELSE IF r.to = "page" THEN 200
  ELSE IF Throws(r, b) THEN 500
  ELSE IF r.to = "variable" /\ ~r.full THEN 400 ELSE 201

\* What the resource changes: a variable, also when it answers 400; the event for an MQTT
\* value; a file.  The mutation does so before it looks at the key.
KeyIgnored(r, b) == r.to \in {"variable", "set", "blockly"} /\ ~Throws(r, b)
Changes(r, b)    == r.to \in {"variable", "set", "blockly"} /\ r.key /\ ~Throws(r, b)

-----------------------------------------------------------------------------
(* MainCallBack.                                                           *)

\* LWS_CALLBACK_HTTP_DROP_PROTOCOL: what the session data point to is deleted.
Drop(t) == /\ body' = [body EXCEPT ![t] = NoBody]
           /\ response' = [response EXCEPT ![t] = NoResponse]
           /\ ordered' = [ordered EXCEPT ![t] = FALSE]
To(t, p) == phase' = [phase EXCEPT ![t] = p]

\* The mutation does not order the callback.
LeaveOrdered(t)  == UNCHANGED ordered
OrderWritable(t) == ordered' = [ordered EXCEPT ![t] = TRUE]

\* The headers of the answer are written, or they cannot be: then libwebsockets closes the
\* connection.
Answer(t, c) == /\ To(t, "answer") /\ OrderWritable(t) /\ UNCHANGED body
                /\ response' = [response EXCEPT ![t] = IF c = 500 THEN NoResponse ELSE c]
Fail(t) == To(t, "cut") /\ Drop(t)

\* The end of MainCallBack, n times: HandleResource, then the headers.  The last of k may
\* fail, and no other follows it.
Handle(t, b, n) ==
  \E k \in 1..n, ok \in BOOLEAN :
    LET r == request[t] IN
    /\ ok => k = n
    /\ handled' = [handled EXCEPT ![t] = @ + k]
    /\ changes' = IF Changes(r, b)
                  THEN changes \o [i \in 1..k |-> [by |-> t, to |-> r.to, body |-> b]]
                  ELSE changes
    /\ sent' = [sent EXCEPT ![t] = @ \o [i \in 1..(IF ok THEN k ELSE k - 1) |-> Code(r, b)]]
    /\ IF ok THEN Answer(t, Code(r, b)) ELSE Fail(t)

\* LWS_CALLBACK_HTTP.  Without a length, or with one of zero, the request is handled at
\* once; libwebsockets completes the body of an explicit zero nevertheless, and the
\* request is handled again.  The mutation does not look at the length.
AtOnce(r) == TRUE
Ready(r)  == Length(r) = 0
Times(r)  == IF r.length = 0 THEN 2 ELSE 1
Begin(t) ==
  /\ phase[t] = "new"
  /\ IF Ready(request[t])
     THEN Handle(t, NoBody, Times(request[t]))
     ELSE To(t, "body") /\ UNCHANGED <<session, sent, handled, changes>>
  /\ UNCHANGED request

\* LWS_CALLBACK_HTTP_BODY.
Body(t) ==
  /\ phase[t] = "body" /\ Len(body[t]) < Length(request[t])
  /\ body' = [body EXCEPT ![t] = Append(@, Len(@) + 1)]
  /\ UNCHANGED <<phase, request, response, ordered, sent, handled, changes>>

\* LWS_CALLBACK_HTTP_BODY_COMPLETION.  The mutation takes the last part for the body.
LastPart(t)  == <<body[t][Len(body[t])]>>
Collected(t) == body[t]
Completion(t) ==
  /\ phase[t] = "body" /\ Len(body[t]) = Length(request[t])
  /\ Handle(t, Collected(t), 1) /\ UNCHANGED request

\* LWS_CALLBACK_HTTP_WRITEABLE.  Without a response nothing is written, and nothing
\* completes the transaction: the client waits until its connection is closed.
Writeable(t) ==
  /\ phase[t] = "answer" /\ ordered[t]
  /\ IF response[t] = NoResponse
     THEN /\ ordered' = [ordered EXCEPT ![t] = FALSE]
          /\ UNCHANGED <<phase, body, response, sent>>
     ELSE To(t, "done") /\ sent' = [sent EXCEPT ![t] = Append(@, End)] /\ Drop(t)
  /\ UNCHANGED <<request, handled, changes>>

\* The connection is closed, by the client or by a time limit of libwebsockets.
Close(t) ==
  /\ phase[t] \in {"body", "answer"} /\ Fail(t)
  /\ UNCHANGED <<request, sent, handled, changes>>

-----------------------------------------------------------------------------
Next == \E t \in Transactions :
          Begin(t) \/ Body(t) \/ Completion(t) \/ Writeable(t) \/ Close(t)
Spec == Init /\ [][Next]_vars

\* A callback that is ordered comes, unless the connection is closed.
FairSpec == Spec /\ \A t \in Transactions : WF_vars(Writeable(t))

-----------------------------------------------------------------------------
(* Properties.                                                             *)

TypeOK ==
  /\ phase \in [Transactions -> {"new", "body", "answer", "done", "cut"}]
  /\ request \in [Transactions -> Kinds] /\ body \in [Transactions -> Seq(Nat)]
  /\ response \in [Transactions -> Nat] /\ ordered \in [Transactions -> BOOLEAN]
  /\ sent \in [Transactions -> Seq(Nat)] /\ handled \in [Transactions -> Nat]
  /\ changes \in Seq([by : Transactions, to : Targets, body : Seq(Nat)])

\* What holds of transaction t's session data, and of the change at place i.
Answers(t, k) == [i \in 1..k |-> Code(request[t], Whole(request[t]))]
SessionOK(t) ==
  /\ phase[t] \in {"new", "body"} =>
       handled[t] = 0 /\ response[t] = NoResponse /\ ~ordered[t]
  /\ phase[t] = "new" => body[t] = NoBody
  /\ phase[t] = "body" =>
       /\ Length(request[t]) > 0 /\ Len(body[t]) <= Length(request[t])
       /\ body[t] = [i \in 1..Len(body[t]) |-> i]
  /\ handled[t] <= Times(request[t])
  /\ phase[t] \in {"answer", "done"} => handled[t] = Times(request[t])
  /\ sent[t] \in
       CASE phase[t] = "done" -> {Append(Answers(t, handled[t]), End)}
         [] phase[t] = "cut" /\ handled[t] > 0 ->
              {Answers(t, handled[t] - 1), Answers(t, handled[t])}
         [] OTHER -> {Answers(t, handled[t])}
ChangeOK(i) ==
  LET r == request[changes[i].by] IN
  /\ handled[changes[i].by] > 0 /\ Changes(r, Whole(r))
  /\ changes[i].to = r.to /\ changes[i].body = Whole(r)

\* The session data belong to the request, however the callbacks of several requests mix:
\* the body holds the first parts of its own one in their order, and what was answered and
\* changed is what the whole of it asks for.  Wherever a connection breaks and whether or not
\* headers can be written, a request is handled at most once, and not before its body is
\* complete; only an empty body that is announced is handled twice.  Only the last handling
\* of a connection that is closed can lack its headers.
HttpInv == TypeOK /\ (\A t \in Transactions : SessionOK(t)) /\ \A i \in DOMAIN changes : ChangeOK(i)

\* What was changed for a request was changed with the whole body of that request, once,
\* and with the right key.
ChangedAsAsked ==
  \A i \in DOMAIN changes :
    LET r == request[changes[i].by] IN
    /\ r.key /\ changes[i].to = r.to /\ changes[i].body = Whole(r)
    /\ \A j \in DOMAIN changes : (j # i /\ changes[j].by = changes[i].by) => r.length = 0

\* A request that is answered 401 or 500 has changed nothing, and what was changed without
\* an answer was so for a connection that is closed: its client cannot take it for refused.
RefusedChangesNothing ==
  \A i \in DOMAIN changes :
    LET t == changes[i].by IN
    /\ sent[t] # <<>> \/ phase[t] = "cut"
    /\ \A k \in DOMAIN sent[t] : sent[t][k] \notin {401, 500}

\* An answer that is there is written to its end, unless the connection is closed.
AnswerEnds ==
  \A t \in Transactions :
    response[t] # NoResponse ~>
      (phase[t] = "cut" \/ (sent[t] # <<>> /\ sent[t][Len(sent[t])] = End))
=============================================================================
