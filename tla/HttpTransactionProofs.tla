----------------------- MODULE HttpTransactionProofs ------------------------
(***************************************************************************)
(* Proofs about HttpTransaction, for any number of transactions and any    *)
(* requests: every request is handled as often as it should be, with its   *)
(* whole body, and a refusal has changed nothing.  HttpInv is inductive;   *)
(* only that nothing is changed twice needs the history besides.           *)
(***************************************************************************)
EXTENDS HttpTransaction, SequenceTheorems, TLAPS

-----------------------------------------------------------------------------
(* Requests and bodies.                                                    *)

\* The length of a body is a natural number, and its parts are the numbers up to it.
LEMMA BodyFacts ==
  ASSUME NEW r \in Kinds
  PROVE  /\ Length(r) \in Nat /\ Whole(r) \in Seq(Nat) /\ Len(Whole(r)) = Length(r)
         /\ Length(r) = 0 => Whole(r) = NoBody
         /\ Times(r) \in {1, 2}
         /\ r.length # 0 => Times(r) = 1
         /\ r.length = 0 => Length(r) = 0
BY KindsAssumption DEF Length, Whole, NoBody, Times

\* The same entry several times is a sequence.
LEMMA Repeated ==
  ASSUME NEW S, NEW x \in S, NEW n \in Nat
  PROVE  /\ [i \in 1..n |-> x] \in Seq(S) /\ Len([i \in 1..n |-> x]) = n
         /\ DOMAIN [i \in 1..n |-> x] = 1..n
<1>1. [i \in 1..n |-> x] \in [1..n -> S]
  OBVIOUS
<1>2. [i \in 1..n |-> x] \in Seq(S)
  BY <1>1, SeqDef
<1> QED
  BY <1>2, LenProperties

\* A status code is one of five, and 401 and 500 go with no change.
LEMMA CodeFacts ==
  ASSUME NEW r \in Kinds, NEW b
  PROVE  /\ Code(r, b) \in {200, 201, 400, 401, 500}
         /\ Changes(r, b) => r.key /\ Code(r, b) \notin {401, 500}
BY KindsAssumption DEF Code, Changes, ThrowsEarly, Targets

\* The same answer several times.
LEMMA AnswersFacts ==
  ASSUME NEW t \in Transactions, request[t] \in Kinds, NEW k \in Nat
  PROVE  /\ Answers(t, k) \in Seq(Nat) /\ Len(Answers(t, k)) = k
         /\ \A x \in 1..k : Answers(t, k)[x] = Code(request[t], Whole(request[t]))
<1> DEFINE code == Code(request[t], Whole(request[t]))
<1>1. code \in Nat
  <2>1. code \in {200, 201, 400, 401, 500}
    BY CodeFacts
  <2> QED
    BY <2>1
<1>2. Answers(t, k) = [x \in 1..k |-> code]
  BY DEF Answers
<1> HIDE DEF code
<1>3. Answers(t, k) \in Seq(Nat) /\ Len(Answers(t, k)) = k
  BY <1>1, <1>2, Repeated
<1>4. \A x \in 1..k : Answers(t, k)[x] = code
  BY <1>2
<1> QED
  BY <1>3, <1>4 DEF code

-----------------------------------------------------------------------------
(* One step of HandleResource.                                             *)

\* Handling a request that was not handled yet, with its whole body, keeps the invariant.
LEMMA HandleKeeps ==
  ASSUME HttpInv, NEW t \in Transactions, handled[t] = 0,
         NEW n \in {1, 2}, n = Times(request[t]),
         Handle(t, Whole(request[t]), n), UNCHANGED request
  PROVE  HttpInv'
<1> DEFINE r     == request[t]
           w     == Whole(r)
           entry == [by |-> t, to |-> r.to, body |-> w]
           Entry == [by : Transactions, to : Targets, body : Seq(Nat)]
<1>0. TypeOK /\ r \in Kinds /\ n \in Nat
  <2>1. TypeOK
    BY DEF HttpInv
  <2> QED
    BY <2>1 DEF TypeOK
<1>1. w \in Seq(Nat) /\ Code(r, w) \in Nat /\ r.to \in Targets
  <2>1. w \in Seq(Nat)
    BY <1>0, BodyFacts
  <2>2. Code(r, w) \in {200, 201, 400, 401, 500}
    BY <1>0, CodeFacts
  <2>3. r.to \in Targets
    BY <1>0, KindsAssumption
  <2> QED
    BY <2>1, <2>2, <2>3
<1>p. PICK k \in 1..n, ok \in BOOLEAN :
        /\ ok => k = n
        /\ handled' = [handled EXCEPT ![t] = handled[t] + k]
        /\ changes' = IF Changes(r, w) THEN changes \o [i \in 1..k |-> entry] ELSE changes
        /\ sent' = [sent EXCEPT ![t] = sent[t] \o [i \in 1..(IF ok THEN k ELSE k - 1) |-> Code(r, w)]]
        /\ IF ok THEN Answer(t, Code(r, w)) ELSE Fail(t)
  BY DEF Handle
<1> DEFINE m     == IF ok THEN k ELSE k - 1
           codes == [i \in 1..m |-> Code(r, w)]
           news  == [i \in 1..k |-> entry]
<1>k. k \in Nat /\ k > 0 /\ k <= n /\ m \in Nat
  BY <1>0
<1>2. /\ codes \in Seq(Nat) /\ Len(codes) = m /\ DOMAIN codes = 1..m
      /\ news \in Seq(Entry) /\ Len(news) = k
  <2>1. entry \in Entry
    BY <1>1
  <2> DEFINE code == Code(r, w)
  <2>2. code \in Nat /\ m \in Nat /\ k \in Nat
    BY <1>1, <1>k
  <2> HIDE DEF entry, Entry, code, r, m
  <2>3. [i \in 1..m |-> code] \in Seq(Nat) /\ Len([i \in 1..m |-> code]) = m
        /\ DOMAIN [i \in 1..m |-> code] = 1..m
    BY <2>2, Repeated
  <2>4. [i \in 1..k |-> entry] \in Seq(Entry) /\ Len([i \in 1..k |-> entry]) = k
    BY <2>1, <2>2, Repeated
  <2> QED
    BY <2>3, <2>4 DEF code
<1>3. sent[t] = <<>> /\ sent[t] \o codes = codes
  <2>0. SessionOK(t) /\ handled[t] # Times(request[t])
    BY DEF HttpInv
  <2>1. SessionOK(t) /\ phase[t] # "done"
    BY <2>0, Zenon DEF SessionOK
  <2>2. sent[t] = Answers(t, 0)
    BY <2>1 DEF SessionOK
  <2>3. Answers(t, 0) = <<>>
    BY DEF Answers
  <2> HIDE DEF codes
  <2> QED
    BY <1>2, <2>2, <2>3, ConcatEmptySeq
<1>4. /\ handled' = [handled EXCEPT ![t] = k] /\ sent' = [sent EXCEPT ![t] = codes]
      /\ changes' = IF Changes(r, w) THEN changes \o news ELSE changes
  <2>1. handled[t] + k = k
    BY <1>k
  <2>2. sent' = [sent EXCEPT ![t] = sent[t] \o codes]
    BY <1>p
  <2> QED
    BY <1>3, <1>p, <2>1, <2>2
<1>8. /\ phase' = [phase EXCEPT ![t] = IF ok THEN "answer" ELSE "cut"]
      /\ body' \in [Transactions -> Seq(Nat)] /\ response' \in [Transactions -> Nat]
      /\ ordered' \in [Transactions -> BOOLEAN]
      /\ \A u \in Transactions \ {t} :
           body'[u] = body[u] /\ response'[u] = response[u] /\ ordered'[u] = ordered[u]
  <2>0. /\ body \in [Transactions -> Seq(Nat)] /\ response \in [Transactions -> Nat]
        /\ ordered \in [Transactions -> BOOLEAN] /\ <<>> \in Seq(Nat)
    BY <1>0, EmptySeq DEF TypeOK
  <2> DEFINE c == Code(r, w)
  <2>c. c \in Nat
    BY <1>1
  <2>p. IF ok THEN Answer(t, c) ELSE Fail(t)
    BY <1>p
  <2> HIDE DEF c, r
  <2>1. CASE ok
    <3>1. /\ phase' = [phase EXCEPT ![t] = "answer"] /\ body' = body
          /\ ordered' = [ordered EXCEPT ![t] = TRUE]
          /\ response' = [response EXCEPT ![t] = IF c = 500 THEN 0 ELSE c]
      BY <2>p, <2>1 DEF Answer, To, OrderWritable, NoResponse
    <3> QED
      BY <2>0, <2>c, <2>1, <3>1
  <2>2. CASE ~ok
    <3>1. /\ phase' = [phase EXCEPT ![t] = "cut"] /\ body' = [body EXCEPT ![t] = <<>>]
          /\ ordered' = [ordered EXCEPT ![t] = FALSE]
          /\ response' = [response EXCEPT ![t] = 0]
      BY <2>p, <2>2 DEF Fail, To, Drop, NoBody, NoResponse
    <3> QED
      BY <2>0, <2>2, <3>1
  <2> QED
    BY <2>1, <2>2
<1>9. changes \in Seq(Entry)
  BY <1>0 DEF TypeOK
<1> HIDE DEF entry, Entry, codes, news
<1>5. TypeOK'
  <2>1. changes' \in Seq(Entry)
    BY <1>2, <1>4, <1>9, ConcatProperties
  <2>2. sent' \in [Transactions -> Seq(Nat)] /\ handled' \in [Transactions -> Nat]
    BY <1>0, <1>2, <1>4, <1>k DEF TypeOK
  <2> QED
    BY <1>0, <1>8, <2>1, <2>2 DEF TypeOK, Entry
<1>6. ASSUME NEW u \in Transactions PROVE SessionOK(u)'
  <2>1. CASE u = t
    <3>1. /\ phase'[t] = (IF ok THEN "answer" ELSE "cut")
          /\ handled'[t] = k /\ sent'[t] = codes
      BY <1>0, <1>4, <1>8 DEF TypeOK
    <3>2. codes = Answers(t, m)'
      BY DEF codes, Answers
    <3> QED
      BY <1>k, <1>p, <2>1, <3>1, <3>2 DEF SessionOK
  <2>2. CASE u # t
    <3>1. /\ phase'[u] = phase[u] /\ body'[u] = body[u] /\ handled'[u] = handled[u]
          /\ sent'[u] = sent[u] /\ response'[u] = response[u] /\ ordered'[u] = ordered[u]
      BY <1>0, <1>4, <1>8, <2>2 DEF TypeOK
    <3> QED
      BY <3>1 DEF HttpInv, SessionOK, Answers
  <2> QED
    BY <2>1, <2>2
<1>7. ASSUME NEW i \in DOMAIN changes' PROVE ChangeOK(i)'
  <2>1. CASE i \in DOMAIN changes
    <3>1. changes'[i] = changes[i]
      BY <1>2, <1>4, <1>9, <2>1, ConcatProperties, LenProperties
    <3>2. handled[changes[i].by] > 0
      BY <2>1 DEF HttpInv, ChangeOK
    <3>6. changes[i] \in Entry
      BY <1>9, <2>1, LenProperties, ElementOfSeq
    <3>4. changes[i].by \in Transactions
      BY <3>6 DEF Entry
    <3>5. handled \in [Transactions -> Nat] /\ k > 0
      BY <1>0, <1>k DEF TypeOK
    <3>3. handled'[changes[i].by] > 0
      BY <1>4, <3>2, <3>4, <3>5
    <3> QED
      BY <2>1, <3>1, <3>3 DEF HttpInv, ChangeOK
  <2>2. CASE i \notin DOMAIN changes
    <3>1. Changes(r, w) /\ changes' = changes \o news /\ i \in DOMAIN (changes \o news)
      BY <1>4, <2>2
    <3>2. i - Len(changes) \in 1..k /\ changes'[i] = news[i - Len(changes)]
      BY <1>2, <1>9, <1>k, <2>2, <3>1, ConcatProperties, LenProperties
    <3>3. changes'[i] = entry
      BY <3>2 DEF news
    <3>4. handled'[t] > 0
      BY <1>0, <1>4, <1>k DEF TypeOK
    <3> QED
      BY <3>1, <3>3, <3>4 DEF entry, ChangeOK
  <2> QED
    BY <2>1, <2>2
<1> QED
  BY <1>5, <1>6, <1>7 DEF HttpInv

-----------------------------------------------------------------------------
(* The steps.                                                              *)

\* A step of t that handles nothing keeps what the other transactions have, and the changes.
LEMMA QuietKeeps ==
  ASSUME HttpInv, NEW t \in Transactions, UNCHANGED <<request, handled, changes>>,
         TypeOK', SessionOK(t)',
         \A u \in Transactions \ {t} :
           /\ phase'[u] = phase[u] /\ body'[u] = body[u] /\ sent'[u] = sent[u]
           /\ response'[u] = response[u] /\ ordered'[u] = ordered[u]
  PROVE  HttpInv'
<1>1. ASSUME NEW u \in Transactions, u # t PROVE SessionOK(u)'
  BY <1>1 DEF HttpInv, SessionOK, Answers
<1>2. \A i \in DOMAIN changes' : ChangeOK(i)'
  BY DEF HttpInv, ChangeOK
<1> QED
  BY <1>1, <1>2 DEF HttpInv

\* HttpInv is inductive.
LEMMA Inductive ==
  /\ Init => HttpInv
  /\ HttpInv /\ [Next]_vars => HttpInv'
<1>1. Init => HttpInv
  <2> SUFFICES ASSUME Init PROVE HttpInv
    OBVIOUS
  <2>1. TypeOK
    BY EmptySeq DEF Init, TypeOK, NoBody, NoResponse
  <2>2. ASSUME NEW t \in Transactions PROVE SessionOK(t)
    <3>1. phase[t] = "new" /\ body[t] = NoBody /\ response[t] = NoResponse /\ ~ordered[t]
      BY DEF Init
    <3>2. sent[t] = <<>> /\ handled[t] = 0 /\ Answers(t, 0) = <<>>
      BY DEF Init, Answers
    <3>3. Times(request[t]) \in {1, 2}
      BY DEF Times
    <3> QED
      BY <3>1, <3>2, <3>3 DEF SessionOK
  <2>3. \A i \in DOMAIN changes : ChangeOK(i)
    BY DEF Init
  <2> QED
    BY <2>1, <2>2, <2>3 DEF HttpInv
<1>2. ASSUME HttpInv, [Next]_vars PROVE HttpInv'
  <2>0. TypeOK
    BY <1>2 DEF HttpInv
  <2>1. CASE UNCHANGED vars
    BY <1>2, <2>1 DEF HttpInv, TypeOK, SessionOK, Answers, ChangeOK, vars, session
  <2>2. ASSUME NEW t \in Transactions, Begin(t) PROVE HttpInv'
    <3>0. /\ SessionOK(t) /\ request[t] \in Kinds /\ phase[t] = "new" /\ UNCHANGED request
          /\ body[t] = NoBody
      BY <1>2, <2>0, <2>2 DEF HttpInv, TypeOK, Begin, SessionOK
    <3>1. CASE Length(request[t]) = 0
      <4>1. Whole(request[t]) = NoBody /\ Times(request[t]) \in {1, 2}
        <5>1. Whole(request[t]) = NoBody
          BY <3>0, <3>1, BodyFacts
        <5>2. Times(request[t]) \in {1, 2}
          BY DEF Times
        <5> QED
          BY <5>1, <5>2
      <4>2. Handle(t, NoBody, Times(request[t])) /\ handled[t] = 0
        BY <2>2, <3>0, <3>1 DEF Begin, Ready, SessionOK
      <4> QED
        BY <1>2, <3>0, <4>1, <4>2, HandleKeeps
    <3>2. CASE Length(request[t]) # 0
      <4>1. /\ UNCHANGED <<body, response, ordered, sent, handled, changes>>
            /\ phase' = [phase EXCEPT ![t] = "body"]
        BY <2>2, <3>2 DEF Begin, Ready, To, session
      <4>2. TypeOK'
        BY <2>0, <3>0, <4>1 DEF TypeOK
      <4>3. /\ Length(request[t]) > 0 /\ Len(body'[t]) = 0 /\ Len(body'[t]) <= Length(request[t])
            /\ body'[t] = [i \in 1..Len(body'[t]) |-> i]
        <5>1. Length(request[t]) > 0 /\ Length(request[t]) >= 0
          BY <3>0, <3>2, BodyFacts
        <5>2. body'[t] = <<>> /\ Len(<<>>) = 0 /\ <<>> = [i \in 1..0 |-> i]
          BY <3>0, <4>1 DEF NoBody
        <5> QED
          BY <5>1, <5>2
      <4>4. phase'[t] = "body"
        BY <2>0, <4>1 DEF TypeOK
      <4>5. SessionOK(t)'
        BY <3>0, <4>1, <4>3, <4>4 DEF SessionOK, Answers
      <4>6. \A u \in Transactions \ {t} : phase'[u] = phase[u]
        BY <2>0, <4>1 DEF TypeOK
      <4> QED
        BY <1>2, <3>0, <4>1, <4>2, <4>5, <4>6, QuietKeeps
    <3> QED
      BY <3>1, <3>2
  <2>3. ASSUME NEW t \in Transactions, Body(t) PROVE HttpInv'
    <3>0. /\ SessionOK(t) /\ phase[t] = "body" /\ body[t] \in Seq(Nat) /\ Len(body[t]) \in Nat
          /\ UNCHANGED <<phase, request, response, ordered, sent, handled, changes>>
      BY <1>2, <2>0, <2>3 DEF HttpInv, TypeOK, Body
    <3> DEFINE s == body[t]
    <3>1. /\ body' = [body EXCEPT ![t] = Append(s, Len(s) + 1)] /\ Len(s) < Length(request[t])
      BY <2>3 DEF Body
    <3>2. /\ Append(s, Len(s) + 1) \in Seq(Nat) /\ Len(Append(s, Len(s) + 1)) = Len(s) + 1
      BY <3>0
    <3>3. Append(s, Len(s) + 1) = [i \in 1..(Len(s) + 1) |-> i]
      <4>1. s = [i \in 1..Len(s) |-> i]
        BY <3>0 DEF SessionOK
      <4> QED
        BY <3>0, <4>1
    <3>4. body'[t] = Append(s, Len(s) + 1)
      BY <2>0, <3>1 DEF TypeOK
    <3>5. TypeOK'
      BY <2>0, <3>0, <3>1, <3>2 DEF TypeOK
    <3>6. request[t] \in Kinds /\ Length(request[t]) \in Nat
      BY <2>0, BodyFacts DEF TypeOK
    <3>7. Len(s) + 1 <= Length(request[t])
      BY <3>0, <3>1, <3>6
    <3>8. SessionOK(t)'
      BY <3>0, <3>2, <3>3, <3>4, <3>7 DEF SessionOK, Answers
    <3>9. \A u \in Transactions \ {t} : body'[u] = body[u]
      BY <2>0, <3>1 DEF TypeOK
    <3> QED
      BY <1>2, <3>0, <3>5, <3>8, <3>9, QuietKeeps
  <2>4. ASSUME NEW t \in Transactions, Completion(t) PROVE HttpInv'
    <3>0. /\ SessionOK(t) /\ request[t] \in Kinds /\ phase[t] = "body"
          /\ Len(body[t]) = Length(request[t]) /\ UNCHANGED request
          /\ Handle(t, body[t], 1)
      BY <1>2, <2>0, <2>4 DEF HttpInv, TypeOK, Completion, Collected
    <3>1. body[t] = Whole(request[t]) /\ handled[t] = 0 /\ Length(request[t]) > 0
      BY <3>0 DEF SessionOK, Whole
    <3>2. Times(request[t]) = 1
      <4>1. request[t].length \in Int
        BY <3>0, KindsAssumption
      <4> QED
        BY <3>1, <4>1 DEF Length, Times
    <3> QED
      BY <1>2, <3>0, <3>1, <3>2, HandleKeeps
  <2>5. ASSUME NEW t \in Transactions, Writeable(t) PROVE HttpInv'
    <3>0. SessionOK(t) /\ phase[t] = "answer" /\ UNCHANGED <<request, handled, changes>>
      BY <1>2, <2>5 DEF HttpInv, Writeable
    <3>1. CASE response[t] = NoResponse
      <4>1. ordered' = [ordered EXCEPT ![t] = FALSE] /\ UNCHANGED <<phase, body, response, sent>>
        BY <2>5, <3>1 DEF Writeable
      <4>2. TypeOK'
        BY <2>0, <3>0, <4>1 DEF TypeOK
      <4>3. SessionOK(t)'
        BY <3>0, <4>1 DEF SessionOK, Answers
      <4>4. \A u \in Transactions \ {t} : ordered'[u] = ordered[u]
        BY <2>0, <4>1 DEF TypeOK
      <4> QED
        BY <1>2, <3>0, <4>1, <4>2, <4>3, <4>4, QuietKeeps
    <3>2. CASE response[t] # NoResponse
      <4>1. /\ phase' = [phase EXCEPT ![t] = "done"]
            /\ sent' = [sent EXCEPT ![t] = Append(sent[t], End)] /\ Drop(t)
        BY <2>5, <3>2 DEF Writeable, To
      <4>2. Append(sent[t], End) \in Seq(Nat) /\ sent[t] \in Seq(Nat)
        BY <2>0 DEF TypeOK, End
      <4>3. TypeOK'
        BY <2>0, <3>0, <4>1, <4>2, EmptySeq DEF TypeOK, Drop, NoBody, NoResponse
      <4>4. phase'[t] = "done" /\ sent'[t] = Append(sent[t], End)
        BY <2>0, <4>1 DEF TypeOK
      <4>5. sent[t] = Answers(t, handled[t]) /\ handled[t] = Times(request[t])
        BY <3>0 DEF SessionOK
      <4>6. SessionOK(t)'
        BY <3>0, <4>4, <4>5 DEF SessionOK, Answers
      <4>7. \A u \in Transactions \ {t} :
              /\ phase'[u] = phase[u] /\ body'[u] = body[u] /\ sent'[u] = sent[u]
              /\ response'[u] = response[u] /\ ordered'[u] = ordered[u]
        BY <2>0, <4>1 DEF TypeOK, Drop
      <4> QED
        BY <1>2, <3>0, <4>3, <4>6, <4>7, QuietKeeps
    <3> QED
      BY <3>1, <3>2
  <2>6. ASSUME NEW t \in Transactions, Close(t) PROVE HttpInv'
    <3>1. /\ phase' = [phase EXCEPT ![t] = "cut"] /\ Drop(t)
          /\ UNCHANGED <<request, sent, handled, changes>> /\ SessionOK(t)
      BY <1>2, <2>6 DEF HttpInv, Close, Fail, To
    <3>2. TypeOK'
      BY <2>0, <3>1, EmptySeq DEF TypeOK, Drop, NoBody, NoResponse
    <3>3. phase'[t] = "cut"
      BY <2>0, <3>1 DEF TypeOK
    <3>4. SessionOK(t)'
      BY <2>6, <3>1, <3>3 DEF SessionOK, Answers, Close
    <3>5. \A u \in Transactions \ {t} :
            /\ phase'[u] = phase[u] /\ body'[u] = body[u]
            /\ response'[u] = response[u] /\ ordered'[u] = ordered[u]
      BY <2>0, <3>1 DEF TypeOK, Drop
    <3> QED
      BY <1>2, <3>1, <3>2, <3>4, <3>5, QuietKeeps
  <2> QED
    BY <1>2, <2>1, <2>2, <2>3, <2>4, <2>5, <2>6 DEF Next
<1> QED
  BY <1>1, <1>2

\* The session data belong to their request in every state: MainCallBack mixes no bodies,
\* and calls HandleResource once for a request (twice for an empty body that is announced)
\* and not before its body is complete.
THEOREM SessionsSound == Spec => []HttpInv
BY Inductive, PTL DEF Spec

\* The answers 401 and 500 of HandleResource mean that the resource has changed nothing.
THEOREM RefusalSound == Spec => []RefusedChangesNothing
<1>1. HttpInv => RefusedChangesNothing
  <2> SUFFICES ASSUME HttpInv, NEW i \in DOMAIN changes
               PROVE  /\ sent[changes[i].by] # <<>> \/ phase[changes[i].by] = "cut"
                      /\ \A k \in DOMAIN sent[changes[i].by] :
                           sent[changes[i].by][k] \notin {401, 500}
    BY DEF RefusedChangesNothing
  <2> DEFINE t == changes[i].by
             r == request[t]
  <2>1. ChangeOK(i) /\ TypeOK
    BY DEF HttpInv
  <2>2. changes[i] \in [by : Transactions, to : Targets, body : Seq(Nat)]
    BY <2>1, LenProperties, ElementOfSeq DEF TypeOK
  <2>3. t \in Transactions /\ r \in Kinds
    BY <2>1, <2>2 DEF TypeOK
  <2>4. SessionOK(t)
    BY <2>3 DEF HttpInv
  <2>5. Code(r, Whole(r)) \notin {401, 500}
    BY <2>1, <2>3, CodeFacts DEF ChangeOK
  <2>6. handled[t] \in Nat /\ handled[t] > 0
    BY <2>1, <2>3 DEF ChangeOK, TypeOK
  <2>7. ASSUME NEW k \in Nat
        PROVE  Answers(t, k) \in Seq(Nat) /\ Len(Answers(t, k)) = k
    BY <2>3, AnswersFacts
  <2>a. ASSUME NEW k \in Nat, NEW x \in 1..k
        PROVE  Answers(t, k)[x] # 401 /\ Answers(t, k)[x] # 500
    <3>1. Answers(t, k)[x] = Code(r, Whole(r))
      BY <2>3, AnswersFacts
    <3> QED
      BY <2>5, <3>1
  <2>8. CASE phase[t] = "done"
    <3>1. sent[t] = Append(Answers(t, handled[t]), End)
      BY <2>4, <2>8 DEF SessionOK
    <3> HIDE DEF t, r
    <3> DEFINE n == handled[t]
               s == Answers(t, n)
    <3>a. n \in Nat /\ s \in Seq(Nat) /\ Len(s) = n /\ End \in Nat
      BY <2>6, <2>7 DEF End
    <3>b. sent[t] = Append(s, End)
      BY <3>1
    <3> HIDE DEF n, s
    <3>c. /\ Append(s, End) # <<>> /\ Len(Append(s, End)) = n + 1
          /\ Append(s, End)[n + 1] = End /\ \A j \in 1..n : Append(s, End)[j] = s[j]
          /\ DOMAIN Append(s, End) = 1..(n + 1)
      BY <3>a, AppendProperties, LenProperties
    <3>2. /\ DOMAIN sent[t] = 1..(handled[t] + 1) /\ sent[t][handled[t] + 1] = 0
          /\ \A j \in 1..handled[t] : sent[t][j] = Answers(t, handled[t])[j]
      BY <3>b, <3>c DEF End, n, s
    <3>3. sent[t] # <<>>
      BY <3>b, <3>c
    <3>4. ASSUME NEW j \in DOMAIN sent[t] PROVE sent[t][j] \notin {401, 500}
      <4>1. j \in 1..handled[t] \/ j = handled[t] + 1
        BY <2>6, <3>2
      <4>2. ASSUME j \in 1..handled[t] PROVE sent[t][j] \notin {401, 500}
        <5>0. n \in Nat /\ j \in 1..n
          BY <2>6, <4>2 DEF n
        <5>1. Answers(t, n)[j] # 401 /\ Answers(t, n)[j] # 500
          BY <2>a, <5>0
        <5>2. Answers(t, handled[t])[j] # 401 /\ Answers(t, handled[t])[j] # 500
          BY <5>1 DEF n
        <5> QED
          BY <3>2, <4>2, <5>2
      <4>3. ASSUME j = handled[t] + 1 PROVE sent[t][j] \notin {401, 500}
        <5>1. sent[t][j] = 0
          BY <3>2, <4>3
        <5> QED
          BY <5>1
      <4> QED
        BY <4>1, <4>2, <4>3
    <3> QED
      BY <3>3, <3>4 DEF t
  <2>9. CASE phase[t] # "done"
    <3>1. PICK k \in Nat : sent[t] = Answers(t, k) /\ (phase[t] # "cut" => k > 0)
      BY <2>4, <2>6, <2>9 DEF SessionOK
    <3> HIDE DEF t, r
    <3>2. DOMAIN sent[t] = 1..k /\ (k > 0 => sent[t] # <<>>)
      BY <2>7, <3>1, LenProperties
    <3>3. ASSUME NEW j \in DOMAIN sent[t] PROVE sent[t][j] \notin {401, 500}
      <4>1. Answers(t, k)[j] # 401 /\ Answers(t, k)[j] # 500
        BY <2>a, <3>2
      <4> QED
        BY <3>1, <4>1
    <3> QED
      BY <3>1, <3>2, <3>3 DEF t
  <2> QED
    BY <2>8, <2>9
<1> QED
  BY <1>1, SessionsSound, PTL

-----------------------------------------------------------------------------
(* Nothing is changed twice.                                               *)

\* Two changes for the same request have a body of length zero.
NoSecond ==
  \A i, j \in DOMAIN changes :
    (j # i /\ changes[j].by = changes[i].by) => request[changes[i].by].length = 0

\* Handling a request for the first time adds no second change.
LEMMA HandleNoSecond ==
  ASSUME HttpInv, NoSecond, NEW t \in Transactions, handled[t] = 0,
         NEW n \in {1, 2}, n = Times(request[t]),
         Handle(t, Whole(request[t]), n), UNCHANGED request
  PROVE  NoSecond'
<1> DEFINE r     == request[t]
           w     == Whole(r)
           entry == [by |-> t, to |-> r.to, body |-> w]
           Entry == [by : Transactions, to : Targets, body : Seq(Nat)]
<1>p. PICK k \in 1..n :
        changes' = IF Changes(r, w) THEN changes \o [i \in 1..k |-> entry] ELSE changes
  BY DEF Handle
<1> DEFINE news == [i \in 1..k |-> entry]
<1>1. TypeOK
  BY DEF HttpInv
<1>2. changes \in Seq(Entry) /\ r \in Kinds
  BY <1>1 DEF TypeOK
<1>3. entry \in Entry
  BY <1>2, BodyFacts, KindsAssumption
<1>4. news \in Seq(Entry) /\ Len(news) = k /\ DOMAIN news = 1..k
  <2> HIDE DEF entry, Entry
  <2> QED
    BY <1>3, Repeated
<1>5. \A i \in DOMAIN changes : changes[i].by # t
  BY DEF HttpInv, ChangeOK
<1>6. CASE ~Changes(r, w)
  BY <1>6, <1>p DEF NoSecond
<1>7. CASE Changes(r, w)
  <2>1. changes' = changes \o news
    BY <1>7, <1>p
  <2>2. \A i \in DOMAIN news : news[i].by = t
    OBVIOUS
  <2> HIDE DEF entry, Entry, news
  <2>3. /\ Len(changes) \in Nat /\ DOMAIN changes = 1..Len(changes)
        /\ DOMAIN changes' = 1..(Len(changes) + k)
        /\ \A i \in 1..Len(changes) : changes'[i] = changes[i]
        /\ \A i \in DOMAIN changes' \ DOMAIN changes :
             i - Len(changes) \in 1..k /\ changes'[i] = news[i - Len(changes)]
    BY <1>2, <1>4, <2>1, ConcatProperties, LenProperties
  <2>4. ASSUME NEW i \in DOMAIN changes', NEW j \in DOMAIN changes',
               j # i, changes'[j].by = changes'[i].by
        PROVE  request[changes'[i].by].length = 0
    <3>1. CASE i \in DOMAIN changes /\ j \in DOMAIN changes
      BY <2>3, <2>4, <3>1 DEF NoSecond
    <3>2. CASE i \notin DOMAIN changes /\ j \notin DOMAIN changes
      <4>1. changes'[i].by = t /\ n # 1
        BY <1>4, <2>2, <2>3, <2>4, <3>2
      <4> QED
        BY <4>1 DEF Times
    <3>3. CASE i \in DOMAIN changes /\ j \notin DOMAIN changes
      BY <1>4, <1>5, <2>2, <2>3, <2>4, <3>3
    <3>4. CASE i \notin DOMAIN changes /\ j \in DOMAIN changes
      BY <1>4, <1>5, <2>2, <2>3, <2>4, <3>4
    <3> QED
      BY <3>1, <3>2, <3>3, <3>4
  <2> QED
    BY <2>4 DEF NoSecond
<1> QED
  BY <1>6, <1>7

\* What a resource changes for a request it changes with the right key, with the whole body
\* of that request and once, whatever callbacks of other requests come in between.
THEOREM ChangesSound == Spec => []ChangedAsAsked
<1>1. Init => NoSecond
  BY DEF Init, NoSecond
<1>2. ASSUME HttpInv, NoSecond, [Next]_vars PROVE NoSecond'
  <2>0. TypeOK
    BY <1>2 DEF HttpInv
  <2>1. CASE UNCHANGED <<request, changes>>
    BY <1>2, <2>1 DEF NoSecond
  <2>2. ASSUME NEW t \in Transactions, Begin(t), Length(request[t]) = 0 PROVE NoSecond'
    <3>1. request[t] \in Kinds /\ handled[t] = 0 /\ UNCHANGED request
      BY <1>2, <2>0, <2>2 DEF HttpInv, TypeOK, SessionOK, Begin
    <3>2. Whole(request[t]) = NoBody /\ Times(request[t]) \in {1, 2}
      <4>1. Whole(request[t]) = NoBody
        BY <2>2, <3>1, BodyFacts
      <4> QED
        BY <4>1 DEF Times
    <3>3. Handle(t, NoBody, Times(request[t]))
      BY <2>2 DEF Begin, Ready
    <3> QED
      BY <1>2, <3>1, <3>2, <3>3, HandleNoSecond
  <2>3. ASSUME NEW t \in Transactions, Completion(t) PROVE NoSecond'
    <3>1. /\ SessionOK(t) /\ request[t] \in Kinds /\ phase[t] = "body" /\ UNCHANGED request
          /\ Len(body[t]) = Length(request[t]) /\ Handle(t, body[t], 1)
      BY <1>2, <2>0, <2>3 DEF HttpInv, TypeOK, Completion, Collected
    <3>2. body[t] = Whole(request[t]) /\ handled[t] = 0 /\ Length(request[t]) > 0
      BY <3>1 DEF SessionOK, Whole
    <3>3. Times(request[t]) = 1
      <4>1. request[t].length \in Int
        BY <3>1, KindsAssumption
      <4> QED
        BY <3>2, <4>1 DEF Length, Times
    <3> QED
      BY <1>2, <3>1, <3>2, <3>3, HandleNoSecond
  <2>4. ASSUME NEW t \in Transactions,
               (Begin(t) /\ Length(request[t]) # 0) \/ Body(t) \/ Writeable(t) \/ Close(t)
        PROVE  UNCHANGED <<request, changes>>
    BY <2>4 DEF Begin, Ready, Body, Writeable, Close, Fail
  <2> QED
    BY <1>2, <2>1, <2>2, <2>3, <2>4 DEF Next, vars
<1>3. HttpInv /\ NoSecond => ChangedAsAsked
  <2> SUFFICES ASSUME HttpInv, NoSecond, NEW i \in DOMAIN changes
               PROVE  LET r == request[changes[i].by] IN
                      /\ r.key /\ changes[i].to = r.to /\ changes[i].body = Whole(r)
                      /\ \A j \in DOMAIN changes :
                           (j # i /\ changes[j].by = changes[i].by) => r.length = 0
    BY DEF ChangedAsAsked
  <2>1. ChangeOK(i)
    BY DEF HttpInv
  <2> QED
    BY <2>1 DEF ChangeOK, Changes, NoSecond
<1> QED
  BY <1>1, <1>2, <1>3, Inductive, PTL DEF Spec

=============================================================================
