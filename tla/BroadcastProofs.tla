--------------------------- MODULE BroadcastProofs ---------------------------
(***************************************************************************)
(* The two ways in which a change is handed out, for any size of either.   *)
(*                                                                         *)
(* WebSocketRing, to the browsers: its state is well typed, until the two  *)
(* threads clash every subscriber's tail lies in the ring and no wake-up   *)
(* is lost, and the ring serves each subscriber as the fan-out log does.   *)
(*                                                                         *)
(* EventBus, to the components that registered: its state is well typed,   *)
(* no consumer falls behind, and it implements the broadcast log.          *)
(***************************************************************************)
EXTENDS EventBus, WebSocketRing, SequenceTheorems, TLAPS

-----------------------------------------------------------------------------
(* Arithmetic of the offsets.                                               *)

LEMMA DistRange ==
  \A a, b \in Offsets : Dist(a, b) \in 0..RingSize - 1 /\ After(a) \in Offsets
  BY RingAssumption DEF Offsets, Dist, After

LEMMA AfterGrows ==
  \A a, b \in Offsets : Dist(a, b) < RingSize - 1 => Dist(a, After(b)) = Dist(a, b) + 1
  BY RingAssumption DEF Offsets, Dist, After

LEMMA AfterShrinks ==
  \A a, b \in Offsets : Dist(a, b) > 0 => Dist(After(a), b) = Dist(a, b) - 1
  BY RingAssumption DEF Offsets, Dist, After

(* An offset no further from c than a is, is reached from a by the rest.    *)
LEMMA DistSplits ==
  \A a, b, c \in Offsets : Dist(b, c) <= Dist(a, c) => Dist(a, b) = Dist(a, c) - Dist(b, c)
  BY RingAssumption DEF Offsets, Dist

LEMMA BackOffset ==
  ASSUME head \in Offsets
  PROVE  \A k \in 0..RingSize - 1 : Back(k) \in Offsets /\ Dist(Back(k), head) = k
  BY RingAssumption DEF Offsets, Dist, Back

LEMMA BackOfDist ==
  ASSUME head \in Offsets
  PROVE  \A a \in Offsets : Back(Dist(a, head)) = a
  BY RingAssumption DEF Offsets, Dist, Back

LEMMA BackAfter ==
  ASSUME head \in Offsets, head' = After(head)
  PROVE  Back(1)' = head /\ \A k \in 1..RingSize - 2 : Back(k + 1)' = Back(k)
  BY RingAssumption DEF Offsets, After, Back

(* What the steps below compute with.                                       *)
LEMMA Sizes ==
  ASSUME RingTypeOK
  PROVE  /\ Used \in 0..RingSize - 1 /\ Len(log) \in Nat /\ RingSize \in Nat
         /\ \A c \in Clients : Waiting(c) \in 0..RingSize - 1
         /\ \A c \in Clients : Position(c) = Len(log) - Waiting(c)
         /\ Dist(walk.oldest, head) \in 0..RingSize - 1
         /\ Subscribers \subseteq Clients
<1>1. Len(log) \in Nat
  BY LenProperties DEF RingTypeOK
<1>2. /\ Used \in 0..RingSize - 1 /\ \A c \in Clients : Waiting(c) \in 0..RingSize - 1
      /\ Dist(walk.oldest, head) \in 0..RingSize - 1
  BY DistRange DEF RingTypeOK, Used, Waiting
<1> QED
  BY <1>1, <1>2, RingAssumption DEF Position, Subscribers

-----------------------------------------------------------------------------
(* The inductive invariant.                                                 *)

LEMMA RingStarts == RingInit => RingInv
<1> SUFFICES ASSUME RingInit PROVE RingInv
  OBVIOUS
<1> USE DEF RingInit
<1>1. 0 \in Offsets /\ Dist(0, 0) = 0 /\ RingSize \in Nat
  BY RingAssumption DEF Offsets, Dist
<1>2. RingTypeOK
  <2>1. <<>> \in Seq(Nat \ {0})
    BY EmptySeq
  <2>2. walk \in [by : Clients, left : SUBSET Clients, most : Nat, oldest : Offsets]
    BY <1>1
  <2> QED
    BY <1>1, <2>1, <2>2 DEF RingTypeOK, Threads
<1>3. Subscribers = {} /\ Used = 0 /\ Len(log) = 0
  BY <1>1, EmptySeq DEF Subscribers, Used
<1>4. RingSafe /\ NoLostWakeup
  BY <1>3 DEF RingSafe, RingHoldsUnread, NoLostWakeup
<1>5. InsertsUnderWay /\ ToldOfLog /\ WalkFindsOldest
  BY <1>3, RingAssumption DEF InsertsUnderWay, ToldOfLog, WalkFindsOldest, Threads
<1> QED
  BY <1>2, <1>4, <1>5 DEF RingInv

LEMMA CopyInv ==
  ASSUME RingInv, NEW t \in Threads, Copy(t), sender' \in Clients
  PROVE  RingInv'
<1> USE DEF Copy, RingInv
<1>1. made' \in Nat /\ made' = made + 1 /\ made' # 0 /\ made' <= MaxMessages
  BY RingAssumption DEF RingTypeOK, InsertsUnderWay
<1>2. RingTypeOK'
  BY <1>1 DEF RingTypeOK, Subscribers
<1>3. UNCHANGED <<Subscribers, Used>> /\ \A c \in Clients : Waiting(c)' = Waiting(c)
  BY DEF Subscribers, Used, Waiting
<1>4. Used < RingSize - 1 /\ head \in Offsets /\ slot'[head] = made'
  <2>1. head \in Offsets /\ slot \in [Offsets -> Nat] /\ Free > 0
    BY DEF RingTypeOK
  <2>2. Used \in 0..RingSize - 1 /\ RingSize \in Nat
    BY Sizes
  <2>3. Used < RingSize - 1
    BY <2>1, <2>2 DEF Free
  <2> QED
    BY <1>1, <2>1, <2>3
<1>5. RingSafe'
  <2>1. \A k \in 1..Used : slot'[Back(k)] = slot[Back(k)] /\ Back(k)' = Back(k)
    <3>1. \A k \in 1..Used : Back(k) \in Offsets /\ Back(k) # head
      BY <1>4, Sizes, BackOffset, RingAssumption DEF Back, Offsets
    <3> QED
      BY <3>1 DEF RingTypeOK, Back
  <2>2. \A c \in Subscribers : Waiting(c)' = Waiting(c)
    BY <1>3, Sizes
  <2> QED
    BY <1>3, <2>1, <2>2 DEF RingSafe, RingHoldsUnread, RingTypeOK
<1>6. NoLostWakeup'
  BY <1>3, Sizes DEF NoLostWakeup, Position, BeingServed, RingTypeOK, Threads
<1>7. InsertsUnderWay'
  <2>1. \A u \in Threads : carried[u] \in Nat /\ carried'[u] = IF u = t THEN made' ELSE carried[u]
    BY DEF RingTypeOK
  <2>2. \A u \in Threads : carried'[u] <= made' /\ (stage'[u] = "copied" => carried'[u] # 0)
    BY <1>1, <2>1 DEF RingTypeOK, InsertsUnderWay
  <2>3. ASSUME ~clash' PROVE \A u \in Threads : stage'[u] = "copied" => u = t
    BY <2>3 DEF RingTypeOK
  <2> QED
    BY <1>1, <1>3, <1>4, <2>1, <2>2, <2>3 DEF InsertsUnderWay
<1>8. ToldOfLog'
  BY DEF ToldOfLog
<1>9. WalkFindsOldest'
  BY <1>3, Sizes DEF WalkFindsOldest, Counted, RingTypeOK, Threads
<1> QED
  BY <1>2, <1>5, <1>6, <1>7, <1>8, <1>9

LEMMA AdvanceInv == ASSUME RingInv, NEW t \in Threads, Advance(t) PROVE RingInv'
<1> USE DEF Advance, RingInv
<1>1. carried[t] \in Nat \ {0}
  BY DEF RingTypeOK, InsertsUnderWay
<1>2. /\ log' \in Seq(Nat \ {0}) /\ Len(log') = Len(log) + 1
      /\ \A i \in 1..Len(log) : log'[i] = log[i]
      /\ log'[Len(log) + 1] = carried[t]
  BY <1>1, AppendProperties DEF RingTypeOK
<1>3. RingTypeOK'
  BY <1>2, DistRange DEF RingTypeOK, Subscribers
<1>4. UNCHANGED Subscribers
  BY DEF Subscribers
<1>5. ASSUME ~clash
      PROVE  /\ Used' = Used + 1
             /\ \A c \in Subscribers : Waiting(c)' = Waiting(c) + 1
  <2>1. Used < RingSize - 1 /\ \A c \in Subscribers : Waiting(c) <= Used
    BY <1>5 DEF RingSafe, RingHoldsUnread, InsertsUnderWay
  <2>2. \A c \in Subscribers : Waiting(c) < RingSize - 1
    BY <2>1, Sizes
  <2>3. head \in Offsets /\ oldest \in Offsets /\ \A c \in Subscribers : tail[c] \in Offsets
    BY Sizes DEF RingTypeOK
  <2>4. Used' = Used + 1
    BY <2>1, <2>3, AfterGrows DEF Used
  <2>5. \A c \in Subscribers : Waiting(c)' = Waiting(c) + 1
    BY <2>2, <2>3, AfterGrows DEF Waiting
  <2> QED
    BY <2>4, <2>5
<1>6. RingSafe'
  <2> SUFFICES ASSUME ~clash PROVE RingHoldsUnread'
    BY DEF RingSafe, RingTypeOK
  <2>1. RingHoldsUnread /\ Used < RingSize - 1 /\ slot[head] = carried[t]
    BY DEF RingSafe, InsertsUnderWay
  <2>2. (\A c \in Subscribers : Waiting(c) <= Used)' /\ Used' <= Len(log')
    BY <1>2, <1>4, <1>5, <2>1, Sizes DEF RingHoldsUnread
  <2>3. ASSUME NEW k \in 1..Used' PROVE slot'[Back(k)'] = log'[Len(log') + 1 - k]
    <3>1. Used' = Used + 1 /\ Used \in Nat /\ Len(log) \in Nat /\ RingSize \in Nat
      BY <1>5, Sizes
    <3>2. CASE k = 1
      <4>1. Back(k)' = head
        BY <3>2, BackAfter DEF RingTypeOK
      <4> QED
        BY <1>2, <2>1, <3>1, <3>2, <4>1
    <3>3. CASE k # 1
      <4>1. k - 1 \in 1..Used /\ k - 1 \in 1..RingSize - 2
        BY <2>1, <3>1, <3>3
      <4>2. Back(k)' = Back(k - 1)
        <5>1. (k - 1) + 1 = k
          BY <3>1
        <5>2. \A j \in 1..RingSize - 2 : Back(j + 1)' = Back(j)
          BY BackAfter DEF RingTypeOK
        <5> QED
          BY <4>1, <5>1, <5>2
      <4>3. slot[Back(k - 1)] = log[Len(log) + 1 - (k - 1)]
        BY <2>1, <4>1 DEF RingHoldsUnread
      <4>4. Len(log) + 1 - (k - 1) = Len(log') + 1 - k /\ Len(log) + 1 - (k - 1) \in 1..Len(log)
        BY <1>2, <2>1, <3>1, <4>1 DEF RingHoldsUnread
      <4> QED
        BY <1>2, <4>2, <4>3, <4>4
    <3> QED
      BY <3>2, <3>3
  <2> QED
    BY <2>2, <2>3 DEF RingHoldsUnread
<1>7. NoLostWakeup'
  <2> SUFFICES ASSUME ~clash, NEW c \in Subscribers, Position(c)' < owed[c]
               PROVE  c \in wake \/ BeingServed(c)'
    BY <1>4 DEF NoLostWakeup, RingTypeOK
  <2>1. Position(c)' = Position(c)
    <3>1. Waiting(c) \in Nat /\ Len(log) \in Nat
      BY Sizes, RingAssumption
    <3>2. Waiting(c)' = Waiting(c) + 1 /\ Len(log') = Len(log) + 1
      BY <1>2, <1>5
    <3> HIDE DEF Advance, RingInv
    <3> QED
      BY <3>1, <3>2 DEF Position
  <2>2. c \in wake \/ BeingServed(c)
    BY <2>1 DEF NoLostWakeup
  <2> QED
    BY <2>2 DEF BeingServed, RingTypeOK, Threads
<1>8. InsertsUnderWay'
  BY DEF RingTypeOK, InsertsUnderWay
<1>9. ToldOfLog'
  <2>1. \A c \in Clients : owed[c] \in Nat /\ owed[c] <= Len(log)
    BY DEF RingTypeOK, ToldOfLog
  <2>2. Len(log) \in Nat
    BY Sizes
  <2>3. \A c \in Clients : owed[c] <= Len(log')
    BY ONLY <1>2, <2>1, <2>2
  <2> QED
    BY <2>3 DEF ToldOfLog
<1>10. WalkFindsOldest'
  <2>1. stage'["worker"] \in {"idle", "copied", "inserted"}
    BY DEF WalkFindsOldest, RingTypeOK, Threads
  <2>2. stage'["service"] \in {"walk", "written"} => walk'.by \in Subscribers'
    BY <1>4 DEF WalkFindsOldest, RingTypeOK, Threads
  <2>3. ASSUME stage'["service"] = "walk", ~clash'
        PROVE  /\ walk'.left \subseteq Subscribers'
               /\ Dist(walk'.oldest, head') <= Used'
               /\ \A c \in Counted' : Waiting(c)' <= Dist(walk'.oldest, head')
               /\ walk'.left # {} =>
                    walk'.most = IF Counted' = {} THEN 0 ELSE Dist(walk'.oldest, head')
    <3>1. stage["service"] = "walk" /\ ~clash /\ walk' = walk /\ walk.left \in {{}, Subscribers}
      BY <2>3 DEF AmidWalk, RingTypeOK, Threads
    <3>2. Used < RingSize - 1 /\ Dist(walk.oldest, head) <= Used
      BY <3>1 DEF WalkFindsOldest, InsertsUnderWay
    <3>3. Dist(walk.oldest, head) \in Nat /\ Used \in Nat /\ RingSize \in Nat
      BY Sizes, RingAssumption
    <3>4. Dist(walk.oldest, head') = Dist(walk.oldest, head) + 1
      BY <3>2, <3>3, AfterGrows DEF RingTypeOK
    <3>5. Counted' = Counted /\ (Counted = {} \/ walk.left = {})
      BY <1>4, <3>1 DEF Counted
    <3>6. \A c \in Counted : Waiting(c) \in Nat /\ c \in Subscribers
      BY Sizes, RingAssumption DEF Counted
    <3>7. \A c \in Counted : Waiting(c) <= Dist(walk.oldest, head)
      BY <3>1 DEF WalkFindsOldest
    <3>8. \A c \in Counted : Waiting(c)' = Waiting(c) + 1
      BY <1>5, <3>1, <3>6
    <3>9. Used' = Used + 1
      BY <1>5, <3>1
    <3>10. \A c \in Counted : Waiting(c)' <= Dist(walk.oldest, head')
      BY <3>3, <3>4, <3>6, <3>7, <3>8
    <3>11. walk.left # {} => walk.most = 0 /\ Counted = {}
      BY <3>1, <3>5 DEF WalkFindsOldest
    <3>12. walk.left \subseteq Subscribers'
      BY <1>4, <3>1 DEF WalkFindsOldest
    <3> QED
      BY <3>1, <3>2, <3>3, <3>4, <3>5, <3>9, <3>10, <3>11, <3>12
  <2> QED
    BY <2>1, <2>2, <2>3 DEF WalkFindsOldest
<1> QED
  BY <1>3, <1>6, <1>7, <1>8, <1>9, <1>10

LEMMA TellInv == ASSUME RingInv, NEW t \in Threads, Tell(t) PROVE RingInv'
<1> USE DEF Tell, Told, RingInv
<1>1. Audience(t) \subseteq Subscribers
  BY DEF Audience
<1>2. UNCHANGED <<Subscribers, Used, RingHoldsUnread>>
      /\ \A c \in Clients : Position(c)' = Position(c)
  BY DEF Subscribers, Used, Waiting, Position, RingHoldsUnread, Back
<1>3. RingTypeOK'
  BY <1>1, <1>2, Sizes DEF RingTypeOK
<1>4. RingSafe'
  BY <1>2 DEF RingSafe
<1>5. NoLostWakeup'
  BY <1>2, Sizes DEF NoLostWakeup, BeingServed, RingTypeOK, Threads
<1>6. InsertsUnderWay'
  BY <1>2 DEF RingTypeOK, InsertsUnderWay
<1>7. ToldOfLog'
  BY <1>1, Sizes DEF ToldOfLog, Subscribers
<1>8. WalkFindsOldest'
  <2>1. \A c : Waiting(c)' = Waiting(c)
    BY DEF Waiting
  <2> QED
    BY <1>2, <2>1 DEF WalkFindsOldest, Counted, RingTypeOK, Threads
<1> QED
  BY <1>3, <1>4, <1>5, <1>6, <1>7, <1>8

LEMMA ConnectInv ==
  ASSUME RingInv, NEW c \in Clients, NEW as \in {"refused", "subscriber", "publisher"},
         Connect(c, as)
  PROVE  RingInv'
<1> USE DEF Connect, StartTail, RingInv, ring, ins
<1>1. Subscribers' = IF as = "subscriber" THEN Subscribers \cup {c} ELSE Subscribers
  <2>1. conn[c] = "closed" /\ \A d \in Clients : conn'[d] = IF d = c THEN as ELSE conn[d]
    BY DEF RingTypeOK
  <2> HIDE DEF Connect, RingInv
  <2> QED
    BY <2>1 DEF Subscribers
<1>2. RingTypeOK'
  <2>1. 0 \in Offsets
    BY RingAssumption DEF Offsets
  <2>2. tail' \in [Clients -> Offsets] /\ conn' \in [Clients -> {"closed", "refused", "subscriber", "publisher"}]
    BY <2>1 DEF RingTypeOK
  <2>3. wake' \subseteq Subscribers'
    BY <1>1 DEF RingTypeOK
  <2> QED
    BY <2>2, <2>3 DEF RingTypeOK
<1>3. /\ Used' = Used /\ c \notin Subscribers
      /\ \A d \in Clients : d # c => Waiting(d)' = Waiting(d)
      /\ as = "subscriber" => Waiting(c)' = Used
  BY DEF Used, Waiting, RingTypeOK, Subscribers
<1>4. RingSafe'
  <2>1. \A k : Back(k)' = Back(k)
    BY DEF Back
  <2>2. ASSUME RingHoldsUnread, NEW d \in Subscribers' PROVE Waiting(d)' <= Used'
    <3>1. CASE d = c
      <4>1. Waiting(c)' = Used /\ Used' = Used
        BY <1>1, <1>3, <2>2, <3>1
      <4>2. Used \in Nat
        BY Sizes
      <4> QED
        BY <3>1, <4>1, <4>2
    <3>2. CASE d # c
      BY <1>1, <1>3, <2>2, <3>2, Sizes DEF RingHoldsUnread
    <3> QED
      BY <3>1, <3>2
  <2> QED
    BY <1>3, <2>1, <2>2 DEF RingSafe, RingHoldsUnread
<1>5. NoLostWakeup'
  <2> SUFFICES ASSUME ~clash, NEW d \in Subscribers', Position(d)' < owed[d] PROVE d \in wake
    BY DEF NoLostWakeup
  <2> USE DEF BeingServed
  <2>1. CASE d = c
    <3>1. Waiting(c)' = Used /\ Used <= Len(log) /\ owed[c] = 0
      BY <1>1, <1>3, <2>1 DEF RingSafe, RingHoldsUnread, ToldOfLog, Subscribers
    <3>2. Position(c)' = Len(log) - Waiting(c)'
      BY DEF Position
    <3> QED
      BY <2>1, <3>1, <3>2, Sizes
  <2>2. CASE d # c
    BY <1>1, <1>3, <2>2, Sizes DEF NoLostWakeup, Position
  <2> QED
    BY <2>1, <2>2
<1>6. InsertsUnderWay' /\ ToldOfLog' /\ WalkFindsOldest'
  BY <1>3 DEF RingTypeOK, InsertsUnderWay, ToldOfLog, WalkFindsOldest, Threads
<1> QED
  BY <1>2, <1>4, <1>5, <1>6

LEMMA CloseInv == ASSUME RingInv, NEW c \in Clients, Close(c) PROVE RingInv'
<1> USE DEF Close, RingInv, ring, ins
<1>1. Subscribers' = Subscribers \ {c}
  BY DEF Subscribers, RingTypeOK
<1>2. RingTypeOK'
  <2>1. 0 \in Offsets /\ <<>> \in Seq(Nat \ {0})
    BY RingAssumption, EmptySeq DEF Offsets
  <2>2. tail' \in [Clients -> Offsets] /\ wake' \subseteq Subscribers'
    BY <1>1, <2>1 DEF RingTypeOK
  <2> QED
    BY <2>1, <2>2 DEF RingTypeOK
<1>3. Used' = Used /\ \A d \in Clients : d # c => Waiting(d)' = Waiting(d) /\ Position(d)' = Position(d)
  BY DEF Used, Waiting, Position, RingTypeOK
<1>4. RingSafe'
  <2>1. \A k : Back(k)' = Back(k)
    BY DEF Back
  <2> QED
    BY <1>1, <1>3, <2>1, Sizes DEF RingSafe, RingHoldsUnread
<1>5. NoLostWakeup'
  BY <1>1, <1>3, Sizes DEF NoLostWakeup, BeingServed, RingTypeOK
<1>6. InsertsUnderWay' /\ ToldOfLog' /\ WalkFindsOldest'
  BY <1>3, Sizes DEF RingTypeOK, InsertsUnderWay, ToldOfLog, WalkFindsOldest, Threads
<1> QED
  BY <1>2, <1>4, <1>5, <1>6

(* A subscriber reads the message of the log that it is due, and the slots  *)
(* that this frees are behind every other subscriber.                       *)
LEMMA ReadsDue ==
  ASSUME RingInv, ~clash, NEW c \in Subscribers, Waiting(c) > 0
  PROVE  /\ Position(c) + 1 \in 1..Len(log)
         /\ slot[tail[c]] = log[Position(c) + 1] /\ slot[tail[c]] # 0
<1>1. RingTypeOK /\ RingHoldsUnread /\ c \in Clients /\ tail[c] \in Offsets
  BY Sizes DEF RingInv, RingSafe, RingTypeOK
<1>2. Waiting(c) \in 1..Used /\ Waiting(c) <= Len(log)
  BY <1>1, Sizes DEF RingHoldsUnread
<1>3. Back(Waiting(c)) = tail[c]
  BY <1>1, BackOfDist DEF RingTypeOK, Waiting
<1>4. Position(c) + 1 = Len(log) + 1 - Waiting(c) /\ Position(c) + 1 \in 1..Len(log)
  BY <1>1, <1>2, Sizes
<1>5. slot[tail[c]] = log[Position(c) + 1]
  BY <1>1, <1>2, <1>3, <1>4 DEF RingHoldsUnread
<1>6. log[Position(c) + 1] \in Nat \ {0}
  BY <1>1, <1>4, ElementOfSeq DEF RingTypeOK
<1> QED
  BY <1>4, <1>5, <1>6

(* Consuming one message moves the consumer's tail towards head by one.     *)
LEMMA ConsumeTail ==
  ASSUME RingTypeOK, NEW c \in Subscribers, Waiting(c) > 0, UNCHANGED head,
         tail' = [tail EXCEPT ![c] = After(@)]
  PROVE  /\ tail' \in [Clients -> Offsets] /\ After(tail[c]) \in Offsets
         /\ Dist(After(tail[c]), head) = Waiting(c) - 1
         /\ Waiting(c)' = Waiting(c) - 1
         /\ \A d \in Clients : d # c => Waiting(d)' = Waiting(d)
<1>1. c \in Clients /\ tail[c] \in Offsets /\ head \in Offsets
  BY Sizes DEF RingTypeOK
<1>2. /\ tail' \in [Clients -> Offsets] /\ tail'[c] = After(tail[c])
      /\ \A d \in Clients : d # c => tail'[d] = tail[d]
  BY <1>1, DistRange DEF RingTypeOK
<1> QED
  BY <1>1, <1>2, AfterShrinks, DistRange DEF Waiting

LEMMA WriteInv == ASSUME RingInv, NEW c \in Clients, Write(c) PROVE RingInv'
<1> USE DEF Write, RingInv, ring, ins
<1>1. c \in Subscribers /\ Subscribers' = Subscribers /\ wake' = wake \ {c} /\ wake \subseteq Subscribers
  BY DEF RingTypeOK, Subscribers
<1>2. Used' = Used /\ \A k : Back(k)' = Back(k)
  BY DEF Used, Back
<1>3. CASE Waiting(c) > 0 /\ slot[tail[c]] # 0
  <2>1. /\ tail' = [tail EXCEPT ![c] = After(@)]
        /\ got' = [got EXCEPT ![c] = Append(@, slot[tail[c]])]
        /\ stage' = [stage EXCEPT !["service"] = IF tail[c] = oldest THEN "walk" ELSE "written"]
        /\ walk' = [by |-> c, left |-> Subscribers, most |-> 0, oldest |-> After(tail[c])]
    BY <1>3
  <2>2. /\ tail' \in [Clients -> Offsets] /\ After(tail[c]) \in Offsets
        /\ Dist(After(tail[c]), head) = Waiting(c) - 1
        /\ Waiting(c)' = Waiting(c) - 1
        /\ \A d \in Clients : d # c => Waiting(d)' = Waiting(d)
    BY <1>1, <1>3, <2>1, ConsumeTail
  <2>3. stage' \in [Threads -> {"idle", "copied", "inserted", "walk", "written"}]
        /\ stage'["worker"] = stage["worker"] /\ stage'["service"] \in {"walk", "written"}
    BY <2>1 DEF RingTypeOK, Threads
  <2>4. RingTypeOK'
    <3>1. slot[tail[c]] \in Nat \ {0}
      BY <1>3 DEF RingTypeOK
    <3>2. got' \in [Clients -> Seq(Nat \ {0})]
      BY <2>1, <3>1, AppendProperties DEF RingTypeOK
    <3>3. walk' \in [by : Clients, left : SUBSET Clients, most : Nat, oldest : Offsets]
      BY <2>1, <2>2 DEF Subscribers
    <3> QED
      BY <1>1, <2>2, <2>3, <3>2, <3>3 DEF RingTypeOK
  <2>5. RingSafe'
    <3>1. ASSUME RingHoldsUnread, NEW d \in Subscribers PROVE Waiting(d)' <= Used
      <4>1. Waiting(d) <= Used /\ Waiting(d) \in Nat /\ Used \in Nat /\ d \in Clients
        BY <3>1, Sizes, RingAssumption DEF RingHoldsUnread
      <4> QED
        BY <2>2, <4>1
    <3> QED
      BY <1>1, <1>2, <3>1 DEF RingSafe, RingHoldsUnread
  <2>6. NoLostWakeup'
    <3> SUFFICES ASSUME ~clash, NEW d \in Subscribers, Position(d)' < owed[d], d # c
                 PROVE  d \in wake'
      BY <1>1, <2>1, <2>3 DEF NoLostWakeup, BeingServed
    <3>1. d \in Clients /\ Position(d)' = Position(d)
      BY <2>2 DEF Position, Subscribers
    <3> QED
      BY <1>1, <3>1 DEF NoLostWakeup, BeingServed
  <2>7. InsertsUnderWay'
    BY <1>2, <2>1, <2>3 DEF InsertsUnderWay, RingTypeOK, Threads
  <2>8. ToldOfLog'
    BY <1>1, <2>1 DEF ToldOfLog, Subscribers, RingTypeOK
  <2>9. WalkFindsOldest'
    <3>1. ASSUME ~clash PROVE Dist(walk'.oldest, head) <= Used
      <4>1. Waiting(c) <= Used /\ Waiting(c) \in Nat /\ Used \in Nat
        BY <1>1, <3>1, Sizes, RingAssumption DEF RingSafe, RingHoldsUnread
      <4> QED
        BY <2>1, <2>2, <4>1
    <3>2. Counted' = {} /\ walk'.most = 0 /\ walk'.by = c /\ walk'.left = Subscribers
      BY <1>1, <2>1 DEF Counted
    <3>3. stage'["worker"] \in {"idle", "copied", "inserted"}
      BY <2>3 DEF WalkFindsOldest
    <3> QED
      BY <1>1, <1>2, <3>1, <3>2, <3>3 DEF WalkFindsOldest
  <2> QED
    BY <2>4, <2>5, <2>6, <2>7, <2>8, <2>9
<1>4. CASE ~(Waiting(c) > 0 /\ slot[tail[c]] # 0)
  <2>1. UNCHANGED <<tail, got, stage, walk>>
    BY <1>4
  <2>2. UNCHANGED RingHoldsUnread /\ \A d \in Clients : Position(d)' = Position(d)
    BY <1>1, <1>2, <2>1 DEF RingHoldsUnread, Waiting, Position
  <2>3. RingTypeOK' /\ RingSafe' /\ InsertsUnderWay' /\ ToldOfLog' /\ WalkFindsOldest'
    BY <1>1, <1>2, <2>1, <2>2 DEF RingTypeOK, RingSafe, InsertsUnderWay, ToldOfLog, WalkFindsOldest
  <2>4. NoLostWakeup'
    <3> SUFFICES ASSUME ~clash, NEW d \in Subscribers, Position(d) < owed[d] PROVE d # c /\ d \in wake
      BY <1>1, <2>1, <2>2, Sizes DEF NoLostWakeup
    <3>1. d \in wake
      BY DEF NoLostWakeup, BeingServed
    <3>2. ASSUME d = c PROVE FALSE
      <4>1. Waiting(c) = 0
        BY <1>1, <1>4, ReadsDue, Sizes
      <4> QED
        BY <3>2, <4>1, Sizes DEF ToldOfLog, RingTypeOK
    <3> QED
      BY <3>1, <3>2
  <2> QED
    BY <2>3, <2>4
<1> QED
  BY <1>3, <1>4

(* One more subscriber is counted: the tail kept is behind it, too.         *)
LEMMA CountInv == ASSUME RingInv, NEW c \in Clients, Count(c) PROVE RingInv'
<1> USE DEF Count, RingInv, ring, ins
<1>1. /\ UNCHANGED <<Subscribers, Used, RingHoldsUnread>>
      /\ \A d : Waiting(d)' = Waiting(d) /\ Position(d)' = Position(d)
  BY DEF Subscribers, Used, Waiting, Position, RingHoldsUnread, Back
<1>2. walk \in [by : Clients, left : SUBSET Clients, most : Nat, oldest : Offsets]
  BY DEF RingTypeOK
<1>3. /\ walk' \in [by : Clients, left : SUBSET Clients, most : Nat, oldest : Offsets]
      /\ walk'.by = walk.by /\ walk'.left = walk.left \ {c}
  <2>1. Waiting(c) \in Nat /\ tail[c] \in Offsets
    <3>1. RingTypeOK
      OBVIOUS
    <3>2. Waiting(c) \in 0..RingSize - 1
      BY <3>1, Sizes
    <3> QED
      BY <3>1, <3>2, RingAssumption DEF RingTypeOK
  <2> QED
    BY <1>2, <2>1
<1>4. RingTypeOK' /\ RingSafe' /\ NoLostWakeup' /\ InsertsUnderWay' /\ ToldOfLog'
  BY <1>1, <1>3 DEF RingTypeOK, RingSafe, NoLostWakeup, BeingServed, InsertsUnderWay, ToldOfLog
<1>5. ASSUME ~clash
      PROVE  /\ walk'.left \subseteq Subscribers
             /\ Dist(walk'.oldest, head) <= Used
             /\ \A d \in Counted' : Waiting(d) <= Dist(walk'.oldest, head)
             /\ walk'.left # {} => walk'.most = Dist(walk'.oldest, head)
  <2>1. /\ walk.left \subseteq Subscribers /\ Dist(walk.oldest, head) <= Used
        /\ \A d \in Counted : Waiting(d) <= Dist(walk.oldest, head)
        /\ walk.most = IF Counted = {} THEN 0 ELSE Dist(walk.oldest, head)
    BY <1>5 DEF WalkFindsOldest
  <2>2. c \in Subscribers /\ Waiting(c) <= Used /\ Counted' = Counted \cup {c}
    BY <1>1, <1>3, <1>5, <2>1 DEF RingSafe, RingHoldsUnread, Counted
  <2>3. /\ \A d \in Counted \cup {c} : Waiting(d) \in Nat
        /\ Dist(walk.oldest, head) \in Nat /\ Used \in Nat
    BY <2>2, Sizes, RingAssumption DEF Counted
  <2>4. CASE NoFewer(c)
    <3>1. walk'.most = Waiting(c) /\ walk'.oldest = tail[c] /\ Dist(walk'.oldest, head) = Waiting(c)
      BY <1>2, <2>4 DEF Waiting
    <3>2. \A d \in Counted : Waiting(d) <= Waiting(c)
      BY <2>1, <2>3, <2>4 DEF NoFewer
    <3> QED
      BY <1>3, <2>1, <2>2, <2>3, <3>1, <3>2
  <2>5. CASE ~NoFewer(c)
    <3>1. walk'.most = walk.most /\ walk'.oldest = walk.oldest
      BY <1>2, <2>5
    <3>2. Counted # {} /\ Waiting(c) <= walk.most
      BY <2>1, <2>3, <2>5, <1>2 DEF NoFewer
    <3> QED
      BY <1>3, <2>1, <2>2, <3>1, <3>2
  <2> QED
    BY <2>4, <2>5
<1>6. Counted' # {}  \/ clash
  BY <1>1, <1>3 DEF Counted, WalkFindsOldest
<1>7. WalkFindsOldest'
  BY <1>1, <1>3, <1>5, <1>6 DEF WalkFindsOldest
<1> QED
  BY <1>4, <1>7

(* Slots that the oldest tail passes are behind every subscriber.           *)
LEMMA UpdateInv == ASSUME RingInv, UpdateOldest PROVE RingInv'
<1> USE DEF UpdateOldest, RingInv, ins
<1>1. RingTypeOK /\ head \in Offsets /\ oldest \in Offsets /\ walk.oldest \in Offsets
  BY DEF RingTypeOK
<1>2. /\ oldest' = walk.oldest
      /\ slot' = [i \in Offsets |-> IF Dist(oldest, i) < Dist(oldest, walk.oldest) THEN 0 ELSE slot[i]]
  BY DEF MoveOldest
<1>3. /\ Subscribers' = Subscribers /\ Used' = Dist(walk.oldest, head)
      /\ \A k : Back(k)' = Back(k)
      /\ \A d : Waiting(d)' = Waiting(d) /\ Position(d)' = Position(d)
  BY <1>2 DEF Subscribers, Used, Waiting, Position, Back
<1>4. /\ stage' \in [Threads -> {"idle", "copied", "inserted", "walk", "written"}]
      /\ stage'["service"] = "written" /\ stage'["worker"] = stage["worker"]
  BY DEF RingTypeOK, Threads
<1>5. Used' \in 0..RingSize - 1 /\ Used \in 0..RingSize - 1 /\ RingSize \in Nat
  BY <1>1, <1>3, Sizes
<1>6. slot' \in [Offsets -> Nat]
  BY <1>1, <1>2 DEF RingTypeOK
<1>7. RingTypeOK'
  BY <1>1, <1>2, <1>3, <1>4, <1>6 DEF RingTypeOK
<1>8. ASSUME ~clash
      PROVE  Used' <= Used /\ \A d \in Subscribers : Waiting(d) <= Used'
  BY <1>3, <1>8 DEF WalkFindsOldest, Counted
<1>9. ASSUME ~clash, NEW i \in Offsets, Dist(i, head) <= Used' PROVE slot'[i] = slot[i]
  <2>1. Dist(oldest, walk.oldest) = Used - Used'
    BY <1>1, <1>3, <1>8, <1>9, DistSplits DEF Used
  <2>2. Dist(i, head) \in Nat /\ Dist(i, head) <= Used
    BY <1>1, <1>5, <1>8, <1>9, DistRange, RingAssumption
  <2>3. Dist(oldest, i) = Used - Dist(i, head)
    BY <1>1, <2>2, DistSplits DEF Used
  <2>4. ~(Dist(oldest, i) < Dist(oldest, walk.oldest))
    BY <1>5, <1>9, <2>1, <2>2, <2>3
  <2> QED
    BY <1>2, <2>4
<1>10. RingSafe'
  <2> SUFFICES ASSUME ~clash PROVE RingHoldsUnread'
    BY DEF RingSafe
  <2>1. \A k \in 1..Used' : k \in 1..Used /\ slot'[Back(k)] = slot[Back(k)]
    <3> SUFFICES ASSUME NEW k \in 1..Used' PROVE k \in 1..Used /\ slot'[Back(k)] = slot[Back(k)]
      OBVIOUS
    <3>1. k \in 1..Used /\ k \in 0..RingSize - 1
      BY <1>5, <1>8
    <3>2. Back(k) \in Offsets /\ Dist(Back(k), head) = k
      BY <1>1, <3>1, BackOffset
    <3> QED
      BY <1>5, <1>9, <3>1, <3>2
  <2>2. RingHoldsUnread /\ Used' <= Len(log) /\ log' = log
    BY <1>5, <1>8, Sizes DEF RingSafe, RingHoldsUnread
  <2> QED
    BY <1>3, <1>8, <2>1, <2>2 DEF RingHoldsUnread
<1>11. NoLostWakeup'
  BY <1>3, <1>4 DEF NoLostWakeup, BeingServed
<1>12. InsertsUnderWay'
  <2>1. ASSUME ~clash PROVE slot'[head] = slot[head] /\ Used' <= Used
    <3>1. Dist(head, head) = 0 /\ 0 <= Used'
      BY <1>1, <1>5, RingAssumption DEF Offsets, Dist
    <3> QED
      BY <1>1, <1>8, <1>9, <2>1, <3>1
  <2>2. \A t \in Threads : stage'[t] = "copied" <=> stage[t] = "copied"
    BY <1>4 DEF Threads
  <2> QED
    BY <1>5, <2>1, <2>2 DEF InsertsUnderWay
<1>13. ToldOfLog' /\ WalkFindsOldest'
  BY <1>3, <1>4 DEF ToldOfLog, WalkFindsOldest
<1> QED
  BY <1>7, <1>10, <1>11, <1>12, <1>13

LEMMA AskInv == ASSUME RingInv, AskMore PROVE RingInv'
<1> USE DEF AskMore, RingInv, ring, ins
<1>1. /\ UNCHANGED <<Subscribers, Used, RingHoldsUnread>>
      /\ \A d : Waiting(d)' = Waiting(d) /\ Position(d)' = Position(d)
  BY DEF Subscribers, Used, Waiting, Position, RingHoldsUnread, Back
<1>2. /\ stage' \in [Threads -> {"idle", "copied", "inserted", "walk", "written"}]
      /\ stage'["service"] = "idle" /\ stage'["worker"] = stage["worker"]
  BY DEF RingTypeOK, Threads
<1>3. walk.by \in Subscribers
  BY DEF WalkFindsOldest
<1>4. RingTypeOK' /\ RingSafe'
  BY <1>1, <1>2, <1>3 DEF RingTypeOK, RingSafe
<1>5. NoLostWakeup'
  <2> SUFFICES ASSUME ~clash, NEW d \in Subscribers, Position(d) < owed[d] PROVE d \in wake'
    BY <1>1 DEF NoLostWakeup
  <2>1. CASE d = walk.by
    <3>1. d \in Clients /\ Position(d) < Len(log) /\ Position(d) = Len(log) - Waiting(d)
      <4>1. d \in Clients /\ Len(log) \in Nat /\ Waiting(d) \in 0..RingSize - 1
        BY Sizes
      <4>2. owed[d] \in Nat /\ owed[d] <= Len(log)
        BY <4>1 DEF ToldOfLog, RingTypeOK
      <4>3. Position(d) = Len(log) - Waiting(d)
        BY DEF Position
      <4>4. RingSize \in Nat /\ Position(d) < owed[d]
        BY RingAssumption
      <4> HIDE DEF AskMore, RingInv
      <4> QED
        BY <4>1, <4>2, <4>3, <4>4
    <3>2. Waiting(d) > 0
      BY <3>1, Sizes
    <3> QED
      BY <2>1, <3>2 DEF More
  <2>2. CASE d # walk.by
    BY <2>2 DEF NoLostWakeup, BeingServed
  <2> QED
    BY <2>1, <2>2
<1>6. InsertsUnderWay' /\ ToldOfLog' /\ WalkFindsOldest'
  BY <1>1, <1>2 DEF InsertsUnderWay, ToldOfLog, WalkFindsOldest, Threads
<1> QED
  BY <1>4, <1>5, <1>6

LEMMA RingStep == RingInv /\ [RingNext]_vars => RingInv'
<1> SUFFICES ASSUME RingInv, [RingNext]_vars PROVE RingInv'
  OBVIOUS
<1>1. CASE Broadcast
  BY <1>1, CopyInv DEF Broadcast, Threads, RingInv, RingTypeOK
<1>2. ASSUME NEW c \in Clients, Receive(c) PROVE RingInv'
  BY <1>2, CopyInv DEF Receive, Threads
<1>3. CASE UNCHANGED vars
  <2>1. UNCHANGED <<Subscribers, Used>>
    BY <1>3 DEF vars, Subscribers, Used
  <2> QED
    BY <1>3, <2>1 DEF vars, RingInv, RingTypeOK, RingSafe, RingHoldsUnread, NoLostWakeup,
       InsertsUnderWay, ToldOfLog, WalkFindsOldest, Counted, Position, BeingServed, Waiting, Back
<1> QED
  BY <1>1, <1>2, <1>3, AdvanceInv, TellInv, ConnectInv, CloseInv, WriteInv, CountInv,
     UpdateInv, AskInv DEF RingNext

(* Until the threads clash, the ring, its offsets, the inserts and the walk *)
(* under way, and the ordered callbacks stay consistent in every step.      *)
THEOREM RingInvariant == RingSpec => []RingInv
  BY RingStarts, RingStep, PTL DEF RingSpec

(* Every variable of the ring and its clients keeps its type, also after a  *)
(* clash, for any number of clients and slots.                              *)
THEOREM RingTypeCorrect == RingSpec => []RingTypeOK
<1>1. RingInv => RingTypeOK
  BY DEF RingInv
<1> QED
  BY <1>1, RingInvariant, PTL

(* Unless two inserts overlap or head moves between two counts of one walk, *)
(* no subscriber can read a slot that was freed or is being written.        *)
THEOREM TailsLieInRing == RingSpec => []RingSafe
<1>1. RingInv => RingSafe
  BY DEF RingInv
<1> QED
  BY <1>1, RingInvariant, PTL

(* Unless two inserts overlap or head moves between two counts of one walk, *)
(* a subscriber with unread messages it was told of has a callback on order *)
(* or under way.                                                            *)
THEOREM WakeupsKept == RingSpec => []NoLostWakeup
<1>1. RingInv => NoLostWakeup
  BY DEF RingInv
<1> QED
  BY <1>1, RingInvariant, PTL

-----------------------------------------------------------------------------
(* The step simulation of the fan-out log.                                  *)

LEMMA InitServes == RingInit => FanOut!Init
<1> SUFFICES ASSUME RingInit PROVE FanOut!Init
  OBVIOUS
<1> QED
  BY DEF RingInit, FanOut!Init, Subscribers

LEMMA AdvanceServes ==
  ASSUME RingInv, ~clash, NEW t \in Threads, Advance(t)
  PROVE  FanOut!Publish
<1> USE DEF Advance
<1>1. carried[t] \in 1..MaxMessages /\ log' = Append(log, carried[t])
  BY RingAssumption DEF RingInv, RingTypeOK, InsertsUnderWay
<1>2. Subscribers' = Subscribers
  BY DEF Subscribers
<1>3. \A c \in Subscribers : Waiting(c) < RingSize - 1 /\ tail[c] \in Offsets
  BY Sizes DEF RingInv, RingSafe, RingHoldsUnread, InsertsUnderWay, RingTypeOK
<1>4. Len(log') = Len(log) + 1
  BY <1>1, AppendProperties DEF RingInv, RingTypeOK
<1>5. \A c \in Subscribers : Position(c)' = Position(c)
  <2> SUFFICES ASSUME NEW c \in Subscribers PROVE Position(c)' = Position(c)
    OBVIOUS
  <2>1. Waiting(c)' = Waiting(c) + 1
    BY <1>3, AfterGrows DEF Waiting, RingInv, RingTypeOK
  <2>2. Waiting(c) \in Nat /\ Len(log) \in Nat
    BY Sizes DEF RingInv
  <2> QED
    BY <1>4, <2>1, <2>2 DEF Position
<1>6. UNCHANGED <<conn, got>>
  OBVIOUS
<1> QED
  BY <1>1, <1>2, <1>5, <1>6 DEF FanOut!Publish, Subscribers

LEMMA WriteServes ==
  ASSUME RingInv, ~clash, NEW c \in Clients, Write(c)
  PROVE  FanOut!Send(c) \/ UNCHANGED FanOut!vars
<1> USE DEF Write, ring, ins
<1>1. c \in Subscribers /\ Subscribers' = Subscribers /\ UNCHANGED <<log, conn, head>>
  BY DEF RingInv, RingTypeOK, Subscribers
<1>2. CASE Waiting(c) > 0
  <2>1. /\ Position(c) + 1 \in 1..Len(log)
        /\ slot[tail[c]] = log[Position(c) + 1] /\ slot[tail[c]] # 0
    BY <1>1, <1>2, ReadsDue
  <2>2. /\ got' = [got EXCEPT ![c] = Append(@, log[Position(c) + 1])]
        /\ tail' = [tail EXCEPT ![c] = After(@)]
    BY <1>2, <2>1
  <2>3. /\ Waiting(c)' = Waiting(c) - 1
        /\ \A d \in Clients : d # c => Waiting(d)' = Waiting(d)
    BY <1>1, <1>2, <2>2, ConsumeTail DEF RingInv, ring
  <2>4. Position(c)' = Position(c) + 1 /\ Position(c) < Len(log)
    BY <1>1, <2>1, <2>3, Sizes DEF Position, RingInv
  <2>5. \A d \in Clients : d # c => Position(d)' = Position(d)
    BY <1>1, <2>3 DEF Position
  <2> DEFINE cur == [d \in Clients |-> IF conn[d] = "subscriber" THEN Position(d) ELSE 0]
  <2>6. cur' = [cur EXCEPT ![c] = @ + 1] /\ cur[c] = Position(c)
    BY <1>1, <2>4, <2>5 DEF Subscribers
  <2> QED
    BY <1>1, <2>2, <2>4, <2>6 DEF FanOut!Send
<1>3. CASE ~(Waiting(c) > 0)
  <2>1. UNCHANGED <<got, tail>>
    BY <1>3
  <2>2. \A d \in Clients : Position(d)' = Position(d)
    BY <1>1, <2>1 DEF Position, Waiting
  <2> QED
    BY <1>1, <2>1, <2>2 DEF FanOut!vars
<1> QED
  BY <1>2, <1>3

LEMMA ConnectServes ==
  ASSUME RingInv, ~clash, NEW c \in Clients,
         NEW as \in {"refused", "subscriber", "publisher"}, Connect(c, as)
  PROVE  FanOut!Join(c) \/ UNCHANGED FanOut!vars
<1> USE DEF Connect, StartTail, ring, ins
<1> DEFINE cur == [d \in Clients |-> IF conn[d] = "subscriber" THEN Position(d) ELSE 0]
<1>1. /\ c \notin Subscribers /\ UNCHANGED <<log, got>>
      /\ Subscribers' = IF as = "subscriber" THEN Subscribers \cup {c} ELSE Subscribers
  <2>1. conn[c] = "closed" /\ \A d \in Clients : conn'[d] = IF d = c THEN as ELSE conn[d]
    BY DEF RingInv, RingTypeOK
  <2>2. UNCHANGED <<log, got>>
    OBVIOUS
  <2> HIDE DEF Connect
  <2> QED
    BY <2>1, <2>2 DEF Subscribers
<1>2. \A d \in Clients : d # c => conn'[d] = conn[d] /\ Position(d)' = Position(d)
  BY DEF RingInv, RingTypeOK, Position, Waiting
<1>3. conn'[c] = as /\ conn[c] = "closed"
  BY DEF RingInv, RingTypeOK
<1>4. CASE as = "subscriber"
  <2>1. Position(c)' = Len(log) - Used
    BY <1>4 DEF RingInv, RingTypeOK, Position, Waiting, Used
  <2>2. Used <= Len(log) /\ Used \in 0..RingSize - 1 /\ Len(log) \in Nat /\ RingSize \in Nat
    BY Sizes DEF RingInv, RingSafe, RingHoldsUnread
  <2>3. Position(c)' \in 0..Len(log) /\ Position(c)' + (RingSize - 1) >= Len(log)
    BY <2>1, <2>2
  <2>4. cur' = [cur EXCEPT ![c] = Position(c)']
    BY <1>2, <1>3, <1>4
  <2> QED
    BY <1>1, <1>4, <2>3, <2>4 DEF FanOut!Join
<1>5. CASE as # "subscriber"
  <2>1. cur' = cur
    BY <1>2, <1>3, <1>5
  <2> QED
    BY <1>1, <1>5, <2>1 DEF FanOut!vars
<1> QED
  BY <1>4, <1>5

LEMMA CloseServes ==
  ASSUME RingInv, NEW c \in Clients, Close(c)
  PROVE  FanOut!Leave(c) \/ UNCHANGED FanOut!vars
<1> USE DEF Close, ring, ins
<1> DEFINE cur == [d \in Clients |-> IF conn[d] = "subscriber" THEN Position(d) ELSE 0]
<1>1. Subscribers' = Subscribers \ {c} /\ UNCHANGED log
  BY DEF RingInv, RingTypeOK, Subscribers
<1>2. \A d \in Clients : d # c => conn'[d] = conn[d] /\ Position(d)' = Position(d)
  BY DEF RingInv, RingTypeOK, Position, Waiting
<1>3. conn'[c] = "closed"
  BY DEF RingInv, RingTypeOK
<1>4. cur' = [cur EXCEPT ![c] = 0]
  BY <1>2, <1>3
<1>5. CASE c \in Subscribers
  BY <1>1, <1>4, <1>5 DEF FanOut!Leave
<1>6. CASE c \notin Subscribers
  <2>1. got[c] = <<>> /\ cur[c] = 0
    BY <1>6 DEF RingInv, ToldOfLog, Subscribers
  <2>2. got' = got /\ cur' = cur
    BY <1>4, <2>1 DEF RingInv, RingTypeOK
  <2> QED
    BY <1>1, <1>6, <2>2 DEF FanOut!vars
<1> QED
  BY <1>5, <1>6

LEMMA StepServes ==
  RingInv /\ [RingNext]_vars => [clash' \/ FanOut!Next]_(FanOut!vars)
<1> SUFFICES ASSUME RingInv, [RingNext]_vars, ~clash'
             PROVE  FanOut!Next \/ UNCHANGED FanOut!vars
  OBVIOUS
<1>1. ASSUME NEW t \in Threads, Copy(t) PROVE ~clash /\ UNCHANGED FanOut!vars
  BY <1>1 DEF Copy, FanOut!vars, Subscribers, Position, Waiting
<1>2. ASSUME NEW t \in Threads, Tell(t) PROVE UNCHANGED FanOut!vars
  BY <1>2 DEF Tell, FanOut!vars, Subscribers, Position, Waiting
<1>3. CASE Broadcast
  BY <1>1, <1>3 DEF Broadcast, Threads
<1>4. ASSUME NEW c \in Clients, Receive(c) PROVE UNCHANGED FanOut!vars
  BY <1>1, <1>4 DEF Receive, Threads
<1>5. ASSUME NEW t \in Threads, Advance(t) PROVE FanOut!Publish
  BY <1>5, AdvanceServes DEF Advance
<1>6. ASSUME NEW c \in Clients, Write(c) PROVE FanOut!Send(c) \/ UNCHANGED FanOut!vars
  BY <1>6, WriteServes DEF Write, ins
<1>7. ASSUME NEW c \in Clients, NEW as \in {"refused", "subscriber", "publisher"}, Connect(c, as)
      PROVE  FanOut!Join(c) \/ UNCHANGED FanOut!vars
  BY <1>7, ConnectServes DEF Connect, ins
<1>8. CASE UNCHANGED vars
  BY <1>8 DEF vars, FanOut!vars, Subscribers, Position, Waiting
<1>9. ASSUME NEW c \in Clients, Count(c) PROVE UNCHANGED FanOut!vars
  BY <1>9 DEF Count, ring, ins, FanOut!vars, Subscribers, Position, Waiting
<1>10. CASE UpdateOldest \/ AskMore
  BY <1>10 DEF UpdateOldest, AskMore, ring, ins, FanOut!vars, Subscribers, Position, Waiting
<1> QED
  BY <1>2, <1>3, <1>4, <1>5, <1>6, <1>7, <1>8, <1>9, <1>10, CloseServes DEF RingNext, FanOut!Next

(* Until two inserts overlap or head moves between two counts of one walk,  *)
(* every step of the two threads is a step of the fan-out log or none: a    *)
(* subscriber is sent a gap-free run of the messages.                       *)
THEOREM RingServesLikeFanOut == RingSpec => ServesLikeFanOut
<1> QED
  BY InitServes, StepServes, RingInvariant, PTL DEF RingSpec, ServesLikeFanOut

-----------------------------------------------------------------------------
(* The event manager.                                                      *)

(* The lengths and indices the steps below compute with.                    *)
LEMMA BusLengths ==
  ASSUME TypeOK
  PROVE  /\ Len(consumers) \in Nat /\ Len(queue) \in Nat /\ Len(accepted) \in Nat
         /\ \A i \in 1..Len(consumers) :
              consumers[i].filter \in Filters /\ consumers[i].seen \in Nat
<1>1. Len(consumers) \in Nat /\ Len(queue) \in Nat /\ Len(accepted) \in Nat
  BY LenProperties DEF TypeOK
<1>2. \A i \in 1..Len(consumers) : consumers[i] \in Consumer
  BY ElementOfSeq DEF TypeOK
<1> QED
  BY <1>1, <1>2 DEF Consumer

LEMMA BusInit == Init => BusInv
<1> SUFFICES ASSUME Init PROVE BusInv
  OBVIOUS
<1> USE DEF Init
<1>1. TypeOK
  <2>1. <<>> \in Seq(Consumer) /\ <<>> \in Seq(Events) /\ Len(<<>>) = 0
    BY EmptySeq
  <2>2. last \in 0..Len(consumers) /\ pos \in 1..last + 1 /\ taken \in Nat
    BY <2>1
  <2> QED
    BY <2>1, <2>2 DEF TypeOK
<1>2. QueueIsRestOfLog
  BY DEF QueueIsRestOfLog
<1>3. NoConsumerFallsBehind
  BY DEF NoConsumerFallsBehind
<1>4. DispatchIsCurrent
  BY DEF DispatchIsCurrent, Active
<1> QED
  BY <1>1, <1>2, <1>3, <1>4 DEF BusInv

LEMMA FireKeeps == ASSUME BusInv, NEW e \in Events, FireNewEvent(e) PROVE BusInv'
<1> USE BusLengths DEF FireNewEvent, BusInv, Add
<1>1. /\ queue' \in Seq(Events) /\ Len(queue') = Len(queue) + 1
      /\ \A i \in 1..Len(queue) : queue'[i] = queue[i]
      /\ queue'[Len(queue) + 1] = e
  BY AppendProperties DEF TypeOK
<1>2. /\ accepted' \in Seq(Events) /\ Len(accepted') = Len(accepted) + 1
      /\ \A i \in 1..Len(accepted) : accepted'[i] = accepted[i]
      /\ accepted'[Len(accepted) + 1] = e
  BY AppendProperties DEF TypeOK
<1>3. TypeOK'
  BY <1>1, <1>2 DEF TypeOK
<1>4. QueueIsRestOfLog'
  <2>1. taken \in Nat /\ taken + Len(queue') = Len(accepted') /\ taken' = taken
    <3>1. taken \in Nat /\ taken + Len(queue) = Len(accepted) /\ taken' = taken
      BY DEF TypeOK, QueueIsRestOfLog
    <3>2. Len(queue') = Len(queue) + 1 /\ Len(accepted') = Len(accepted) + 1
      BY <1>1, <1>2
    <3>3. Len(queue) \in Nat /\ Len(accepted) \in Nat
      OBVIOUS
    <3> HIDE DEF FireNewEvent, BusInv
    <3> QED
      BY <3>1, <3>2, <3>3
  <2>2. ASSUME NEW i \in 1..Len(queue') PROVE queue'[i] = accepted'[taken + i]
    <3>1. CASE i = Len(queue) + 1
      BY <1>1, <1>2, <2>1, <3>1
    <3>2. CASE i # Len(queue) + 1
      <4>1. i \in 1..Len(queue) /\ taken + i \in 1..Len(accepted)
        BY <1>1, <2>1, <3>2 DEF QueueIsRestOfLog
      <4>2. queue[i] = accepted[taken + i]
        BY <4>1 DEF QueueIsRestOfLog
      <4> QED
        BY <1>1, <1>2, <4>1, <4>2
    <3> QED
      BY <3>1, <3>2
  <2> QED
    BY <2>1, <2>2 DEF QueueIsRestOfLog
<1>5. \A p \in 1..taken : accepted'[p] = accepted[p]
  BY <1>2 DEF TypeOK, QueueIsRestOfLog
<1>6. NoConsumerFallsBehind'
  <2> SUFFICES ASSUME NEW i \in 1..Len(consumers), NEW p \in consumers[i].seen + 1 .. taken,
                      Wants(consumers[i].filter, accepted[p])
               PROVE  /\ p = taken /\ event # Idle
                      /\ worker \in {"dispatch", "callback", "crashed"} /\ i \in Outstanding
    <3>1. Outstanding' = Outstanding
      BY DEF Outstanding
    <3>2. \A i \in 1..Len(consumers) : \A p \in consumers[i].seen + 1 .. taken : p \in 1..taken
      BY DEF TypeOK
    <3> QED
      BY <1>5, <3>1, <3>2 DEF NoConsumerFallsBehind
  <2> QED
    BY DEF NoConsumerFallsBehind
<1>7. DispatchIsCurrent'
  <2>1. taken \in Nat
    BY DEF TypeOK
  <2>2. ASSUME taken > 0 PROVE accepted'[taken] = accepted[taken]
    <3>1. taken \in 1..taken
      BY <2>1, <2>2
    <3> QED
      BY <1>5, <3>1
  <2> QED
    BY <2>2 DEF DispatchIsCurrent, Outstanding, Active
<1> QED
  BY <1>3, <1>4, <1>6, <1>7

LEMMA RegisterKeeps == ASSUME BusInv, NEW f \in Filters, RegisterMe(f) PROVE BusInv'
<1> USE BusLengths DEF RegisterMe, BusInv
<1>1. /\ consumers' \in Seq(Consumer) /\ Len(consumers') = Len(consumers) + 1
      /\ \A i \in 1..Len(consumers) : consumers'[i] = consumers[i]
      /\ consumers'[Len(consumers')].seen = taken
  BY DEF TypeOK, Consumer
<1>2. TypeOK'
  BY <1>1 DEF TypeOK
<1>3. QueueIsRestOfLog'
  BY DEF QueueIsRestOfLog
<1>4. NoConsumerFallsBehind'
  BY <1>1 DEF TypeOK, NoConsumerFallsBehind, Outstanding
<1>5. DispatchIsCurrent'
  BY <1>1 DEF TypeOK, DispatchIsCurrent, Outstanding, Active
<1> QED
  BY <1>2, <1>3, <1>4, <1>5

LEMMA TakeKeeps == ASSUME BusInv, TakeEvent PROVE BusInv'
<1> USE BusLengths DEF TakeEvent, StartDispatch, BusInv
<1>1. /\ queue' \in Seq(Events) /\ event' \in Events /\ Len(queue') = Len(queue) - 1
      /\ event' = accepted[taken'] /\ taken' = taken + 1
      /\ \A i \in 1..Len(queue') : queue'[i] = queue[i + 1]
  <2>1. queue \in Seq(Events) /\ Head(queue) = queue[1] /\ Len(queue) >= 1
    BY EmptySeq DEF TypeOK
  <2>2. queue[1] = accepted[taken + 1]
    BY <2>1 DEF QueueIsRestOfLog
  <2> QED
    BY <2>1, <2>2, HeadTailProperties
<1>2. TypeOK'
  <2>1. last' \in 0..Len(consumers') /\ pos' \in 1..last' + 1 /\ taken' \in Nat
    BY DEF TypeOK
  <2> QED
    BY <1>1, <2>1 DEF TypeOK
<1>3. QueueIsRestOfLog'
  BY <1>1 DEF TypeOK, QueueIsRestOfLog
<1>4. event' # Idle
  BY <1>1, BusAssumption
<1>5. NoConsumerFallsBehind'
  BY <1>1, <1>4 DEF TypeOK, NoConsumerFallsBehind, DispatchIsCurrent, Outstanding
<1>6. DispatchIsCurrent'
  <2>1. \A i \in 1..Len(consumers) : consumers[i].seen < taken'
    BY <1>1 DEF TypeOK, DispatchIsCurrent
  <2>2. \A i \in Outstanding' : i \in 1..Len(consumers)
    BY DEF Outstanding
  <2> QED
    BY <1>1, <2>1, <2>2 DEF TypeOK, DispatchIsCurrent, Active
<1> QED
  BY <1>2, <1>3, <1>5, <1>6

LEMMA CallKeeps == ASSUME BusInv, CallConsumer PROVE BusInv'
<1> USE BusLengths DEF CallConsumer, BusInv
<1>1. pos \in 1..Len(consumers) /\ last \in Nat /\ taken \in Nat
  BY DEF TypeOK
<1>2. /\ consumers' \in Seq(Consumer) /\ Len(consumers') = Len(consumers)
      /\ \A i \in 1..Len(consumers) :
           /\ consumers'[i].filter = consumers[i].filter
           /\ i # pos => consumers'[i].seen = consumers[i].seen
           /\ i = pos => consumers'[i].seen = IF event = Idle THEN consumers[i].seen
                                                              ELSE taken
  <2>1. CASE event = Idle
    BY <2>1 DEF TypeOK
  <2>2. CASE event # Idle
    <3> DEFINE c == [consumers[pos] EXCEPT !.seen = taken]
    <3>1. consumers[pos] \in Consumer
      BY <1>1, ElementOfSeq DEF TypeOK
    <3>2. c \in Consumer /\ c.filter = consumers[pos].filter /\ c.seen = taken
      BY <1>1, <3>1 DEF Consumer
    <3>3. consumers' = [consumers EXCEPT ![pos] = c]
      BY <2>2
    <3> HIDE DEF c
    <3> QED
      BY <1>1, <2>2, <3>2, <3>3, ExceptSeq DEF TypeOK
  <2> QED
    BY <2>1, <2>2
<1>3. TypeOK'
  BY <1>2 DEF TypeOK
<1>4. QueueIsRestOfLog'
  BY DEF QueueIsRestOfLog
<1>5. NoConsumerFallsBehind'
  <2> SUFFICES ASSUME NEW i \in 1..Len(consumers), NEW p \in consumers'[i].seen + 1 .. taken,
                      Wants(consumers[i].filter, accepted[p])
               PROVE  p = taken /\ event # Idle /\ i \in pos + 1 .. last
    BY <1>2 DEF NoConsumerFallsBehind, Outstanding
  <2>1. p \in consumers[i].seen + 1 .. taken /\ (i = pos => event = Idle)
    BY <1>1, <1>2
  <2>2. p = taken /\ event # Idle /\ i \in pos..last
    BY <2>1 DEF NoConsumerFallsBehind, Outstanding
  <2> QED
    BY <1>1, <2>1, <2>2
<1>6. DispatchIsCurrent'
  BY <1>1, <1>2 DEF TypeOK, DispatchIsCurrent, Outstanding, Active
<1> QED
  BY <1>3, <1>4, <1>5, <1>6

(* The loop steps that only move the iterator or change the worker's place. *)
LEMMA LoopKeeps ==
  ASSUME BusInv,
         TestRun \/ TimeOut \/ SkipConsumer \/ CallbackReturns \/ CallbackThrows
           \/ StaleRead \/ EndDispatch \/ Deinit \/ UNCHANGED busVars
  PROVE  BusInv'
<1> USE BusLengths DEF BusInv
<1>1. TypeOK'
  <2>1. pos \in Nat /\ last \in 0..Len(consumers) /\ Len(consumers) \in Nat
    BY DEF TypeOK
  <2>2. CASE TimeOut
    <3>1. last' \in 0..Len(consumers') /\ pos' \in 1..last' + 1
      BY <2>1, <2>2 DEF TimeOut, StartDispatch
    <3> QED
      BY <2>2, <3>1 DEF TypeOK, TimeOut, StartDispatch
  <2>3. CASE SkipConsumer \/ CallbackReturns
    <3>1. pos <= last /\ pos' = pos + 1
      BY <2>3 DEF SkipConsumer, CallbackReturns, NextIn, DispatchIsCurrent
    <3>2. pos' \in 1..last + 1
      BY <2>1, <3>1
    <3> QED
      BY <2>3, <3>2 DEF TypeOK, SkipConsumer, CallbackReturns
  <2>4. CASE TestRun \/ CallbackThrows \/ StaleRead \/ EndDispatch \/ Deinit
                         \/ UNCHANGED busVars
    BY <2>4 DEF TypeOK, TestRun, CallbackThrows, StaleRead, EndDispatch,
       Deinit, busVars
  <2> QED
    BY <2>2, <2>3, <2>4
<1>2. /\ UNCHANGED <<consumers, queue, accepted, taken>>
      /\ event' = event \/ event' = Idle
  BY DEF TestRun, TimeOut, StartDispatch, SkipConsumer, CallbackReturns,
     CallbackThrows,
     StaleRead, EndDispatch, Deinit, busVars
<1>3. QueueIsRestOfLog'
  BY <1>2 DEF QueueIsRestOfLog
<1>4. NoConsumerFallsBehind'
  <2> SUFFICES ASSUME NEW i \in 1..Len(consumers), NEW p \in consumers[i].seen + 1 .. taken,
                      Wants(consumers[i].filter, accepted[p])
               PROVE  /\ p = taken /\ event' # Idle
                      /\ worker' \in {"dispatch", "callback", "crashed"} /\ i \in Outstanding'
    BY <1>2 DEF NoConsumerFallsBehind
  <2>1. /\ p = taken /\ event # Idle
        /\ worker \in {"dispatch", "callback", "crashed"} /\ i \in Outstanding
    BY DEF NoConsumerFallsBehind
  <2>2. pos \in Nat /\ last \in Nat
    BY DEF TypeOK
  <2>3. CASE SkipConsumer
    <3>1. i # pos
      BY <2>1, <2>3 DEF SkipConsumer, DispatchIsCurrent, Active
    <3> QED
      BY <2>1, <2>2, <2>3, <3>1 DEF SkipConsumer, NextIn, Outstanding
  <2>4. CASE CallbackReturns \/ CallbackThrows
    BY <2>1, <2>2, <2>4 DEF CallbackReturns, CallbackThrows, NextIn, Outstanding
  <2>5. CASE StaleRead \/ Deinit \/ UNCHANGED busVars
    BY <2>1, <2>5 DEF StaleRead, Deinit, Outstanding, busVars
  <2>6. ~TestRun /\ ~TimeOut /\ ~EndDispatch
    BY <2>1, <2>2 DEF TestRun, TimeOut, EndDispatch, Outstanding
  <2> QED
    BY <2>3, <2>4, <2>5, <2>6
<1>5. DispatchIsCurrent'
  <2>1. pos \in Nat /\ last \in Nat
    BY DEF TypeOK
  <2> QED
    BY <1>2, <2>1 DEF DispatchIsCurrent, Outstanding, Active, TestRun,
       TimeOut, StartDispatch,
       SkipConsumer, CallbackReturns, CallbackThrows, StaleRead,
       EndDispatch, Deinit, NextIn, busVars
<1> QED
  BY <1>1, <1>3, <1>4, <1>5

LEMMA BusNext ==
  BusInv /\ [Next]_busVars => BusInv'
  BY FireKeeps, RegisterKeeps, TakeKeeps, CallKeeps, LoopKeeps DEF Next, WorkerStep

(* The event manager's inductive invariant: the queue, the event in hand    *)
(* and the consumers still ahead of it agree with the log of all accepted   *)
(* events, for any number of events, consumers and filters.                 *)
THEOREM BusInvariant == Spec => []BusInv
  BY BusInit, BusNext, PTL DEF Spec

(* However registrations, firing threads and the worker interleave, no     *)
(* consumer misses an event it wants that was taken since it registered.   *)
THEOREM ConsumersInStep == Spec => []NoConsumerFallsBehind
<1>1. BusInv => NoConsumerFallsBehind
  BY DEF BusInv
<1> QED
  BY <1>1, BusInvariant, PTL

-----------------------------------------------------------------------------
LEMMA BusInitRefines == Init => Log!Init
  BY DEF Init, Log!Init

(* A call of a consumer hands it the next event of the log it wants.        *)
LEMMA CallRefines ==
  ASSUME BusInv, CallConsumer, event # Idle
  PROVE  pos \in DOMAIN consumers /\ Log!Deliver(pos)
<1> USE BusLengths DEF BusInv, CallConsumer
<1>1. /\ pos \in 1..Len(consumers) /\ pos \in DOMAIN consumers
      /\ pos \in Outstanding /\ taken \in Nat
  BY LenProperties DEF TypeOK, Outstanding
<1>2. /\ taken \in consumers[pos].seen + 1 .. Len(accepted)
      /\ event = accepted[taken]
  BY <1>1 DEF DispatchIsCurrent, Active, TypeOK, QueueIsRestOfLog
<1>3. Log!Matches(consumers[pos].filter, accepted[taken])
  BY <1>2 DEF Wants, Log!Matches
<1>4. \A q \in consumers[pos].seen + 1 .. taken - 1 :
        ~Log!Matches(consumers[pos].filter, accepted[q])
  BY <1>1 DEF NoConsumerFallsBehind, Wants, Log!Matches
<1>5. consumers' = [consumers EXCEPT ![pos].seen = taken] /\ UNCHANGED accepted
  OBVIOUS
<1> QED
  BY <1>1, <1>2, <1>3, <1>4, <1>5 DEF Log!Deliver

(* A registration joins behind everything that was handed out before.       *)
LEMMA RegisterRefines ==
  ASSUME BusInv, NEW f \in Filters, RegisterMe(f)
  PROVE  Log!Join(f)
<1> USE BusLengths DEF BusInv, RegisterMe
<1>1. taken \in 0..Len(accepted)
  BY DEF TypeOK, QueueIsRestOfLog
<1>2. \A i \in DOMAIN consumers : consumers[i].seen <= taken
  BY LenProperties DEF TypeOK, DispatchIsCurrent
<1>3. consumers' = Append(consumers, [filter |-> f, seen |-> taken]) /\ UNCHANGED accepted
  OBVIOUS
<1> QED
  BY <1>1, <1>2, <1>3 DEF Log!Join

LEMMA BusNextRefines == BusInv /\ [Next]_busVars => [Log!Next]_(Log!vars)
<1> SUFFICES ASSUME BusInv, [Next]_busVars PROVE [Log!Next]_(Log!vars)
  OBVIOUS
<1>1. ASSUME NEW e \in Events, FireNewEvent(e) PROVE Log!Accept(e)
  BY <1>1 DEF FireNewEvent, Log!Accept
<1>2. CASE CallConsumer
  BY <1>2, CallRefines DEF Log!Next, Log!vars, CallConsumer
<1>3. CASE TestRun \/ TakeEvent \/ TimeOut \/ SkipConsumer \/ CallbackReturns
             \/ CallbackThrows \/ StaleRead \/ EndDispatch \/ Deinit
             \/ UNCHANGED busVars
  BY <1>3 DEF TestRun, TakeEvent, TimeOut, SkipConsumer, CallbackReturns,
     CallbackThrows,
     StaleRead, EndDispatch, Deinit, busVars, Log!vars
<1> QED
  BY <1>1, <1>2, <1>3, RegisterRefines DEF Next, WorkerStep, Log!Next

(* The event manager implements the broadcast log: in-order, gap-free and  *)
(* single delivery to each consumer, from the event after it registered.   *)
THEOREM BusImplementsLog == Spec => ImplementsBroadcastLog
<1> QED
  BY BusInitRefines, BusNextRefines, BusInvariant, PTL DEF Spec,
     ImplementsBroadcastLog, Log!Spec
=============================================================================
