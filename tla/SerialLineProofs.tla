-------------------------- MODULE SerialLineProofs ---------------------------
(***************************************************************************)
(* SerialLine for any buffer, sentences and noise.                         *)
(***************************************************************************)
EXTENDS SerialLine, SequenceTheorems, WellFoundedInduction, TLAPS

LEMMA Least == ASSUME NEW S, S \subseteq Nat, S # {} PROVE \E x \in S : \A y \in S : x <= y
<1> DEFINE R == {p \in Nat \X Nat : p[1] < p[2]}
<1>1. IsWellFoundedOn(R, Nat)
  <2> SUFFICES ASSUME NEW f \in [Nat -> Nat], \A n \in Nat : <<f[n + 1], f[n]>> \in R PROVE FALSE
    BY DEF IsWellFoundedOn
  <2> QED
    BY NatLessThanWellFounded DEF IsWellFoundedOn, OpToRel
<1>2. PICK x \in S : \A y \in S : <<y, x>> \notin R
  BY <1>1, WFMin
<1>3. ASSUME NEW y \in S PROVE x <= y
  <2>1. x \in Nat /\ y \in Nat /\ <<y, x>> \in Nat \X Nat /\ <<y, x>> \notin R
    BY <1>2
  <2>2. ~(<<y, x>>[1] < <<y, x>>[2])
    BY <2>1
  <2> QED
    BY <2>1, <2>2
<1> QED
  BY <1>2, <1>3

LEMMA MinFacts ==
  ASSUME NEW S, S \subseteq Nat, S # {} PROVE Min(S) \in S /\ \A y \in S : Min(S) <= y
  BY Least DEF Min

LEMMA MaxFacts ==
  ASSUME NEW n \in Nat, NEW S, S \subseteq -1..n, S # {}
  PROVE  Max(S) \in S /\ \A y \in S : y <= Max(S)
<1> DEFINE T == {n - x : x \in S}
<1>1. T \subseteq Nat /\ T # {}
  <2>1. \A x \in S : x \in Int /\ n - x \in Nat
    OBVIOUS
  <2> QED
    BY <2>1
<1>2. PICK t \in T : \A y \in T : t <= y
  BY <1>1, Least
<1>3. PICK x \in S : t = n - x
  OBVIOUS
<1>4. \A y \in S : y \in Int /\ y <= x
  <2>1. \A y \in S : y \in Int /\ n - y \in T
    OBVIOUS
  <2> QED
    BY <1>2, <1>3, <2>1
<1> QED
  BY <1>4 DEF Max

-----------------------------------------------------------------------------
(* The lines in the buffer.                                                *)

LEMMA EndsFacts ==
  ASSUME NEW m, NEW end \in Nat
  PROVE  Ends(m, end) \subseteq Nat /\ \A p \in Ends(m, end) : p \in Nat /\ p < end /\ m[p] = LF
  BY DEF Ends

\* AnalyseBuffer goes up to a line that is bad, or to the end.
LEMMA StopFacts ==
  ASSUME NEW m, NEW end \in Nat
  PROVE  /\ Stop(m, end) \in 0..end
         /\ Stop(m, end) = end \/ (Stop(m, end) \in Ends(m, end) /\ Sentence(m, Stop(m, end)) \in bad)
         /\ \A p \in Ends(m, end) : Sentence(m, p) \in bad => Stop(m, end) <= p
<1> DEFINE S == {end} \cup {p \in Ends(m, end) : Sentence(m, p) \in bad}
<1>1. S \subseteq Nat /\ S # {} /\ end \in S
  BY EndsFacts
<1>2. Min(S) \in S /\ \A p \in S : Min(S) <= p
  BY <1>1, MinFacts
<1>3. Stop(m, end) = Min(S)
  BY DEF Stop
<1>4. Min(S) \in Nat /\ Min(S) <= end
  BY <1>1, <1>2
<1>5. Min(S) = end \/ (Min(S) \in Ends(m, end) /\ Sentence(m, Min(S)) \in bad)
  BY <1>2
<1>6. \A p \in Ends(m, end) : Sentence(m, p) \in bad => Min(S) <= p
  BY <1>2
<1> HIDE DEF S
<1> QED
  BY <1>3, <1>4, <1>5, <1>6

\* What follows the last line feed.
LEMMA FromFacts ==
  ASSUME NEW m, NEW end \in Nat
  PROVE  /\ From(m, end) \in 0..end
         /\ From(m, end) = 0 \/ From(m, end) - 1 \in Ends(m, end)
         /\ \A p \in Ends(m, end) : p < From(m, end)
<1> DEFINE S == {-1} \cup Ends(m, end)
<1>1. S \subseteq -1..end /\ S # {}
  BY EndsFacts
<1>2. Max(S) \in S /\ \A p \in S : p <= Max(S)
  BY <1>1, MaxFacts
<1>3. From(m, end) = 1 + Max(S)
  BY DEF From
<1>4. Max(S) = -1 \/ (Max(S) \in Ends(m, end) /\ Max(S) \in Nat /\ Max(S) < end)
  BY <1>2, EndsFacts
<1>5. \A p \in Ends(m, end) : p \in Nat /\ p <= Max(S)
  BY <1>2, EndsFacts
<1> HIDE DEF S
<1> QED
  BY <1>3, <1>4, <1>5

LEMMA SentenceFacts ==
  ASSUME NEW m \in [Cells -> Int], NEW p \in Cells
  PROVE  Sentence(m, p) \in Nat
<1> DEFINE S == {i \in Received(m, p) : m[i] > 0}
           Nuls == {i \in Cells : m[i] = NUL} \cup {Capacity}
<1>0. Capacity \in Nat /\ p \in Nat /\ p < Capacity
  BY SerialAssumption DEF Cells
<1>1. Received(m, p) \subseteq Cells
  <2>1. From(m, p) \in 0..p
    BY <1>0, FromFacts
  <2>2. Nuls \subseteq Nat /\ Nuls # {} /\ Capacity \in Nuls
    BY <1>0 DEF Cells
  <2>3. Min(Nuls) \in Nat /\ Min(Nuls) <= Capacity
    BY <2>2, MinFacts
  <2>4. Received(m, p) = IF p > From(m, p) THEN From(m, p) .. p - 2 ELSE p .. Min(Nuls) - 1
    BY DEF Received
  <2> HIDE DEF Nuls
  <2> QED
    BY <1>0, <2>1, <2>3, <2>4 DEF Cells
<1>2. CASE p < 2 \/ S = {}
  BY <1>2 DEF Sentence
<1>3. CASE ~(p < 2) /\ S # {}
  <2>1. S \subseteq -1..Capacity
    BY <1>0, <1>1 DEF Cells
  <2>2. Max(S) \in S
    BY <1>0, <1>3, <2>1, MaxFacts
  <2>3. m[Max(S)] \in Int /\ m[Max(S)] > 0
    BY <1>1, <2>2
  <2>4. Sentence(m, p) = m[Max(S)]
    BY <1>3 DEF Sentence
  <2> QED
    BY <2>3, <2>4
<1> QED
  BY <1>2, <1>3

-----------------------------------------------------------------------------
(* What a read makes of the buffer.                                        *)

At     == IF Overrun THEN 0 ELSE pos
Taken  == Min({Len(tty), Capacity})
Filled == [i \in Cells |-> IF i \in At .. At + Taken - 1 THEN tty[i - At + 1] ELSE memory[i]]
Kept   == IF Overrun THEN <<>> ELSE took
Known  == IF Overrun THEN {} ELSE heard

LEMMA ReadDoes ==
  ASSUME Read
  PROVE  /\ AnalyseBuffer(Filled, At + Taken)
         /\ tty' = SubSeq(tty, Taken + 1, Len(tty)) /\ took' = Kept \o SubSeq(tty, 1, Taken)
         /\ heard' = Known \cup {Sentence(Filled, p) : p \in Decoded(Filled, At + Taken)}
         /\ ordered' = /\ Overrun \/ ordered
                       /\ \A p \in Decoded(Filled, At + Taken), h \in Known : h < Sentence(Filled, p)
                       /\ \A p, q \in Decoded(Filled, At + Taken) :
                            p < q => Sentence(Filled, p) < Sentence(Filled, q)
         /\ loop = "polling" /\ tty # <<>> /\ loop' = "head" /\ UNCHANGED <<main, run, device>>
  BY DEF Read, At, Taken, Filled, Kept, Known

LEMMA ReadFacts ==
  ASSUME TypeOK, Read
  PROVE  /\ At \in Nat /\ Taken \in Nat \ {0} /\ At + Taken <= Capacity /\ Capacity \in Nat
         /\ Taken <= Len(tty) /\ Len(tty) \in Nat
         /\ Filled \in [Cells -> Int] /\ Kept \in Seq(Int) /\ Known \subseteq Int
         /\ \A i \in 0 .. At - 1 : Filled[i] = memory[i]
         /\ \A i \in At .. At + Taken - 1 : Filled[i] = tty[i - At + 1]
         /\ Overrun => At = 0 /\ Kept = <<>>
         /\ ~Overrun => At = pos /\ Kept = took /\ Taken = Len(tty)
<1>0. /\ Capacity \in Nat \ {0} /\ tty \in Seq(Int) /\ memory \in [Cells -> Int] /\ pos \in 0..Capacity
      /\ took \in Seq(Int) /\ heard \subseteq Int /\ tty # <<>>
  BY SerialAssumption DEF TypeOK, Read
<1>1. Len(tty) \in Nat \ {0} /\ \A i \in 1..Len(tty) : tty[i] \in Int
  BY <1>0, EmptySeq, LenProperties, ElementOfSeq
<1>2. /\ Taken \in Nat \ {0} /\ Taken <= Capacity /\ Taken <= Len(tty)
      /\ Taken = Capacity \/ Taken = Len(tty)
  <2> DEFINE S == {Len(tty), Capacity}
  <2>1. S \subseteq Nat /\ S # {}
    BY <1>0, <1>1
  <2>2. Min(S) \in S /\ \A y \in S : Min(S) <= y
    BY <2>1, MinFacts
  <2> QED
    BY <1>0, <1>1, <2>2 DEF Taken
<1>3. CASE Overrun
  <2>1. At = 0 /\ Kept = <<>> /\ Known = {}
    BY <1>3 DEF At, Kept, Known
  <2>2. \A i \in Cells : (i \in At .. At + Taken - 1) => i - At + 1 \in 1..Len(tty)
    BY <1>1, <1>2, <2>1 DEF Cells
  <2>3. Filled \in [Cells -> Int]
    BY <1>0, <1>1, <2>2 DEF Filled
  <2>4. \A i \in At .. At + Taken - 1 : i \in Cells
    BY <1>0, <1>2, <2>1 DEF Cells
  <2>5. \A i \in At .. At + Taken - 1 : Filled[i] = tty[i - At + 1]
    BY <2>4 DEF Filled
  <2> QED
    BY <1>0, <1>1, <1>2, <1>3, <2>1, <2>3, <2>5
<1>4. CASE ~Overrun
  <2>1. At = pos /\ Kept = took /\ Known = heard
    BY <1>4 DEF At, Kept, Known
  <2>2. Taken = Len(tty) /\ At + Taken <= Capacity
    BY <1>0, <1>1, <1>2, <1>4, <2>1 DEF Overrun
  <2>3. \A i \in Cells : (i \in At .. At + Taken - 1) => i - At + 1 \in 1..Len(tty)
    BY <1>0, <1>1, <2>1, <2>2 DEF Cells
  <2>4. Filled \in [Cells -> Int]
    BY <1>0, <1>1, <2>3 DEF Filled
  <2>5. \A i \in 0 .. At + Taken - 1 : i \in Cells
    BY <1>0, <1>1, <2>1, <2>2 DEF Cells
  <2>6. \A i \in At .. At + Taken - 1 : Filled[i] = tty[i - At + 1]
    BY <1>0, <2>1, <2>5 DEF Filled
  <2>7. \A i \in 0 .. At - 1 : i \in 0 .. At + Taken - 1 /\ i \notin At .. At + Taken - 1
    BY <1>0, <1>1, <2>1, <2>2
  <2>8. \A i \in 0 .. At - 1 : Filled[i] = memory[i]
    BY <2>5, <2>7 DEF Filled
  <2> QED
    BY <1>0, <1>1, <1>2, <1>4, <2>1, <2>2, <2>4, <2>6, <2>8
<1> QED
  BY <1>3, <1>4

LEMMA TookGrows ==
  ASSUME TypeOK, Read
  PROVE  /\ took' \in Seq(Int) /\ Len(took') = Len(Kept) + Taken /\ Len(Kept) \in Nat
         /\ \A i \in 1..Len(Kept) : took'[i] = Kept[i]
         /\ \A i \in 1..Taken : took'[Len(Kept) + i] = tty[i]
<1> DEFINE new == SubSeq(tty, 1, Taken)
<1>0. tty \in Seq(Int) /\ took \in Seq(Int) /\ Len(took) \in Nat /\ pos \in Nat
  BY SerialAssumption, LenProperties DEF TypeOK
<1>1. /\ At \in Nat /\ Taken \in Nat \ {0} /\ Taken <= Len(tty) /\ Len(tty) \in Nat /\ Kept \in Seq(Int)
  BY ReadFacts
<1>2. new \in Seq(Int) /\ Len(new) = Taken /\ \A i \in 1..Taken : new[i] = tty[i]
  <2>1. 1 \in Int /\ Taken \in Int /\ \A i \in 1..Taken : tty[i] \in Int
    BY <1>0, <1>1, ElementOfSeq
  <2>2. /\ new \in Seq(Int) /\ Len(new) = IF 1 <= Taken THEN Taken - 1 + 1 ELSE 0
        /\ \A i \in 1 .. Taken - 1 + 1 : new[i] = tty[1 + i - 1]
    BY <2>1, SubSeqProperties
  <2>3. \A i \in 1..Taken : i \in 1 .. Taken - 1 + 1 /\ 1 + i - 1 = i
    BY <1>1
  <2> HIDE DEF new
  <2>4. Len(new) = Taken
    BY <1>1, <2>2
  <2>5. \A i \in 1..Taken : new[i] = tty[i]
    BY <2>2, <2>3
  <2> QED
    BY <2>2, <2>4, <2>5
<1>3. took' = Kept \o new
  BY ReadDoes
<1> HIDE DEF new
<1>4. Len(Kept) \in Nat
  BY <1>1, LenProperties
<1>5. /\ took' \in Seq(Int) /\ Len(took') = Len(Kept) + Len(new)
      /\ \A i \in 1 .. Len(Kept) + Len(new) :
           took'[i] = IF i <= Len(Kept) THEN Kept[i] ELSE new[i - Len(Kept)]
  BY <1>1, <1>2, <1>3, ConcatProperties
<1>6. \A i \in 1..Len(Kept) : i \in 1 .. Len(Kept) + Len(new) /\ i <= Len(Kept)
  BY <1>1, <1>2, <1>4
<1>7. ASSUME NEW i \in 1..Taken PROVE took'[Len(Kept) + i] = tty[i]
  <2>1. /\ Len(Kept) + i \in 1 .. Len(Kept) + Len(new) /\ ~(Len(Kept) + i <= Len(Kept))
        /\ Len(Kept) + i - Len(Kept) = i
    BY <1>1, <1>2, <1>4
  <2> QED
    BY <1>2, <1>5, <2>1
<1> QED
  BY <1>2, <1>4, <1>5, <1>6, <1>7

\* The end of what was read is in the buffer: of any memory and any sequence.
Holds(m, n, s) == n <= Len(s) /\ \A i \in 0 .. n - 1 : m[i] = s[Len(s) - n + 1 + i]

LEMMA ReadHolds ==
  ASSUME TypeOK, Holds(memory, pos, took), Read
  PROVE  took' \in Seq(Int) /\ Holds(Filled, At + Taken, took')
<1>1. /\ At \in Nat /\ Taken \in Nat \ {0} /\ Taken <= Len(tty) /\ Len(tty) \in Nat /\ Kept \in Seq(Int)
  BY ReadFacts
<1>2. /\ took' \in Seq(Int) /\ Len(took') = Len(Kept) + Taken /\ Len(Kept) \in Nat
      /\ \A i \in 1..Len(Kept) : took'[i] = Kept[i]
      /\ \A i \in 1..Taken : took'[Len(Kept) + i] = tty[i]
  BY TookGrows
<1>3. At <= Len(Kept) /\ \A i \in 0 .. At - 1 : Filled[i] = Kept[Len(Kept) - At + 1 + i]
  <2>1. CASE Overrun
    BY <1>2, <2>1, ReadFacts
  <2>2. CASE ~Overrun
    <3>1. At = pos /\ Kept = took /\ \A i \in 0 .. At - 1 : Filled[i] = memory[i]
      BY <2>2, ReadFacts
    <3> QED
      BY <3>1 DEF Holds
  <2> QED
    BY <2>1, <2>2
<1>4. ASSUME NEW i \in 0 .. At + Taken - 1
      PROVE  Filled[i] = took'[Len(took') - (At + Taken) + 1 + i]
  <2>1. Len(took') - (At + Taken) + 1 + i = Len(Kept) - At + 1 + i
    BY <1>1, <1>2
  <2>2. CASE i < At
    <3>1. i \in 0 .. At - 1 /\ Len(Kept) - At + 1 + i \in 1..Len(Kept)
      BY <1>1, <1>2, <1>3, <2>2
    <3> QED
      BY <1>2, <1>3, <2>1, <3>1
  <2>3. CASE i >= At
    <3>1. /\ i \in At .. At + Taken - 1 /\ i - At + 1 \in 1..Taken
          /\ Len(Kept) - At + 1 + i = Len(Kept) + (i - At + 1)
      BY <1>1, <1>2, <2>3
    <3>2. Filled[i] = tty[i - At + 1]
      BY <3>1, ReadFacts
    <3> QED
      BY <1>2, <2>1, <3>1, <3>2
  <2> QED
    BY <1>1, <2>2, <2>3
<1>5. At + Taken <= Len(took')
  BY <1>1, <1>2, <1>3
<1>6. \A i \in 0 .. (At + Taken) - 1 : i \in 0 .. At + Taken - 1
  BY <1>1
<1>7. Holds(Filled, At + Taken, took')
  BY <1>4, <1>5, <1>6 DEF Holds
<1> QED
  BY <1>2, <1>7

\* What AnalyseBuffer keeps, and where.
LEMMA Moved ==
  ASSUME NEW m, NEW end \in Nat, AnalyseBuffer(m, end)
  PROVE  \E r \in 0..end :
           /\ r = (IF Stop(m, end) = end /\ Ends(m, end) # {} THEN From(m, end) ELSE 0)
           /\ pos' = end - r /\ \A i \in 0 .. end - r - 1 : i \in Cells => memory'[i] = m[i + r]
           /\ m \in [Cells -> Int] /\ end <= Capacity => memory' \in [Cells -> Int]
<1>1. CASE Stop(m, end) = end /\ Ends(m, end) # {}
  <2> DEFINE r == From(m, end)
  <2>1. r \in 0..end
    BY FromFacts
  <2>2. Compact(m, end)
    BY <1>1 DEF AnalyseBuffer
  <2>3. pos' = end - r
    BY <2>2 DEF Compact, Rest
  <2>4. memory' = [i \in Cells |-> IF i + r < end THEN m[i + r] ELSE NUL]
    BY <2>2 DEF Compact, Rest
  <2>5. ASSUME m \in [Cells -> Int], end <= Capacity PROVE memory' \in [Cells -> Int]
    <3>1. \A i \in Cells : i + r < end => i + r \in Cells
      BY <2>1, <2>5, SerialAssumption DEF Cells
    <3> QED
      BY <2>4, <2>5, <3>1 DEF NUL
  <2> HIDE DEF r
  <2>6. \A i \in 0 .. end - r - 1 : i \in Cells => memory'[i] = m[i + r]
    <3>1. \A i \in 0 .. end - r - 1 : i + r < end
      BY <2>1
    <3> QED
      BY <2>4, <3>1
  <2> QED
    BY <1>1, <2>1, <2>3, <2>5, <2>6 DEF r
<1>2. CASE ~(Stop(m, end) = end /\ Ends(m, end) # {})
  <2>1. memory' = m /\ pos' = end
    BY <1>2 DEF AnalyseBuffer
  <2>2. 0 \in 0..end /\ end - 0 = end /\ \A i \in 0 .. end - 1 : i + 0 = i
    OBVIOUS
  <2> QED
    BY <1>2, <2>1, <2>2
<1> QED
  BY <1>1, <1>2

LEMMA AnalyseHolds ==
  ASSUME NEW m \in [Cells -> Int], NEW end \in 0..Capacity, NEW s \in Seq(Int),
         Holds(m, end, s), AnalyseBuffer(m, end)
  PROVE  memory' \in [Cells -> Int] /\ pos' \in 0..end /\ Holds(memory', pos', s)
<1>0. Capacity \in Nat /\ end \in Nat /\ end <= Capacity /\ Len(s) \in Nat
  BY SerialAssumption, LenProperties
<1>1. PICK r \in 0..end :
        /\ pos' = end - r /\ \A i \in 0 .. end - r - 1 : i \in Cells => memory'[i] = m[i + r]
        /\ memory' \in [Cells -> Int]
  BY <1>0, Moved
<1>2. pos' \in 0..end /\ pos' <= Len(s)
  BY <1>0, <1>1 DEF Holds
<1>3. ASSUME NEW i \in 0 .. pos' - 1 PROVE memory'[i] = s[Len(s) - pos' + 1 + i]
  <2>1. /\ i \in 0 .. end - r - 1 /\ i \in Cells /\ i + r \in 0 .. end - 1
        /\ Len(s) - pos' + 1 + i = Len(s) - end + 1 + (i + r)
    BY <1>0, <1>1 DEF Cells
  <2>2. m[i + r] = s[Len(s) - end + 1 + (i + r)]
    BY <2>1 DEF Holds
  <2> QED
    BY <1>1, <2>1, <2>2
<1> QED
  BY <1>1, <1>2, <1>3 DEF Holds

-----------------------------------------------------------------------------
(* The buffer keeps the end of what was read.                              *)

\* Nothing is read before the thread has dropped what had come in until then.
Fresh == main = "opened" \/ loop = "settling" => took = <<>>
LineInv ==
  /\ TypeOK /\ Holds(memory, pos, took) /\ Fresh
  /\ loop # "none" => main \notin {"closed", "opened"}

LEMMA LineFacts == LineInv => SerialInv
  BY DEF LineInv, SerialInv, Holds, Fresh

LEMMA InitLine == Init => LineInv
<1> SUFFICES ASSUME Init PROVE LineInv
  OBVIOUS
<1>1. Clear \in [Cells -> Int]
  BY DEF Clear, NUL
<1>2. TypeOK
  BY <1>1, SerialAssumption DEF Init, TypeOK
<1>3. Holds(memory, pos, took)
  BY DEF Init, Holds
<1> QED
  BY <1>2, <1>3 DEF Init, LineInv, Fresh

\* Steps that leave the buffer alone.
LEMMA BufferKept ==
  ASSUME LineInv, UNCHANGED <<memory, pos, took, heard, ordered, bad>>,
         main' \in {"closed", "opened", "starting", "waiting", "up", "closing"},
         loop' \in {"none", "settling", "head", "polling", "ended"}, run' \in BOOLEAN,
         tty' \in Seq(Int), sent' \in 0 .. 3 * MaxSentences, noise' \in 0..MaxNoise,
         (main' = "opened" \/ loop' = "settling") => (main = "opened" \/ loop = "settling"),
         loop' # "none" => main' \notin {"closed", "opened"}
  PROVE  LineInv'
<1>1. TypeOK'
  BY DEF LineInv, TypeOK
<1>2. Holds(memory, pos, took)' /\ Fresh'
  BY DEF LineInv, Holds, Fresh
<1> QED
  BY <1>1, <1>2 DEF LineInv

LEMMA DeviceLine == ASSUME LineInv, Send \/ Noise PROVE LineInv'
<1>1. Byte(sent) \in Int /\ LF \in Int /\ sent + 1 \in Int
  <2>1. sent \in Nat
    BY SerialAssumption DEF LineInv, TypeOK
  <2> QED
    BY <2>1 DEF Byte, LF, CR
<1>2. tty' \in Seq(Int)
  <2>1. tty' = tty \/ tty' = Append(tty, Byte(sent)) \/ tty' = Append(tty, LF)
    BY DEF Send, Noise, Arrives
  <2>2. tty \in Seq(Int)
    BY DEF LineInv, TypeOK
  <2>3. Append(tty, Byte(sent)) \in Seq(Int) /\ Append(tty, LF) \in Seq(Int)
    BY <1>1, <2>2, AppendProperties
  <2> QED
    BY <2>1, <2>2, <2>3
<1>3. sent' \in 0 .. 3 * MaxSentences /\ noise' \in 0..MaxNoise
  BY SerialAssumption DEF Send, Noise, LineInv, TypeOK
<1> QED
  BY <1>2, <1>3, BufferKept DEF Send, Noise, buffer, thread, LineInv, TypeOK

LEMMA OpenLine == ASSUME LineInv, Open PROVE LineInv'
<1>1. Clear \in [Cells -> Int]
  BY DEF Clear, NUL
<1>2. TypeOK'
  BY <1>1, SerialAssumption DEF Open, device, LineInv, TypeOK
<1>3. Holds(memory, pos, took)'
  BY DEF Open, Holds
<1> QED
  BY <1>2, <1>3 DEF Open, LineInv, Fresh

LEMMA QuietLine ==
  ASSUME LineInv, Main \/ Wake \/ Close \/ Settle \/ Check \/ TimeOut \/ UNCHANGED vars
  PROVE  LineInv'
<1>1. UNCHANGED <<memory, pos, took, heard, ordered, bad, sent, noise>>
  BY DEF Main, Start, Wait, Joined, Wake, Close, Settle, Check, TimeOut, buffer, device, vars
<1>2. tty' \in {tty, <<>>} /\ run' \in {run, FALSE}
  BY DEF Main, Start, Wait, Joined, Wake, Close, Settle, Check, TimeOut, thread, vars
<1>3. /\ main' \in {"closed", "starting", "waiting", "up", "closing", main}
      /\ loop' \in {"none", "settling", "head", "polling", "ended"}
      /\ (main' = "opened" \/ loop' = "settling") => (main = "opened" \/ loop = "settling")
      /\ loop' # "none" => main' \notin {"closed", "opened"}
  BY DEF Main, Start, Wait, Joined, Wake, Close, Settle, Notify, Check, TimeOut, thread, vars,
     LineInv, TypeOK
<1>4. tty' \in Seq(Int) /\ run' \in BOOLEAN
  <2>1. <<>> \in Seq(Int)
    BY EmptySeq
  <2>2. tty \in Seq(Int) /\ run \in BOOLEAN
    BY DEF LineInv, TypeOK
  <2> QED
    BY <1>2, <2>1, <2>2
<1>5. main' \in {"closed", "opened", "starting", "waiting", "up", "closing"}
  BY <1>3 DEF LineInv, TypeOK
<1>6. sent' \in 0 .. 3 * MaxSentences /\ noise' \in 0..MaxNoise
  BY <1>1 DEF LineInv, TypeOK
<1> QED
  BY <1>1, <1>3, <1>4, <1>5, <1>6, BufferKept

LEMMA ReadLine == ASSUME LineInv, Read PROVE LineInv'
<1>0. TypeOK /\ Holds(memory, pos, took) /\ main \notin {"closed", "opened"}
  BY DEF LineInv, Read
<1>1. took' \in Seq(Int) /\ Holds(Filled, At + Taken, took')
  BY <1>0, ReadHolds
<1>2. At + Taken \in 0..Capacity /\ Filled \in [Cells -> Int] /\ Known \subseteq Int
  BY <1>0, ReadFacts
<1>3. memory' \in [Cells -> Int] /\ pos' \in 0..Capacity /\ Holds(memory', pos', took')
  <2> DEFINE end == At + Taken
  <2>1. AnalyseBuffer(Filled, end)
    BY ReadDoes
  <2> HIDE DEF end
  <2>2. memory' \in [Cells -> Int] /\ pos' \in 0..end /\ Holds(memory', pos', took')
    BY <1>1, <1>2, <2>1, AnalyseHolds DEF end
  <2> QED
    BY <1>2, <2>2, SerialAssumption DEF end
<1>4. tty' \in Seq(Int)
  <2> DEFINE a == Taken + 1
             b == Len(tty)
  <2>1. a \in Int /\ b \in Int /\ a \in Nat \ {0} /\ tty \in Seq(Int)
    BY <1>0, ReadFacts DEF TypeOK
  <2>2. \A i \in a..b : tty[i] \in Int
    BY <2>1, ElementOfSeq
  <2> HIDE DEF a, b
  <2>3. SubSeq(tty, a, b) \in Seq(Int)
    BY <2>1, <2>2, SubSeqProperties
  <2> QED
    BY <2>3, ReadDoes DEF a, b
<1>5. heard' \subseteq Int /\ ordered' \in BOOLEAN
  <2>1. \A p \in Decoded(Filled, At + Taken) : p \in Cells
    <3>1. Stop(Filled, At + Taken) \in 0 .. At + Taken /\ At + Taken <= Capacity /\ At + Taken \in Nat
      BY <1>2, StopFacts
    <3> QED
      BY <3>1, EndsFacts, SerialAssumption DEF Decoded, Cells
  <2>2. \A p \in Decoded(Filled, At + Taken) : Sentence(Filled, p) \in Int
    BY <1>2, <2>1, SentenceFacts
  <2> QED
    BY <1>2, <2>2, ReadDoes
<1>6. TypeOK'
  BY <1>0, <1>1, <1>3, <1>4, <1>5, ReadDoes DEF TypeOK, device
<1>7. Fresh' /\ (loop' # "none" => main' \notin {"closed", "opened"})
  BY <1>0, ReadDoes DEF Fresh
<1> QED
  BY <1>3, <1>6, <1>7 DEF LineInv

(* Whatever is read, in whatever pieces, and also with line feeds in       *)
(* between, the buffer ends with what was read last; and a thread reads    *)
(* only while main has the line open.                                      *)
THEOREM BufferKeepsTheEnd == Spec => []SerialInv
<1>1. LineInv /\ [Next]_vars => LineInv'
  BY DeviceLine, OpenLine, QuietLine, ReadLine DEF Next, Reader
<1> QED
  BY <1>1, InitLine, LineFacts, PTL DEF Spec

-----------------------------------------------------------------------------
(* Without noise: byte k of the stream, and the lines of a part of it.     *)

LEMMA ByteFacts ==
  ASSUME NEW k \in Nat
  PROVE  \E q \in Nat : \/ k = 3 * q /\ Byte(k) = q + 1
                        \/ k = 3 * q + 1 /\ Byte(k) = CR
                        \/ k = 3 * q + 2 /\ Byte(k) = LF
<1>1. k \div 3 \in Nat /\ k = 3 * (k \div 3) + (k % 3) /\ k % 3 \in 0..2
  OBVIOUS
<1> DEFINE q == k \div 3
<1>2. CASE k % 3 = 0
  <2>1. q \in Nat /\ k = 3 * q /\ Byte(k) = q + 1
    BY <1>1, <1>2 DEF Byte
  <2> QED
    BY <2>1
<1>3. CASE k % 3 = 1
  <2>1. q \in Nat /\ k = 3 * q + 1 /\ Byte(k) = CR
    BY <1>1, <1>3 DEF Byte
  <2> QED
    BY <2>1
<1>4. CASE k % 3 = 2
  <2>1. q \in Nat /\ k = 3 * q + 2 /\ Byte(k) = LF
    BY <1>1, <1>4 DEF Byte
  <2> QED
    BY <2>1
<1>5. k % 3 = 0 \/ k % 3 = 1 \/ k % 3 = 2
  BY <1>1
<1> QED
  BY <1>2, <1>3, <1>4, <1>5

LEMMA BytesOfLine ==
  ASSUME NEW q \in Nat
  PROVE  Byte(3 * q) = q + 1 /\ Byte(3 * q + 1) = CR /\ Byte(3 * q + 2) = LF
<1>1. /\ (3 * q) % 3 = 0 /\ (3 * q) \div 3 = q /\ (3 * q + 1) % 3 = 1 /\ (3 * q + 2) % 3 = 2
  OBVIOUS
<1> QED
  BY <1>1 DEF Byte

\* Where a line starts, and where it ends.
Starts(k)  == \E q \in Nat : k = 3 * q
Finishes(k) == \E q \in Nat : k = 3 * q + 2

LEMMA LineFeeds == ASSUME NEW k \in Nat PROVE Byte(k) = LF <=> Finishes(k)
<1>1. ASSUME Byte(k) = LF PROVE Finishes(k)
  <2>1. PICK q \in Nat : \/ k = 3 * q /\ Byte(k) = q + 1
                         \/ k = 3 * q + 1 /\ Byte(k) = CR
                         \/ k = 3 * q + 2 /\ Byte(k) = LF
    BY ByteFacts
  <2> QED
    BY <1>1, <2>1 DEF LF, CR, Finishes
<1>2. ASSUME Finishes(k) PROVE Byte(k) = LF
  BY <1>2, BytesOfLine DEF Finishes
<1> QED
  BY <1>1, <1>2

\* Memory that holds the stream from byte s on.
Carries(m, end, s) == \A i \in 0 .. end - 1 : m[i] = Byte(s + i)

\* The lines that lie between two bytes of the stream, and of these the ones before the
\* first that is bad; line q holds sentence q + 1.
Lines(b, e) == {q \in Nat : b <= 3 * q /\ 3 * q + 2 < e}
Sound(b, e) == {q \in Lines(b, e) : \A r \in Lines(b, e) : r + 1 \in bad => q < r}

LEMMA EndsOfLines ==
  ASSUME NEW m, NEW end \in Nat, NEW s \in Nat, Carries(m, end, s), NEW p \in Nat
  PROVE  p \in Ends(m, end) <=> p < end /\ Finishes(s + p)
<1>1. p < end => m[p] = Byte(s + p)
  BY DEF Carries
<1>2. s + p \in Nat
  OBVIOUS
<1>3. Byte(s + p) = LF <=> Finishes(s + p)
  BY <1>2, LineFeeds
<1> QED
  BY <1>1, <1>3 DEF Ends

LEMMA SentenceOfLine ==
  ASSUME NEW m, NEW end \in Nat, NEW s \in Nat, Carries(m, end, s),
         NEW p \in Nat, p < end, NEW q \in Nat, s + p = 3 * q + 2
  PROVE  Sentence(m, p) = IF s <= 3 * q THEN q + 1 ELSE 0
<1>1. CASE s > 3 * q
  <2>1. p < 2 /\ ~(s <= 3 * q)
    BY <1>1
  <2> QED
    BY <2>1 DEF Sentence
<1>2. CASE s <= 3 * q
  <2> DEFINE a == p - 2
             S == {i \in Received(m, p) : m[i] > 0}
  <2>0. a \in Nat /\ p = a + 2 /\ s + a = 3 * q /\ ~(p < 2)
    BY <1>2
  <2>1. Carries(m, p, s)
    <3>1. \A i \in 0 .. p - 1 : i \in 0 .. end - 1
      OBVIOUS
    <3> QED
      BY <3>1 DEF Carries
  <2>2. /\ From(m, p) \in 0..p
        /\ From(m, p) = 0 \/ From(m, p) - 1 \in Ends(m, p)
        /\ \A x \in Ends(m, p) : x < From(m, p)
    BY FromFacts
  <2>3. From(m, p) <= a
    <3>1. CASE From(m, p) = 0
      BY <2>0, <3>1
    <3>2. CASE From(m, p) # 0
      <4>1. From(m, p) - 1 \in Nat /\ From(m, p) - 1 \in Ends(m, p)
        BY <2>2, <3>2
      <4>2. PICK x \in Nat : s + (From(m, p) - 1) = 3 * x + 2
        <5>1. PICK z \in Nat : z = From(m, p) - 1 /\ z \in Ends(m, p)
          BY <4>1
        <5>2. Finishes(s + z)
          BY <2>1, <5>1, EndsOfLines
        <5> QED
          BY <5>1, <5>2 DEF Finishes
      <4>3. 3 * x + 2 < 3 * q + 2
        BY <2>2, <4>2
      <4>4. x < q
        BY <4>3
      <4> QED
        BY <2>0, <2>2, <4>2, <4>4
    <3> QED
      BY <3>1, <3>2
  <2>4. From(m, p) >= a
    <3>1. CASE a = 0
      BY <2>2, <3>1
    <3>2. CASE a # 0
      <4>1. a - 1 \in Nat /\ a - 1 < p /\ q - 1 \in Nat /\ s + (a - 1) = 3 * (q - 1) + 2
        BY <2>0, <3>2
      <4>2. a - 1 \in Ends(m, p)
        <5>1. Finishes(s + (a - 1))
          BY <4>1 DEF Finishes
        <5> QED
          BY <2>1, <4>1, <5>1, EndsOfLines
      <4> QED
        BY <2>0, <2>2, <4>2
    <3> QED
      BY <3>1, <3>2
  <2>5. From(m, p) = a
    BY <2>0, <2>2, <2>3, <2>4
  <2>6. Received(m, p) = {a}
    BY <2>0, <2>5 DEF Received
  <2>7. m[a] = q + 1
    <3>1. a \in 0 .. end - 1 /\ m[a] = Byte(s + a)
      BY <2>0 DEF Carries
    <3> QED
      BY <2>0, <3>1, BytesOfLine
  <2>8. S = {a}
    BY <2>6, <2>7
  <2>9. Max(S) = a
    <3>1. S \subseteq -1..a /\ S # {}
      BY <2>0, <2>8
    <3>2. Max(S) \in S
      BY <2>0, <3>1, MaxFacts
    <3> QED
      BY <2>8, <3>2
  <2>10. Sentence(m, p) = m[Max(S)]
    BY <2>0, <2>8 DEF Sentence
  <2> HIDE DEF S
  <2> QED
    BY <1>2, <2>7, <2>9, <2>10
<1> QED
  BY <1>1, <1>2

\* What is decoded of such memory.
LEMMA DecodedLines ==
  ASSUME NEW m, NEW end \in Nat, NEW s \in Nat, Carries(m, end, s), 0 \notin bad
  PROVE  /\ \A p \in Decoded(m, end) :
              \E q \in Sound(s, s + end) : s + p = 3 * q + 2 /\ Sentence(m, p) = q + 1
         /\ \A q \in Sound(s, s + end) : \E p \in Decoded(m, end) : Sentence(m, p) = q + 1
         /\ Stop(m, end) = end <=> \A q \in Lines(s, s + end) : q + 1 \notin bad
<1>1. ASSUME NEW p \in Ends(m, end)
      PROVE  /\ p \in Nat /\ p < end
             /\ \E q \in Nat : /\ s + p = 3 * q + 2
                               /\ Sentence(m, p) = IF s <= 3 * q THEN q + 1 ELSE 0
  <2>1. p \in Nat /\ p < end
    BY EndsFacts
  <2>2. PICK q \in Nat : s + p = 3 * q + 2
    BY <2>1, EndsOfLines DEF Finishes
  <2> QED
    BY <2>1, <2>2, SentenceOfLine
<1>2. ASSUME NEW q \in Lines(s, s + end)
      PROVE  /\ 3 * q + 2 - s \in Ends(m, end) /\ 3 * q + 2 - s \in Nat /\ q \in Nat
             /\ Sentence(m, 3 * q + 2 - s) = q + 1
  <2> DEFINE p == 3 * q + 2 - s
  <2>1. q \in Nat /\ p \in Nat /\ p < end /\ s + p = 3 * q + 2 /\ s <= 3 * q
    BY DEF Lines
  <2> HIDE DEF p
  <2>2. p \in Ends(m, end) /\ Sentence(m, p) = q + 1
    BY <2>1, EndsOfLines, SentenceOfLine DEF Finishes
  <2> QED
    BY <2>1, <2>2 DEF p
<1>3. /\ Stop(m, end) \in 0..end
      /\ Stop(m, end) = end \/ (Stop(m, end) \in Ends(m, end) /\ Sentence(m, Stop(m, end)) \in bad)
      /\ \A p \in Ends(m, end) : Sentence(m, p) \in bad => Stop(m, end) <= p
  BY StopFacts
<1>4. ASSUME NEW p \in Ends(m, end), Sentence(m, p) # 0
      PROVE  \E q \in Lines(s, s + end) : s + p = 3 * q + 2 /\ Sentence(m, p) = q + 1
  <2>1. PICK q \in Nat : /\ s + p = 3 * q + 2
                         /\ Sentence(m, p) = IF s <= 3 * q THEN q + 1 ELSE 0
    BY <1>1
  <2>2. p \in Nat /\ p < end /\ s <= 3 * q /\ Sentence(m, p) = q + 1
    BY <1>1, <1>4, <2>1
  <2>3. q \in Lines(s, s + end)
    BY <2>1, <2>2 DEF Lines
  <2> QED
    BY <2>1, <2>2, <2>3
<1>5. ASSUME NEW p \in Decoded(m, end)
      PROVE  \E q \in Sound(s, s + end) : s + p = 3 * q + 2 /\ Sentence(m, p) = q + 1
  <2>1. p \in Ends(m, end) /\ p \in Nat /\ p < Stop(m, end) /\ Sentence(m, p) # 0
    BY <1>3 DEF Decoded, Ends
  <2>2. PICK q \in Lines(s, s + end) : s + p = 3 * q + 2 /\ Sentence(m, p) = q + 1
    BY <1>4, <2>1
  <2>3. ASSUME NEW r \in Lines(s, s + end), r + 1 \in bad PROVE q < r
    <3>1. /\ 3 * r + 2 - s \in Ends(m, end) /\ 3 * r + 2 - s \in Nat /\ r \in Nat
          /\ Sentence(m, 3 * r + 2 - s) = r + 1
      BY <1>2
    <3>2. Stop(m, end) <= 3 * r + 2 - s
      BY <1>3, <2>3, <3>1
    <3> QED
      BY <1>2, <1>3, <2>1, <2>2, <3>1, <3>2
  <2> QED
    BY <2>2, <2>3 DEF Sound
<1>6. ASSUME NEW q \in Sound(s, s + end)
      PROVE  \E p \in Decoded(m, end) : Sentence(m, p) = q + 1
  <2> DEFINE p == 3 * q + 2 - s
  <2>1. q \in Lines(s, s + end) /\ \A r \in Lines(s, s + end) : r + 1 \in bad => q < r
    BY DEF Sound
  <2>2. p \in Ends(m, end) /\ p \in Nat /\ q \in Nat /\ Sentence(m, p) = q + 1
    BY <1>2, <2>1
  <2>3. s + p = 3 * q + 2 /\ p < end
    BY <2>2, EndsFacts
  <2> HIDE DEF p
  <2>4. p < Stop(m, end)
    <3>1. CASE Stop(m, end) = end
      BY <2>3, <3>1
    <3>2. CASE Stop(m, end) # end
      <4>1. Stop(m, end) \in Ends(m, end) /\ Sentence(m, Stop(m, end)) \in bad
        BY <1>3, <3>2
      <4>2. PICK r \in Lines(s, s + end) :
              s + Stop(m, end) = 3 * r + 2 /\ Sentence(m, Stop(m, end)) = r + 1
        BY <1>4, <4>1
      <4>3. q < r /\ r \in Nat
        BY <2>1, <4>1, <4>2 DEF Lines
      <4> QED
        BY <1>3, <2>2, <2>3, <4>2, <4>3
    <3> QED
      BY <3>1, <3>2
  <2>5. p \in Decoded(m, end)
    <3>1. p \in Ends(m, Stop(m, end))
      BY <1>3, <2>2, <2>4 DEF Ends
    <3> QED
      BY <2>2, <3>1 DEF Decoded
  <2> QED
    BY <2>2, <2>5
<1>7. ASSUME Stop(m, end) = end, NEW q \in Lines(s, s + end) PROVE q + 1 \notin bad
  <2>1. 3 * q + 2 - s \in Ends(m, end) /\ Sentence(m, 3 * q + 2 - s) = q + 1
    BY <1>2
  <2>2. 3 * q + 2 - s < end /\ q \in Nat
    BY <1>2, <2>1, EndsFacts
  <2> QED
    BY <1>3, <1>7, <2>1, <2>2
<1>8. ASSUME \A q \in Lines(s, s + end) : q + 1 \notin bad PROVE Stop(m, end) = end
  <2> SUFFICES ASSUME Stop(m, end) \in Ends(m, end), Sentence(m, Stop(m, end)) \in bad PROVE FALSE
    BY <1>3
  <2> QED
    BY <1>4, <1>8
<1> QED
  BY <1>5, <1>6, <1>7, <1>8

-----------------------------------------------------------------------------
(* What was heard of the stream between bytes b and e, when the buffer     *)
(* holds it from s on.                                                     *)

Reading(b, s, e, h, o) ==
  /\ b <= s /\ s <= e
  /\ s = b \/ Starts(s)
  /\ \A q \in Lines(b, e) : 3 * q < s => q + 1 \notin bad
  /\ h = {q + 1 : q \in Sound(b, e)}
  /\ (\A q \in Lines(b, e) : q + 1 \notin bad) => (o /\ e - s <= 2)

LEMMA NothingRead == ASSUME NEW b \in Nat PROVE Reading(b, b, b, {}, TRUE)
<1>1. Lines(b, b) = {}
  <2> SUFFICES ASSUME NEW q \in Nat, b <= 3 * q, 3 * q + 2 < b PROVE FALSE
    BY DEF Lines
  <2> QED
    OBVIOUS
<1>2. Sound(b, b) = {}
  BY <1>1 DEF Sound
<1> QED
  BY <1>1, <1>2 DEF Reading

LEMMA LinesMore ==
  ASSUME NEW b \in Nat, NEW s \in Nat, NEW d \in Nat, NEW e \in Nat, b <= s, s <= d, d <= e,
         s = b \/ Starts(s)
  PROVE  /\ \A q \in Lines(b, d) : q \in Lines(b, e)
         /\ \A q \in Lines(s, e) : q \in Lines(b, e) /\ q \in Nat /\ s <= 3 * q
         /\ \A q \in Lines(b, e) : 3 * q < s => q \in Lines(b, d)
         /\ \A q \in Lines(b, e) : s <= 3 * q => q \in Lines(s, e)
         /\ \A q \in Lines(b, d), r \in Lines(b, e) : r \in Lines(b, d) \/ q < r
         /\ \A q \in Lines(b, e) : q \in Nat
<1>1. ASSUME NEW q \in Lines(b, e), 3 * q < s PROVE q \in Lines(b, d)
  <2>1. q \in Nat /\ b <= 3 * q
    BY DEF Lines
  <2>2. PICK x \in Nat : s = 3 * x
    BY <1>1, <2>1 DEF Starts
  <2>3. 3 * q + 2 < d
    BY <1>1, <2>1, <2>2
  <2> QED
    BY <2>1, <2>3 DEF Lines
<1>2. ASSUME NEW q \in Lines(b, d), NEW r \in Lines(b, e) PROVE r \in Lines(b, d) \/ q < r
  BY DEF Lines
<1>3. /\ \A q \in Lines(b, d) : q \in Lines(b, e)
      /\ \A q \in Lines(s, e) : q \in Lines(b, e) /\ q \in Nat /\ s <= 3 * q
      /\ \A q \in Lines(b, e) : s <= 3 * q => q \in Lines(s, e)
      /\ \A q \in Lines(b, e) : q \in Nat
  BY DEF Lines
<1> QED
  BY <1>1, <1>2, <1>3

\* The lines decoded before and the ones decoded now.
LEMMA SoundMore ==
  ASSUME NEW b \in Nat, NEW s \in Nat, NEW d \in Nat, NEW e \in Nat, b <= s, s <= d, d <= e,
         s = b \/ Starts(s),
         \A q \in Lines(b, d) : 3 * q < s => q + 1 \notin bad
  PROVE  /\ Sound(b, e) = Sound(b, d) \cup Sound(s, e)
         /\ \A q \in Lines(b, e) : 3 * q < s => q + 1 \notin bad
<1>0. /\ \A q \in Lines(b, d) : q \in Lines(b, e)
      /\ \A q \in Lines(s, e) : q \in Lines(b, e) /\ q \in Nat /\ s <= 3 * q
      /\ \A q \in Lines(b, e) : 3 * q < s => q \in Lines(b, d)
      /\ \A q \in Lines(b, e) : s <= 3 * q => q \in Lines(s, e)
      /\ \A q \in Lines(b, d), r \in Lines(b, e) : r \in Lines(b, d) \/ q < r
      /\ \A q \in Lines(b, e) : q \in Nat
  BY LinesMore
<1>1. \A q \in Lines(b, e) : 3 * q < s => q + 1 \notin bad
  BY <1>0
<1>2. \A q \in Lines(b, e) : q + 1 \in bad => q \in Lines(s, e)
  <2>1. \A q \in Lines(b, e) : 3 * q < s \/ s <= 3 * q
    BY <1>0
  <2> QED
    BY <1>0, <1>1, <2>1
<1>3. ASSUME NEW q \in Sound(b, e) PROVE q \in Sound(b, d) \/ q \in Sound(s, e)
  <2>1. q \in Lines(b, e) /\ \A r \in Lines(b, e) : r + 1 \in bad => q < r
    BY DEF Sound
  <2>2. 3 * q < s \/ s <= 3 * q
    BY <1>0, <2>1
  <2>3. q \in Lines(b, d) \/ q \in Lines(s, e)
    BY <1>0, <2>1, <2>2
  <2> QED
    BY <1>0, <2>1, <2>3 DEF Sound
<1>4. ASSUME NEW q \in Sound(b, d) PROVE q \in Sound(b, e)
  <2>1. q \in Lines(b, d) /\ \A r \in Lines(b, d) : r + 1 \in bad => q < r
    BY DEF Sound
  <2> QED
    BY <1>0, <2>1 DEF Sound
<1>5. ASSUME NEW q \in Sound(s, e) PROVE q \in Sound(b, e)
  <2>1. q \in Lines(s, e) /\ \A r \in Lines(s, e) : r + 1 \in bad => q < r
    BY DEF Sound
  <2> QED
    BY <1>0, <1>2, <2>1 DEF Sound
<1>6. Sound(b, e) = Sound(b, d) \cup Sound(s, e)
  BY <1>3, <1>4, <1>5
<1> QED
  BY <1>1, <1>6

\* Of what is read without a sentence that is bad no more than two bytes are kept.
LEMMA RestIsShort ==
  ASSUME NEW m, NEW end \in Nat, NEW s \in Nat, Carries(m, end, s)
  PROVE  /\ From(m, end) \in 0..end /\ end - From(m, end) <= 2
         /\ Ends(m, end) # {} => Starts(s + From(m, end))
<1> DEFINE f == From(m, end)
<1>1. f \in 0..end /\ (f = 0 \/ f - 1 \in Ends(m, end)) /\ \A p \in Ends(m, end) : p < f
  BY FromFacts
<1>2. ASSUME end - f >= 3 PROVE FALSE
  <2>1. PICK q \in Nat : s + f = 3 * q \/ s + f = 3 * q + 1 \/ s + f = 3 * q + 2
    <3>1. s + f \in Nat
      BY <1>1
    <3> HIDE DEF f
    <3> QED
      BY <3>1, ByteFacts
  <2>2. PICK p \in Nat : s + p = 3 * q + 2 /\ f <= p /\ p < end
    <3>1. /\ 3 * q + 2 - s \in Nat /\ s + (3 * q + 2 - s) = 3 * q + 2
          /\ f <= 3 * q + 2 - s /\ 3 * q + 2 - s < end
      BY <1>1, <1>2, <2>1
    <3> QED
      BY <3>1
  <2>3. p \in Ends(m, end)
    <3>1. Finishes(s + p)
      BY <2>2 DEF Finishes
    <3> QED
      BY <2>2, <3>1, EndsOfLines
  <2> QED
    BY <1>1, <2>2, <2>3
<1>3. ASSUME Ends(m, end) # {} PROVE Starts(s + f)
  <2>1. f # 0 /\ f - 1 \in Nat /\ f - 1 \in Ends(m, end)
    BY <1>1, <1>3, EndsFacts
  <2>2. PICK z \in Nat : z = f - 1 /\ z \in Ends(m, end)
    BY <2>1
  <2>3. Finishes(s + z)
    BY <2>2, EndsOfLines
  <2>4. PICK x \in Nat : s + z = 3 * x + 2
    BY <2>3 DEF Finishes
  <2>5. s + f = 3 * (x + 1) /\ x + 1 \in Nat
    BY <1>1, <2>2, <2>4
  <2> QED
    BY <2>5 DEF Starts
<1> QED
  BY <1>1, <1>2, <1>3

\* One read: the stream was known up to byte d, and now is up to s + end.
LEMMA NextReading ==
  ASSUME NEW m, NEW end \in Nat, NEW b \in Nat, NEW s \in Nat, NEW d \in Nat, d <= s + end,
         NEW h, NEW o, Reading(b, s, d, h, o), Carries(m, end, s), 0 \notin bad,
         AnalyseBuffer(m, end)
  PROVE  /\ pos' \in Nat
         /\ Reading(b, s + end - pos', s + end,
                    h \cup {Sentence(m, p) : p \in Decoded(m, end)},
                    /\ o
                    /\ \A p \in Decoded(m, end), x \in h : x < Sentence(m, p)
                    /\ \A p, q \in Decoded(m, end) : p < q => Sentence(m, p) < Sentence(m, q))
<1> DEFINE e == s + end
           D == Decoded(m, end)
           first == s + end - pos'
           now == h \cup {Sentence(m, p) : p \in D}
           order == /\ o
                    /\ \A p \in D, x \in h : x < Sentence(m, p)
                    /\ \A p, q \in D : p < q => Sentence(m, p) < Sentence(m, q)
<1>1. /\ b <= s /\ s <= d /\ d <= e /\ e \in Nat
      /\ s = b \/ Starts(s)
      /\ \A q \in Lines(b, d) : 3 * q < s => q + 1 \notin bad
      /\ h = {q + 1 : q \in Sound(b, d)}
      /\ (\A q \in Lines(b, d) : q + 1 \notin bad) => (o /\ d - s <= 2)
  BY DEF Reading
<1>2. /\ \A p \in D : \E q \in Sound(s, e) : s + p = 3 * q + 2 /\ Sentence(m, p) = q + 1
      /\ \A q \in Sound(s, e) : \E p \in D : Sentence(m, p) = q + 1
      /\ Stop(m, end) = end <=> \A q \in Lines(s, e) : q + 1 \notin bad
  BY DecodedLines
<1>3. PICK r \in 0..end :
        /\ r = (IF Stop(m, end) = end /\ Ends(m, end) # {} THEN From(m, end) ELSE 0)
        /\ pos' = end - r
  BY Moved
<1>4. pos' \in Nat /\ first = s + r /\ s <= first /\ first <= e /\ first \in Nat
  BY <1>3
<1>5. /\ From(m, end) \in 0..end /\ end - From(m, end) <= 2
      /\ Ends(m, end) # {} => Starts(s + From(m, end))
  BY RestIsShort
<1> HIDE DEF e, D, first
<1>6. /\ Sound(b, e) = Sound(b, d) \cup Sound(s, e)
      /\ \A q \in Lines(b, e) : 3 * q < s => q + 1 \notin bad
  BY <1>1, SoundMore
<1>7. /\ \A q \in Lines(b, d) : q \in Lines(b, e)
      /\ \A q \in Lines(s, e) : q \in Lines(b, e) /\ q \in Nat /\ s <= 3 * q
      /\ \A q \in Lines(b, e) : s <= 3 * q => q \in Lines(s, e)
      /\ \A q \in Lines(b, e) : q \in Nat
  BY <1>1, LinesMore
<1>8. first = b \/ Starts(first)
  BY <1>1, <1>3, <1>4, <1>5
<1>9. \A q \in Lines(b, e) : 3 * q < first => q + 1 \notin bad
  <2>1. CASE Stop(m, end) = end
    <3>1. \A q \in Lines(b, e) : 3 * q < s \/ s <= 3 * q
      BY <1>7
    <3> QED
      BY <1>2, <1>6, <1>7, <2>1, <3>1
  <2>2. CASE Stop(m, end) # end
    BY <1>3, <1>4, <1>6, <2>2
  <2> QED
    BY <2>1, <2>2
<1>10. now = {q + 1 : q \in Sound(b, e)}
  <2>1. {Sentence(m, p) : p \in D} = {q + 1 : q \in Sound(s, e)}
    BY <1>2
  <2> QED
    BY <1>1, <1>6, <2>1
<1>11. ASSUME \A q \in Lines(b, e) : q + 1 \notin bad PROVE order /\ e - first <= 2
  <2>1. o /\ d - s <= 2 /\ Stop(m, end) = end
    BY <1>1, <1>2, <1>7, <1>11
  <2>2. ASSUME NEW p \in D, NEW x \in h PROVE x < Sentence(m, p)
    <3>1. PICK q \in Sound(s, e) : Sentence(m, p) = q + 1
      BY <1>2
    <3>2. q \in Nat /\ s <= 3 * q
      BY <1>7 DEF Sound
    <3>3. PICK y \in Lines(b, d) : x = y + 1
      BY <1>1 DEF Sound
    <3>4. y \in Nat /\ 3 * y + 2 < d
      BY DEF Lines
    <3> QED
      BY <1>1, <2>1, <3>1, <3>2, <3>3, <3>4
  <2>3. ASSUME NEW p \in D, NEW q \in D, p < q PROVE Sentence(m, p) < Sentence(m, q)
    <3>1. PICK x \in Sound(s, e) : s + p = 3 * x + 2 /\ Sentence(m, p) = x + 1
      BY <1>2
    <3>2. PICK y \in Sound(s, e) : s + q = 3 * y + 2 /\ Sentence(m, q) = y + 1
      BY <1>2
    <3>3. x \in Nat /\ y \in Nat
      BY <1>7 DEF Sound
    <3>4. p \in Nat /\ q \in Nat
      BY EndsFacts, StopFacts DEF D, Decoded
    <3> QED
      BY <2>3, <3>1, <3>2, <3>3, <3>4
  <2>4. e - first <= 2
    <3>1. CASE Ends(m, end) # {}
      BY <1>3, <1>4, <1>5, <2>1, <3>1 DEF e
    <3>2. CASE Ends(m, end) = {}
      <4>1. From(m, end) = 0
        BY <3>2, FromFacts
      <4> QED
        BY <1>3, <1>4, <1>5, <2>1, <3>2, <4>1 DEF e
    <3> QED
      BY <3>1, <3>2
  <2> QED
    BY <2>1, <2>2, <2>3, <2>4
<1> HIDE DEF now, order
<1>12. Reading(b, first, e, now, order)
  BY <1>1, <1>4, <1>8, <1>9, <1>10, <1>11 DEF Reading
<1> QED
  BY <1>4, <1>12 DEF e, D, first, now, order

-----------------------------------------------------------------------------
(* Without noise what was read and what waits are a piece of the stream.   *)

Stream(b) ==
  /\ \A k \in 1..Len(took) : took[k] = Byte(b + k - 1)
  /\ \A k \in 1..Len(tty) : tty[k] = Byte(b + Len(took) + k - 1)
  /\ main # "closed" => b + Len(took) + Len(tty) = sent
  /\ Reading(b, b + Len(took) - pos, b + Len(took), heard, ordered)
Streams   == noise = 0 => \E b \in Nat : Stream(b)
StreamInv == LineInv /\ Streams

\* It is a piece of the stream again, with the same or another first byte.
LEMMA StreamNext ==
  ASSUME NEW b \in Nat,
         \A k \in 1..Len(took') : took'[k] = Byte(b + k - 1),
         \A k \in 1..Len(tty') : tty'[k] = Byte(b + Len(took') + k - 1),
         main' # "closed" => b + Len(took') + Len(tty') = sent',
         Reading(b, b + Len(took') - pos', b + Len(took'), heard', ordered'), bad' = bad
  PROVE  Streams'
<1>1. Reading(b, b + Len(took) - pos, b + Len(took), heard, ordered)'
  BY DEF Reading, Sound, Lines, Starts
<1>2. (\A k \in 1..Len(took) : took[k] = Byte(b + k - 1))'
  BY DEF Byte
<1>3. (\A k \in 1..Len(tty) : tty[k] = Byte(b + Len(took) + k - 1))'
  BY DEF Byte
<1>4. (main # "closed" => b + Len(took) + Len(tty) = sent)'
  OBVIOUS
<1>5. Stream(b)'
  BY <1>1, <1>2, <1>3, <1>4 DEF Stream
<1> QED
  BY <1>5 DEF Streams

\* Nothing was read and nothing waits.
LEMMA StreamStarts ==
  ASSUME LineInv, took' = <<>>, tty' = <<>>, pos' = 0, heard' = {}, ordered' = TRUE,
         sent' = sent, bad' = bad
  PROVE  Streams'
<1>1. PICK b \in Nat : b = sent
  BY SerialAssumption DEF LineInv, TypeOK
<1>2. Len(took') = 0 /\ Len(tty') = 0 /\ 1..Len(took') = {} /\ 1..Len(tty') = {}
  <2>1. Len(took') = 0 /\ Len(tty') = 0
    BY EmptySeq
  <2> QED
    BY <2>1
<1>3. b + Len(took') = b /\ b + Len(took') - pos' = b /\ b + Len(took') + Len(tty') = sent'
  BY <1>1, <1>2
<1>4. Reading(b, b + Len(took') - pos', b + Len(took'), heard', ordered')
  BY <1>3, NothingRead
<1> QED
  BY <1>2, <1>3, <1>4, StreamNext

LEMMA InitStream == Init => Streams
<1> SUFFICES ASSUME Init PROVE Streams
  OBVIOUS
<1>1. Len(took) = 0 /\ Len(tty) = 0 /\ 1..Len(took) = {} /\ 1..Len(tty) = {}
  <2>1. Len(took) = 0 /\ Len(tty) = 0
    BY EmptySeq DEF Init
  <2> QED
    BY <2>1
<1>2. Reading(0, 0 + Len(took) - pos, 0 + Len(took), heard, ordered)
  <2>1. 0 + Len(took) = 0 /\ 0 + Len(took) - pos = 0 /\ heard = {} /\ ordered = TRUE
    BY <1>1 DEF Init
  <2> QED
    BY <2>1, NothingRead
<1>3. Stream(0)
  BY <1>1, <1>2 DEF Stream, Init
<1> QED
  BY <1>3 DEF Streams

LEMMA DeviceStream == ASSUME StreamInv, Send \/ Noise PROVE Streams'
<1>0. tty \in Seq(Int) /\ Len(tty) \in Nat /\ noise \in Nat /\ Len(took) \in Nat
  BY SerialAssumption, LenProperties DEF StreamInv, LineInv, TypeOK
<1>1. CASE Noise
  <2>1. noise' # 0
    BY <1>0, <1>1 DEF Noise
  <2> QED
    BY <2>1 DEF Streams
<1>2. CASE Send /\ noise # 0
  BY <1>2 DEF Send, Streams
<1>3. CASE Send /\ noise = 0
  <2>1. PICK b \in Nat : Stream(b)
    BY <1>3 DEF StreamInv, Streams
  <2>2. /\ UNCHANGED <<took, pos, heard, ordered, bad, main>> /\ sent' = sent + 1
        /\ tty' = IF main = "closed" THEN tty ELSE Append(tty, Byte(sent))
    BY <1>3 DEF Send, Arrives, buffer, thread
  <2>3. CASE main = "closed"
    BY <2>1, <2>2, <2>3, StreamNext DEF Stream
  <2>4. CASE main # "closed"
    <3>1. sent = b + Len(took) + Len(tty)
      BY <2>1, <2>4 DEF Stream
    <3>2. Byte(sent) \in Int
      BY <1>0, <3>1 DEF Byte, LF, CR
    <3>3. /\ Len(tty') = Len(tty) + 1 /\ tty'[Len(tty) + 1] = Byte(sent)
          /\ \A k \in 1..Len(tty) : tty'[k] = tty[k]
      BY <1>0, <2>2, <2>4, <3>2, AppendProperties
    <3>4. ASSUME NEW k \in 1..Len(tty') PROVE tty'[k] = Byte(b + Len(took) + k - 1)
      <4>1. CASE k = Len(tty) + 1
        <5>1. b + Len(took) + k - 1 = sent
          BY <1>0, <3>1, <4>1
        <5> QED
          BY <3>3, <4>1, <5>1
      <4>2. CASE k # Len(tty) + 1
        <5>1. k \in 1..Len(tty)
          BY <1>0, <3>3, <4>2
        <5> QED
          BY <2>1, <3>3, <5>1 DEF Stream
      <4> QED
        BY <4>1, <4>2
    <3>5. b + Len(took) + Len(tty') = sent'
      <4>1. sent' = sent + 1 /\ Len(tty') = Len(tty) + 1
        BY <2>2, <3>3
      <4> QED
        BY <1>0, <3>1, <4>1
    <3> QED
      BY <2>1, <2>2, <3>4, <3>5, StreamNext DEF Stream
  <2> QED
    BY <2>3, <2>4
<1> QED
  BY <1>1, <1>2, <1>3

LEMMA QuietStream ==
  ASSUME StreamInv, Open \/ Main \/ Wake \/ Close \/ Settle \/ Check \/ TimeOut \/ UNCHANGED vars
  PROVE  Streams'
<1>1. CASE Open
  BY <1>1, StreamStarts DEF Open, device, StreamInv
<1>2. CASE Settle
  <2>1. took = <<>> /\ Holds(memory, pos, took) /\ pos \in Nat
    BY <1>2, SerialAssumption DEF Settle, StreamInv, LineInv, Fresh, TypeOK
  <2>2. pos = 0
    <3>1. Len(took) = 0
      BY <2>1, EmptySeq
    <3> QED
      BY <2>1, <3>1 DEF Holds
  <2>3. CASE noise # 0
    BY <1>2, <2>3 DEF Settle, device, Streams
  <2>4. CASE noise = 0
    <3>1. PICK b \in Nat : Stream(b)
      BY <2>4 DEF StreamInv, Streams
    <3>2. Reading(b, b, b, heard, ordered)
      <4>1. b + Len(took) - pos = b /\ b + Len(took) = b
        BY <2>1, <2>2, EmptySeq
      <4> QED
        BY <3>1, <4>1 DEF Stream
    <3>3. Reading(b, b, b, {}, TRUE)
      BY NothingRead
    <3>4. heard = {} /\ ordered = TRUE
      <4>1. Lines(b, b) = {}
        <5> SUFFICES ASSUME NEW q \in Nat, b <= 3 * q, 3 * q + 2 < b PROVE FALSE
          BY DEF Lines
        <5> QED
          OBVIOUS
      <4>2. ordered \in BOOLEAN
        BY DEF StreamInv, LineInv, TypeOK
      <4> QED
        BY <3>2, <3>3, <4>1, <4>2 DEF Reading
    <3> QED
      BY <1>2, <2>1, <2>2, <3>4, StreamStarts DEF Settle, buffer, device, StreamInv
  <2> QED
    BY <2>3, <2>4
<1>3. CASE Main \/ Wake \/ Close \/ Check \/ TimeOut \/ UNCHANGED vars
  <2>1. UNCHANGED <<tty, took, pos, heard, ordered, bad, sent, noise>>
    BY <1>3 DEF Main, Start, Wait, Joined, Wake, Close, Check, TimeOut, buffer, device, vars
  <2>2. main' # "closed" => main # "closed" \/ loop # "none"
    BY <1>3 DEF Main, Start, Wait, Joined, Wake, Close, Check, TimeOut, thread, vars
  <2>3. main' # "closed" => main # "closed"
    BY <2>2 DEF StreamInv, LineInv
  <2>4. CASE noise # 0
    BY <2>1, <2>4 DEF Streams
  <2>5. CASE noise = 0
    <3>1. PICK b \in Nat : Stream(b)
      BY <2>5 DEF StreamInv, Streams
    <3> QED
      BY <2>1, <2>3, <3>1, StreamNext DEF Stream
  <2> QED
    BY <2>4, <2>5
<1> QED
  BY <1>1, <1>2, <1>3

LEMMA ReadStream == ASSUME StreamInv, Read PROVE Streams'
<1>0. /\ TypeOK /\ Holds(memory, pos, took) /\ Len(took) \in Nat /\ pos \in Nat /\ pos <= Len(took)
      /\ ordered \in BOOLEAN /\ bad \subseteq 1..MaxSentences /\ main # "closed" /\ loop # "none"
  BY SerialAssumption, LenProperties DEF StreamInv, LineInv, TypeOK, Holds, Read
<1>1. /\ At \in Nat /\ Taken \in Nat \ {0} /\ At + Taken <= Capacity /\ Capacity \in Nat
      /\ Taken <= Len(tty) /\ Len(tty) \in Nat /\ Len(Kept) \in Nat
      /\ Overrun => At = 0 /\ Kept = <<>>
      /\ ~Overrun => At = pos /\ Kept = took
  BY <1>0, ReadFacts, TookGrows
<1>2. /\ Len(took') = Len(Kept) + Taken
      /\ \A i \in 1..Len(Kept) : took'[i] = Kept[i]
      /\ \A i \in 1..Taken : took'[Len(Kept) + i] = tty[i]
  BY <1>0, TookGrows
<1>3. SUFFICES ASSUME noise = 0 PROVE Streams'
  BY ReadDoes DEF Streams, device
<1>4. PICK a \in Nat : Stream(a)
  BY <1>3 DEF StreamInv, Streams
<1>5. PICK b \in Nat :
        /\ b + Len(Kept) = a + Len(took)
        /\ \A k \in 1..Len(Kept) : Kept[k] = Byte(b + k - 1)
        /\ At <= Len(Kept)
        /\ Reading(b, b + Len(Kept) - At, b + Len(Kept), Known, Overrun \/ ordered)
  <2>1. CASE Overrun
    <3>1. PICK b \in Nat : b = a + Len(took)
      BY <1>0
    <3>2. Len(Kept) = 0 /\ 1..Len(Kept) = {} /\ At = 0 /\ Known = {} /\ (Overrun \/ ordered) = TRUE
      <4>1. Len(Kept) = 0
        BY <1>1, <2>1, EmptySeq
      <4> QED
        BY <1>1, <2>1, <4>1 DEF Known
    <3>3. b + Len(Kept) = b /\ b + Len(Kept) - At = b
      BY <3>2
    <3>4. Reading(b, b + Len(Kept) - At, b + Len(Kept), Known, Overrun \/ ordered)
      BY <3>2, <3>3, NothingRead
    <3> QED
      BY <3>1, <3>2, <3>3, <3>4
  <2>2. CASE ~Overrun
    <3>1. Kept = took /\ At = pos /\ Known = heard /\ (Overrun \/ ordered) = ordered
      BY <1>0, <1>1, <2>2 DEF Known
    <3> QED
      BY <1>0, <1>4, <3>1 DEF Stream
  <2> QED
    BY <2>1, <2>2
<1>6. PICK s \in Nat : s = b + Len(Kept) - At
  <2>1. At <= Len(Kept)
    BY <1>5
  <2>2. b + Len(Kept) - At \in Nat
    BY <1>1, <2>1
  <2> QED
    BY <2>2
<1>7. PICK end \in Nat : end = At + Taken
  BY <1>1
<1>8. /\ Len(took') \in Nat /\ s + end = b + Len(took') /\ b + Len(Kept) <= s + end
      /\ b + Len(Kept) \in Nat
  BY <1>1, <1>2, <1>5, <1>6, <1>7
<1>9. \A k \in 1..Len(took') : took'[k] = Byte(b + k - 1)
  <2> SUFFICES ASSUME NEW k \in 1..Len(took') PROVE took'[k] = Byte(b + k - 1)
    OBVIOUS
  <2>1. CASE k <= Len(Kept)
    BY <1>1, <1>2, <1>5, <2>1
  <2>2. CASE k > Len(Kept)
    <3>1. PICK i \in 1..Taken : k = Len(Kept) + i
      <4>1. k - Len(Kept) \in 1..Taken /\ k = Len(Kept) + (k - Len(Kept))
        BY <1>1, <1>2, <2>2
      <4> QED
        BY <4>1
    <3>2. tty[i] = Byte(a + Len(took) + i - 1)
      BY <1>1, <1>4 DEF Stream
    <3>3. a + Len(took) + i - 1 = b + k - 1
      <4>1. b + Len(Kept) = a + Len(took)
        BY <1>5
      <4> QED
        BY <1>0, <1>1, <3>1, <4>1
    <3> QED
      BY <1>2, <3>1, <3>2, <3>3
  <2> QED
    BY <1>1, <2>1, <2>2
<1>10. Carries(Filled, end, s)
  <2> SUFFICES ASSUME NEW i \in 0 .. end - 1 PROVE Filled[i] = Byte(s + i)
    BY DEF Carries
  <2>1. Filled[i] = took'[Len(took') - end + 1 + i] /\ end <= Len(took')
    BY <1>0, <1>7, ReadHolds DEF Holds
  <2>2. PICK k \in 1..Len(took') : k = Len(took') - end + 1 + i
    BY <1>8, <2>1
  <2>3. b + k - 1 = s + i
    BY <1>8, <2>2
  <2> QED
    BY <1>9, <2>1, <2>2, <2>3
<1>11. /\ pos' \in Nat
       /\ Reading(b, s + end - pos', s + end, heard', ordered')
  <2>1. AnalyseBuffer(Filled, end)
    BY <1>7, ReadDoes
  <2>2. 0 \notin bad
    BY <1>0
  <2>3. heard' = Known \cup {Sentence(Filled, p) : p \in Decoded(Filled, end)}
    BY <1>7, ReadDoes
  <2>4. ordered' = /\ Overrun \/ ordered
                   /\ \A p \in Decoded(Filled, end), h \in Known : h < Sentence(Filled, p)
                   /\ \A p, q \in Decoded(Filled, end) : p < q => Sentence(Filled, p) < Sentence(Filled, q)
    BY <1>7, ReadDoes
  <2> DEFINE o == Overrun \/ ordered
             D == Decoded(Filled, end)
             now == Known \cup {Sentence(Filled, p) : p \in D}
             order == /\ o
                      /\ \A p \in D, h \in Known : h < Sentence(Filled, p)
                      /\ \A p, q \in D : p < q => Sentence(Filled, p) < Sentence(Filled, q)
  <2>5. Reading(b, s, b + Len(Kept), Known, o)
    BY <1>5, <1>6
  <2>6. ordered' = order /\ heard' = now
    BY <2>3, <2>4
  <2>7. pos' \in Nat /\ Reading(b, s + end - pos', s + end, now, order)
    <3> HIDE DEF o
    <3> QED
      BY <1>8, <1>10, <2>1, <2>2, <2>5, NextReading
  <2> HIDE DEF now, order
  <2> QED
    BY <2>6, <2>7
<1>12. b + Len(took') - pos' = s + end - pos'
  BY <1>8, <1>11
<1>13. /\ Len(tty') = Len(tty) - Taken
       /\ \A k \in 1..Len(tty') : tty'[k] = tty[Taken + k]
  <2> DEFINE x == Taken + 1
             y == Len(tty)
             rest == SubSeq(tty, x, y)
  <2>1. x \in Int /\ y \in Int /\ x \in Nat \ {0} /\ tty \in Seq(Int)
    BY <1>0, <1>1 DEF TypeOK
  <2>2. \A i \in x..y : tty[i] \in Int
    BY <2>1, ElementOfSeq
  <2>3. tty' = rest
    BY ReadDoes
  <2> HIDE DEF x, y
  <2>4. /\ Len(rest) = IF x <= y THEN y - x + 1 ELSE 0
        /\ \A i \in 1 .. y - x + 1 : rest[i] = tty[x + i - 1]
    BY <2>1, <2>2, SubSeqProperties
  <2> HIDE DEF rest
  <2>5. Len(tty') = Len(tty) - Taken
    BY <1>1, <2>3, <2>4 DEF x, y
  <2>6. \A k \in 1..Len(tty') : k \in 1 .. y - x + 1 /\ x + k - 1 = Taken + k
    BY <1>1, <2>5 DEF x, y
  <2> QED
    BY <2>3, <2>4, <2>5, <2>6
<1>14. ASSUME NEW k \in 1..Len(tty') PROVE tty'[k] = Byte(b + Len(took') + k - 1)
  <2>1. PICK i \in 1..Len(tty) : i = Taken + k
    BY <1>1, <1>13
  <2>2. tty[i] = Byte(a + Len(took) + i - 1)
    BY <1>4 DEF Stream
  <2>3. a + Len(took) + i - 1 = b + Len(took') + k - 1
    <3>1. b + Len(Kept) = a + Len(took) /\ Len(took') = Len(Kept) + Taken
      BY <1>2, <1>5
    <3>2. k \in Nat
      BY <1>1, <1>13
    <3> QED
      BY <1>0, <1>1, <2>1, <3>1, <3>2
  <2> QED
    BY <1>13, <2>1, <2>2, <2>3
<1>15. b + Len(took') + Len(tty') = sent' /\ bad' = bad
  <2>1. sent' = sent /\ bad' = bad /\ a + Len(took) + Len(tty) = sent
    BY <1>0, <1>4, ReadDoes DEF device, Stream
  <2>2. b + Len(Kept) = a + Len(took) /\ Len(took') = Len(Kept) + Taken /\ Len(tty') = Len(tty) - Taken
    BY <1>2, <1>5, <1>13
  <2> QED
    BY <1>0, <1>1, <2>1, <2>2
<1> QED
  BY <1>8, <1>9, <1>11, <1>12, <1>14, <1>15, StreamNext

\* What the stream says of the sentences whose whole line was read.
LEMMA StreamHeard == StreamInv => HeardUpToBad
<1> SUFFICES ASSUME StreamInv, noise = 0
             PROVE  /\ heard = {took[k] : k \in Before}
                    /\ Before = Whole => ordered /\ pos <= 2
  BY DEF HeardUpToBad
<1>0. took \in Seq(Int) /\ Len(took) \in Nat /\ pos \in Nat /\ DOMAIN took = 1..Len(took)
  BY SerialAssumption, LenProperties DEF StreamInv, LineInv, TypeOK
<1>1. PICK b \in Nat : Stream(b)
  BY DEF StreamInv, Streams
<1> DEFINE e == b + Len(took)
<1>2. /\ \A k \in 1..Len(took) : took[k] = Byte(b + k - 1)
      /\ heard = {q + 1 : q \in Sound(b, e)}
      /\ (\A q \in Lines(b, e) : q + 1 \notin bad) => (ordered /\ e - (b + Len(took) - pos) <= 2)
  BY <1>1 DEF Stream, Reading
<1>3. ASSUME NEW k \in Whole
      PROVE  \E q \in Lines(b, e) : took[k] = q + 1 /\ b + k - 1 = 3 * q
  <2>1. k \in 1..Len(took) /\ took[k] > 0 /\ k + 2 <= Len(took)
    BY <1>0 DEF Whole
  <2>2. b + k - 1 \in Nat /\ took[k] = Byte(b + k - 1)
    BY <1>2, <2>1
  <2>3. PICK q \in Nat : \/ b + k - 1 = 3 * q /\ took[k] = q + 1
                         \/ b + k - 1 = 3 * q + 1 /\ took[k] = CR
                         \/ b + k - 1 = 3 * q + 2 /\ took[k] = LF
    BY <2>2, ByteFacts
  <2>4. b + k - 1 = 3 * q /\ took[k] = q + 1
    BY <2>1, <2>3 DEF CR, LF
  <2>5. q \in Lines(b, e)
    BY <1>0, <2>1, <2>4 DEF Lines
  <2> QED
    BY <2>4, <2>5
<1>4. ASSUME NEW q \in Lines(b, e)
      PROVE  \E k \in Whole : took[k] = q + 1 /\ b + k - 1 = 3 * q
  <2> DEFINE k == 3 * q - b + 1
  <2>1. q \in Nat /\ k \in 1..Len(took) /\ k + 2 \in 1..Len(took) /\ k + 2 <= Len(took)
    BY <1>0 DEF Lines
  <2>2. b + k - 1 = 3 * q /\ b + (k + 2) - 1 = 3 * q + 2
    BY <2>1
  <2> HIDE DEF k
  <2>3. took[k] = q + 1 /\ took[k + 2] = LF
    BY <1>2, <2>1, <2>2, BytesOfLine
  <2>4. k \in Whole
    BY <1>0, <2>1, <2>3 DEF Whole
  <2> QED
    BY <2>2, <2>3, <2>4
<1>5. Whole \subseteq Nat /\ \A q \in Lines(b, e) : q \in Nat
  BY <1>0 DEF Whole, Lines
<1>6. ASSUME NEW k \in Before PROVE \E q \in Sound(b, e) : took[k] = q + 1
  <2>1. k \in Whole /\ \A j \in Whole : took[j] \in bad => k < j
    BY DEF Before
  <2>2. PICK q \in Lines(b, e) : took[k] = q + 1 /\ b + k - 1 = 3 * q
    BY <1>3, <2>1
  <2>3. ASSUME NEW r \in Lines(b, e), r + 1 \in bad PROVE q < r
    <3>1. PICK j \in Whole : took[j] = r + 1 /\ b + j - 1 = 3 * r
      BY <1>4
    <3>2. k < j
      BY <2>1, <2>3, <3>1
    <3> QED
      BY <1>5, <2>1, <2>2, <3>1, <3>2
  <2> QED
    BY <2>2, <2>3 DEF Sound
<1>7. ASSUME NEW q \in Sound(b, e) PROVE \E k \in Before : took[k] = q + 1
  <2>1. q \in Lines(b, e) /\ \A r \in Lines(b, e) : r + 1 \in bad => q < r
    BY DEF Sound
  <2>2. PICK k \in Whole : took[k] = q + 1 /\ b + k - 1 = 3 * q
    BY <1>4, <2>1
  <2>3. ASSUME NEW j \in Whole, took[j] \in bad PROVE k < j
    <3>1. PICK r \in Lines(b, e) : took[j] = r + 1 /\ b + j - 1 = 3 * r
      BY <1>3
    <3>2. q < r
      BY <2>1, <2>3, <3>1
    <3> QED
      BY <1>5, <2>1, <2>2, <3>1, <3>2
  <2> QED
    BY <2>2, <2>3 DEF Before
<1>8. heard = {took[k] : k \in Before}
  <2> HIDE DEF e
  <2> QED
    BY <1>2, <1>6, <1>7
<1>9. ASSUME Before = Whole PROVE ordered /\ pos <= 2
  <2>1. ASSUME NEW q \in Lines(b, e), q + 1 \in bad PROVE FALSE
    <3>1. PICK k \in Whole : took[k] = q + 1
      BY <1>4
    <3>2. k \in Before /\ took[k] \in bad /\ k \in Nat
      BY <1>5, <1>9, <2>1, <3>1
    <3>3. k < k
      BY <3>2 DEF Before
    <3> QED
      BY <3>2, <3>3
  <2>2. ordered /\ e - (b + Len(took) - pos) <= 2
    BY <1>2, <2>1
  <2> QED
    BY <1>0, <2>2
<1> QED
  BY <1>8, <1>9

(* Wherever the reads cut the lines, and wherever the buffer overruns, the *)
(* reader decodes each sentence it has read once and in order, as far as   *)
(* the first that its decoder throws at, and without one keeps no more     *)
(* than the beginning of the next line.                                    *)
THEOREM HearsWhatWasRead == Spec => []HeardUpToBad
<1>1. Init => StreamInv
  BY InitLine, InitStream DEF StreamInv
<1>2. StreamInv /\ [Next]_vars => StreamInv'
  <2>1. LineInv /\ [Next]_vars => LineInv'
    BY DeviceLine, OpenLine, QuietLine, ReadLine DEF Next, Reader
  <2>2. StreamInv /\ [Next]_vars => Streams'
    BY DeviceStream, QuietStream, ReadStream DEF Next, Reader
  <2> QED
    BY <2>1, <2>2 DEF StreamInv
<1> QED
  BY <1>1, <1>2, StreamHeard, PTL DEF Spec
=============================================================================
