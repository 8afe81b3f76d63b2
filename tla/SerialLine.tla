----------------------------- MODULE SerialLine -----------------------------
(***************************************************************************)
(* The line of the GPS receiver: SerialBase (open, the reader thread,      *)
(* close), NewLineSerial, which splits what is read into lines, and        *)
(* NMEAReader, which takes each line on the reader thread.                 *)
(*                                                                         *)
(* A byte is LF, CR or a positive number, which stands for the sentence    *)
(* with that number.  NUL is what the buffer is cleared with; the device   *)
(* does not send it.                                                       *)
(***************************************************************************)
EXTENDS Integers, Sequences, FiniteSets, FiniteSetsExt

CONSTANTS Capacity,      \* MAXBUFFERSIZE
          MaxSentences,  \* bound: sentences the device sends
          MaxNoise       \* bound: line feeds between them

ASSUME SerialAssumption ==
  Capacity \in Nat \ {0} /\ MaxSentences \in Nat /\ MaxNoise \in Nat

LF  == 0
CR  == -1
NUL == -2

VARIABLES
  main,     \* where main is: "closed", "opened", "starting" (the thread is made),
            \* "waiting" on cv, "up", "closing"
  loop,     \* the reader thread: "none", "settling", "head" of the loop, "polling", "ended"
  run,      \* _run
  tty,      \* what has come in and was not read
  memory,   \* readBuffer_
  pos,      \* currentReadPos_
  sent,     \* how many bytes of sentences the device has sent
  noise,    \* how many line feeds beside them
  bad,      \* the sentences a decoder throws at (without a time, for one)
  took,     \* history: what was read since the line was opened or has overrun
  heard,    \* history: the sentences decoded since then
  ordered   \* history: each of them once, and in the order in which they were sent

thread == <<main, loop, run>>
buffer == <<memory, pos, took, heard, ordered>>
device == <<sent, noise, bad>>
vars   == <<thread, tty, buffer, device>>

Cells == 0 .. Capacity - 1
Clear == [i \in Cells |-> NUL]

Init ==
  /\ main = "closed" /\ loop = "none" /\ run = TRUE /\ tty = <<>>
  /\ memory = Clear /\ pos = 0 /\ took = <<>> /\ heard = {} /\ ordered = TRUE
  /\ sent = 0 /\ noise = 0 /\ bad \in SUBSET (1..MaxSentences)

-----------------------------------------------------------------------------
(* The device.  What it sends is lost while nobody has the line open.      *)

Byte(k) == IF k % 3 = 0 THEN k \div 3 + 1 ELSE IF k % 3 = 1 THEN CR ELSE LF
Arrives(b) == tty' = IF main = "closed" THEN tty ELSE Append(tty, b)

Send  == /\ sent < 3 * MaxSentences /\ sent' = sent + 1 /\ Arrives(Byte(sent))
         /\ UNCHANGED <<thread, buffer, noise, bad>>
Noise == /\ noise < MaxNoise /\ noise' = noise + 1 /\ Arrives(LF)
         /\ UNCHANGED <<thread, buffer, sent, bad>>

-----------------------------------------------------------------------------
(* Main.                                                                   *)

\* NMEAReader::Init makes a new NewLineSerial and opens it.
Open ==
  /\ main = "closed" /\ main' = "opened" /\ run' = TRUE /\ tty' = <<>>
  /\ memory' = Clear /\ pos' = 0 /\ took' = <<>> /\ heard' = {} /\ ordered' = TRUE
  /\ UNCHANGED <<loop, device>>

\* SerialBase::Start.  If epoll does not take the port nothing is started; the caller
\* does not look at the result.
Start ==
  /\ main = "opened"
  /\ \/ main' = "starting" /\ loop' = "settling"
     \/ main' = "up" /\ UNCHANGED loop
  /\ UNCHANGED <<run, tty, buffer, device>>
Wait ==
  /\ main = "starting" /\ main' = "waiting"
  /\ UNCHANGED <<loop, run, tty, buffer, device>>

\* A wait without a predicate can also end by itself.
Wake ==
  /\ main = "waiting" /\ main' = "up" /\ UNCHANGED <<loop, run, tty, buffer, device>>

\* SerialBase::Close.
Close ==
  /\ main = "up" /\ main' = "closing" /\ run' = FALSE
  /\ UNCHANGED <<loop, tty, buffer, device>>
Joined ==
  /\ main = "closing" /\ loop \in {"none", "ended"} /\ main' = "closed" /\ loop' = "none"
  /\ UNCHANGED <<run, tty, buffer, device>>

-----------------------------------------------------------------------------
(* NewLineSerial::AnalyseBuffer, of memory m that is filled up to end.     *)

Ends(m, end) == {p \in 0 .. end - 1 : m[p] = LF}
From(m, p)   == 1 + Max({-1} \cup Ends(m, p))

\* A line is handed over without the two characters of its end.  Of an empty one between
\* others that makes a length of -1: all up to the first NUL is handed over.  The mutation
\* drops one character more.
Shortened(m, p) == From(m, p) .. p - 3
Received(m, p) ==
  IF p > From(m, p) THEN From(m, p) .. p - 2
  ELSE p .. Min({i \in Cells : m[i] = NUL} \cup {Capacity}) - 1

\* NMEAReader::IncomingMessage looks for the last sentence in what it is handed; 0 if
\* there is none, or if nothing is handed over because the line is at the very beginning.
Sentence(m, p) ==
  LET sentences == {i \in Received(m, p) : m[i] > 0}
  IN IF p < 2 \/ sentences = {} THEN 0 ELSE m[Max(sentences)]

\* The first line at which a decoder throws, or end.
Stop(m, end) == Min({end} \cup {p \in Ends(m, end) : Sentence(m, p) \in bad})

\* The ends of the lines that are decoded, from the first to the last.
Decoded(m, end) == {p \in Ends(m, Stop(m, end)) : Sentence(m, p) # 0}

\* What is left is moved to the front, unless a decoder has thrown.  The mutation leaves
\* currentReadPos_ alone.
Rest(m, end) == From(m, end)
PosKept(m, end) == /\ memory' = [i \in Cells |-> IF i + Rest(m, end) < end
                                                 THEN m[i + Rest(m, end)] ELSE NUL]
                   /\ pos' = end
Compact(m, end) == /\ memory' = [i \in Cells |-> IF i + Rest(m, end) < end
                                                 THEN m[i + Rest(m, end)] ELSE NUL]
                   /\ pos' = end - Rest(m, end)
AnalyseBuffer(m, end) ==
  IF Stop(m, end) = end /\ Ends(m, end) # {} THEN Compact(m, end)
                                             ELSE memory' = m /\ pos' = end

-----------------------------------------------------------------------------
(* The reader thread, SerialBase::Loop.                                    *)

\* It sleeps, drops what has come meanwhile, and notifies whoever waits now.  The mutation
\* notifies nobody.
NotifyNobody == UNCHANGED main
Notify == main' = IF main = "waiting" THEN "up" ELSE main
Settle ==
  /\ loop = "settling" /\ loop' = "head" /\ tty' = <<>> /\ Notify
  /\ UNCHANGED <<run, buffer, device>>

Check ==
  /\ loop = "head" /\ loop' = IF run THEN "polling" ELSE "ended"
  /\ UNCHANGED <<main, run, tty, buffer, device>>

TimeOut ==
  /\ loop = "polling" /\ tty = <<>> /\ loop' = "head"
  /\ UNCHANGED <<main, run, tty, buffer, device>>

\* What does not fit makes the buffer start from its beginning; what is behind stays there.
Overrun == pos + Len(tty) > Capacity
Read ==
  /\ loop = "polling" /\ tty # <<>> /\ loop' = "head"
  /\ LET at    == IF Overrun THEN 0 ELSE pos
         count == Min({Len(tty), Capacity})
         m     == [i \in Cells |-> IF i \in at .. at + count - 1 THEN tty[i - at + 1]
                                                                ELSE memory[i]]
         lines == Decoded(m, at + count)
         known == IF Overrun THEN {} ELSE heard
     IN /\ AnalyseBuffer(m, at + count)
        /\ tty'   = SubSeq(tty, count + 1, Len(tty))
        /\ took'  = (IF Overrun THEN <<>> ELSE took) \o SubSeq(tty, 1, count)
        /\ heard' = known \cup {Sentence(m, p) : p \in lines}
        /\ ordered' = /\ Overrun \/ ordered
                      /\ \A p \in lines, h \in known : h < Sentence(m, p)
                      /\ \A p, q \in lines : p < q => Sentence(m, p) < Sentence(m, q)
  /\ UNCHANGED <<main, run, device>>

-----------------------------------------------------------------------------
Main   == Start \/ Wait \/ Joined
Reader == Settle \/ Check \/ TimeOut \/ Read
Next   == Send \/ Noise \/ Open \/ Main \/ Wake \/ Close \/ Reader
Spec   == Init /\ [][Next]_vars

\* Main and the thread go on; nobody has to open, close or send.
FairSpec == Spec /\ WF_vars(Main) /\ WF_vars(Reader)

-----------------------------------------------------------------------------
(* Properties.                                                             *)

TypeOK ==
  /\ main \in {"closed", "opened", "starting", "waiting", "up", "closing"}
  /\ loop \in {"none", "settling", "head", "polling", "ended"} /\ run \in BOOLEAN
  /\ tty \in Seq(Int) /\ memory \in [Cells -> Int] /\ pos \in 0..Capacity
  /\ sent \in 0 .. 3 * MaxSentences /\ noise \in 0..MaxNoise /\ bad \subseteq 1..MaxSentences
  /\ took \in Seq(Int) /\ heard \subseteq Int /\ ordered \in BOOLEAN

\* The sentences of which the whole line was read, and of these the ones before the first
\* at which a decoder throws.
Whole  == {k \in DOMAIN took : took[k] > 0 /\ k + 2 <= Len(took) /\ took[k + 2] = LF}
Before == {k \in Whole : \A j \in Whole : took[j] \in bad => k < j}

\* Wherever the reads have cut the lines, the reader hears what was read: without a
\* sentence that a decoder throws at every line once and in order, also after an overrun,
\* and keeps the beginning of the next one.  Behind one that does, it hears nothing more
\* until the buffer overruns, and what came before it over and over.
HeardUpToBad ==
  noise = 0 =>
    /\ heard = {took[k] : k \in Before}
    /\ Before = Whole => ordered /\ pos <= 2

\* Also with line feeds in between the buffer keeps the end of what was read; a thread
\* reads only while main has the line open.
SerialInv ==
  /\ TypeOK
  /\ pos <= Len(took) /\ \A i \in 0 .. pos - 1 : memory[i] = took[Len(took) - pos + 1 + i]
  /\ loop # "none" => main \notin {"closed", "opened"}
  /\ loop = "settling" => took = <<>>

\* Start returns if main waits before the thread notifies, and Close does; and what comes
\* in is read or dropped while the thread runs.
SerialGoesOn ==
  /\ (main = "waiting" /\ loop = "settling") ~> main = "up"
  /\ main = "closing" ~> main = "closed"
  /\ (tty # <<>> /\ loop # "none") ~> (tty = <<>> \/ ~run)
=============================================================================
