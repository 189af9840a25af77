---------------------------- MODULE DebugProofs -----------------------------
(***************************************************************************)
(* Proofs about both ends of debugging.  Console, for every set of inputs  *)
(* of any length: the lines that the reader thread queues reach the device *)
(* whole, once and in order, whatever the interleaving of the threads and  *)
(* of a signal.  DebugLink, for every size of the ring and every length    *)
(* and number of messages: what the program writes reaches SatLink whole,  *)
(* once and in order, and every answer belongs to the call that gets it.   *)
(***************************************************************************)
EXTENDS Console, DebugLink, SequenceTheorems, WellFoundedInduction, TLAPS

-----------------------------------------------------------------------------
(* Console. *)

(* Progress of the line being sent: the bytes counted are the bytes written. *)
SentCounted == lines # << >> => Len(wire[Len(wire)]) = sent

(* The inductive invariant. *)
LinesInv == TypeOK /\ LinesConserved /\ LinesForwarded /\ SentCounted

-----------------------------------------------------------------------------
(* Type correctness: one step per action. *)

(* A line that is about to be sent keeps the history well typed. *)
LEMMA StartLineType ==
  ASSUME wire \in Seq(Seq(Char)), NEW ls
  PROVE  /\ StartLine(ls) \in Seq(Seq(Char))
         /\ Len(StartLine(ls)) >= Len(wire)
         /\ ls # << >> => StartLine(ls) # << >>
<1>1. << >> \in Seq(Char)
  OBVIOUS
<1>2. /\ Append(wire, << >>) \in Seq(Seq(Char))
      /\ Len(Append(wire, << >>)) = Len(wire) + 1
      /\ Append(wire, << >>) # << >>
  BY <1>1, AppendProperties
<1> QED
  BY <1>2, LenProperties DEF StartLine

(* Going on to the next line keeps the lines well typed. *)
LEMMA NextLineType ==
  ASSUME TypeOK, NextLine, lines # << >>
  PROVE  /\ lines' \in Seq(Seq(Char)) /\ sent' \in Nat
         /\ lines' # << >> => wire' # << >> /\ sent' =< Len(Head(lines'))
         /\ wire' \in Seq(Seq(Char)) /\ Len(wire') >= Len(wire)
<1>1. Tail(lines) \in Seq(Seq(Char))
  BY HeadTailProperties DEF TypeOK
<1>2. Tail(lines) # << >> => Head(Tail(lines)) \in Seq(Char)
  BY <1>1, HeadTailProperties
<1> QED
  BY <1>1, <1>2, StartLineType, LenProperties DEF TypeOK, NextLine

(* The initial state is well typed. *)
LEMMA InitTypeOK == Init => TypeOK
<1> SUFFICES ASSUME Init PROVE TypeOK
  OBVIOUS
<1>1. /\ input \in Seq(Char) /\ pending \in Seq(Char)
      /\ queue \in Seq(Seq(Char)) /\ lines \in Seq(Seq(Char))
      /\ typed \in Seq(Seq(Char)) /\ wire \in Seq(Seq(Char))
  BY ConsoleAssumption, EmptySeq DEF Init
<1> QED
  BY <1>1 DEF Init, TypeOK

(* Every step keeps the types. *)
LEMMA StepTypeOK == TypeOK /\ [Next]_vars => TypeOK'
<1> SUFFICES ASSUME TypeOK, [Next]_vars PROVE TypeOK'
  OBVIOUS
<1>1. CASE RCheck
  BY <1>1 DEF RCheck, TypeOK, main
<1>2. CASE RPollTimeout
  BY <1>2 DEF RPollTimeout, TypeOK, main
<1>3. CASE RPollIn
  BY <1>3 DEF RPollIn, TypeOK, main
<1>4. CASE RFail
  BY <1>4 DEF RFail, TypeOK, main
<1>5. CASE REof
  BY <1>5 DEF REof, TypeOK, main
<1>6. CASE RCtrlC
  BY <1>6, HeadTailProperties, EmptySeq DEF RCtrlC, TypeOK, main
<1>7. CASE RByte
  <2>1. Head(input) \in Char /\ Tail(input) \in Seq(Char)
    BY <1>7, HeadTailProperties DEF RByte, TypeOK
  <2>2. Normalized(Head(input)) \in Char
    BY <2>1 DEF Normalized, Char
  <2> QED
    BY <1>7, <2>1, <2>2 DEF RByte, TypeOK, main
<1>8. CASE REnqueue
  BY <1>8, EmptySeq DEF REnqueue, TypeOK, main
<1>9. CASE MCheck
  BY <1>9 DEF MCheck, TypeOK, reader
<1>10. CASE MRead
  BY <1>10 DEF MRead, TypeOK, reader
<1>11. CASE MReadError
  BY <1>11 DEF MReadError, TypeOK, reader
<1>12. CASE MTake
  <2>1. queue # << >> => Head(queue) \in Seq(Char)
    BY HeadTailProperties DEF TypeOK
  <2> QED
    BY <1>12, <2>1, StartLineType, EmptySeq, LenProperties DEF MTake, TypeOK, reader
<1>13. CASE MWrite
  <2> PICK n \in 1 .. (Len(Head(lines)) - sent) :
         /\ sent' = sent + n
         /\ wire' = [wire EXCEPT ![Len(wire)] =
                                   @ \o SubSeq(Head(lines), sent + 1, sent + n)]
    BY <1>13 DEF MWrite
  <2>1. Head(lines) \in Seq(Char) /\ Len(Head(lines)) \in Nat
    BY <1>13, HeadTailProperties, LenProperties DEF MWrite, Sending, TypeOK
  <2>2. SubSeq(Head(lines), sent + 1, sent + n) \in Seq(Char)
    BY <2>1, SubSeqProperties DEF TypeOK
  <2>3. wire' \in Seq(Seq(Char)) /\ Len(wire') = Len(wire) /\ wire' # << >>
    <3>1. Len(wire) \in 1 .. Len(wire)
      BY <1>13, LenProperties, EmptySeq DEF MWrite, Sending, TypeOK
    <3>2. wire[Len(wire)] \o SubSeq(Head(lines), sent + 1, sent + n) \in Seq(Char)
      BY <2>2, <3>1, ElementOfSeq, ConcatProperties DEF TypeOK
    <3> QED
      <4>1. /\ wire' \in Seq(Seq(Char))
            /\ Len(wire') = Len(wire)
        BY <3>1, <3>2, ExceptSeq DEF TypeOK
      <4> QED
        BY <3>1, <4>1, EmptySeq
  <2>4. sent' \in Nat /\ sent' =< Len(Head(lines))
    BY <2>1 DEF TypeOK
  <2> QED
    BY <1>13, <2>3, <2>4 DEF MWrite, TypeOK, reader
<1>14. CASE MWriteError
  BY <1>14, NextLineType, LenProperties DEF MWriteError, Sending, TypeOK, reader
<1>15. CASE MWriteZero
  <2>1. Len(wire) \in 1 .. Len(wire)
    BY <1>15, LenProperties, EmptySeq DEF MWriteZero, Sending, TypeOK
  <2>2. short' \subseteq 1 .. Len(wire')
    <3>1. Len(wire') >= Len(wire) /\ Len(wire') \in Nat
      BY <1>15, NextLineType, LenProperties DEF MWriteZero, Sending
    <3>2. short' = short \cup {Len(wire)} /\ short \subseteq 1 .. Len(wire)
      BY <1>15 DEF MWriteZero, TypeOK
    <3>3. 1 .. Len(wire) \subseteq 1 .. Len(wire')
      BY <2>1, <3>1
    <3> QED
      BY <2>1, <3>2, <3>3
  <2> QED
    BY <1>15, <2>2, NextLineType DEF MWriteZero, Sending, TypeOK, reader
<1>16. CASE MNextLine
  BY <1>16, NextLineType, LenProperties DEF MNextLine, TypeOK, reader
<1>17. CASE MLoop
  BY <1>17 DEF MLoop, TypeOK, reader
<1>18. CASE MJoin
  BY <1>18 DEF MJoin, TypeOK, reader
<1>19. CASE Signal
  BY <1>19 DEF Signal, TypeOK, reader, main
<1>20. CASE UNCHANGED vars
  BY <1>20 DEF vars, TypeOK, reader, main
<1> QED
  BY <1>1, <1>2, <1>3, <1>4, <1>5, <1>6, <1>7, <1>8, <1>9, <1>10, <1>11, <1>12, <1>13,
     <1>14, <1>15, <1>16, <1>17, <1>18, <1>19, <1>20 DEF Next, Reader, Main

-----------------------------------------------------------------------------
(* The lines: one lemma per action that moves them. *)

(* The shared parts of the state are sequences, and Over is a number. *)
LEMMA LineFacts ==
  ASSUME LinesInv
  PROVE  /\ Len(typed) \in Nat /\ Len(queue) \in Nat /\ Len(lines) \in Nat
         /\ Len(wire) \in Nat /\ Over \in Nat
         /\ lines # << >> => Len(lines) > 0
         /\ lines = << >> => Len(lines) = 0
         /\ \A i \in 1 .. Len(wire) : i \in 1 .. Len(typed)
         /\ \A i \in 1 .. Len(typed) : typed[i] \in Seq(Char) /\ Len(typed[i]) \in Nat
         /\ \A i \in 1 .. Len(wire) : wire[i] \in Seq(Char) /\ Len(wire[i]) \in Nat
<1>1. /\ Len(typed) \in Nat /\ Len(queue) \in Nat /\ Len(lines) \in Nat /\ Len(wire) \in Nat
  BY LenProperties DEF LinesInv, TypeOK
<1>2. Over \in Nat
  BY <1>1 DEF LinesInv, LinesConserved, Over
<1>3. (lines # << >> => Len(lines) > 0) /\ (lines = << >> => Len(lines) = 0)
  BY <1>1, EmptySeq DEF LinesInv, TypeOK
<1>4. Len(wire) =< Len(typed)
  BY <1>1, <1>2, <1>3 DEF LinesInv, LinesConserved, Over
<1>5. \A i \in 1 .. Len(typed) : typed[i] \in Seq(Char) /\ Len(typed[i]) \in Nat
  BY ElementOfSeq, LenProperties DEF LinesInv, TypeOK
<1>6. \A i \in 1 .. Len(wire) : wire[i] \in Seq(Char) /\ Len(wire[i]) \in Nat
  BY ElementOfSeq, LenProperties DEF LinesInv, TypeOK
<1> QED
  BY <1>1, <1>2, <1>3, <1>4, <1>5, <1>6

(* A step that moves no line and does not reset the flag. *)
LEMMA QuietStep ==
  ASSUME LinesInv, UNCHANGED <<queue, lines, sent, typed, wire, short>>, flag => flag'
  PROVE  (LinesConserved /\ LinesForwarded /\ SentCounted)'
  BY DEF LinesInv, LinesConserved, LinesForwarded, SentCounted, Over

(* The reader queues a line: it is the last one typed. *)
LEMMA EnqueueStep ==
  ASSUME LinesInv, REnqueue
  PROVE  (LinesConserved /\ LinesForwarded /\ SentCounted)'
<1>1. /\ Len(typed') = Len(typed) + 1 /\ Len(queue') = Len(queue) + 1
      /\ \A i \in 1 .. Len(typed) : typed'[i] = typed[i]
      /\ \A i \in 1 .. Len(queue) : queue'[i] = queue[i]
      /\ typed'[Len(typed) + 1] = pending /\ queue'[Len(queue) + 1] = pending
  <2>1. pending \in Seq(Char) /\ typed \in Seq(Seq(Char)) /\ queue \in Seq(Seq(Char))
    BY DEF LinesInv, TypeOK
  <2>2. typed' = Append(typed, pending) /\ queue' = Append(queue, pending)
    BY DEF REnqueue
  <2> QED
    BY <2>1, <2>2, AppendProperties
<1>2. UNCHANGED <<lines, sent, wire, short, flag>>
  BY DEF REnqueue, main
<1>3. Over' = Over
  BY <1>1, <1>2, LineFacts DEF Over
<1>4. LinesConserved'
  <2>1. ASSUME NEW i \in 1 .. Len(lines') PROVE lines'[i] = typed'[Over' + i]
    <3>1. i \in 1 .. Len(lines) /\ Over + i \in 1 .. Len(typed)
      BY <1>2, <2>1, LineFacts DEF Over
    <3>2. lines[i] = typed[Over + i]
      BY <3>1 DEF LinesInv, LinesConserved
    <3> QED
      BY <1>1, <1>2, <1>3, <3>1, <3>2
  <2>2. ASSUME NEW i \in 1 .. Len(queue')
        PROVE  queue'[i] = typed'[Over' + Len(lines') + i]
    <3>1. CASE i = Len(queue) + 1
      <4>1. Over + Len(lines) + i = Len(typed) + 1
        BY <3>1, LineFacts DEF Over
      <4> QED
        BY <1>1, <1>2, <1>3, <3>1, <4>1
    <3>2. CASE i # Len(queue) + 1
      <4>1. i \in 1 .. Len(queue)
        BY <1>1, <2>2, <3>2, LineFacts
      <4>2. Over + Len(lines) + i \in 1 .. Len(typed)
        BY <4>1, LineFacts DEF Over
      <4>3. queue[i] = typed[Over + Len(lines) + i]
        BY <4>1 DEF LinesInv, LinesConserved
      <4> QED
        BY <1>1, <1>2, <1>3, <4>1, <4>2, <4>3
    <3> QED
      BY <3>1, <3>2
  <2> QED
    BY <1>2, <1>3, <2>1, <2>2 DEF LinesInv, LinesConserved
<1>5. LinesForwarded'
  <2>1. \A i \in 1 .. Len(wire) : typed'[i] = typed[i]
    BY <1>1, LineFacts
  <2>2. LinesForwarded
    BY DEF LinesInv
  <2> QED
    BY <1>2, <1>3, <2>1, <2>2 DEF LinesForwarded
<1> QED
  BY <1>2, <1>4, <1>5 DEF LinesInv, SentCounted

(* The main loop takes the queue: no line was being sent. *)
LEMMA TakeStep ==
  ASSUME LinesInv, MTake
  PROVE  (LinesConserved /\ LinesForwarded /\ SentCounted)'
<1>1. lines = << >> /\ Len(lines) = 0
  <2>1. lines = << >>
    BY DEF LinesInv, MTake, TypeOK
  <2> QED
    BY <2>1, EmptySeq
<1>2. /\ lines' = queue /\ queue' = << >> /\ sent' = 0 /\ Len(queue') = 0
      /\ UNCHANGED <<typed, short, flag>>
  BY DEF MTake
<1>3. Over' = Over
  BY <1>1, <1>2, LineFacts DEF Over
<1>4. Len(wire) = Over
  BY <1>1, LineFacts DEF LinesInv, LinesConserved
<1>5. CASE queue = << >>
  <2>1. wire' = wire /\ lines' = lines
    BY <1>1, <1>2, <1>5 DEF MTake, StartLine
  <2> QED
    BY <1>1, <1>2, <1>3, <1>4, <2>1 DEF LinesInv, LinesConserved, LinesForwarded, SentCounted
<1>6. CASE queue # << >>
  <2>1. /\ Len(wire') = Len(wire) + 1
        /\ \A i \in 1 .. Len(wire) : wire'[i] = wire[i]
        /\ wire'[Len(wire) + 1] = << >> /\ Len(wire'[Len(wire) + 1]) = 0
    <3>1. wire' = Append(wire, << >>)
      BY <1>6 DEF MTake, StartLine
    <3> QED
      BY <3>1, AppendProperties, EmptySeq DEF LinesInv, TypeOK
  <2>2. Len(queue) > 0
    BY <1>6, EmptySeq DEF LinesInv, TypeOK
  <2>3. LinesConserved'
    BY <1>1, <1>2, <1>3, <1>4, <1>6, <2>1, LineFacts DEF LinesInv, LinesConserved
  <2>4. Len(wire) + 1 \in 1 .. Len(typed)
    BY <1>1, <1>4, <2>2, LineFacts DEF Over
  <2>5. LinesForwarded'
    BY <1>2, <1>3, <1>4, <2>1, <2>4, LineFacts DEF LinesInv, LinesForwarded
  <2> QED
    BY <1>2, <2>1, <2>3, <2>5 DEF SentCounted
<1> QED
  BY <1>5, <1>6

(* The line being sent is the last one on the wire and the first one taken. *)
LEMMA CurrentLine ==
  ASSUME LinesInv, lines # << >>
  PROVE  /\ Len(wire) = Over + 1 /\ Len(wire) \in 1 .. Len(typed)
         /\ Head(lines) = typed[Len(wire)]
         /\ Len(wire[Len(wire)]) = sent
         /\ sent \in Nat /\ sent =< Len(Head(lines))
<1>1. Len(wire) = Over + 1 /\ Len(wire) \in 1 .. Len(typed)
  BY LineFacts DEF LinesInv, LinesConserved, Over
<1>2. Head(lines) = lines[1] /\ 1 \in 1 .. Len(lines)
  BY LineFacts DEF LinesInv, TypeOK
<1>3. lines[1] = typed[Over + 1]
  BY <1>2 DEF LinesInv, LinesConserved
<1> QED
  BY <1>1, <1>2, <1>3 DEF LinesInv, TypeOK, SentCounted

(***************************************************************************)
(* A line is left: it was sent whole, or the flag is set, or it is noted   *)
(* as cut short.                                                           *)
(***************************************************************************)
LEMMA LeaveStep ==
  ASSUME LinesInv, lines # << >>, NextLine, UNCHANGED <<queue, typed>>,
         short \subseteq short', flag => flag',
         \/ sent = Len(Head(lines))
         \/ flag'
         \/ Len(wire) \in short'
  PROVE  (LinesConserved /\ LinesForwarded /\ SentCounted)'
<1>1. /\ lines' = Tail(lines) /\ sent' = 0
      /\ Len(lines') = Len(lines) - 1
      /\ \A i \in 1 .. Len(lines') : lines'[i] = lines[i + 1]
  BY HeadTailProperties DEF LinesInv, TypeOK, NextLine
<1>2. Over' = Over + 1
  BY <1>1, LineFacts DEF Over
<1>3. /\ Len(wire') = Over' + (IF lines' = << >> THEN 0 ELSE 1)
      /\ \A i \in 1 .. Len(wire) : wire'[i] = wire[i]
      /\ lines' # << >> => /\ Len(wire') = Len(wire) + 1
                           /\ wire'[Len(wire) + 1] = << >>
  <2>1. CASE lines' = << >>
    BY <1>1, <1>2, <2>1, CurrentLine, LineFacts DEF NextLine, StartLine
  <2>2. CASE lines' # << >>
    <3>1. wire' = Append(wire, << >>)
      BY <1>1, <2>2 DEF NextLine, StartLine
    <3>2. << >> \in Seq(Char)
      OBVIOUS
    <3>3. /\ Len(wire') = Len(wire) + 1
          /\ \A i \in 1 .. Len(wire) : wire'[i] = wire[i]
          /\ wire'[Len(wire) + 1] = << >>
      BY <3>1, <3>2, AppendProperties DEF LinesInv, TypeOK
    <3> QED
      BY <1>2, <2>2, <3>3, CurrentLine, LineFacts
  <2> QED
    BY <2>1, <2>2
<1>4. LinesConserved'
  <2>1. ASSUME NEW i \in 1 .. Len(lines') PROVE lines'[i] = typed'[Over' + i]
    <3>1. i + 1 \in 1 .. Len(lines)
      BY <1>1, <2>1, LineFacts
    <3>2. lines[i + 1] = typed[Over + (i + 1)]
      BY <3>1 DEF LinesInv, LinesConserved
    <3>3. Over + (i + 1) = Over' + i
      BY <1>2, <3>1, LineFacts
    <3> QED
      BY <1>1, <2>1, <3>2, <3>3
  <2>2. ASSUME NEW i \in 1 .. Len(queue')
        PROVE  queue'[i] = typed'[Over' + Len(lines') + i]
    <3>1. Over' + Len(lines') + i = Over + Len(lines) + i
      BY <1>1, <1>2, LineFacts
    <3>2. queue[i] = typed[Over + Len(lines) + i]
      BY <2>2 DEF LinesInv, LinesConserved
    <3> QED
      BY <3>1, <3>2
  <2>3. Over' >= 0
    BY <1>2, LineFacts
  <2> QED
    BY <1>3, <2>1, <2>2, <2>3 DEF LinesConserved
<1>5. LinesForwarded'
  <2> SUFFICES ASSUME NEW i \in 1 .. Len(wire')
               PROVE  /\ Len(wire'[i]) =< Len(typed'[i])
                      /\ \A j \in 1 .. Len(wire'[i]) : wire'[i][j] = typed'[i][j]
                      /\ (i =< Over' /\ ~flag' /\ i \notin short')
                            => Len(wire'[i]) = Len(typed'[i])
    BY DEF LinesForwarded
  <2>1. CASE i \in 1 .. Len(wire) /\ i # Len(wire)
    <3>1. i =< Over
      BY <2>1, CurrentLine, LineFacts
    <3> QED
      BY <1>3, <2>1, <3>1 DEF LinesInv, LinesForwarded
  <2>2. CASE i = Len(wire)
    <3>1. i \in 1 .. Len(wire)
      BY <2>2, CurrentLine, LineFacts
    <3>2. sent = Len(Head(lines)) => Len(wire[i]) = Len(typed[i])
      BY <2>2, CurrentLine
    <3> QED
      BY <1>3, <2>2, <3>1, <3>2 DEF LinesInv, LinesForwarded
  <2>3. CASE i \notin 1 .. Len(wire)
    <3>1. lines' # << >>
      BY <1>2, <1>3, <2>3, CurrentLine, LineFacts
    <3>2. i = Len(wire) + 1 /\ i = Over' + 1
      BY <1>2, <1>3, <2>3, <3>1, CurrentLine, LineFacts
    <3>3. wire'[i] = << >> /\ Len(wire'[i]) = 0
      BY <1>3, <3>1, <3>2, EmptySeq
    <3>4. Len(lines') > 0
      BY <1>1, <3>1, HeadTailProperties, EmptySeq DEF LinesInv, TypeOK
    <3>5. i \in 1 .. Len(typed)
      BY <1>1, <1>2, <3>2, <3>4, LineFacts DEF Over
    <3> QED
      BY <3>2, <3>3, <3>5, LineFacts, <1>2
  <2> QED
    BY <2>1, <2>2, <2>3
<1> QED
  BY <1>1, <1>3, <1>4, <1>5, EmptySeq DEF SentCounted

(* ftdi_write_data takes the next n characters of the line. *)
LEMMA WriteStep ==
  ASSUME LinesInv, MWrite
  PROVE  (LinesConserved /\ LinesForwarded /\ SentCounted)'
<1> DEFINE k == Len(wire)
           h == Head(lines)
<1> PICK n \in 1 .. (Len(h) - sent) :
       /\ sent' = sent + n
       /\ wire' = [wire EXCEPT ![k] = @ \o SubSeq(h, sent + 1, sent + n)]
  BY DEF MWrite
<1>1. lines # << >> /\ UNCHANGED <<queue, lines, typed, short, flag>>
  BY DEF MWrite, Sending, reader
<1>2. /\ k = Over + 1 /\ k \in 1 .. Len(typed) /\ k \in 1 .. Len(wire)
      /\ h = typed[k] /\ h \in Seq(Char) /\ Len(h) \in Nat
      /\ Len(wire[k]) = sent /\ sent \in Nat
  BY <1>1, CurrentLine, LineFacts
<1> HIDE DEF k, h
<1>3. n \in Nat /\ n > 0 /\ sent + n =< Len(h)
  BY <1>2
<1>4. /\ SubSeq(h, sent + 1, sent + n) \in Seq(Char)
      /\ Len(SubSeq(h, sent + 1, sent + n)) = n
      /\ \A j \in 1 .. n : SubSeq(h, sent + 1, sent + n)[j] = h[sent + j]
  BY <1>2, <1>3
<1> DEFINE w == wire[k] \o SubSeq(h, sent + 1, sent + n)
<1>5. /\ w \in Seq(Char) /\ Len(w) = sent + n
      /\ \A j \in 1 .. sent : w[j] = wire[k][j]
      /\ \A j \in sent + 1 .. sent + n : w[j] = h[j]
  <2>1. wire[k] \in Seq(Char)
    BY <1>2, LineFacts
  <2> DEFINE t == SubSeq(h, sent + 1, sent + n)
  <2>2. t \in Seq(Char) /\ Len(t) = n /\ \A j \in 1 .. n : t[j] = h[sent + j]
    BY <1>4
  <2> HIDE DEF t
  <2>3. /\ wire[k] \o t \in Seq(Char) /\ Len(wire[k] \o t) = sent + n
        /\ \A j \in 1 .. sent : (wire[k] \o t)[j] = wire[k][j]
        /\ \A j \in sent + 1 .. sent + n : (wire[k] \o t)[j] = t[j - sent]
    <3>1. /\ wire[k] \o t \in Seq(Char) /\ Len(wire[k] \o t) = sent + n
          /\ \A j \in 1 .. sent + n :
               (wire[k] \o t)[j] = IF j =< sent THEN wire[k][j] ELSE t[j - sent]
      <4>1. Len(wire[k]) = sent /\ Len(t) = n /\ t \in Seq(Char)
        BY <1>2, <2>2
      <4>2. /\ wire[k] \o t \in Seq(Char)
            /\ Len(wire[k] \o t) = Len(wire[k]) + Len(t)
            /\ \A j \in 1 .. Len(wire[k]) + Len(t) :
                 (wire[k] \o t)[j] = IF j =< Len(wire[k]) THEN wire[k][j] ELSE t[j - Len(wire[k])]
        BY <2>1, <4>1, ConcatProperties
      <4> QED
        BY <4>1, <4>2
    <3>2. \A j \in 1 .. sent : j \in 1 .. sent + n /\ j =< sent
      BY <1>2, <1>3
    <3>3. \A j \in sent + 1 .. sent + n : j \in 1 .. sent + n /\ ~(j =< sent)
      BY <1>2, <1>3
    <3> QED
      BY <3>1, <3>2, <3>3
  <2>4. \A j \in sent + 1 .. sent + n : t[j - sent] = h[j]
    <3>1. \A j \in sent + 1 .. sent + n : j - sent \in 1 .. n /\ sent + (j - sent) = j
      BY <1>2, <1>3
    <3> QED
      BY <2>2, <3>1
  <2> QED
    BY <2>3, <2>4 DEF t
<1> HIDE DEF w
<1>6. /\ Len(wire') = Len(wire)
      /\ \A i \in 1 .. Len(wire) : wire'[i] = IF i = k THEN w ELSE wire[i]
  <2>1. wire' = [wire EXCEPT ![k] = w] /\ wire \in Seq(Seq(Char))
    BY DEF w, LinesInv, TypeOK
  <2>2. Len(wire') = Len(wire)
    BY <1>2, <1>5, <2>1, ExceptSeq
  <2>3. ASSUME NEW i \in 1 .. Len(wire)
        PROVE  wire'[i] = IF i = k THEN w ELSE wire[i]
    <3>1. i \in DOMAIN wire
      BY <2>1, LenProperties
    <3> QED
      BY <2>1, <3>1
  <2> QED
    BY <2>2, <2>3
<1>7. Over' = Over
  BY <1>1 DEF Over
<1>8. LinesConserved'
  BY <1>1, <1>6, <1>7 DEF LinesInv, LinesConserved
<1>9. LinesForwarded'
  <2> SUFFICES ASSUME NEW i \in 1 .. Len(wire')
               PROVE  /\ Len(wire'[i]) =< Len(typed'[i])
                      /\ \A j \in 1 .. Len(wire'[i]) : wire'[i][j] = typed'[i][j]
                      /\ (i =< Over' /\ ~flag' /\ i \notin short')
                            => Len(wire'[i]) = Len(typed'[i])
    BY DEF LinesForwarded
  <2>1. CASE i # k
    <3>1. i \in 1 .. Len(wire) /\ wire'[i] = wire[i]
      BY <1>6, <2>1
    <3> QED
      BY <1>1, <1>7, <3>1 DEF LinesInv, LinesForwarded
  <2>2. CASE i = k
    <3>1. wire'[i] = w /\ typed'[i] = h
      BY <1>1, <1>2, <1>6, <2>2
    <3>2. \A j \in 1 .. sent : wire[k][j] = h[j]
      BY <1>2 DEF LinesInv, LinesForwarded
    <3>3. \A j \in 1 .. sent + n : w[j] = h[j]
      BY <1>2, <1>3, <1>5, <3>2
    <3>4. ~(i =< Over')
      BY <1>2, <1>7, <2>2, LineFacts
    <3> QED
      BY <1>3, <1>5, <3>1, <3>3, <3>4
  <2> QED
    BY <2>1, <2>2
<1>10. SentCounted'
  BY <1>2, <1>5, <1>6 DEF SentCounted, k
<1> QED
  BY <1>8, <1>9, <1>10

-----------------------------------------------------------------------------
(* Every step preserves the invariant. *)
LEMMA StepLinesInv == LinesInv /\ [Next]_vars => LinesInv'
<1> SUFFICES ASSUME LinesInv, [Next]_vars PROVE LinesInv'
  OBVIOUS
<1>1. TypeOK'
  BY StepTypeOK DEF LinesInv
<1>2. CASE \/ RCheck \/ RPollTimeout \/ RPollIn \/ RFail \/ REof \/ RCtrlC \/ RByte
           \/ MCheck \/ MRead \/ MReadError \/ MLoop \/ MJoin \/ Signal
  <2>1. UNCHANGED <<queue, lines, sent, typed, wire, short>> /\ (flag => flag')
    BY <1>2 DEF RCheck, RPollTimeout, RPollIn, RFail, REof, RCtrlC, RByte,
                MCheck, MRead, MReadError, MLoop, MJoin, Signal, reader, main
  <2> QED
    BY <1>1, <2>1, QuietStep DEF LinesInv
<1>3. CASE UNCHANGED vars
  <2>1. UNCHANGED <<queue, lines, sent, typed, wire, short, flag>>
    BY <1>3 DEF vars, main
  <2> QED
    BY <1>1, <2>1, QuietStep DEF LinesInv
<1>4. CASE REnqueue
  BY <1>1, <1>4, EnqueueStep DEF LinesInv
<1>5. CASE MTake
  BY <1>1, <1>5, TakeStep DEF LinesInv
<1>6. CASE MWrite
  BY <1>1, <1>6, WriteStep DEF LinesInv
<1>7. CASE MWriteError
  <2>1. /\ lines # << >> /\ NextLine /\ UNCHANGED <<queue, typed>>
        /\ short \subseteq short' /\ flag'
    BY <1>7 DEF MWriteError, Sending
  <2> QED
    BY <1>1, <2>1, LeaveStep DEF LinesInv
<1>8. CASE MWriteZero
  <2>1. /\ lines # << >> /\ NextLine /\ UNCHANGED <<queue, typed, flag>>
        /\ short \subseteq short' /\ Len(wire) \in short'
    BY <1>8 DEF MWriteZero, Sending
  <2> QED
    BY <1>1, <2>1, LeaveStep DEF LinesInv
<1>9. CASE MNextLine
  <2>1. /\ lines # << >> /\ NextLine /\ UNCHANGED <<queue, typed, flag, short>>
        /\ ~(sent < Len(Head(lines))) \/ flag
    BY <1>9 DEF MNextLine, Sending
  <2>2. sent = Len(Head(lines)) \/ flag
    <3>1. Len(Head(lines)) \in Nat
      BY <2>1, HeadTailProperties, LenProperties DEF LinesInv, TypeOK
    <3> QED
      BY <2>1, <3>1, CurrentLine
  <2> QED
    BY <1>1, <2>1, <2>2, LeaveStep DEF LinesInv
<1> QED
  BY <1>2, <1>3, <1>4, <1>5, <1>6, <1>7, <1>8, <1>9 DEF Next, Reader, Main

(* The invariant holds initially: there are no lines. *)
LEMMA InitLinesInv == Init => LinesInv
<1> SUFFICES ASSUME Init PROVE LinesInv
  OBVIOUS
<1>1. /\ typed = << >> /\ queue = << >> /\ lines = << >> /\ wire = << >>
      /\ Len(typed) = 0 /\ Len(queue) = 0 /\ Len(lines) = 0 /\ Len(wire) = 0
  BY DEF Init
<1>2. Over = 0
  <2>1. Len(typed) = 0 /\ Len(queue) = 0 /\ Len(lines) = 0
    BY <1>1
  <2>2. Len(typed) - Len(lines) - Len(queue) = 0
    BY <2>1, SMT
  <2> QED
    BY <2>2 DEF Over
<1>3. LinesConserved
  <2>1. 1 .. Len(lines) = {} /\ 1 .. Len(queue) = {}
    BY <1>1
  <2>2. Over >= 0 /\ Len(wire) = Over + (IF lines = << >> THEN 0 ELSE 1)
    BY <1>1, <1>2
  <2> QED
    BY <2>1, <2>2 DEF LinesConserved
<1>4. LinesForwarded
  BY <1>1 DEF LinesForwarded
<1> QED
  BY <1>1, <1>3, <1>4, InitTypeOK DEF LinesInv, SentCounted

(* The inductive invariant holds in every state. *)
LEMMA LinesInvariant == Spec => []LinesInv
<1> QED
  BY InitLinesInv, StepLinesInv, PTL DEF Spec

(***************************************************************************)
(* DoConsole's variables keep their types, and the reader thread never     *)
(* ends without the flag: the main loop cannot be left running without it. *)
(***************************************************************************)
THEOREM TypeCorrect == Spec => []TypeOK
<1>1. LinesInv => TypeOK
  BY DEF LinesInv
<1> QED
  BY <1>1, LinesInvariant, PTL

(***************************************************************************)
(* No interleaving of the reader thread, the main loop and a signal loses, *)
(* duplicates or reorders a line between stdinLineQueue and linesToSend.   *)
(***************************************************************************)
THEOREM QueueKeepsOrder == Spec => []LinesConserved
<1>1. LinesInv => LinesConserved
  BY DEF LinesInv
<1> QED
  BY <1>1, LinesInvariant, PTL

(***************************************************************************)
(* What the device gets of a line is a prefix of it, and the whole of it   *)
(* unless the console is ending or ftdi_write_data took nothing, however   *)
(* the writes split it.                                                    *)
(***************************************************************************)
THEOREM DeviceGetsLines == Spec => []LinesForwarded
<1>1. LinesInv => LinesForwarded
  BY DEF LinesInv
<1> QED
  BY <1>1, LinesInvariant, PTL

-----------------------------------------------------------------------------
(* Why the console ends. *)

(* The flag is set for a reason, a read error has set it, and only the flag ends the loop. *)
ReasonInv ==
    /\ flag \in BOOLEAN /\ failure \in BOOLEAN /\ stopped \in BOOLEAN
    /\ flag => (failure \/ stopped \/ (rpc = "exit" /\ input = << >>))
    /\ status < 0 => flag
    /\ mpc \in {"join", "done"} => flag

(* Every step keeps the reason: nothing takes back a flag, and a reader that has ended stays so. *)
LEMMA StepReasonInv == TypeOK /\ ReasonInv /\ [Next]_vars => ReasonInv'
<1> SUFFICES ASSUME TypeOK, ReasonInv, [Next]_vars PROVE ReasonInv'
  OBVIOUS
<1> USE DEF ReasonInv
<1>1. CASE RCheck \/ RPollTimeout \/ RPollIn
  BY <1>1 DEF RCheck, RPollTimeout, RPollIn, main
<1>2. CASE RFail \/ REof \/ RCtrlC
  BY <1>2 DEF RFail, REof, RCtrlC, main
<1>3. CASE RByte \/ REnqueue
  BY <1>3 DEF RByte, REnqueue, main
<1>4. CASE MCheck
  BY <1>4 DEF MCheck, reader, TypeOK
<1>5. CASE MRead
  BY <1>5 DEF MRead, reader
<1>6. CASE MReadError
  BY <1>6 DEF MReadError, reader
<1>7. CASE MTake \/ MWrite
  BY <1>7 DEF MTake, MWrite, reader
<1>8. CASE MWriteError
  BY <1>8 DEF MWriteError, reader
<1>9. CASE MWriteZero \/ MNextLine
  BY <1>9 DEF MWriteZero, MNextLine, reader
<1>10. CASE MLoop \/ MJoin
  BY <1>10 DEF MLoop, MJoin, reader
<1>11. CASE Signal
  BY <1>11 DEF Signal, reader, main
<1>12. CASE UNCHANGED vars
  BY <1>12 DEF vars, reader, main
<1> QED
  BY <1>1, <1>2, <1>3, <1>4, <1>5, <1>6, <1>7, <1>8, <1>9, <1>10, <1>11, <1>12
     DEF Next, Reader, Main

(***************************************************************************)
(* EndsForAReason for every input: DoConsole leaves its loop only after a  *)
(* signal, a Ctrl+C, a failed call or the end of the input, whatever the   *)
(* device sends or takes.                                                  *)
(***************************************************************************)
THEOREM EndsOnlyForAReason == Spec => []EndsForAReason
<1>1. Init => ReasonInv
  <2>1. ~(0 < 0)
    OBVIOUS
  <2> QED
    BY <2>1 DEF Init, ReasonInv
<1>2. ReasonInv => EndsForAReason
  BY DEF ReasonInv, EndsForAReason
<1> QED
  BY <1>1, <1>2, TypeCorrect, StepReasonInv, PTL DEF Spec

-----------------------------------------------------------------------------
(* DebugLink: the inductive invariant. *)

(* How many bytes there are from the pointer r to the pointer w. *)
Dist(r, w) == IF w >= r THEN w - r ELSE Size - r + w

(* The place i bytes behind the pointer r. *)
Place(r, i) == IF r + i >= Size THEN r + i - Size ELSE r + i

(* The i-th unread byte. *)
Unread(i) == rbuffer[Place(readptr, i - 1)]

Cell == Nat \X Nat

Message == [kind : {"msg", "prompt", "request"}, len : Nat]

(* What can be left of a call: of a log, of a prompt, and of a use of files. *)
LogCalls(n) == {<<Log("msg", n)>>, <<Log("msg", n), Log("msg", n)>>, <<Flush, Log("msg", n)>>, <<Flush>>}
PromptCalls(n) == {<<Log("prompt", n), Reset, Wait>>}
PromptRest == {<<Flush, Reset, Wait>>, <<Reset, Wait>>, <<Wait>>}
FileCalls == {<<Flush, Post, Wait>>, <<Post, Wait>>, <<Wait>>, <<Flush, Post, Wait, Flush, Post, Wait>>,
              <<Post, Wait, Flush, Post, Wait>>, <<Wait, Flush, Post, Wait>>}

IsCall(t) == \/ t \in {<<>>, <<Flush>>} \union PromptRest \union FileCalls
             \/ \E n \in LogLens : t \in LogCalls(n) \union PromptCalls(n)

(* A call is being made only once the library was started, and nothing was lost before. *)
Calls == /\ IsCall(todo)
         /\ ~init => todo = <<>> /\ ~lost /\ ~guarded

DebugTypes ==
    /\ set \in Settings /\ file \in Settings \union {NoFile}
    /\ readptr \in 0 .. (Size - 1) /\ writeptr \in 0 .. (Size - 1) /\ polled \in 0 .. (Size - 1)
    /\ rbuffer \in [0 .. (Size - 1) -> Cell]
    /\ fails \in Nat /\ quits \in Nat /\ sets \in Nat
    /\ link \in {"off", "poll", "data", "ack", "serve"}
    /\ inbox \in Seq(Nat) /\ stream \in Seq(Cell)
    /\ msgs \in Seq(Message) /\ kept \in Seq(Nat)
    /\ proc_complete \in 0 .. Len(msgs)

(* What SatLink has polled is a part of what is unread. *)
PolledInv == link \in {"data", "ack"} => Dist(readptr, polled) =< Dist(readptr, writeptr)

(* What is between two pointers of a buffer. *)
Read(b, r, w) == [i \in 1 .. Dist(r, w) |-> b[Place(r, i - 1)]]

(* The bytes of a stream st but for those whose receipt SatLink has still to tell. *)
Told(l, st, n) == IF l = "ack" THEN SubSeq(st, 1, Len(st) - n) ELSE st

Received == Told(link, stream, Dist(readptr, polled))

(* Between the data and its receipt the data is the end of the stream. *)
AckInv == link = "ack" => stream = Received \o Read(rbuffer, readptr, polled)

(* f is the function that Bytes(ids) defines, of messages ms. *)
IsUpto(ids, ms, f) ==
    f = [k \in 0 .. Len(ids) |-> IF k = 0 THEN <<>> ELSE f[k - 1] \o Cells(ids[k], ms[ids[k]].len)]

(* The messages ids of ms are the bytes st. *)
BytesAre(ids, ms, st) ==
    /\ \A k \in DOMAIN ids : ids[k] \in DOMAIN ms
    /\ \E f : IsUpto(ids, ms, f)
    /\ \A f : IsUpto(ids, ms, f) => f[Len(ids)] = st

StreamInv == BytesAre(kept, msgs, Received \o Read(rbuffer, readptr, writeptr))

(* What is unread are bytes of messages, none twice. *)
CellsInv ==
    /\ \A i \in 1 .. Dist(readptr, writeptr) :
         Unread(i)[1] \in 1 .. Len(msgs) /\ Unread(i)[2] \in Nat \ {0}
    /\ \A i, j \in 1 .. Dist(readptr, writeptr) : Unread(i) = Unread(j) => i = j

(* The program waits for an answer, or is about to. *)
Begins(t, op) == t # <<>> /\ Head(t).op = op

IsPending(t, complete) ==
    \/ t \in {<<Flush, Reset, Wait>>, <<Reset, Wait>>}
    \/ Begins(t, "wait") /\ complete = 0

AskPending == IsPending(todo, proc_complete)

(* Only the last message can be one that is to be answered. *)
AskInv ==
    \A i \in 1 .. Dist(readptr, writeptr) : IsAsk(Unread(i)) => Unread(i)[1] = Len(msgs) /\ AskPending

AskPolled == \E i \in 1 .. Dist(readptr, polled) : IsAsk(Unread(i))

(* What SatLink has to serve is the last message, and nothing is unread behind it. *)
InboxInv ==
    /\ link \in {"data", "ack"} /\ AskPolled => polled = writeptr
    /\ link \in {"off", "poll", "data"} => inbox = <<>>
    /\ link = "ack" => inbox = IF AskPolled THEN <<Len(msgs)>> ELSE <<>>
    /\ link = "serve" => inbox = <<Len(msgs)>> /\ AskPending /\ readptr = writeptr

(* An answer that ends a wait is the one to the last message. *)
AnswerInv ==
    At("wait") /\ proc_complete # 0 => proc_complete = Len(msgs) /\ readptr = writeptr

(* There is room for the next message of a log. *)
Roomy == readptr = writeptr \/ 128 * (Size - 1 - Dist(readptr, writeptr)) >= 33 * Size

RoomInv ==
    /\ At("post") /\ mine => readptr = writeptr
    /\ guarded /\ mine => Roomy \/ At("flush") \/ At("wait")

DebugInv ==
    /\ DebugTypes /\ Calls
    /\ PolledInv /\ AckInv /\ StreamInv
    /\ CellsInv /\ AskInv /\ InboxInv /\ AnswerInv /\ AnswerFresh
    /\ RoomInv /\ NothingLost /\ SettingsAgree

-----------------------------------------------------------------------------
(* Induction over the natural numbers, for a set of them. *)

(* A set of natural numbers that is not empty has a least one. *)
LEMMA NatMin ==
    ASSUME NEW T, T \subseteq Nat, T # {}
    PROVE  \E m \in T : \A k \in T : m =< k
<1> DEFINE R == OpToRel(<, Nat)
<1>1. IsWellFoundedOn(R, Nat)
  BY NatLessThanWellFounded
<1> HIDE DEF R
<1>2. PICK m \in T : \A y \in T : ~(<<y, m>> \in R)
  BY <1>1, WFMin
<1>3. \A y \in T : y < m => <<y, m>> \in R
  BY DEF R, OpToRel
<1>4. ASSUME NEW y \in T PROVE m =< y
  <2>1. ~(y < m)
    BY <1>2, <1>3
  <2>2. m \in Nat /\ y \in Nat
    OBVIOUS
  <2> QED
    BY <2>1, <2>2
<1> QED
  BY <1>4

(* A set that holds 0 and with every number the next one holds all of them. *)
LEMMA NatBySet ==
    ASSUME NEW T, 0 \in T, \A n \in Nat : n \in T => n + 1 \in T
    PROVE  Nat \subseteq T
<1> SUFFICES ASSUME ~(Nat \subseteq T) PROVE FALSE
  OBVIOUS
<1> DEFINE B == Nat \ T
<1>1. PICK m \in B : \A k \in B : m =< k
  <2>1. B \subseteq Nat /\ B # {}
    OBVIOUS
  <2> QED
    BY <2>1, NatMin
<1>2. m # 0
  OBVIOUS
<1>3. m - 1 \in Nat /\ m - 1 \notin B
  BY <1>1, <1>2
<1> QED
  BY <1>3

-----------------------------------------------------------------------------
(* The ring. *)

(* A sequence that is s and then t. *)
LEMMA ConcatIs ==
    ASSUME NEW S, NEW s \in Seq(S), NEW t \in Seq(S), NEW g \in Seq(S), Len(g) = Len(s) + Len(t),
           \A i \in 1 .. Len(s) : g[i] = s[i],
           \A i \in 1 .. Len(t) : g[Len(s) + i] = t[i]
    PROVE  s \o t = g
<1>1. PICK m \in Nat, n \in Nat : m = Len(s) /\ n = Len(t)
  OBVIOUS
<1>2. PICK u : u = s \o t
  OBVIOUS
<1>3. /\ u \in Seq(S) /\ Len(u) = m + n
      /\ \A i \in 1 .. (m + n) : u[i] = IF i =< m THEN s[i] ELSE t[i - m]
  BY <1>1, <1>2, ConcatProperties
<1>4. ASSUME NEW i \in 1 .. (m + n) PROVE g[i] = IF i =< m THEN s[i] ELSE t[i - m]
  <2>1. CASE i =< m
    <3>1. i \in 1 .. m
      BY <2>1
    <3> QED
      BY <1>1, <2>1, <3>1
  <2>2. CASE i > m
    <3>1. i - m \in 1 .. n /\ m + (i - m) = i /\ ~(i =< m)
      BY <2>2
    <3> QED
      BY <1>1, <3>1
  <2>3. i =< m \/ i > m
    OBVIOUS
  <2> QED
    BY <2>1, <2>2, <2>3
<1>5. \A i \in 1 .. Len(u) : u[i] = g[i]
  BY <1>3, <1>4
<1>6. u = g
  BY <1>1, <1>3, <1>5, SeqEqual
<1> QED
  BY <1>2, <1>6

(* The short tuples that calls are made of. *)
LEMMA ConcatTuples ==
    ASSUME NEW a, NEW b, NEW c
    PROVE  /\ <<>> \o <<a>> = <<a>> /\ <<>> \o <<a, b>> = <<a, b>>
           /\ <<a>> \o <<>> = <<a>> /\ <<a>> \o <<b>> = <<a, b>> /\ <<a>> \o <<b, c>> = <<a, b, c>>
           /\ <<a, b, c>> \o <<a, b, c>> = <<a, b, c, a, b, c>>
<1> DEFINE S == {a, b, c}
<1>1. <<>> \in Seq(S) /\ <<a>> \in Seq(S) /\ <<b>> \in Seq(S) /\ <<b, c>> \in Seq(S) /\ <<a, b>> \in Seq(S)
      /\ <<a, b, c>> \in Seq(S) /\ <<a, b, c, a, b, c>> \in Seq(S)
  OBVIOUS
<1> HIDE DEF S
<1>2. <<>> \o <<a>> = <<a>> /\ <<>> \o <<a, b>> = <<a, b>>
  BY <1>1, ConcatEmptySeq
<1>3. <<a>> \o <<>> = <<a>>
  BY <1>1, ConcatEmptySeq
<1>4. <<a>> \o <<b>> = <<a, b>> /\ <<a>> \o <<b, c>> = <<a, b, c>>
  <2>1. PICK s, t, u, g, h : s = <<a>> /\ t = <<b>> /\ u = <<b, c>> /\ g = <<a, b>> /\ h = <<a, b, c>>
    OBVIOUS
  <2>2. s \in Seq(S) /\ Len(s) = 1 /\ s[1] = a /\ t \in Seq(S) /\ Len(t) = 1 /\ t[1] = b
    BY <1>1, <2>1
  <2>3. u \in Seq(S) /\ Len(u) = 2 /\ u[1] = b /\ u[2] = c
    BY <1>1, <2>1
  <2>4. /\ g \in Seq(S) /\ Len(g) = 2 /\ g[1] = a /\ g[2] = b
        /\ h \in Seq(S) /\ Len(h) = 3 /\ h[1] = a /\ h[2] = b /\ h[3] = c
    BY <1>1, <2>1
  <2>5. /\ \A i \in 1 .. Len(s) : g[i] = s[i] /\ h[i] = s[i]
        /\ \A i \in 1 .. Len(t) : g[Len(s) + i] = t[i]
        /\ Len(g) = Len(s) + Len(t)
    BY <2>2, <2>4
  <2>6. Len(h) = Len(s) + Len(u) /\ \A i \in 1 .. Len(u) : h[Len(s) + i] = u[i]
    BY <2>2, <2>3, <2>4
  <2>7. s \o t = g
    BY <2>2, <2>4, <2>5, ConcatIs
  <2>8. s \o u = h
    BY <2>2, <2>3, <2>4, <2>5, <2>6, ConcatIs
  <2> QED
    BY <2>1, <2>7, <2>8
<1>5. <<a, b, c>> \o <<a, b, c>> = <<a, b, c, a, b, c>>
  <2>1. PICK s, g : s = <<a, b, c>> /\ g = <<a, b, c, a, b, c>>
    OBVIOUS
  <2>2. s \in Seq(S) /\ Len(s) = 3 /\ s[1] = a /\ s[2] = b /\ s[3] = c
    BY <1>1, <2>1
  <2>3. g \in Seq(S) /\ Len(g) = 6 /\ g[1] = a /\ g[2] = b /\ g[3] = c /\ g[4] = a /\ g[5] = b /\ g[6] = c
    BY <1>1, <2>1
  <2>4. \A i \in 1 .. 3 : g[i] = s[i] /\ g[3 + i] = s[i]
    <3> SUFFICES ASSUME NEW i \in 1 .. 3 PROVE g[i] = s[i] /\ g[3 + i] = s[i]
      OBVIOUS
    <3>1. i = 1 \/ i = 2 \/ i = 3
      OBVIOUS
    <3> QED
      BY <2>2, <2>3, <3>1
  <2>5. Len(g) = Len(s) + Len(s) /\ \A i \in 1 .. Len(s) : g[i] = s[i] /\ g[Len(s) + i] = s[i]
    BY <2>2, <2>3, <2>4
  <2>6. s \o s = g
    BY <2>2, <2>3, <2>5, ConcatIs
  <2> QED
    BY <2>1, <2>6
<1> QED
  BY <1>2, <1>3, <1>4, <1>5

Pointer == 0 .. (Size - 1)
Buffer == [Pointer -> Cell]

(* The buffer after n bytes of the message id were written at w. *)
Wrote(b, w, id, n) ==
    [a \in DOMAIN b |-> LET i == (a - w + Size) % Size IN IF i < n THEN <<id, i + 1>> ELSE b[a]]

(* The constants are natural numbers, and there is a ring. *)
LEMMA SizeType == Size \in Nat /\ Size >= 1 /\ RequestLen \in Nat /\ MaxMsgs \in Nat /\ MaxEvents \in Nat
BY RingAssumption

(* A pointer that has gone over the end once. *)
LEMMA ModSize ==
    ASSUME NEW x \in Nat, x < 2 * Size
    PROVE  x % Size = IF x < Size THEN x ELSE x - Size
<1>1. CASE x < Size
  BY <1>1, SizeType
<1>2. CASE x >= Size
  <2>1. x = Size * 1 + (x - Size) /\ x - Size \in 0 .. (Size - 1)
    BY <1>2, SizeType
  <2> QED
    BY <1>2, <2>1, SizeType
<1> QED
  BY <1>1, <1>2, SizeType

(* The distance of two pointers is less than the size, and 0 only for equal ones. *)
LEMMA DistType ==
    ASSUME NEW r \in Pointer, NEW w \in Pointer
    PROVE  Dist(r, w) \in 0 .. (Size - 1) /\ (Dist(r, w) = 0 <=> r = w)
BY SizeType DEF Dist, Pointer

(* A place in the ring is a pointer. *)
LEMMA PlaceType ==
    ASSUME NEW r \in Pointer, NEW i \in Nat, i < Size
    PROVE  Place(r, i) \in Pointer
BY SizeType DEF Place, Pointer

(* What is between two pointers are bytes, as many as their distance. *)
LEMMA ReadType ==
    ASSUME NEW b \in Buffer, NEW r \in Pointer, NEW w \in Pointer
    PROVE  Read(b, r, w) \in Seq(Cell) /\ Len(Read(b, r, w)) = Dist(r, w)
<1>1. Dist(r, w) \in Nat /\ \A i \in 1 .. Dist(r, w) : b[Place(r, i - 1)] \in Cell
  BY DistType, PlaceType, SizeType DEF Buffer
<1> QED
  BY <1>1 DEF Read

(* scd_cbread, which reads in two parts over the end, reads what is between the pointers. *)
LEMMA CbReadIs ==
    ASSUME NEW b \in Buffer, NEW r \in Pointer, NEW w \in Pointer
    PROVE  (IF w >= r THEN [i \in 1 .. (w - r) |-> b[r + i - 1]]
            ELSE [i \in 1 .. (Size - r) |-> b[r + i - 1]] \o [i \in 1 .. w |-> b[i - 1]])
             = Read(b, r, w)
<1>1. CASE w >= r
  BY <1>1, SizeType DEF Read, Dist, Place, Pointer
<1>2. CASE w < r
  <2>1. PICK s, t, q : /\ s = [i \in 1 .. (Size - r) |-> b[r + i - 1]]
                       /\ t = [i \in 1 .. w |-> b[i - 1]]
                       /\ q = Read(b, r, w)
    OBVIOUS
  <2>2. PICK m \in Nat : m = Size - r
    BY SizeType DEF Pointer
  <2>3. w \in Nat /\ r \in Nat /\ ~(w >= r) /\ m >= 1
    BY <1>2, <2>2, SizeType DEF Pointer
  <2>4. s \in Seq(Cell) /\ Len(s) = m /\ t \in Seq(Cell) /\ Len(t) = w
    BY <2>1, <2>2, <2>3, SizeType DEF Pointer, Buffer
  <2>5. q = [i \in 1 .. (m + w) |-> b[Place(r, i - 1)]]
    BY <2>1, <2>2, <2>3, SizeType DEF Read, Dist
  <2>6. \A i \in 1 .. m : q[i] = s[i]
    BY <2>1, <2>2, <2>3, <2>5, SizeType DEF Place
  <2>7. \A i \in 1 .. w : q[m + i] = t[i]
    BY <2>1, <2>2, <2>3, <2>5, SizeType DEF Place
  <2>8. q \in Seq(Cell) /\ Len(q) = m + w
    BY <2>1, <2>2, <2>3, ReadType, SizeType DEF Dist
  <2>9. s \o t = q
    BY <2>4, <2>6, <2>7, <2>8, ConcatIs
  <2> QED
    BY <2>1, <2>3, <2>9
<1>3. w >= r \/ w < r
  BY SizeType DEF Pointer
<1> QED
  BY <1>1, <1>2, <1>3

(* Distances add up, and places behind p are places behind r. *)
LEMMA PlacePlace ==
    ASSUME NEW r \in Pointer, NEW p \in Pointer, NEW w \in Pointer, Dist(r, p) =< Dist(r, w)
    PROVE  /\ Dist(r, w) = Dist(r, p) + Dist(p, w)
           /\ \A i \in 1 .. Dist(p, w) : Place(p, i - 1) = Place(r, Dist(r, p) + i - 1)
BY SizeType DEF Dist, Place, Pointer

(* What is between r and w is what is between r and p, and then between p and w. *)
LEMMA ReadSplit ==
    ASSUME NEW b \in Buffer, NEW r \in Pointer, NEW p \in Pointer, NEW w \in Pointer,
           Dist(r, p) =< Dist(r, w)
    PROVE  Read(b, r, w) = Read(b, r, p) \o Read(b, p, w)
<1>1. PICK m \in Nat, n \in Nat : m = Dist(r, p) /\ n = Dist(p, w)
  BY DistType
<1>2. PICK s, t, q : s = Read(b, r, p) /\ t = Read(b, p, w) /\ q = Read(b, r, w)
  OBVIOUS
<1>3. s \in Seq(Cell) /\ Len(s) = m /\ t \in Seq(Cell) /\ Len(t) = n
  BY <1>1, <1>2, ReadType
<1>4. Dist(r, w) = m + n /\ \A i \in 1 .. n : Place(p, i - 1) = Place(r, m + i - 1)
  BY <1>1, PlacePlace
<1>5. /\ s = [i \in 1 .. m |-> b[Place(r, i - 1)]] /\ t = [i \in 1 .. n |-> b[Place(p, i - 1)]]
      /\ q = [i \in 1 .. (m + n) |-> b[Place(r, i - 1)]]
  BY <1>1, <1>2, <1>4 DEF Read
<1>6. \A i \in 1 .. m : q[i] = s[i]
  BY <1>5
<1>7. \A i \in 1 .. n : q[m + i] = t[i]
  <2> SUFFICES ASSUME NEW i \in 1 .. n PROVE q[m + i] = t[i]
    OBVIOUS
  <2>1. m + i \in 1 .. (m + n)
    OBVIOUS
  <2> QED
    BY <1>4, <1>5, <2>1
<1>8. q \in Seq(Cell) /\ Len(q) = m + n
  BY <1>2, <1>4, ReadType
<1>9. s \o t = q
  BY <1>3, <1>6, <1>7, <1>8, ConcatIs
<1> QED
  BY <1>2, <1>9

(* c and v are what a write of n bytes of the message id makes of b and w. *)
IsWrite(b, r, w, id, n, v, c) ==
    /\ v \in Pointer /\ Dist(r, v) = Dist(r, w) + n
    /\ c \in Buffer
    /\ \A i \in 1 .. Dist(r, w) : c[Place(r, i - 1)] = b[Place(r, i - 1)]
    /\ \A k \in 1 .. n : c[Place(r, Dist(r, w) + k - 1)] = <<id, k>>

(* A write of a message that fits touches nothing that is unread. *)
LEMMA WroteFacts ==
    ASSUME NEW b \in Buffer, NEW r \in Pointer, NEW w \in Pointer, NEW id \in Nat, NEW n \in Nat,
           n + 1 =< Size - 1 - Dist(r, w)
    PROVE  IsWrite(b, r, w, id, n, (w + n) % Size, Wrote(b, w, id, n))
<1>00. PICK v, c : v = (w + n) % Size /\ c = Wrote(b, w, id, n)
  OBVIOUS
<1>0. n < Size /\ Dist(r, w) \in 0 .. (Size - 1)
  BY DistType, SizeType
<1>1. v = Place(w, n)
  <2>1. PICK x \in Nat : x = w + n /\ x < 2 * Size
    BY <1>0, SizeType DEF Pointer
  <2>2. x % Size = IF x < Size THEN x ELSE x - Size
    BY <2>1, ModSize
  <2>3. v = x % Size
    BY <1>00, <2>1
  <2> QED
    BY <2>1, <2>2, <2>3, SizeType DEF Place, Pointer
<1>2. v \in Pointer
  BY <1>0, <1>1, PlaceType
<1>3. Dist(r, v) = Dist(r, w) + n
  BY <1>0, <1>1, SizeType DEF Dist, Place, Pointer
<1>4. \A a \in Pointer : c[a] = IF Dist(w, a) < n THEN <<id, Dist(w, a) + 1>> ELSE b[a]
  <2> SUFFICES ASSUME NEW a \in Pointer
               PROVE  c[a] = IF Dist(w, a) < n THEN <<id, Dist(w, a) + 1>> ELSE b[a]
    OBVIOUS
  <2>1. (a - w + Size) % Size = Dist(w, a)
    BY ModSize, SizeType DEF Pointer, Dist
  <2> QED
    BY <1>00, <2>1 DEF Wrote, Buffer
<1>5. c \in Buffer
  <2>1. ASSUME NEW a \in Pointer PROVE c[a] \in Cell
    <3>1. Dist(w, a) \in Nat /\ b[a] \in Cell
      BY DistType DEF Buffer
    <3>2. <<id, Dist(w, a) + 1>> \in Cell
      BY <3>1 DEF Cell
    <3>3. c[a] = IF Dist(w, a) < n THEN <<id, Dist(w, a) + 1>> ELSE b[a]
      BY <1>4
    <3> QED
      BY <3>1, <3>2, <3>3
  <2>2. c = [a \in Pointer |-> c[a]]
    BY <1>00 DEF Wrote, Buffer
  <2> QED
    BY <2>1, <2>2 DEF Buffer
<1>6. ASSUME NEW i \in 1 .. Dist(r, w)
      PROVE  Place(r, i - 1) \in Pointer /\ Dist(w, Place(r, i - 1)) >= n
  BY <1>0, SizeType DEF Dist, Place, Pointer
<1>7. ASSUME NEW k \in 1 .. n
      PROVE  /\ Place(r, Dist(r, w) + k - 1) \in Pointer
             /\ Dist(w, Place(r, Dist(r, w) + k - 1)) = k - 1
  BY <1>0, SizeType DEF Dist, Place, Pointer
<1>8. ASSUME NEW i \in 1 .. Dist(r, w) PROVE c[Place(r, i - 1)] = b[Place(r, i - 1)]
  <2>1. PICK a \in Pointer : a = Place(r, i - 1) /\ Dist(w, a) >= n
    BY <1>6
  <2>2. ~(Dist(w, a) < n)
    BY <2>1, DistType
  <2> QED
    BY <1>4, <2>1, <2>2
<1>9. ASSUME NEW k \in 1 .. n PROVE c[Place(r, Dist(r, w) + k - 1)] = <<id, k>>
  <2>1. PICK a \in Pointer : a = Place(r, Dist(r, w) + k - 1) /\ Dist(w, a) = k - 1
    BY <1>7
  <2>2. k - 1 < n /\ k - 1 + 1 = k
    OBVIOUS
  <2> QED
    BY <1>4, <2>1, <2>2
<1> QED
  BY <1>00, <1>2, <1>3, <1>5, <1>8, <1>9 DEF IsWrite

(* After a write the message is behind what was unread, and that is as it was. *)
LEMMA WroteRead ==
    ASSUME NEW b \in Buffer, NEW r \in Pointer, NEW w \in Pointer, NEW id \in Nat, NEW n \in Nat,
           n + 1 =< Size - 1 - Dist(r, w)
    PROVE  /\ Read(Wrote(b, w, id, n), r, (w + n) % Size) = Read(b, r, w) \o Cells(id, n)
           /\ \A p \in Pointer : Dist(r, p) =< Dist(r, w) => Read(Wrote(b, w, id, n), r, p) = Read(b, r, p)
<1>1. PICK v, c : v = (w + n) % Size /\ c = Wrote(b, w, id, n)
  OBVIOUS
<1>2. PICK m \in Nat : m = Dist(r, w)
  BY DistType
<1>3. /\ v \in Pointer /\ Dist(r, v) = m + n
      /\ c \in Buffer
      /\ \A i \in 1 .. m : c[Place(r, i - 1)] = b[Place(r, i - 1)]
      /\ \A k \in 1 .. n : c[Place(r, m + k - 1)] = <<id, k>>
  <2>1. IsWrite(b, r, w, id, n, v, c)
    BY <1>1, WroteFacts
  <2> QED
    BY <1>2, <2>1 DEF IsWrite
<1>4. PICK s, t, q : s = Read(b, r, w) /\ t = Cells(id, n) /\ q = Read(c, r, v)
  OBVIOUS
<1>5. s \in Seq(Cell) /\ Len(s) = m /\ s = [i \in 1 .. m |-> b[Place(r, i - 1)]]
  BY <1>2, <1>4, ReadType DEF Read
<1>6. t \in Seq(Cell) /\ Len(t) = n /\ t = [i \in 1 .. n |-> <<id, i>>]
  BY <1>4 DEF Cells, Cell
<1>7. q = [i \in 1 .. (m + n) |-> c[Place(r, i - 1)]]
  BY <1>3, <1>4 DEF Read
<1>8. \A i \in 1 .. m : q[i] = s[i]
  BY <1>3, <1>5, <1>7
<1>9. \A i \in 1 .. n : q[m + i] = t[i]
  <2> SUFFICES ASSUME NEW i \in 1 .. n PROVE q[m + i] = t[i]
    OBVIOUS
  <2>1. m + i \in 1 .. (m + n)
    OBVIOUS
  <2>2. q[m + i] = c[Place(r, m + i - 1)]
    BY <1>7, <2>1
  <2>3. c[Place(r, m + i - 1)] = <<id, i>>
    BY <1>3
  <2> QED
    BY <1>6, <2>2, <2>3
<1>10. q \in Seq(Cell) /\ Len(q) = m + n
  BY <1>3, <1>4, ReadType
<1>11. s \o t = q
  BY <1>5, <1>6, <1>8, <1>9, <1>10, ConcatIs
<1>12. ASSUME NEW p \in Pointer, Dist(r, p) =< Dist(r, w) PROVE Read(c, r, p) = Read(b, r, p)
  <2>1. \A i \in 1 .. Dist(r, p) : c[Place(r, i - 1)] = b[Place(r, i - 1)]
    BY <1>2, <1>3, <1>12, DistType
  <2> QED
    BY <2>1 DEF Read
<1> QED
  BY <1>1, <1>4, <1>11, <1>12

-----------------------------------------------------------------------------
(* What Bytes and Serves compute. *)

(* A message that is kept is added to the bytes; its number is new. *)
LEMMA BytesAppend ==
    ASSUME NEW ids \in Seq(Nat), NEW ms \in Seq(Message), NEW m \in Message, NEW st,
           BytesAre(ids, ms, st)
    PROVE  BytesAre(Append(ids, Len(ms) + 1), Append(ms, m), st \o Cells(Len(ms) + 1, m.len))
<1>1. PICK N \in Nat, id \in Nat : N = Len(ids) /\ id = Len(ms) + 1
  OBVIOUS
<1>2. PICK ids2, ms2, c : ids2 = Append(ids, id) /\ ms2 = Append(ms, m) /\ c = Cells(id, m.len)
  OBVIOUS
<1>3. /\ Len(ids2) = N + 1 /\ ids2[N + 1] = id /\ \A k \in 1 .. N : ids2[k] = ids[k]
      /\ DOMAIN ids = 1 .. N /\ DOMAIN ids2 = 1 .. (N + 1)
  BY <1>1, <1>2
<1>4. /\ DOMAIN ms = 1 .. (id - 1) /\ DOMAIN ms2 = 1 .. id /\ ms2[id] = m
      /\ \A k \in 1 .. (id - 1) : ms2[k] = ms[k]
  BY <1>1, <1>2
<1>5. \A k \in 1 .. N : ids[k] \in 1 .. (id - 1)
  BY <1>3, <1>4 DEF BytesAre
<1>6. \A k \in DOMAIN ids2 : ids2[k] \in DOMAIN ms2
  BY <1>1, <1>3, <1>4, <1>5
<1>7. \A k \in 1 .. N : Cells(ids2[k], ms2[ids2[k]].len) = Cells(ids[k], ms[ids[k]].len)
  BY <1>3, <1>4, <1>5
<1>8. Cells(ids2[N + 1], ms2[ids2[N + 1]].len) = c
  BY <1>2, <1>3, <1>4
<1>9. \E h : IsUpto(ids2, ms2, h)
  <2>1. PICK f : f = [k \in 0 .. N |-> IF k = 0 THEN <<>> ELSE f[k - 1] \o Cells(ids[k], ms[ids[k]].len)]
    BY <1>1 DEF BytesAre, IsUpto
  <2> DEFINE h == [k \in 0 .. (N + 1) |-> IF k =< N THEN f[k] ELSE f[N] \o c]
  <2>2. ASSUME NEW k \in 0 .. (N + 1)
        PROVE  h[k] = IF k = 0 THEN <<>> ELSE h[k - 1] \o Cells(ids2[k], ms2[ids2[k]].len)
    <3>1. CASE k = 0
      BY <2>1, <3>1
    <3>2. CASE k \in 1 .. N
      <4>1. f[k] = f[k - 1] \o Cells(ids[k], ms[ids[k]].len)
        BY <2>1, <3>2
      <4>2. h[k] = f[k] /\ h[k - 1] = f[k - 1] /\ k # 0
        BY <3>2
      <4> QED
        BY <1>7, <3>2, <4>1, <4>2
    <3>3. CASE k = N + 1
      <4>1. h[k] = f[N] \o c /\ h[k - 1] = f[N] /\ k # 0
        BY <3>3
      <4> QED
        BY <1>8, <3>3, <4>1
    <3> QED
      BY <3>1, <3>2, <3>3
  <2>3. h = [k \in 0 .. (N + 1) |-> h[k]]
    OBVIOUS
  <2> HIDE DEF h
  <2>4. h = [k \in 0 .. (N + 1) |->
               IF k = 0 THEN <<>> ELSE h[k - 1] \o Cells(ids2[k], ms2[ids2[k]].len)]
    BY <2>2, <2>3
  <2> QED
    BY <1>3, <2>4 DEF IsUpto
<1>10. ASSUME NEW h, IsUpto(ids2, ms2, h) PROVE h[N + 1] = st \o c
  <2>1. h = [k \in 0 .. (N + 1) |->
               IF k = 0 THEN <<>> ELSE h[k - 1] \o Cells(ids2[k], ms2[ids2[k]].len)]
    BY <1>3, <1>10 DEF IsUpto
  <2> DEFINE f == [k \in 0 .. N |-> h[k]]
  <2>2. ASSUME NEW k \in 0 .. N
        PROVE  f[k] = IF k = 0 THEN <<>> ELSE f[k - 1] \o Cells(ids[k], ms[ids[k]].len)
    <3>1. CASE k = 0
      BY <2>1, <3>1
    <3>2. CASE k # 0
      <4>1. k \in 1 .. N /\ k - 1 \in 0 .. N /\ k \in 0 .. (N + 1)
        BY <3>2
      <4>2. h[k] = h[k - 1] \o Cells(ids2[k], ms2[ids2[k]].len)
        BY <2>1, <3>2, <4>1
      <4>3. f[k] = h[k] /\ f[k - 1] = h[k - 1]
        BY <4>1
      <4> QED
        BY <1>7, <3>2, <4>1, <4>2, <4>3
    <3> QED
      BY <3>1, <3>2
  <2>3. f = [k \in 0 .. N |-> f[k]] /\ f[N] = h[N]
    OBVIOUS
  <2> HIDE DEF f
  <2>4. f = [k \in 0 .. N |-> IF k = 0 THEN <<>> ELSE f[k - 1] \o Cells(ids[k], ms[ids[k]].len)]
    BY <2>2, <2>3
  <2>5. f[N] = st
    BY <1>1, <2>4 DEF BytesAre, IsUpto
  <2>6. h[N + 1] = h[N] \o Cells(ids2[N + 1], ms2[ids2[N + 1]].len)
    <3>1. PICK p : p = N + 1 /\ p \in 0 .. (N + 1) /\ p # 0 /\ p - 1 = N
      OBVIOUS
    <3>2. h[p] = h[p - 1] \o Cells(ids2[p], ms2[ids2[p]].len)
      BY <2>1, <3>1
    <3> QED
      BY <3>1, <3>2
  <2> QED
    BY <1>8, <2>3, <2>5, <2>6
<1>11. BytesAre(ids2, ms2, st \o c)
  BY <1>3, <1>6, <1>9, <1>10 DEF BytesAre
<1> QED
  BY <1>1, <1>2, <1>11

(* A message that is dropped adds nothing. *)
LEMMA BytesDrop ==
    ASSUME NEW ids \in Seq(Nat), NEW ms \in Seq(Message), NEW m \in Message, NEW st,
           BytesAre(ids, ms, st)
    PROVE  BytesAre(ids, Append(ms, m), st)
<1>1. PICK ms2 : ms2 = Append(ms, m)
  OBVIOUS
<1>0. PICK N \in Nat : N = Len(ids)
  OBVIOUS
<1>2. DOMAIN ids = 1 .. N /\ DOMAIN ms \subseteq DOMAIN ms2 /\ \A k \in DOMAIN ms : ms2[k] = ms[k]
  BY <1>0, <1>1
<1>3. \A k \in 1 .. N : ids[k] \in DOMAIN ms /\ ids[k] \in DOMAIN ms2
  BY <1>2 DEF BytesAre
<1>4. \A k \in 1 .. N : ms2[ids[k]] = ms[ids[k]]
  BY <1>2, <1>3
<1>5. ASSUME NEW f PROVE IsUpto(ids, ms2, f) <=> IsUpto(ids, ms, f)
  <2>1. \A k \in 0 .. N : (IF k = 0 THEN <<>> ELSE f[k - 1] \o Cells(ids[k], ms2[ids[k]].len))
                          = (IF k = 0 THEN <<>> ELSE f[k - 1] \o Cells(ids[k], ms[ids[k]].len))
    <3> SUFFICES ASSUME NEW k \in 0 .. N, k # 0
                 PROVE  ms2[ids[k]].len = ms[ids[k]].len
      OBVIOUS
    <3>1. k \in 1 .. N
      OBVIOUS
    <3> QED
      BY <1>4, <3>1
  <2>2. [k \in 0 .. N |-> IF k = 0 THEN <<>> ELSE f[k - 1] \o Cells(ids[k], ms2[ids[k]].len)]
        = [k \in 0 .. N |-> IF k = 0 THEN <<>> ELSE f[k - 1] \o Cells(ids[k], ms[ids[k]].len)]
    BY <2>1
  <2> QED
    BY <1>0, <2>2 DEF IsUpto
<1>6. BytesAre(ids, ms2, st)
  BY <1>2, <1>3, <1>5 DEF BytesAre
<1> QED
  BY <1>1, <1>6

(* Bytes(kept) are the bytes that the invariant speaks of. *)
LEMMA BytesOfKept ==
    ASSUME NEW st, BytesAre(kept, msgs, st)
    PROVE  Bytes(kept) = st
<1>1. \E f : IsUpto(kept, msgs, f) /\ Bytes(kept) = f[Len(kept)]
  BY DEF BytesAre, IsUpto, Bytes
<1> QED
  BY <1>1 DEF BytesAre

(* g is the function that Serves(data) defines. *)
IsServes(data, g) ==
    g = [i \in 0 .. Len(data) |->
           IF i = 0 THEN <<>>
           ELSE IF IsAsk(data[i]) THEN Append(g[i - 1], data[i][1]) ELSE g[i - 1]]

(* Serves computes the function. *)
LEMMA ServesIs ==
    ASSUME NEW data, Len(data) \in Nat, NEW g, IsServes(data, g)
    PROVE  Serves(data) = g[Len(data)]
<1>1. PICK f : IsServes(data, f) /\ Serves(data) = f[Len(data)]
  BY DEF Serves, IsServes
<1>2. PICK N \in Nat : N = Len(data)
  OBVIOUS
<1> DEFINE T == {n \in Nat : n =< N => f[n] = g[n]}
<1>3. f[0] = g[0]
  BY <1>1, <1>2 DEF IsServes
<1>4. ASSUME NEW n \in Nat, n \in T PROVE n + 1 \in T
  <2> SUFFICES ASSUME n + 1 =< N PROVE f[n + 1] = g[n + 1]
    OBVIOUS
  <2>1. PICK p : p = n + 1 /\ p \in 0 .. N /\ p # 0 /\ p - 1 = n
    OBVIOUS
  <2>0. f[n] = g[n]
    BY <1>4
  <2>2. f[p] = IF IsAsk(data[p]) THEN Append(f[p - 1], data[p][1]) ELSE f[p - 1]
    BY <1>1, <1>2, <2>1 DEF IsServes
  <2>3. g[p] = IF IsAsk(data[p]) THEN Append(g[p - 1], data[p][1]) ELSE g[p - 1]
    BY <1>2, <2>1 DEF IsServes
  <2> QED
    BY <2>0, <2>1, <2>2, <2>3
<1>5. 0 \in T
  BY <1>3
<1> HIDE DEF T
<1>6. Nat \subseteq T
  BY <1>4, <1>5, NatBySet
<1>7. N \in T
  BY <1>6
<1> QED
  BY <1>1, <1>2, <1>7 DEF T

(* Data in which no prompt or request starts. *)
LEMMA ServesNone ==
    ASSUME NEW data, Len(data) \in Nat, \A i \in 1 .. Len(data) : ~IsAsk(data[i])
    PROVE  Serves(data) = <<>>
<1> DEFINE g == [i \in 0 .. Len(data) |-> <<>>]
<1>1. IsServes(data, g)
  BY DEF IsServes
<1>2. Serves(data) = g[Len(data)]
  BY <1>1, ServesIs
<1> QED
  BY <1>2

(* Data in which one starts. *)
LEMMA ServesOne ==
    ASSUME NEW data, Len(data) \in Nat, NEW k \in 1 .. Len(data), IsAsk(data[k]),
           \A i \in 1 .. Len(data) : IsAsk(data[i]) => i = k
    PROVE  Serves(data) = <<data[k][1]>>
<1> DEFINE g == [i \in 0 .. Len(data) |-> IF i < k THEN <<>> ELSE <<data[k][1]>>]
<1>1. ASSUME NEW i \in 0 .. Len(data)
      PROVE  g[i] = IF i = 0 THEN <<>>
                    ELSE IF IsAsk(data[i]) THEN Append(g[i - 1], data[i][1]) ELSE g[i - 1]
  <2>1. CASE i = 0
    BY <2>1
  <2>2. CASE i # 0 /\ i < k
    BY <2>2
  <2>3. CASE i = k
    <3>1. g[i] = <<data[k][1]>> /\ g[i - 1] = <<>> /\ i # 0
      BY <2>3
    <3>2. Append(<<>>, data[k][1]) = <<data[k][1]>>
      OBVIOUS
    <3> QED
      BY <2>3, <3>1, <3>2
  <2>4. CASE i > k
    <3>1. ~IsAsk(data[i]) /\ g[i] = g[i - 1] /\ i # 0
      BY <2>4
    <3> QED
      BY <3>1
  <2> QED
    BY <2>1, <2>2, <2>3, <2>4
<1>2. IsServes(data, g)
  <2>1. g = [i \in 0 .. Len(data) |-> g[i]]
    OBVIOUS
  <2> HIDE DEF g
  <2> QED
    BY <1>1, <2>1 DEF IsServes
<1>3. Serves(data) = g[Len(data)]
  BY <1>2, ServesIs
<1> QED
  BY <1>3

-----------------------------------------------------------------------------
(* What is left of a call. *)

(* The names of the steps of a call. *)
LEMMA OpNames ==
    /\ Flush.op = "flush" /\ Reset.op = "reset" /\ Wait.op = "wait" /\ Post.op = "post"
    /\ \A n \in LogLens : Log("msg", n).op = "log" /\ Log("prompt", n).op = "log"
BY DEF Flush, Reset, Wait, Post, Log

(* What calls begin with. *)
LEMMA BeginsOf ==
    ASSUME NEW op
    PROVE  /\ ~Begins(<<>>, op)
           /\ Begins(<<Reset, Wait>>, op) <=> op = "reset"
           /\ Begins(<<Wait>>, op) <=> op = "wait"
           /\ Begins(<<Wait, Flush, Post, Wait>>, op) <=> op = "wait"
           /\ Begins(<<Post, Wait>>, op) <=> op = "post"
           /\ Begins(<<Post, Wait, Flush, Post, Wait>>, op) <=> op = "post"
           /\ Begins(<<Flush>>, op) <=> op = "flush"
           /\ Begins(<<Flush, Reset, Wait>>, op) <=> op = "flush"
           /\ Begins(<<Flush, Post, Wait>>, op) <=> op = "flush"
           /\ Begins(<<Flush, Post, Wait, Flush, Post, Wait>>, op) <=> op = "flush"
           /\ \A n \in LogLens :
                /\ Begins(<<Log("msg", n)>>, op) <=> op = "log"
                /\ Begins(<<Log("msg", n), Log("msg", n)>>, op) <=> op = "log"
                /\ Begins(<<Flush, Log("msg", n)>>, op) <=> op = "flush"
                /\ Begins(<<Log("prompt", n), Reset, Wait>>, op) <=> op = "log"
BY OpNames DEF Begins

(* The steps that a call can be at, and what is left behind them. *)
CallStep ==
    /\ At("log") => \E n \in LogLens :
                      \/ Head(todo) = Log("msg", n) /\ Tail(todo) \in {<<>>, <<Log("msg", n)>>}
                      \/ Head(todo) = Log("prompt", n) /\ Tail(todo) = <<Reset, Wait>>
    /\ At("post") => Head(todo) = Post /\ Tail(todo) \in {<<Wait>>, <<Wait, Flush, Post, Wait>>}
    /\ At("flush") => \/ Tail(todo) \in {<<>>, <<Post, Wait>>, <<Post, Wait, Flush, Post, Wait>>}
                      \/ todo = <<Flush, Reset, Wait>> /\ Tail(todo) = <<Reset, Wait>>
                      \/ \E n \in LogLens : Tail(todo) = <<Log("msg", n)>>
    /\ At("reset") => todo = <<Reset, Wait>> /\ Tail(todo) = <<Wait>>
    /\ At("wait") => \/ todo = <<Wait>> /\ Tail(todo) = <<>>
                     \/ todo = <<Wait, Flush, Post, Wait>> /\ Tail(todo) = <<Flush, Post, Wait>>

(* A call is at one of these steps. *)
LEMMA CallCases ==
    ASSUME Calls
    PROVE  CallStep
<1>0. IsCall(todo)
  BY DEF Calls
<1>1. CASE todo = <<>>
  BY <1>1 DEF At, CallStep
<1>2. CASE todo = <<Flush>>
  <2>1. Head(todo) = Flush /\ Tail(todo) = <<>>
    BY <1>2
  <2> QED
    BY OpNames, <1>2, <2>1 DEF At, CallStep
<1>3. CASE todo = <<Flush, Reset, Wait>>
  <2>1. Head(todo) = Flush /\ Tail(todo) = <<Reset, Wait>>
    BY <1>3
  <2> QED
    BY OpNames, <1>3, <2>1 DEF At, CallStep
<1>4. CASE todo = <<Reset, Wait>>
  <2>1. Head(todo) = Reset /\ Tail(todo) = <<Wait>>
    BY <1>4
  <2> QED
    BY OpNames, <1>4, <2>1 DEF At, CallStep
<1>5. CASE todo = <<Wait>>
  <2>1. Head(todo) = Wait /\ Tail(todo) = <<>>
    BY <1>5
  <2> QED
    BY OpNames, <1>5, <2>1 DEF At, CallStep
<1>6. CASE todo = <<Flush, Post, Wait>>
  <2>1. Head(todo) = Flush /\ Tail(todo) = <<Post, Wait>>
    BY <1>6
  <2> QED
    BY OpNames, <1>6, <2>1 DEF At, CallStep
<1>7. CASE todo = <<Post, Wait>>
  <2>1. Head(todo) = Post /\ Tail(todo) = <<Wait>>
    BY <1>7
  <2> QED
    BY OpNames, <1>7, <2>1 DEF At, CallStep
<1>8. CASE todo = <<Flush, Post, Wait, Flush, Post, Wait>>
  <2>1. Head(todo) = Flush /\ Tail(todo) = <<Post, Wait, Flush, Post, Wait>>
    BY <1>8
  <2> QED
    BY OpNames, <1>8, <2>1 DEF At, CallStep
<1>9. CASE todo = <<Post, Wait, Flush, Post, Wait>>
  <2>1. Head(todo) = Post /\ Tail(todo) = <<Wait, Flush, Post, Wait>>
    BY <1>9
  <2> QED
    BY OpNames, <1>9, <2>1 DEF At, CallStep
<1>10. CASE todo = <<Wait, Flush, Post, Wait>>
  <2>1. Head(todo) = Wait /\ Tail(todo) = <<Flush, Post, Wait>>
    BY <1>10
  <2> QED
    BY OpNames, <1>10, <2>1 DEF At, CallStep
<1>11. ASSUME NEW n \in LogLens, todo \in LogCalls(n) \union PromptCalls(n)
      PROVE  CallStep
  <2>1. CASE todo = <<Log("msg", n)>>
    <3>1. Head(todo) = Log("msg", n) /\ Tail(todo) = <<>>
      BY <2>1
    <3> QED
      BY OpNames, <2>1, <3>1 DEF At, CallStep
  <2>2. CASE todo = <<Log("msg", n), Log("msg", n)>>
    <3>1. Head(todo) = Log("msg", n) /\ Tail(todo) = <<Log("msg", n)>>
      BY <2>2
    <3> QED
      BY OpNames, <2>2, <3>1 DEF At, CallStep
  <2>3. CASE todo = <<Flush, Log("msg", n)>>
    <3>1. Head(todo) = Flush /\ Tail(todo) = <<Log("msg", n)>>
      BY <2>3
    <3> QED
      BY OpNames, <2>3, <3>1 DEF At, CallStep
  <2>4. CASE todo = <<Flush>>
    <3>1. Head(todo) = Flush /\ Tail(todo) = <<>>
      BY <2>4
    <3> QED
      BY OpNames, <2>4, <3>1 DEF At, CallStep
  <2>5. CASE todo = <<Log("prompt", n), Reset, Wait>>
    <3>1. Head(todo) = Log("prompt", n) /\ Tail(todo) = <<Reset, Wait>>
      BY <2>5
    <3> QED
      BY OpNames, <2>5, <3>1 DEF At, CallStep
  <2> QED
    BY <1>11, <2>1, <2>2, <2>3, <2>4, <2>5 DEF LogCalls, PromptCalls
<1> QED
  BY <1>0, <1>1, <1>2, <1>3, <1>4, <1>5, <1>6, <1>7, <1>8, <1>9, <1>10, <1>11 DEF IsCall, PromptRest, FileCalls

-----------------------------------------------------------------------------
(* The steps that leave the ring and SatLink alone. *)

(* Nothing changes for SatLink, but that a wait may begin. *)
LEMMA SameRing ==
    ASSUME DebugInv, UNCHANGED <<ring, link, polled, inbox, stream, msgs, kept>>,
           AskPending => AskPending'
    PROVE  PolledInv' /\ AckInv' /\ StreamInv' /\ CellsInv' /\ AskInv' /\ InboxInv'
<1>1. /\ UNCHANGED <<rbuffer, readptr, writeptr>>
      /\ PolledInv /\ AckInv /\ StreamInv /\ CellsInv /\ AskInv /\ InboxInv
  BY DEF DebugInv, ring
<1>2. PolledInv'
  BY <1>1 DEF PolledInv
<1>3. Received' = Received
  BY <1>1 DEF Received
<1>4. AckInv' /\ StreamInv'
  BY <1>1, <1>3 DEF AckInv, StreamInv
<1>5. CellsInv'
  BY <1>1 DEF CellsInv, Unread
<1>6. \A c : IsAsk(c)' <=> IsAsk(c)
  BY DEF IsAsk
<1>7. AskInv'
  BY <1>1, <1>6 DEF AskInv, Unread, IsAsk
<1>8. AskPolled' <=> AskPolled
  BY <1>1 DEF AskPolled, Unread, IsAsk
<1>9. InboxInv'
  BY <1>1, <1>8 DEF InboxInv
<1> QED
  BY <1>2, <1>4, <1>5, <1>7, <1>9

(* The start of the library, its settings, and another program. *)
LEMMA SettingsStep ==
    ASSUME DebugInv, sc_init \/ sc_settings_write \/ sc_settings_clear \/ Hide
    PROVE  DebugInv'
<1>1. /\ UNCHANGED <<todo, ring, proc_complete, satlink, history>>
      /\ init' /\ (mine' => mine \/ ~init)
  <2>1. CASE sc_init
    BY <2>1 DEF sc_init
  <2>2. CASE sc_settings_write
    BY <2>2 DEF sc_settings_write
  <2>3. CASE sc_settings_clear
    BY <2>3 DEF sc_settings_clear
  <2>4. CASE Hide
    BY <2>4 DEF Hide
  <2> QED
    BY <2>1, <2>2, <2>3, <2>4
<1>2. /\ UNCHANGED <<rbuffer, readptr, writeptr, link, polled, inbox, stream, quits>>
      /\ UNCHANGED <<msgs, kept, guarded, lost, answer, todo, proc_complete>>
  BY <1>1 DEF ring, satlink, history
<1>3. /\ set' \in Settings /\ file' \in Settings \union {NoFile}
      /\ fails' \in Nat /\ sets' \in Nat /\ SettingsAgree'
  <2>0. /\ set \in Settings /\ file \in Settings \union {NoFile} /\ fails \in Nat /\ sets \in Nat
        /\ SettingsAgree /\ Default \in Settings /\ NoFile \notin Settings
    BY DEF DebugInv, DebugTypes, Settings, Default, NoFile
  <2>1. CASE sc_init
    <3>1. sets' = sets
      BY <2>1 DEF sc_init
    <3>2. CASE file # NoFile /\ set' = file /\ sc_initlink(file) /\ UNCHANGED <<file, fails>>
      BY <2>0, <3>1, <3>2 DEF sc_initlink, SettingsAgree
    <3>3. CASE /\ IF file = NoFile THEN UNCHANGED fails ELSE SdFails
               /\ file' \in {file, NoFile}
               /\ set' = Default /\ sc_initlink(Default)
      <4>1. fails' \in Nat /\ (fails' = 0 => file = NoFile)
        BY <2>0, <3>3 DEF SdFails
      <4> QED
        BY <2>0, <3>1, <3>3, <4>1 DEF sc_initlink, SettingsAgree
    <3> QED
      BY <2>1, <3>2, <3>3 DEF sc_init, sc_settings_read
  <2>2. CASE sc_settings_write
    <3>1. set' \in Settings /\ address' = set'.link /\ sets' = sets + 1
      BY <2>2 DEF sc_settings_write, sc_initlink, Change
    <3>2. CASE file' = set' /\ UNCHANGED fails
      BY <2>0, <3>1, <3>2 DEF SettingsAgree
    <3>3. CASE SdFails /\ file' \in {file, NoFile}
      BY <2>0, <3>1, <3>3 DEF SettingsAgree, SdFails
    <3> QED
      BY <2>2, <3>2, <3>3 DEF sc_settings_write
  <2>3. CASE sc_settings_clear
    <3>1. sets' = sets + 1
      BY <2>3 DEF sc_settings_clear, Change
    <3>2. CASE file' = NoFile /\ set' = Default /\ sc_initlink(Default) /\ UNCHANGED fails
      BY <2>0, <3>1, <3>2 DEF SettingsAgree, sc_initlink
    <3>3. CASE /\ SdFails /\ UNCHANGED file
               /\ set' = (IF file = NoFile THEN Default ELSE file) /\ sc_initlink(set')
      BY <2>0, <3>1, <3>3 DEF SettingsAgree, SdFails, sc_initlink
    <3> QED
      BY <2>3, <3>2, <3>3 DEF sc_settings_clear
  <2>4. CASE Hide
    <3>1. UNCHANGED <<set, file, fails, sets, address, init>>
      BY <2>4 DEF Hide, sdcard
    <3> QED
      BY <2>0, <3>1 DEF SettingsAgree
  <2> QED
    BY <2>1, <2>2, <2>3, <2>4
<1>4. PolledInv' /\ AckInv' /\ StreamInv' /\ CellsInv' /\ AskInv' /\ InboxInv'
  BY <1>1, <1>2, SameRing DEF AskPending
<1>5. DebugTypes'
  BY <1>2, <1>3 DEF DebugInv, DebugTypes
<1>6. Calls'
  BY <1>1, <1>2 DEF DebugInv, Calls
<1>7. AnswerInv' /\ AnswerFresh'
  BY <1>2 DEF DebugInv, AnswerInv, AnswerFresh, At
<1>8. RoomInv' /\ NothingLost'
  <2>1. CASE init
    <3>1. mine' => mine
      BY <1>1, <2>1
    <3> QED
      BY <1>2, <3>1 DEF DebugInv, RoomInv, NothingLost, At, Roomy
  <2>2. CASE ~init
    BY <1>2, <2>2 DEF DebugInv, Calls, RoomInv, NothingLost, At
  <2> QED
    BY <2>1, <2>2
<1> QED
  BY <1>3, <1>4, <1>5, <1>6, <1>7, <1>8 DEF DebugInv

(* A call begins: nothing but what is to do changes. *)
LEMMA CallBegins ==
    ASSUME DebugInv, scd_logout \/ scd_prompt \/ scd_logflush \/ scf_call
    PROVE  DebugInv'
<1>1. /\ init /\ todo = <<>>
      /\ UNCHANGED <<init, set, address, logged, mine, ring, flags, proc_complete, sdcard, satlink, history>>
  BY DEF scd_logout, scd_prompt, scd_logflush, scf_call, Call
<1>2. IsCall(todo') /\ ~Begins(todo', "post") /\ ~Begins(todo', "wait")
  <2>1. CASE scd_logout
    <3>1. PICK n \in LogLens : todo' = (IF wh_on_log THEN <<Log("msg", n)>> ELSE <<>>) \o <<Log("msg", n)>>
      BY <2>1 DEF scd_logout, Call
    <3>2. <<Log("msg", n)>> \o <<Log("msg", n)>> = <<Log("msg", n), Log("msg", n)>>
      BY ConcatTuples
    <3>3. <<>> \o <<Log("msg", n)>> = <<Log("msg", n)>>
      BY ConcatTuples
    <3>4. todo' = <<Log("msg", n)>> \/ todo' = <<Log("msg", n), Log("msg", n)>>
      BY <3>1, <3>2, <3>3
    <3>5. \A op \in {"post", "wait"} : ~Begins(todo', op)
      BY <3>4, BeginsOf
    <3> QED
      BY <3>4, <3>5 DEF IsCall, LogCalls
  <2>2. CASE scd_prompt
    <3>1. PICK n \in LogLens : todo' = <<Log("prompt", n), Reset, Wait>>
      BY <2>2 DEF scd_prompt, Call
    <3>2. \A op \in {"post", "wait"} : ~Begins(todo', op)
      BY <3>1, BeginsOf
    <3> QED
      BY <3>1, <3>2 DEF IsCall, PromptCalls
  <2>3. CASE scd_logflush
    <3>1. todo' = <<Flush>>
      BY <2>3 DEF scd_logflush, Call
    <3>2. \A op \in {"post", "wait"} : ~Begins(todo', op)
      BY <3>1, BeginsOf
    <3> QED
      BY <3>1, <3>2 DEF IsCall
  <2>4. CASE scf_call
    <3>1. <<Flush, Post, Wait>> \o <<Flush, Post, Wait>> = <<Flush, Post, Wait, Flush, Post, Wait>>
      BY ConcatTuples
    <3>2. todo' = <<Flush, Post, Wait>> \/ todo' = <<Flush, Post, Wait, Flush, Post, Wait>>
      BY <2>4, <3>1 DEF scf_call, Call, FileRequest
    <3>3. \A op \in {"post", "wait"} : ~Begins(todo', op)
      BY <3>2, BeginsOf
    <3> QED
      BY <3>2, <3>3 DEF IsCall, FileCalls
  <2> QED
    BY <2>1, <2>2, <2>3, <2>4
<1>3. /\ UNCHANGED <<rbuffer, readptr, writeptr, link, polled, inbox, stream, quits, file, fails, sets>>
      /\ UNCHANGED <<msgs, kept, guarded, lost, answer, proc_complete, init, set, address, mine>>
  BY <1>1 DEF ring, satlink, history, sdcard
<1>4. ~AskPending
  BY <1>1, BeginsOf DEF AskPending, IsPending
<1>5. PolledInv' /\ AckInv' /\ StreamInv' /\ CellsInv' /\ AskInv' /\ InboxInv'
  BY <1>1, <1>3, <1>4, SameRing
<1>6. DebugTypes' /\ Calls' /\ AnswerFresh' /\ NothingLost' /\ SettingsAgree'
  BY <1>1, <1>2, <1>3 DEF DebugInv, DebugTypes, Calls, AnswerFresh, NothingLost, SettingsAgree
<1>7. ~At("flush") /\ ~At("wait") /\ ~At("post")' /\ ~At("wait")'
  BY <1>1, <1>2 DEF At, Begins
<1>8. AnswerInv' /\ RoomInv'
  BY <1>3, <1>7 DEF DebugInv, AnswerInv, RoomInv, Roomy
<1> QED
  BY <1>5, <1>6, <1>8 DEF DebugInv

(* The ring is empty, or SatLink does not see it. *)
LEMMA FlushStep ==
    ASSUME DebugInv, DoFlush
    PROVE  DebugInv'
<1>1. /\ At("flush") /\ (writeptr = readptr \/ ~mine) /\ todo' = Tail(todo)
      /\ UNCHANGED <<init, set, address, logged, mine, ring, flags, proc_complete, sdcard, satlink, history>>
  BY DEF DoFlush
<1>2. /\ UNCHANGED <<rbuffer, readptr, writeptr, link, polled, inbox, stream, quits, file, fails, sets>>
      /\ UNCHANGED <<msgs, kept, guarded, lost, answer, proc_complete, init, set, address, mine>>
  BY <1>1 DEF ring, satlink, history, sdcard
<1>3. /\ IsCall(todo') /\ ~Begins(todo', "wait") /\ ~Begins(todo', "flush")
      /\ (AskPending => todo' = <<Reset, Wait>>)
  <2>0. \/ todo' \in {<<>>, <<Post, Wait>>, <<Post, Wait, Flush, Post, Wait>>}
        \/ todo = <<Flush, Reset, Wait>> /\ todo' = <<Reset, Wait>>
        \/ \E n \in LogLens : todo' = <<Log("msg", n)>>
    BY <1>1, CallCases DEF DebugInv, CallStep
  <2>1. \A op \in {"wait", "flush"} : ~Begins(todo', op)
    BY <2>0, BeginsOf
  <2>2. AskPending => todo = <<Flush, Reset, Wait>>
    <3>1. Begins(todo, "flush") /\ ~Begins(todo, "wait")
      BY <1>1 DEF At, Begins
    <3>2. ~Begins(<<Reset, Wait>>, "flush")
      BY BeginsOf
    <3> QED
      BY <3>1, <3>2 DEF AskPending, IsPending
  <2>3. todo = <<Flush, Reset, Wait>> => Tail(todo) = <<Reset, Wait>>
    OBVIOUS
  <2>4. AskPending => todo' = <<Reset, Wait>>
    BY <1>1, <2>2, <2>3
  <2> QED
    BY <2>0, <2>1, <2>4 DEF IsCall, FileCalls, PromptRest, LogCalls
<1>4. AskPending => AskPending'
  BY <1>3 DEF AskPending, IsPending
<1>5. PolledInv' /\ AckInv' /\ StreamInv' /\ CellsInv' /\ AskInv' /\ InboxInv'
  BY <1>1, <1>2, <1>4, SameRing
<1>6. init
  BY <1>1 DEF DebugInv, Calls, At
<1>7. DebugTypes' /\ Calls' /\ AnswerFresh' /\ NothingLost' /\ SettingsAgree'
  BY <1>2, <1>3, <1>6 DEF DebugInv, DebugTypes, Calls, AnswerFresh, NothingLost, SettingsAgree
<1>8. ~At("wait")' /\ ~At("flush")'
  BY <1>3 DEF At, Begins
<1>9. AnswerInv' /\ RoomInv'
  BY <1>1, <1>2, <1>8 DEF AnswerInv, RoomInv, Roomy
<1> QED
  BY <1>5, <1>7, <1>9 DEF DebugInv

(* A prompt takes an old answer back; SatLink cannot have answered the new one yet. *)
LEMMA ResetStep ==
    ASSUME DebugInv, DoReset
    PROVE  DebugInv'
<1>1. /\ At("reset") /\ proc_complete' = 0 /\ todo' = Tail(todo)
      /\ UNCHANGED <<init, set, address, logged, mine, ring, flags, sdcard, satlink, history>>
  BY DEF DoReset
<1>2. /\ UNCHANGED <<rbuffer, readptr, writeptr, link, polled, inbox, stream, quits, file, fails, sets>>
      /\ UNCHANGED <<msgs, kept, guarded, lost, answer, init, set, address, mine>>
  BY <1>1 DEF ring, satlink, history, sdcard
<1>3. todo' = <<Wait>> /\ Begins(todo', "wait") /\ ~Begins(todo', "post")
  <2>1. todo' = <<Wait>>
    BY <1>1, CallCases DEF DebugInv, CallStep
  <2>2. \A op : Begins(<<Wait>>, op) <=> op = "wait"
    BY BeginsOf
  <2> QED
    BY <2>1, <2>2
<1>4. AskPending'
  BY <1>1, <1>3 DEF AskPending, IsPending
<1>5. PolledInv' /\ AckInv' /\ StreamInv' /\ CellsInv' /\ AskInv' /\ InboxInv'
  BY <1>1, <1>2, <1>4, SameRing
<1>6. init
  BY <1>1 DEF DebugInv, Calls, At
<1>7. DebugTypes' /\ Calls' /\ AnswerFresh' /\ NothingLost' /\ SettingsAgree'
  <2>1. DebugTypes'
    BY <1>1, <1>2 DEF DebugInv, DebugTypes
  <2>2. Calls'
    BY <1>2, <1>3, <1>6 DEF Calls, IsCall, PromptRest
  <2> QED
    BY <1>2, <2>1, <2>2 DEF DebugInv, AnswerFresh, NothingLost, SettingsAgree
<1>8. At("wait")' /\ ~At("post")'
  BY <1>3 DEF At, Begins
<1>9. AnswerInv' /\ RoomInv'
  BY <1>1, <1>8 DEF AnswerInv, RoomInv
<1> QED
  BY <1>5, <1>7, <1>9 DEF DebugInv

(* The wait ends: SatLink has served the last message, and the ring is empty. *)
LEMMA WaitStep ==
    ASSUME DebugInv, DoWait
    PROVE  DebugInv'
<1>1. /\ At("wait") /\ proc_complete # 0 /\ todo' \in {Tail(todo), <<>>}
      /\ answer' = <<Len(msgs), proc_complete>>
      /\ UNCHANGED <<init, set, address, logged, mine, ring, flags, proc_complete, sdcard, satlink>>
      /\ UNCHANGED <<msgs, kept, guarded, lost>>
  BY DEF DoWait
<1>2. /\ UNCHANGED <<rbuffer, readptr, writeptr, link, polled, inbox, stream, quits, file, fails, sets>>
      /\ UNCHANGED <<msgs, kept, guarded, lost, proc_complete, init, set, address, mine>>
  BY <1>1 DEF ring, satlink, sdcard
<1>3. proc_complete = Len(msgs) /\ readptr = writeptr
  BY <1>1 DEF DebugInv, AnswerInv
<1>4. todo' \in {<<>>, <<Flush, Post, Wait>>} /\ ~Begins(todo', "wait") /\ ~Begins(todo', "post")
  <2>1. todo' \in {<<>>, <<Flush, Post, Wait>>}
    BY <1>1, CallCases DEF DebugInv, CallStep
  <2>2. \A op \in {"wait", "post"} : ~Begins(todo', op)
    BY <2>1, BeginsOf
  <2> QED
    BY <2>1, <2>2
<1>5. ~AskPending
  <2>1. Begins(todo, "wait")
    BY <1>1 DEF At, Begins
  <2>2. ~Begins(<<Flush, Reset, Wait>>, "wait") /\ ~Begins(<<Reset, Wait>>, "wait")
    BY BeginsOf
  <2> QED
    BY <1>1, <2>1, <2>2 DEF AskPending, IsPending
<1>6. PolledInv' /\ AckInv' /\ StreamInv' /\ CellsInv' /\ AskInv' /\ InboxInv'
  BY <1>1, <1>2, <1>5, SameRing
<1>7. init
  BY <1>1 DEF DebugInv, Calls, At
<1>8. DebugTypes' /\ Calls' /\ AnswerFresh' /\ NothingLost' /\ SettingsAgree'
  <2>1. DebugTypes'
    BY <1>1, <1>2 DEF DebugInv, DebugTypes
  <2>2. Calls'
    BY <1>2, <1>4, <1>7 DEF Calls, IsCall, FileCalls
  <2>3. AnswerFresh'
    BY <1>1, <1>3 DEF AnswerFresh
  <2> QED
    BY <1>2, <2>1, <2>2, <2>3 DEF DebugInv, NothingLost, SettingsAgree
<1>9. ~At("wait")' /\ ~At("post")'
  BY <1>4 DEF At, Begins
<1>10. AnswerInv' /\ RoomInv'
  BY <1>2, <1>3, <1>9 DEF AnswerInv, RoomInv, Roomy
<1> QED
  BY <1>6, <1>8, <1>10 DEF DebugInv

-----------------------------------------------------------------------------
(* The steps that write a message. *)

(* What Free computes in both cases. *)
LEMMA FreeIs ==
    ASSUME DebugTypes
    PROVE  Free = Size - 1 - Dist(readptr, writeptr)
BY SizeType DEF DebugTypes, Free, Dist

(* What SatLink has received are bytes. *)
LEMMA ReceivedType ==
    ASSUME DebugTypes
    PROVE  Received \in Seq(Cell)
<1>1. stream \in Seq(Cell) /\ Dist(readptr, polled) \in Nat
  BY DistType DEF DebugTypes, Pointer
<1>2. PICK n \in Nat : n = Dist(readptr, polled)
  BY <1>1
<1>3. PICK m \in Int : m = Len(stream) - n
  BY <1>1
<1>4. SubSeq(stream, 1, m) \in Seq(Cell)
  <2>1. m =< Len(stream)
    BY <1>1, <1>3
  <2> QED
    BY <1>1, <2>1
<1> QED
  BY <1>1, <1>2, <1>3, <1>4 DEF Received, Told

(* The facts about what SatLink reads of a message that was written or dropped. *)
RingInv == PolledInv /\ AckInv /\ StreamInv /\ CellsInv /\ AskInv /\ InboxInv

Wrotes == /\ rbuffer \in Buffer /\ readptr \in Pointer /\ writeptr \in Pointer
          /\ msgs \in Seq(Message) /\ kept \in Seq(Nat)

(* A message is written or dropped, while no other waits for its answer. *)
LEMMA MessageStep ==
    ASSUME DebugInv, NEW m, Append1(m), m.kind \in {"msg", "prompt", "request"}, m.len \in Nat,
           ~AskPending, UNCHANGED <<link, polled, inbox, stream>>,
           m.kind \in {"prompt", "request"} => AskPending'
    PROVE  RingInv' /\ Wrotes' /\ Len(msgs') = Len(msgs) + 1
<1> DEFINE N == Len(msgs)
           D == Dist(readptr, writeptr)
<1>1. /\ rbuffer \in Buffer /\ readptr \in Pointer /\ writeptr \in Pointer /\ polled \in Pointer
      /\ stream \in Seq(Cell) /\ msgs \in Seq(Message) /\ kept \in Seq(Nat)
      /\ link \in {"off", "poll", "data", "ack", "serve"}
  BY DEF DebugInv, DebugTypes, Pointer, Buffer
<1>2. PICK x : x = [kind |-> m.kind, len |-> m.len]
  OBVIOUS
<1>3. x \in Message /\ x.len = m.len /\ x.kind = m.kind
  BY <1>2 DEF Message
<1>4. msgs' = Append(msgs, x)
  BY <1>2 DEF Append1
<1>5. /\ msgs' \in Seq(Message) /\ Len(msgs') = N + 1 /\ N \in Nat /\ msgs'[N + 1] = x
      /\ \A k \in 1 .. N : msgs'[k] = msgs[k]
  BY <1>1, <1>3, <1>4, AppendProperties
<1>6. \A c : c[1] \in 1 .. N => (IsAsk(c)' <=> IsAsk(c))
  BY <1>5 DEF IsAsk
<1>7. D \in Nat /\ Dist(readptr, polled) \in Nat
  BY <1>1, DistType
<1>8. \A i \in 1 .. D : Unread(i)[1] \in 1 .. N /\ ~IsAsk(Unread(i))
  BY DEF DebugInv, CellsInv, AskInv
<1>9. link # "serve" /\ inbox = <<>>
  <2>1. ~AskPolled \/ link \notin {"data", "ack"}
    <3>1. link \in {"data", "ack"} => Dist(readptr, polled) =< D
      BY DEF DebugInv, PolledInv
    <3> QED
      BY <1>7, <1>8, <3>1 DEF AskPolled
  <2> QED
    BY <1>1, <2>1 DEF DebugInv, InboxInv
<1>10. CASE ~Fits(m.len)
  <2>1. UNCHANGED <<rbuffer, readptr, writeptr, kept>>
    BY <1>10 DEF Append1, ring
  <2>2. Received' = Received
    BY <2>1 DEF Received
  <2>3. PolledInv' /\ AckInv'
    BY <2>1, <2>2 DEF DebugInv, PolledInv, AckInv
  <2>4. StreamInv'
    <3>1. PICK st : st = Received \o Read(rbuffer, readptr, writeptr)
      OBVIOUS
    <3>2. BytesAre(kept, msgs, st)
      BY <3>1 DEF DebugInv, StreamInv
    <3>3. BytesAre(kept, Append(msgs, x), st)
      BY <1>1, <1>3, <3>2, BytesDrop
    <3> QED
      BY <1>4, <2>1, <2>2, <3>1, <3>3 DEF StreamInv
  <2>5. \A i \in 1 .. D : Unread(i)' = Unread(i)
    BY <2>1 DEF Unread
  <2>6. CellsInv'
    BY <1>5, <2>1, <2>5 DEF DebugInv, CellsInv
  <2>7. \A i \in 1 .. D : ~IsAsk(Unread(i))'
    BY <1>6, <1>8, <2>5, <2>1 DEF IsAsk, Unread
  <2>8. AskInv'
    BY <2>1, <2>7 DEF AskInv
  <2>9. link \in {"data", "ack"} => ~AskPolled'
    <3>1. link \in {"data", "ack"} => Dist(readptr, polled) =< D
      BY DEF DebugInv, PolledInv
    <3> QED
      BY <1>7, <2>1, <2>7, <3>1 DEF AskPolled
  <2>10. InboxInv'
    BY <1>9, <2>9 DEF InboxInv
  <2> QED
    BY <1>1, <1>5, <2>1, <2>3, <2>4, <2>6, <2>8, <2>10 DEF RingInv, Wrotes
<1>11. CASE Fits(m.len)
  <2>1. PICK b, r, w, p, n, d, id :
           /\ b = rbuffer /\ r = readptr /\ w = writeptr /\ p = polled /\ n = m.len /\ d = D /\ id = N + 1
    OBVIOUS
  <2>2. n + 1 =< Size - 1 - Dist(r, w) /\ n \in Nat /\ id \in Nat
    BY <1>5, <1>11, <2>1, FreeIs DEF DebugInv, Fits
  <2>3. /\ readptr' = r /\ writeptr' = (w + n) % Size /\ rbuffer' = Wrote(b, w, id, n)
        /\ kept' = Append(kept, id)
    BY <1>11, <2>1 DEF Append1, scd_cbwrite, Id, Wrote
  <2>4. IsWrite(b, r, w, id, n, writeptr', rbuffer')
    BY <1>1, <2>1, <2>2, <2>3, WroteFacts
  <2>5. /\ writeptr' \in Pointer /\ Dist(r, writeptr') = d + n /\ rbuffer' \in Buffer
        /\ \A i \in 1 .. d : rbuffer'[Place(r, i - 1)] = b[Place(r, i - 1)]
        /\ \A k \in 1 .. n : rbuffer'[Place(r, d + k - 1)] = <<id, k>>
    BY <2>1, <2>4 DEF IsWrite
  <2>6. /\ Read(rbuffer', r, writeptr') = Read(b, r, w) \o Cells(id, n)
        /\ Dist(r, p) =< d => Read(rbuffer', r, p) = Read(b, r, p)
    <3>1. b \in Buffer /\ r \in Pointer /\ w \in Pointer /\ p \in Pointer
      BY <1>1, <2>1
    <3>2. /\ Read(Wrote(b, w, id, n), r, (w + n) % Size) = Read(b, r, w) \o Cells(id, n)
          /\ \A q \in Pointer : Dist(r, q) =< Dist(r, w) => Read(Wrote(b, w, id, n), r, q) = Read(b, r, q)
      BY <2>2, <3>1, WroteRead
    <3> QED
      BY <2>1, <2>3, <3>1, <3>2
  <2>7. Received' = Received
    BY <2>1, <2>3 DEF Received
  <2>8. PolledInv' /\ AckInv'
    <3>1. PolledInv'
      BY <1>7, <2>1, <2>2, <2>3, <2>5 DEF DebugInv, PolledInv
    <3>2. link = "ack" => Read(rbuffer', r, p) = Read(b, r, p)
      BY <2>1, <2>6 DEF DebugInv, PolledInv
    <3> QED
      BY <2>1, <2>3, <2>7, <3>1, <3>2 DEF DebugInv, AckInv
  <2>9. StreamInv'
    <3>1. PICK s, t, u : s = Received /\ t = Read(b, r, w) /\ u = Cells(id, n)
      OBVIOUS
    <3>2. s \in Seq(Cell) /\ t \in Seq(Cell) /\ u \in Seq(Cell)
      <4>1. Received \in Seq(Cell)
        BY ReceivedType DEF DebugInv
      <4>2. Cells(id, n) \in Seq(Cell)
        BY <2>2 DEF Cells, Cell
      <4> QED
        BY <1>1, <2>1, <3>1, <4>1, <4>2, ReadType
    <3>3. BytesAre(kept, msgs, s \o t)
      BY <2>1, <3>1 DEF DebugInv, StreamInv
    <3>4. PICK st : st = s \o t
      OBVIOUS
    <3>5. BytesAre(Append(kept, Len(msgs) + 1), Append(msgs, x), st \o Cells(Len(msgs) + 1, x.len))
      BY <1>1, <1>3, <3>3, <3>4, BytesAppend
    <3>6. BytesAre(kept', msgs', (s \o t) \o u)
      BY <1>3, <1>4, <2>1, <2>3, <3>1, <3>4, <3>5
    <3>7. (s \o t) \o u = s \o (t \o u)
      BY <3>2, ConcatAssociative
    <3> QED
      BY <2>3, <2>6, <2>7, <3>1, <3>6, <3>7 DEF StreamInv
  <2>10. \A i \in 1 .. d : Unread(i)' = Unread(i) /\ Unread(i)'[1] \in 1 .. N /\ Unread(i)'[2] \in Nat \ {0}
    BY <1>8, <2>1, <2>3, <2>5 DEF Unread, DebugInv, CellsInv
  <2>11. \A k \in 1 .. n : Unread(d + k)' = <<id, k>>
    <3>1. \A k \in 1 .. n : (d + k) - 1 = d + k - 1
      BY <1>7, <2>1, <2>2
    <3> QED
      BY <2>3, <2>5, <3>1 DEF Unread
  <2>12. d \in Nat /\ \A i \in 1 .. (d + n) : i \in 1 .. d \/ \E k \in 1 .. n : i = d + k
    <3>1. d \in Nat
      BY <1>7, <2>1
    <3>2. ASSUME NEW i \in 1 .. (d + n), ~(i \in 1 .. d) PROVE i - d \in 1 .. n /\ i = d + (i - d)
      BY <2>2, <3>1, <3>2
    <3> QED
      BY <3>1, <3>2
  <2>13. CellsInv'
    <3>1. ASSUME NEW i \in 1 .. (d + n)
          PROVE  Unread(i)'[1] \in 1 .. (N + 1) /\ Unread(i)'[2] \in Nat \ {0}
      <4>1. CASE i \in 1 .. d
        BY <1>5, <2>10, <4>1
      <4>2. CASE \E k \in 1 .. n : i = d + k
        BY <1>5, <2>1, <2>2, <2>11, <4>2
      <4> QED
        BY <2>12, <4>1, <4>2
    <3>2. ASSUME NEW i \in 1 .. (d + n), NEW j \in 1 .. (d + n), Unread(i)' = Unread(j)' PROVE i = j
      <4>1. \A k \in 1 .. d : Unread(k)'[1] \in 1 .. N
        BY <2>10
      <4>2. \A k \in 1 .. n : Unread(d + k)'[1] = N + 1 /\ Unread(d + k)'[2] = k
        BY <2>1, <2>11
      <4>3. CASE i \in 1 .. d /\ j \in 1 .. d
        BY <2>1, <2>10, <3>2, <4>3 DEF DebugInv, CellsInv
      <4>4. CASE i \in 1 .. d /\ \E k \in 1 .. n : j = d + k
        BY <1>5, <3>2, <4>1, <4>2, <4>4
      <4>5. CASE j \in 1 .. d /\ \E k \in 1 .. n : i = d + k
        BY <1>5, <3>2, <4>1, <4>2, <4>5
      <4>6. CASE (\E k \in 1 .. n : i = d + k) /\ (\E k \in 1 .. n : j = d + k)
        BY <3>2, <4>2, <4>6
      <4> QED
        BY <2>12, <4>3, <4>4, <4>5, <4>6
    <3>3. Dist(readptr', writeptr') = d + n /\ Len(msgs') = N + 1
      BY <1>5, <2>3, <2>5
    <3> QED
      BY <3>1, <3>2, <3>3 DEF CellsInv
  <2>14. \A i \in 1 .. d : ~IsAsk(Unread(i))'
    BY <1>6, <1>8, <2>1, <2>10 DEF IsAsk
  <2>15. AskInv'
    <3>1. ASSUME NEW i \in 1 .. (d + n), IsAsk(Unread(i))' PROVE Unread(i)'[1] = Len(msgs') /\ AskPending'
      <4>1. PICK k \in 1 .. n : i = d + k
        BY <2>12, <2>14, <3>1
      <4>2. Unread(i)' = <<id, k>>
        BY <2>11, <4>1
      <4>3. Unread(i)'[1] = N + 1
        BY <2>1, <4>2
      <4>4. m.kind \in {"prompt", "request"}
        BY <1>3, <1>5, <3>1, <4>3 DEF IsAsk
      <4> QED
        BY <1>5, <4>3, <4>4
    <3>2. Dist(readptr', writeptr') = d + n
      BY <2>3, <2>5
    <3> QED
      BY <3>1, <3>2 DEF AskInv
  <2>16. link \in {"data", "ack"} => ~AskPolled'
    <3>1. link \in {"data", "ack"} => Dist(readptr, polled) =< D
      BY DEF DebugInv, PolledInv
    <3>2. Dist(readptr, polled)' = Dist(readptr, polled)
      BY <2>1, <2>3
    <3> QED
      BY <1>7, <2>1, <2>14, <3>1, <3>2 DEF AskPolled
  <2>17. InboxInv'
    BY <1>9, <2>16 DEF InboxInv
  <2>18. kept' \in Seq(Nat)
    BY <1>1, <2>2, <2>3
  <2> QED
    BY <1>1, <1>5, <2>1, <2>3, <2>5, <2>8, <2>9, <2>13, <2>15, <2>17, <2>18 DEF RingInv, Wrotes
<1> QED
  BY <1>10, <1>11

(* A ring that is used less than three quarters has room for the next message. *)
LEMMA UseRoom ==
    ASSUME NEW r \in Pointer, NEW w \in Pointer, ~(scd_cbmemuse(r, w) >= 96)
    PROVE  128 * (Size - 1 - Dist(r, w)) >= 33 * Size
<1>1. w # r
  BY DEF scd_cbmemuse
<1>2. PICK f : f = Size - 1 - Dist(r, w)
  OBVIOUS
<1>3. f = (IF w >= r THEN Size - w + r - 1 ELSE r - w - 1) /\ f \in Nat
  BY <1>2, DistType, SizeType DEF Dist, Pointer
<1>4. scd_cbmemuse(r, w) = 128 - ((f * 128) \div Size)
  BY <1>1, <1>3 DEF scd_cbmemuse
<1>5. PICK q \in Int, x \in Nat : q = x \div Size /\ x = f * 128 /\ 128 * f = x
  <2>1. f * 128 \in Nat /\ f * 128 = 128 * f
    BY <1>3
  <2>2. (f * 128) \div Size \in Int
    BY <2>1, SizeType
  <2> QED
    BY <2>1, <2>2
<1>6. q >= 33
  BY <1>4, <1>5
<1>7. Size * q =< x
  BY <1>5, SizeType
<1>8. Size * 33 =< Size * q
  BY <1>5, <1>6, SizeType
<1>9. Size * 33 = 33 * Size /\ Size * q \in Int
  BY <1>5, SizeType
<1> QED
  BY <1>2, <1>5, <1>7, <1>8, <1>9, SizeType

(* A message of a log or a prompt: once the debugger is on there is room for it. *)
LEMMA LogStep ==
    ASSUME DebugInv, DoLog
    PROVE  DebugInv'
<1>1. /\ At("log") /\ Append1(Head(todo)) /\ SdLog(Head(todo)) /\ guarded' = dbg_on
      /\ todo' = (IF MustFlush THEN <<Flush>> ELSE <<>>) \o Tail(todo)
      /\ UNCHANGED <<init, set, address, mine, flags, proc_complete, file, sets, satlink, answer>>
  BY DEF DoLog
<1>2. PICK m : m = Head(todo)
  OBVIOUS
<1>3. PICK n \in LogLens : \/ m = Log("msg", n) /\ Tail(todo) \in {<<>>, <<Log("msg", n)>>}
                           \/ m = Log("prompt", n) /\ Tail(todo) = <<Reset, Wait>>
  BY <1>1, <1>2, CallCases DEF DebugInv, CallStep
<1>4. /\ m.kind \in {"msg", "prompt"} /\ m.len = n /\ n \in Nat \ {0} /\ m.op = "log"
      /\ m.kind = "prompt" => Tail(todo) = <<Reset, Wait>>
  <2>1. Log("msg", n) = [op |-> "log", kind |-> "msg", len |-> n]
    BY DEF Log
  <2>2. Log("prompt", n) = [op |-> "log", kind |-> "prompt", len |-> n]
    BY DEF Log
  <2>3. n \in Nat \ {0}
    BY RingAssumption
  <2>4. CASE m = Log("msg", n)
    BY <2>1, <2>3, <2>4
  <2>5. CASE m = Log("prompt", n) /\ Tail(todo) = <<Reset, Wait>>
    BY <2>2, <2>3, <2>5
  <2> QED
    BY <1>3, <2>4, <2>5
<1>5. /\ MustFlush => todo' \in {<<Flush>>, <<Flush, Log("msg", n)>>, <<Flush, Reset, Wait>>}
      /\ ~MustFlush => todo' \in {<<>>, <<Log("msg", n)>>, <<Reset, Wait>>}
      /\ m.kind = "prompt" => todo' \in {<<Flush, Reset, Wait>>, <<Reset, Wait>>}
  <2>1. PICK a, f, e, z : a = Log("msg", n) /\ f = Flush /\ e = Reset /\ z = Wait
    OBVIOUS
  <2>2. /\ <<>> \o <<a>> = <<a>> /\ <<>> \o <<e, z>> = <<e, z>> /\ <<f>> \o <<>> = <<f>>
        /\ <<f>> \o <<a>> = <<f, a>> /\ <<f>> \o <<e, z>> = <<f, e, z>>
    BY ConcatTuples
  <2>3. PICK t : t = Tail(todo)
    OBVIOUS
  <2>4. <<>> \o <<>> = <<>>
    OBVIOUS
  <2>5. t \in {<<>>, <<a>>, <<e, z>>} /\ (m.kind = "prompt" => t = <<e, z>>)
    BY <1>3, <1>4, <2>1, <2>3
  <2>6. CASE MustFlush
    <3>1. todo' = <<f>> \o t
      BY <1>1, <2>1, <2>3, <2>6
    <3> QED
      BY <2>1, <2>2, <2>5, <2>6, <3>1
  <2>7. CASE ~MustFlush
    <3>1. todo' = <<>> \o t
      BY <1>1, <2>3, <2>7
    <3> QED
      BY <2>1, <2>2, <2>4, <2>5, <2>7, <3>1
  <2> QED
    BY <2>6, <2>7
<1>6. ~Begins(todo', "post") /\ ~Begins(todo', "wait") /\ (MustFlush => Begins(todo', "flush"))
  <2>1. \A op \in {"post", "wait"} : ~Begins(todo', op)
    BY <1>5, BeginsOf
  <2>2. MustFlush => Begins(todo', "flush")
    BY <1>5, BeginsOf
  <2> QED
    BY <2>1, <2>2
<1>7. ~AskPending /\ (m.kind \in {"prompt", "request"} => AskPending')
  <2>1. Begins(todo, "log")
    BY <1>1 DEF At, Begins
  <2>2. \A op \in {"log"} : ~Begins(<<Flush, Reset, Wait>>, op) /\ ~Begins(<<Reset, Wait>>, op)
    BY BeginsOf
  <2>3. ~Begins(todo, "wait")
    BY <2>1 DEF Begins
  <2>4. ~AskPending
    BY <2>1, <2>2, <2>3 DEF AskPending, IsPending
  <2>5. m.kind \in {"prompt", "request"} => m.kind = "prompt"
    BY <1>4
  <2> QED
    BY <1>5, <2>4, <2>5 DEF AskPending, IsPending
<1>8. UNCHANGED <<link, polled, inbox, stream, quits>>
  BY <1>1 DEF satlink
<1>9. RingInv' /\ Wrotes' /\ Len(msgs') = Len(msgs) + 1
  BY <1>1, <1>2, <1>4, <1>7, <1>8, MessageStep
<1>10. fails \in Nat /\ fails' \in Nat /\ (fails' = 0 => fails = 0)
  BY <1>1 DEF SdLog, SdFails, DebugInv, DebugTypes
<1>11. DebugTypes'
  BY <1>1, <1>8, <1>9, <1>10 DEF DebugInv, DebugTypes, Wrotes, Pointer, Buffer
<1>12. init
  BY <1>1 DEF DebugInv, Calls, At
<1>13. Calls'
  <2>1. IsCall(todo')
    BY <1>5 DEF IsCall, LogCalls, PromptRest
  <2> QED
    BY <1>1, <1>12, <2>1 DEF Calls
<1>14. AnswerInv' /\ AnswerFresh' /\ SettingsAgree'
  BY <1>1, <1>6, <1>10 DEF AnswerInv, At, Begins, DebugInv, AnswerFresh, SettingsAgree
<1>15. NothingLost'
  <2>1. CASE Fits(n)
    BY <1>1, <1>2, <1>4, <2>1 DEF DebugInv, NothingLost, Append1
  <2>2. CASE ~Fits(n) /\ guarded /\ mine
    <3>1. Roomy
      BY <1>1, <2>2 DEF DebugInv, RoomInv, At
    <3>2. Free = Size - 1 - Dist(readptr, writeptr)
      BY FreeIs DEF DebugInv
    <3>3. readptr = writeptr => Dist(readptr, writeptr) = 0
      BY SizeType DEF Dist, DebugInv, DebugTypes
    <3>4. 128 * (n + 1) =< 33 * Size /\ n >= 1 /\ n \in Nat
      BY <1>4, RingAssumption
    <3>5. Dist(readptr, writeptr) \in Nat
      BY DistType DEF DebugInv, DebugTypes, Pointer
    <3>6. n + 1 =< Free
      BY <3>1, <3>2, <3>3, <3>4, <3>5, SizeType DEF Roomy
    <3> QED
      BY <2>2, <3>6 DEF Fits
  <2>3. CASE ~Fits(n) /\ ~(guarded /\ mine)
    <3>1. lost' = (lost \/ m.op = "post" \/ guarded)
      BY <1>1, <1>2, <1>4, <2>3 DEF Append1
    <3>2. lost' => lost \/ guarded
      BY <1>4, <3>1
    <3> QED
      BY <1>1, <2>3, <3>2 DEF DebugInv, NothingLost
  <2> QED
    BY <2>1, <2>2, <2>3
<1>16. RoomInv'
  <2>1. ~At("post")'
    BY <1>6 DEF At, Begins
  <2>2. CASE dbg_on /\ MustFlush
    BY <1>6, <2>1, <2>2 DEF RoomInv, At, Begins
  <2>3. CASE dbg_on /\ ~MustFlush
    <3>1. ~(scd_cbmemuse(readptr', writeptr') >= 96)
      BY <2>3 DEF MustFlush
    <3>2. readptr' \in Pointer /\ writeptr' \in Pointer
      BY <1>9 DEF Wrotes
    <3>3. 128 * (Size - 1 - Dist(readptr', writeptr')) >= 33 * Size
      BY <3>1, <3>2, UseRoom
    <3> QED
      BY <2>1, <3>3 DEF RoomInv, Roomy
  <2>4. CASE ~dbg_on
    BY <1>1, <2>1, <2>4 DEF RoomInv
  <2> QED
    BY <2>2, <2>3, <2>4
<1> QED
  BY <1>9, <1>11, <1>13, <1>14, <1>15, <1>16 DEF DebugInv, RingInv

(* A file request goes into an empty ring. *)
LEMMA PostStep ==
    ASSUME DebugInv, DoPost
    PROVE  DebugInv'
<1>1. /\ At("post") /\ Append1(Head(todo)) /\ proc_complete' = 0 /\ todo' = Tail(todo)
      /\ UNCHANGED <<init, set, address, logged, mine, flags, sdcard, satlink, guarded, answer>>
  BY DEF DoPost
<1>2. PICK m : m = Head(todo)
  OBVIOUS
<1>3. m = Post /\ todo' \in {<<Wait>>, <<Wait, Flush, Post, Wait>>}
  BY <1>1, <1>2, CallCases DEF DebugInv, CallStep
<1>4. m.kind = "request" /\ m.len = RequestLen /\ RequestLen \in Nat
  BY <1>3, SizeType DEF Post
<1>5. Begins(todo', "wait") /\ ~Begins(todo', "post")
  <2>1. Begins(todo', "wait")
    BY <1>3, BeginsOf
  <2>2. \A op \in {"post"} : ~Begins(todo', op)
    BY <1>3, BeginsOf
  <2> QED
    BY <2>1, <2>2
<1>6. ~AskPending /\ AskPending'
  <2>1. Begins(todo, "post")
    BY <1>1 DEF At, Begins
  <2>2. \A op \in {"post"} : ~Begins(<<Flush, Reset, Wait>>, op) /\ ~Begins(<<Reset, Wait>>, op)
    BY BeginsOf
  <2>3. ~Begins(todo, "wait")
    BY <2>1 DEF Begins
  <2>4. ~AskPending
    BY <2>1, <2>2, <2>3 DEF AskPending, IsPending
  <2> QED
    BY <1>1, <1>5, <2>4 DEF AskPending, IsPending
<1>7. UNCHANGED <<link, polled, inbox, stream, quits, file, fails, sets>>
  BY <1>1 DEF satlink, sdcard
<1>8. RingInv' /\ Wrotes' /\ Len(msgs') = Len(msgs) + 1
  BY <1>1, <1>2, <1>4, <1>6, <1>7, MessageStep
<1>9. DebugTypes'
  <2>1. msgs \in Seq(Message) /\ Len(msgs) \in Nat
    BY DEF DebugInv, DebugTypes
  <2> QED
    BY <1>1, <1>7, <1>8, <2>1 DEF DebugInv, DebugTypes, Wrotes, Pointer, Buffer
<1>10. init
  BY <1>1 DEF DebugInv, Calls, At
<1>11. Calls' /\ AnswerInv' /\ AnswerFresh' /\ SettingsAgree'
  BY <1>1, <1>3, <1>7, <1>10
     DEF Calls, IsCall, FileCalls, AnswerInv, DebugInv, AnswerFresh, SettingsAgree
<1>12. NothingLost'
  <2>1. CASE Fits(RequestLen)
    BY <1>1, <1>2, <1>4, <2>1 DEF DebugInv, NothingLost, Append1
  <2>2. CASE mine
    <3>1. readptr = writeptr
      BY <1>1, <2>2 DEF DebugInv, RoomInv
    <3>2. Free = Size - 1
      BY <3>1, SizeType DEF Free, DebugInv, DebugTypes
    <3>3. Fits(RequestLen)
      BY <3>2, SizeType, RingAssumption DEF Fits
    <3> QED
      BY <2>1, <3>3
  <2>3. CASE ~mine
    BY <1>1, <2>3 DEF NothingLost
  <2> QED
    BY <2>2, <2>3
<1>13. RoomInv'
  BY <1>5 DEF RoomInv, At, Begins
<1> QED
  BY <1>8, <1>9, <1>11, <1>12, <1>13 DEF DebugInv, RingInv

-----------------------------------------------------------------------------
(* The steps of SatLink. *)

(* What SatLink and the program read are bytes of the ring. *)
LEMMA CbRead ==
    ASSUME DebugTypes
    PROVE  \A w \in Pointer : /\ scd_cbread(readptr, w) = Read(rbuffer, readptr, w)
                              /\ Len(scd_cbread(readptr, w)) = Dist(readptr, w)
                              /\ Read(rbuffer, readptr, w) \in Seq(Cell)
<1> SUFFICES ASSUME NEW w \in Pointer
             PROVE  /\ scd_cbread(readptr, w) = Read(rbuffer, readptr, w)
                    /\ Len(scd_cbread(readptr, w)) = Dist(readptr, w)
                    /\ Read(rbuffer, readptr, w) \in Seq(Cell)
  OBVIOUS
<1>1. PICK b, r : b = rbuffer /\ r = readptr
  OBVIOUS
<1>2. b \in Buffer /\ r \in Pointer
  BY <1>1 DEF DebugTypes, Buffer, Pointer
<1>3. (IF w >= r THEN [i \in 1 .. (w - r) |-> b[r + i - 1]]
       ELSE [i \in 1 .. (Size - r) |-> b[r + i - 1]] \o [i \in 1 .. w |-> b[i - 1]])
        = Read(b, r, w)
  BY <1>2, CbReadIs
<1>4. scd_cbread(readptr, w) = Read(rbuffer, readptr, w)
  BY <1>1, <1>3 DEF scd_cbread
<1>5. Read(b, r, w) \in Seq(Cell) /\ Len(Read(b, r, w)) = Dist(r, w)
  BY <1>2, ReadType
<1> QED
  BY <1>1, <1>4, <1>5

(* What SatLink does not touch. *)
LEMMA ProgramSame ==
    ASSUME DebugInv, UNCHANGED <<program, sdcard, history>>
    PROVE  Calls' /\ AnswerFresh' /\ NothingLost' /\ SettingsAgree'
BY DEF DebugInv, program, sdcard, history, Calls, AnswerFresh, NothingLost, SettingsAgree

(* SatLink starts. *)
LEMMA ConnectStep ==
    ASSUME DebugInv, Connect
    PROVE  DebugInv'
<1>1. /\ link = "off" /\ link' = "poll"
      /\ UNCHANGED <<program, ring, proc_complete, sdcard, polled, inbox, stream, quits, history>>
  BY DEF Connect
<1>2. /\ UNCHANGED <<rbuffer, readptr, writeptr, todo, mine, set, file, fails, sets>>
      /\ UNCHANGED <<msgs, kept, guarded, lost, answer>>
  BY <1>1 DEF program, ring, sdcard, history
<1>3. Calls' /\ AnswerFresh' /\ NothingLost' /\ SettingsAgree'
  BY <1>1, ProgramSame
<1>4. Received' = Received
  BY <1>1, <1>2 DEF Received, Told
<1>5. PolledInv' /\ AckInv' /\ InboxInv'
  BY <1>1 DEF DebugInv, PolledInv, AckInv, InboxInv
<1>6. StreamInv' /\ CellsInv'
  BY <1>2, <1>4 DEF DebugInv, StreamInv, CellsInv, Unread
<1>7. AskInv'
  BY <1>1, <1>2 DEF DebugInv, AskInv, Unread, IsAsk, AskPending
<1>8. DebugTypes'
  BY <1>1, <1>2 DEF DebugInv, DebugTypes
<1>9. AnswerInv' /\ RoomInv'
  BY <1>1, <1>2 DEF DebugInv, AnswerInv, RoomInv, Roomy, At
<1> QED
  BY <1>3, <1>5, <1>6, <1>7, <1>8, <1>9 DEF DebugInv

(* SatLink reads the write pointer. *)
LEMMA PollStep ==
    ASSUME DebugInv, PollRing
    PROVE  DebugInv'
<1>1. /\ link = "poll" /\ link' = "data" /\ polled' = writeptr
      /\ UNCHANGED <<program, ring, flags, proc_complete, sdcard, inbox, stream, quits, history>>
  BY DEF PollRing
<1>2. /\ UNCHANGED <<rbuffer, readptr, writeptr, todo, mine, set, file, fails, sets>>
      /\ UNCHANGED <<msgs, kept, guarded, lost, answer>>
  BY <1>1 DEF program, ring, sdcard, history
<1>3. Calls' /\ AnswerFresh' /\ NothingLost' /\ SettingsAgree'
  BY <1>1, ProgramSame
<1>4. Received' = Received
  BY <1>1, <1>2 DEF Received, Told
<1>5. PolledInv' /\ AckInv' /\ InboxInv'
  <2>1. Dist(readptr, writeptr) \in Int
    BY DistType DEF DebugInv, DebugTypes, Pointer
  <2> QED
    BY <1>1, <1>2, <2>1 DEF DebugInv, PolledInv, AckInv, InboxInv
<1>6. StreamInv' /\ CellsInv'
  BY <1>2, <1>4 DEF DebugInv, StreamInv, CellsInv, Unread
<1>7. AskInv'
  BY <1>1, <1>2 DEF DebugInv, AskInv, Unread, IsAsk, AskPending
<1>8. DebugTypes'
  BY <1>1, <1>2 DEF DebugInv, DebugTypes
<1>9. AnswerInv' /\ RoomInv'
  BY <1>1, <1>2 DEF DebugInv, AnswerInv, RoomInv, Roomy, At
<1> QED
  BY <1>3, <1>5, <1>6, <1>7, <1>8, <1>9 DEF DebugInv

(* A prompt or request is in the data once, as it is the last message and its first byte is in the ring once. *)
LEMMA ServesLast ==
    ASSUME DebugInv, link = "data"
    PROVE  Serves(scd_cbread(readptr, polled)) = IF AskPolled THEN <<Len(msgs)>> ELSE <<>>
<1>1. PICK data, d : data = scd_cbread(readptr, polled) /\ d = Dist(readptr, polled)
  OBVIOUS
<1>2. /\ Len(data) = d /\ d \in Nat
      /\ \A i \in 1 .. d : data[i] = Unread(i)
  <2>1. polled \in Pointer /\ readptr \in Pointer
    BY DEF DebugInv, DebugTypes, Pointer
  <2>2. data = Read(rbuffer, readptr, polled) /\ Len(data) = d
    BY <1>1, <2>1, CbRead DEF DebugInv
  <2>3. d \in Nat
    BY <1>1, <2>1, DistType
  <2> QED
    BY <1>1, <2>2, <2>3 DEF Read, Unread
<1>3. \A i \in 1 .. d : i \in 1 .. Dist(readptr, writeptr)
  <2>1. Dist(readptr, polled) =< Dist(readptr, writeptr) /\ Dist(readptr, writeptr) \in Nat
    BY DistType DEF DebugInv, PolledInv, DebugTypes, Pointer
  <2> QED
    BY <1>1, <1>2, <2>1
<1>4. CASE ~AskPolled
  <2>1. \A i \in 1 .. Len(data) : ~IsAsk(data[i])
    BY <1>1, <1>2, <1>4 DEF AskPolled
  <2>2. Serves(data) = <<>>
    BY <1>2, <2>1, ServesNone
  <2> QED
    BY <1>1, <1>4, <2>2
<1>5. CASE AskPolled
  <2>1. PICK k \in 1 .. d : IsAsk(Unread(k))
    BY <1>1, <1>5 DEF AskPolled
  <2>2. \A i \in 1 .. d : IsAsk(Unread(i)) => Unread(i) = <<Len(msgs), 1>>
    <3> SUFFICES ASSUME NEW i \in 1 .. d, IsAsk(Unread(i)) PROVE Unread(i) = <<Len(msgs), 1>>
      OBVIOUS
    <3>1. Unread(i)[1] = Len(msgs) /\ Unread(i)[2] = 1
      BY <1>3 DEF DebugInv, AskInv, IsAsk
    <3>2. Unread(i) \in Cell
      <4>1. i - 1 \in Nat /\ i - 1 < Size /\ readptr \in Pointer
        BY <1>1, <1>2, DistType, SizeType DEF DebugInv, DebugTypes, Pointer
      <4>2. Place(readptr, i - 1) \in Pointer
        BY <4>1, PlaceType
      <4> QED
        BY <4>2 DEF Unread, DebugInv, DebugTypes, Pointer
    <3> QED
      BY <3>1, <3>2 DEF Cell
  <2>3. \A i \in 1 .. d : IsAsk(Unread(i)) => i = k
    <3> SUFFICES ASSUME NEW i \in 1 .. d, IsAsk(Unread(i)) PROVE i = k
      OBVIOUS
    <3>1. Unread(i) = Unread(k)
      BY <2>1, <2>2
    <3> QED
      BY <1>3, <3>1 DEF DebugInv, CellsInv
  <2>4. IsAsk(data[k]) /\ \A i \in 1 .. Len(data) : IsAsk(data[i]) => i = k
    BY <1>2, <2>1, <2>3
  <2>5. Serves(data) = <<data[k][1]>>
    BY <1>2, <2>4, ServesOne
  <2>6. data[k][1] = Len(msgs)
    BY <1>2, <2>1, <2>2
  <2> QED
    BY <1>1, <1>5, <2>5, <2>6
<1> QED
  BY <1>4, <1>5

(* SatLink reads the data, of which the program hears nothing yet. *)
LEMMA ReadStep ==
    ASSUME DebugInv, ReadRing
    PROVE  DebugInv'
<1>1. /\ link = "data" /\ link' = "ack"
      /\ stream' = stream \o scd_cbread(readptr, polled)
      /\ inbox' = inbox \o Serves(scd_cbread(readptr, polled))
      /\ UNCHANGED <<program, ring, flags, proc_complete, sdcard, polled, quits, history>>
  BY DEF ReadRing
<1>2. /\ UNCHANGED <<rbuffer, readptr, writeptr, todo, mine, set, file, fails, sets>>
      /\ UNCHANGED <<msgs, kept, guarded, lost, answer>>
  BY <1>1 DEF program, ring, sdcard, history
<1>3. Calls' /\ AnswerFresh' /\ NothingLost' /\ SettingsAgree'
  BY <1>1, ProgramSame
<1>4. inbox' = IF AskPolled THEN <<Len(msgs)>> ELSE <<>>
  <2>1. inbox = <<>>
    BY <1>1 DEF DebugInv, InboxInv
  <2>2. PICK a : a = Len(msgs)
    OBVIOUS
  <2>3. <<>> \o <<a>> = <<a>> /\ <<>> \o <<>> = <<>>
    BY ConcatTuples
  <2> QED
    BY <1>1, <2>1, <2>2, <2>3, ServesLast
<1>5. PICK st, data : st = stream /\ data = scd_cbread(readptr, polled)
  OBVIOUS
<1>6. /\ st \in Seq(Cell) /\ data \in Seq(Cell) /\ Len(data) = Dist(readptr, polled)
      /\ data = Read(rbuffer, readptr, polled)
  BY <1>5, CbRead DEF DebugInv, DebugTypes, Pointer
<1>7. Received' = Received /\ Received = st
  <2>1. PICK u : u = st \o data
    OBVIOUS
  <2>2. Len(u) - Len(data) = Len(st) /\ SubSeq(u, 1, Len(st)) = st
    <3>1. u \in Seq(Cell) /\ Len(u) = Len(st) + Len(data)
      BY <1>6, <2>1, ConcatProperties
    <3>2. PICK k \in Nat, l \in Nat : k = Len(st) /\ l = Len(data)
      BY <1>6
    <3>3. \A i \in 1 .. k : u[i] = st[i]
      BY <1>6, <2>1, <3>2, ConcatProperties
    <3>4. SubSeq(u, 1, k) \in Seq(Cell) /\ Len(SubSeq(u, 1, k)) = k /\ \A i \in 1 .. k : SubSeq(u, 1, k)[i] = u[i]
      BY <3>1, <3>2
    <3>5. SubSeq(u, 1, k) = st
      <4>1. PICK q : q = SubSeq(u, 1, k)
        OBVIOUS
      <4>2. q \in Seq(Cell) /\ Len(q) = Len(st) /\ \A i \in 1 .. Len(q) : q[i] = st[i]
        BY <3>2, <3>3, <3>4, <4>1
      <4>3. q = st
        BY <1>6, <4>2, SeqEqual
      <4> QED
        BY <4>1, <4>3
    <3> QED
      BY <3>1, <3>2, <3>5
  <2>3. Received = st
    BY <1>1, <1>5 DEF Received, Told
  <2>4. Received' = SubSeq(u, 1, Len(u) - Len(data))
    BY <1>1, <1>2, <1>5, <1>6, <2>1 DEF Received, Told
  <2> QED
    BY <2>2, <2>3, <2>4
<1>8. AckInv'
  BY <1>1, <1>2, <1>5, <1>6, <1>7 DEF AckInv
<1>9. StreamInv' /\ CellsInv' /\ PolledInv'
  BY <1>1, <1>2, <1>7 DEF DebugInv, StreamInv, CellsInv, Unread, PolledInv
<1>10. AskPolled' <=> AskPolled
  BY <1>1, <1>2 DEF AskPolled, Unread, IsAsk
<1>11. InboxInv'
  BY <1>1, <1>2, <1>4, <1>10 DEF DebugInv, InboxInv
<1>12. AskInv'
  BY <1>1, <1>2 DEF DebugInv, AskInv, Unread, IsAsk, AskPending
<1>13. DebugTypes'
  <2>1. stream' \in Seq(Cell)
    BY <1>1, <1>5, <1>6
  <2>2. inbox' \in Seq(Nat)
    <3>1. Len(msgs) \in Nat
      BY DEF DebugInv, DebugTypes
    <3> QED
      BY <1>4, <3>1
  <2> QED
    BY <1>1, <1>2, <2>1, <2>2 DEF DebugInv, DebugTypes
<1>14. AnswerInv' /\ RoomInv'
  BY <1>1, <1>2 DEF DebugInv, AnswerInv, RoomInv, Roomy, At
<1> QED
  BY <1>3, <1>8, <1>9, <1>11, <1>12, <1>13, <1>14 DEF DebugInv

(* The program is not at a message, nor at the end of a wait, while SatLink reaches its memory. *)
LEMMA CheckAt ==
    ASSUME sc_check
    PROVE  ~At("post") /\ (At("wait") => proc_complete = 0)
BY DEF sc_check, At

(* SatLink writes the read pointer: what was told is received, the rest is unread. *)
LEMMA ReadPtrStep ==
    ASSUME DebugInv, WriteReadPtr
    PROVE  DebugInv'
<1>1. /\ sc_check /\ link = "ack" /\ readptr' = polled
      /\ link' = IF inbox = <<>> THEN "poll" ELSE "serve"
      /\ UNCHANGED <<program, rbuffer, writeptr, flags, proc_complete, sdcard, polled, inbox, stream, quits, history>>
  BY DEF WriteReadPtr
<1>2. /\ UNCHANGED <<rbuffer, writeptr, todo, mine, set, file, fails, sets>>
      /\ UNCHANGED <<msgs, kept, guarded, lost, answer>>
  BY <1>1 DEF program, sdcard, history
<1>3. Calls' /\ AnswerFresh' /\ NothingLost' /\ SettingsAgree'
  BY <1>1, ProgramSame
<1>4. PICK b, r, p, w, m, n : /\ b = rbuffer /\ r = readptr /\ p = polled /\ w = writeptr
                              /\ m = Dist(r, p) /\ n = Dist(p, w)
  OBVIOUS
<1>5. /\ b \in Buffer /\ r \in Pointer /\ p \in Pointer /\ w \in Pointer
      /\ m =< Dist(r, w)
  BY <1>1, <1>4 DEF DebugInv, DebugTypes, PolledInv, Buffer, Pointer
<1>6. /\ m \in Nat /\ n \in Nat /\ Dist(r, w) = m + n
      /\ \A i \in 1 .. n : Place(p, i - 1) = Place(r, m + i - 1)
  BY <1>4, <1>5, DistType, PlacePlace
<1>7. \A i \in 1 .. n : Unread(i)' = Unread(m + i) /\ m + i \in 1 .. (m + n)
  <2> SUFFICES ASSUME NEW i \in 1 .. n PROVE Unread(i)' = Unread(m + i) /\ m + i \in 1 .. (m + n)
    OBVIOUS
  <2>1. m + i \in 1 .. (m + n) /\ (m + i) - 1 = m + i - 1
    BY <1>6
  <2>2. Unread(i)' = b[Place(p, i - 1)]
    BY <1>1, <1>4 DEF Unread
  <2>3. Unread(m + i) = b[Place(r, (m + i) - 1)]
    BY <1>4 DEF Unread
  <2> QED
    BY <1>6, <2>1, <2>2, <2>3
<1>8. Dist(readptr, writeptr) = m + n /\ Dist(readptr', writeptr') = n
  BY <1>1, <1>4, <1>6
<1>9. CellsInv'
  <2>1. ASSUME NEW i \in 1 .. n PROVE Unread(i)'[1] \in 1 .. Len(msgs) /\ Unread(i)'[2] \in Nat \ {0}
    BY <1>7, <1>8 DEF DebugInv, CellsInv
  <2>2. ASSUME NEW i \in 1 .. n, NEW j \in 1 .. n, Unread(i)' = Unread(j)' PROVE i = j
    <3>1. m + i = m + j
      BY <1>7, <1>8, <2>2 DEF DebugInv, CellsInv
    <3> QED
      BY <1>6, <3>1
  <2> QED
    BY <1>2, <1>8, <2>1, <2>2 DEF CellsInv
<1>10. AskInv'
  <2>1. ASSUME NEW i \in 1 .. n, IsAsk(Unread(i))' PROVE Unread(i)'[1] = Len(msgs) /\ AskPending
    <3>1. IsAsk(Unread(m + i))
      BY <1>2, <1>7, <2>1 DEF IsAsk
    <3> QED
      BY <1>7, <1>8, <3>1 DEF DebugInv, AskInv
  <2>2. AskPending' <=> AskPending
    BY <1>1, <1>2 DEF AskPending
  <2> QED
    BY <1>2, <1>8, <2>1, <2>2 DEF AskInv
<1>11. PolledInv' /\ AckInv'
  BY <1>1 DEF PolledInv, AckInv
<1>12. StreamInv'
  <2>1. PICK s, t, u : s = Received /\ t = Read(b, r, p) /\ u = Read(b, p, w)
    OBVIOUS
  <2>2. s \in Seq(Cell) /\ t \in Seq(Cell) /\ u \in Seq(Cell)
    BY <1>5, <2>1, ReadType, ReceivedType DEF DebugInv
  <2>3. stream = s \o t
    BY <1>1, <1>4, <2>1 DEF DebugInv, AckInv
  <2>4. Received' = s \o t
    BY <1>1, <2>3 DEF Received, Told
  <2>5. Read(b, r, w) = t \o u
    <3>1. Dist(r, p) =< Dist(r, w)
      BY <1>4, <1>5
    <3>2. Read(b, r, w) = Read(b, r, p) \o Read(b, p, w)
      BY <1>5, <3>1, ReadSplit
    <3> QED
      BY <2>1, <3>2
  <2>6. (s \o t) \o u = s \o (t \o u)
    BY <2>2, ConcatAssociative
  <2>7. BytesAre(kept, msgs, s \o (t \o u))
    BY <1>4, <2>1, <2>5 DEF DebugInv, StreamInv
  <2>8. Read(rbuffer', readptr', writeptr') = u
    BY <1>1, <1>4, <2>1
  <2> QED
    BY <1>2, <2>4, <2>6, <2>7, <2>8 DEF StreamInv
<1>13. InboxInv'
  <2>1. CASE inbox = <<>>
    BY <1>1, <2>1 DEF InboxInv
  <2>2. CASE inbox # <<>>
    <3>1. AskPolled /\ inbox = <<Len(msgs)>> /\ polled = writeptr
      BY <1>1, <2>2 DEF DebugInv, InboxInv
    <3>2. PICK i \in 1 .. m : IsAsk(Unread(i))
      BY <1>4, <3>1 DEF AskPolled
    <3>3. AskPending
      <4>1. i \in 1 .. Dist(readptr, writeptr)
        BY <1>6, <1>8, <3>2
      <4> QED
        BY <3>2, <4>1 DEF DebugInv, AskInv
    <3> QED
      BY <1>1, <1>2, <2>2, <3>1, <3>3 DEF InboxInv, AskPending
  <2> QED
    BY <2>1, <2>2
<1>14. DebugTypes'
  BY <1>1, <1>2 DEF DebugInv, DebugTypes
<1>15. AnswerInv' /\ RoomInv'
  <2>1. ~At("post")' /\ (At("wait")' => proc_complete' = 0)
    BY <1>1, <1>2, CheckAt DEF At
  <2>2. Roomy => Roomy'
    <3>1. CASE readptr = writeptr
      <4>1. m + n = 0
        <5>1. r = w => Dist(r, w) = 0
          BY <1>5, DistType
        <5> QED
          BY <1>4, <1>6, <3>1, <5>1
      <4>2. p = w
        BY <1>4, <1>5, <1>6, <4>1, DistType
      <4> QED
        BY <1>1, <1>4, <4>2 DEF Roomy
    <3>2. CASE 128 * (Size - 1 - Dist(readptr, writeptr)) >= 33 * Size
      <4>1. 128 * (Size - 1 - n) >= 33 * Size
        BY <1>6, <1>8, <3>2, SizeType
      <4> QED
        BY <1>8, <4>1 DEF Roomy
    <3> QED
      BY <3>1, <3>2 DEF Roomy
  <2> QED
    BY <1>1, <1>2, <2>1, <2>2 DEF DebugInv, AnswerInv, RoomInv, At
<1> QED
  BY <1>3, <1>9, <1>10, <1>11, <1>12, <1>13, <1>14, <1>15 DEF DebugInv

(* SatLink serves only what the program is waiting for. *)
LEMMA ServeStep ==
    ASSUME DebugInv, Serve
    PROVE  DebugInv'
<1>1. /\ sc_check /\ link = "serve" /\ proc_complete' = Head(inbox) /\ inbox' = Tail(inbox)
      /\ link' = IF inbox' = <<>> THEN "poll" ELSE "serve"
      /\ UNCHANGED <<program, ring, flags, sdcard, polled, stream, quits, history>>
  BY DEF Serve
<1>2. /\ UNCHANGED <<rbuffer, readptr, writeptr, todo, mine, set, file, fails, sets>>
      /\ UNCHANGED <<msgs, kept, guarded, lost, answer>>
  BY <1>1 DEF program, ring, sdcard, history
<1>3. Calls' /\ AnswerFresh' /\ NothingLost' /\ SettingsAgree'
  BY <1>1, ProgramSame
<1>4. inbox = <<Len(msgs)>> /\ AskPending /\ readptr = writeptr
  BY <1>1 DEF DebugInv, InboxInv
<1>5. proc_complete' = Len(msgs) /\ inbox' = <<>> /\ link' = "poll"
  BY <1>1, <1>4
<1>6. Dist(readptr, writeptr) = 0 /\ Dist(readptr', writeptr') = 0
  BY <1>2, <1>4, DistType DEF DebugInv, DebugTypes, Pointer
<1>7. PolledInv' /\ AckInv' /\ InboxInv'
  BY <1>5 DEF PolledInv, AckInv, InboxInv
<1>8. Received' = Received
  BY <1>1, <1>2, <1>5 DEF Received, Told
<1>9. StreamInv' /\ CellsInv' /\ AskInv'
  BY <1>2, <1>6, <1>8 DEF DebugInv, StreamInv, CellsInv, AskInv
<1>10. DebugTypes'
  <2>1. Len(msgs) \in Nat
    BY DEF DebugInv, DebugTypes
  <2> QED
    <3>1. proc_complete' \in 0 .. Len(msgs') /\ inbox' \in Seq(Nat)
      BY <1>2, <1>5, <2>1
    <3>2. link' \in {"off", "poll", "data", "ack", "serve"}
      BY <1>5
    <3>3. UNCHANGED <<polled, stream, quits>>
      BY <1>1
    <3> QED
      BY <1>2, <3>1, <3>2, <3>3 DEF DebugInv, DebugTypes
<1>11. AnswerInv' /\ RoomInv'
  BY <1>2, <1>4, <1>5 DEF AnswerInv, RoomInv, Roomy
<1> QED
  BY <1>3, <1>7, <1>9, <1>10, <1>11 DEF DebugInv

(* SatLink ends; what it had not acknowledged it will read again. *)
LEMMA QuitStep ==
    ASSUME DebugInv, Quit
    PROVE  DebugInv'
<1>1. /\ quits' = quits + 1 /\ link' = "off" /\ inbox' = <<>>
      /\ stream' = (IF link = "ack" THEN SubSeq(stream, 1, Len(stream) - Len(scd_cbread(readptr, polled)))
                    ELSE stream)
      /\ UNCHANGED <<program, ring, flags, proc_complete, sdcard, polled, history>>
  BY DEF Quit
<1>2. /\ UNCHANGED <<rbuffer, readptr, writeptr, todo, mine, set, file, fails, sets>>
      /\ UNCHANGED <<msgs, kept, guarded, lost, answer>>
  BY <1>1 DEF program, ring, sdcard, history
<1>3. Calls' /\ AnswerFresh' /\ NothingLost' /\ SettingsAgree'
  BY <1>1, ProgramSame
<1>4. stream' = Received /\ Received' = Received
  <2>1. Len(scd_cbread(readptr, polled)) = Dist(readptr, polled)
    BY CbRead DEF DebugInv, DebugTypes, Pointer
  <2> QED
    BY <1>1, <2>1 DEF Received, Told
<1>5. PolledInv' /\ AckInv' /\ InboxInv'
  BY <1>1 DEF PolledInv, AckInv, InboxInv
<1>6. StreamInv' /\ CellsInv'
  BY <1>2, <1>4 DEF DebugInv, StreamInv, CellsInv, Unread
<1>7. AskInv'
  BY <1>1, <1>2 DEF DebugInv, AskInv, Unread, IsAsk, AskPending
<1>8. DebugTypes'
  <2>1. Received \in Seq(Cell)
    BY ReceivedType DEF DebugInv
  <2> QED
    BY <1>1, <1>2, <1>4, <2>1 DEF DebugInv, DebugTypes
<1>9. AnswerInv' /\ RoomInv'
  BY <1>1, <1>2 DEF DebugInv, AnswerInv, RoomInv, Roomy, At
<1> QED
  BY <1>3, <1>5, <1>6, <1>7, <1>8, <1>9 DEF DebugInv

-----------------------------------------------------------------------------
(* The library starts with an empty ring. *)
LEMMA DebugInvInit == DebugInit => DebugInv
<1> SUFFICES ASSUME DebugInit PROVE DebugInv
  OBVIOUS
<1>1. DebugTypes
  <2>1. set \in Settings /\ file \in Settings \union {NoFile}
    BY DEF DebugInit, Settings, Default, NoFile
  <2>2. readptr \in 0 .. (Size - 1) /\ writeptr \in 0 .. (Size - 1) /\ polled \in 0 .. (Size - 1)
    BY SizeType DEF DebugInit
  <2>3. <<0, 0>> \in Cell
    BY DEF Cell
  <2>4. rbuffer \in [0 .. (Size - 1) -> Cell]
    BY <2>3 DEF DebugInit
  <2>5. /\ inbox \in Seq(Nat) /\ stream \in Seq(Cell) /\ msgs \in Seq(Message) /\ kept \in Seq(Nat)
        /\ Len(msgs) = 0
    BY DEF DebugInit
  <2> QED
    BY <2>1, <2>2, <2>4, <2>5 DEF DebugInit, DebugTypes
<1>2. todo = <<>> /\ Calls
  BY DEF DebugInit, Calls, IsCall
<1>3. readptr = 0 /\ writeptr = 0 /\ Dist(readptr, writeptr) = 0
  BY DEF DebugInit, Dist
<1>4. link = "off" /\ PolledInv /\ AckInv /\ InboxInv
  BY DEF DebugInit, PolledInv, AckInv, InboxInv
<1>5. Received = <<>> /\ Read(rbuffer, readptr, writeptr) = <<>>
  <2>1. Received = <<>>
    BY DEF DebugInit, Received, Told
  <2>2. Read(rbuffer, readptr, writeptr) = <<>>
    BY <1>3 DEF Read
  <2> QED
    BY <2>1, <2>2
<1>6. StreamInv
  <2>1. kept = <<>> /\ Len(kept) = 0 /\ DOMAIN kept = {}
    BY DEF DebugInit
  <2>2. PICK h : h = [k \in 0 .. 0 |-> <<>>]
    OBVIOUS
  <2>3. IsUpto(kept, msgs, h)
    BY <2>1, <2>2 DEF IsUpto
  <2>4. \A f : IsUpto(kept, msgs, f) => f[0] = <<>>
    BY <2>1 DEF IsUpto
  <2>5. <<>> \o <<>> = <<>>
    OBVIOUS
  <2> QED
    BY <1>5, <2>1, <2>3, <2>4, <2>5 DEF StreamInv, BytesAre
<1>7. CellsInv /\ AskInv
  BY <1>3 DEF CellsInv, AskInv
<1>8. AnswerInv /\ AnswerFresh /\ RoomInv /\ NothingLost /\ SettingsAgree
  BY <1>2 DEF DebugInit, AnswerInv, AnswerFresh, RoomInv, NothingLost, SettingsAgree, At
<1> QED
  BY <1>1, <1>2, <1>4, <1>6, <1>7, <1>8 DEF DebugInv

(* Every step keeps the invariant. *)
LEMMA DebugInvStep ==
    ASSUME DebugInv, [DebugNext]_debugVars
    PROVE  DebugInv'
<1>1. CASE UNCHANGED debugVars
  <2>1. /\ UNCHANGED <<init, todo, set, address, logged, mine, rbuffer, readptr, writeptr, proc_complete>>
        /\ UNCHANGED <<file, sdlog, fails, sets, link, polled, inbox, stream, quits>>
        /\ UNCHANGED <<msgs, kept, guarded, lost, answer, ring>>
    BY <1>1 DEF debugVars, program, ring, sdcard, satlink, history
  <2>2. AskPending => AskPending'
    BY <2>1 DEF AskPending
  <2>3. PolledInv' /\ AckInv' /\ StreamInv' /\ CellsInv' /\ AskInv' /\ InboxInv'
    BY <2>1, <2>2, SameRing
  <2>4. DebugTypes' /\ Calls'
    BY <2>1 DEF DebugInv, DebugTypes, Calls
  <2>5. AnswerInv' /\ AnswerFresh' /\ RoomInv' /\ NothingLost' /\ SettingsAgree'
    BY <2>1 DEF DebugInv, AnswerInv, AnswerFresh, RoomInv, Roomy, NothingLost, SettingsAgree, At
  <2> QED
    BY <2>3, <2>4, <2>5 DEF DebugInv
<1>2. CASE Program
  BY <1>2, SettingsStep, CallBegins DEF Program
<1>3. CASE Step
  BY <1>3, LogStep, PostStep, FlushStep, ResetStep, WaitStep DEF Step
<1>4. CASE Hide
  BY <1>4, SettingsStep
<1>5. CASE SatLink
  BY <1>5, ConnectStep, PollStep, ReadStep, ReadPtrStep, ServeStep DEF SatLink
<1>6. CASE Quit
  BY <1>6, QuitStep
<1> QED
  BY <1>1, <1>2, <1>3, <1>4, <1>5, <1>6 DEF DebugNext

(* The invariant holds in every state. *)
LEMMA DebugInvHolds == DebugSpec => []DebugInv
<1>1. DebugInit => DebugInv
  BY DebugInvInit
<1>2. DebugInv /\ [DebugNext]_debugVars => DebugInv'
  BY DebugInvStep
<1> QED
  BY <1>1, <1>2, PTL DEF DebugSpec

(* No call is longer than the type invariant says. *)
LEMMA CallLength ==
    ASSUME Calls
    PROVE  Len(todo) =< 7
<1>1. CASE todo \in {<<>>, <<Flush>>} \union PromptRest \union FileCalls
  <2>1. PICK f, p, w, e : f = Flush /\ p = Post /\ w = Wait /\ e = Reset
    OBVIOUS
  <2>2. \/ todo = <<>> \/ todo = <<f>> \/ todo = <<f, e, w>> \/ todo = <<e, w>> \/ todo = <<w>>
        \/ todo = <<f, p, w>> \/ todo = <<p, w>> \/ todo = <<f, p, w, f, p, w>>
        \/ todo = <<p, w, f, p, w>> \/ todo = <<w, f, p, w>>
    BY <1>1, <2>1 DEF PromptRest, FileCalls
  <2>3. CASE todo = <<>>
    BY <2>3
  <2>4. CASE todo = <<f>>
    BY <2>4
  <2>5. CASE todo = <<w>>
    BY <2>5
  <2>6. CASE todo = <<e, w>>
    BY <2>6
  <2>7. CASE todo = <<f, e, w>>
    BY <2>7
  <2>8. CASE todo = <<f, p, w>>
    BY <2>8
  <2>9. CASE todo = <<p, w>>
    BY <2>9
  <2>10. CASE todo = <<f, p, w, f, p, w>>
    BY <2>10
  <2>11. CASE todo = <<p, w, f, p, w>>
    BY <2>11
  <2>12. CASE todo = <<w, f, p, w>>
    BY <2>12
  <2> QED
    BY <2>2, <2>3, <2>4, <2>5, <2>6, <2>7, <2>8, <2>9, <2>10, <2>11, <2>12
<1>2. CASE \E n \in LogLens : todo \in LogCalls(n) \union PromptCalls(n)
  <2>1. PICK f, w, e : f = Flush /\ w = Wait /\ e = Reset
    OBVIOUS
  <2>2. PICK l, m : \/ todo = <<l>> \/ todo = <<l, l>> \/ todo = <<f, l>> \/ todo = <<f>>
                    \/ todo = <<m, e, w>>
    BY <1>2, <2>1 DEF LogCalls, PromptCalls
  <2>3. CASE todo = <<l>>
    BY <2>3
  <2>4. CASE todo = <<l, l>>
    BY <2>4
  <2>5. CASE todo = <<f, l>>
    BY <2>5
  <2>6. CASE todo = <<f>>
    BY <2>6
  <2>7. CASE todo = <<m, e, w>>
    BY <2>7
  <2> QED
    BY <2>2, <2>3, <2>4, <2>5, <2>6, <2>7
<1> QED
  BY <1>1, <1>2 DEF Calls, IsCall

(* From the invariant: what was received and what is unread are the messages kept. *)
LEMMA StreamIsWhole ==
    ASSUME DebugInv
    PROVE  StreamWhole
<1>1. readptr \in Pointer /\ writeptr \in Pointer /\ polled \in Pointer
  BY DEF DebugInv, DebugTypes, Pointer
<1>2. /\ Len(scd_cbread(readptr, polled)) = Dist(readptr, polled)
      /\ scd_cbread(readptr, writeptr) = Read(rbuffer, readptr, writeptr)
  BY <1>1, CbRead DEF DebugInv
<1>3. PICK st : st = Received \o Read(rbuffer, readptr, writeptr)
  OBVIOUS
<1>4. Bytes(kept) = st
  BY <1>3, BytesOfKept DEF DebugInv, StreamInv
<1> QED
  BY <1>2, <1>3, <1>4 DEF StreamWhole, Received, Told

(***************************************************************************)
(* The debugger of satcom_lib is sound for every size of the ring and      *)
(* every length of messages that RingAssumption allows, any number of      *)
(* messages and failures: SatLink gets every message that was not dropped  *)
(* whole, once and in order, whatever it does between polling, reading,    *)
(* acknowledging and ending; no request is dropped, nor a message of a log *)
(* once one was written with the debugger on; and the settings agree with  *)
(* the card and the link.                                                  *)
(***************************************************************************)
THEOREM LinkIsSound == DebugSpec => []LinkSound
<1>1. DebugInv => LinkSound
  <2> SUFFICES ASSUME DebugInv PROVE LinkSound
    OBVIOUS
  <2>1. DebugTypeOK
    BY CallLength DEF DebugInv, DebugTypes, DebugTypeOK
  <2> QED
    BY <2>1, StreamIsWhole DEF LinkSound, DebugInv
<1> QED
  BY <1>1, DebugInvHolds, PTL

(***************************************************************************)
(* A call of scf_* or scd_prompt returns with the answer to what it has    *)
(* asked, never with one to an earlier request, in every interleaving of   *)
(* the program with SatLink and its restarts.                              *)
(***************************************************************************)
THEOREM AnswersAreFresh == DebugSpec => []AnswerFresh
<1>1. DebugInv => AnswerFresh
  BY DEF DebugInv
<1> QED
  BY <1>1, DebugInvHolds, PTL

=============================================================================
