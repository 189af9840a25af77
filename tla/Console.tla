------------------------------ MODULE Console ------------------------------
(***************************************************************************)
(* DoConsole of ftdi_console.cpp: in terminal mode a thread that reads     *)
(* stdin and queues complete lines, the main loop that shows what the      *)
(* device sends and forwards the lines, and the interrupt flag that either *)
(* of them, or a signal, sets to end both.  The debug console is the main  *)
(* loop without the thread (rpc = "none").                                 *)
(*                                                                         *)
(* Abstractions.  The user's input is one of the sequences Inputs over     *)
(* Char.  Of the device's output only the return value of the read counts: *)
(* what is printed changes nothing else.  One step is one system call, one *)
(* critical section, or one test of the flag.                              *)
(***************************************************************************)
EXTENDS Integers, Sequences

CONSTANT
    Inputs      \* what the user may type, followed by the end of the input

Char == {"x", "y", "LF", "CR", "ETX"}

ASSUME ConsoleAssumption == \A s \in Inputs : s \in Seq(Char)

VARIABLES
    (* the stdin reader thread *)
    rpc,        \* where it is
    input,      \* what is typed and not yet read
    pending,    \* pendingLine
    (* shared *)
    queue,      \* stdinLineQueue, under stdinLineQueueMutex
    flag,       \* g_interrupt_flag
    (* the main loop *)
    mpc,        \* where it is
    status,     \* what the last ftdi_read_data returned: -1, 0 or 1
    lines,      \* linesToSend, what is left of it
    sent,       \* bytes of the first of lines that were written
    (* history *)
    typed,      \* the lines that were queued, in order
    wire,       \* per line taken from the queue, what the device was sent
    short,      \* lines whose sending ended with ftdi_write_data = 0
    failure,    \* a system or libftdi call failed
    stopped     \* a signal arrived, or Ctrl+C on stdin

reader == <<rpc, input, pending>>
main == <<mpc, status, lines, sent>>
vars == <<reader, queue, flag, main, typed, wire, short, failure, stopped>>

-----------------------------------------------------------------------------
(* The stdin reader thread. *)

(* Mutant of RCheck: the reader does not look at the flag. *)
RCheckForever ==
    /\ rpc = "check"
    /\ rpc' = "poll"
    /\ UNCHANGED <<input, pending, queue, flag, main, typed, wire, short,
                   failure, stopped>>

RCheck ==
    /\ rpc = "check"
    /\ rpc' = IF flag THEN "exit" ELSE "poll"
    /\ UNCHANGED <<input, pending, queue, flag, main, typed, wire, short,
                   failure, stopped>>

(* Mutant of RPollTimeout: 0 is taken for an error. *)
RPollTimeoutEnds ==
    /\ rpc = "poll"
    /\ rpc' = "exit"
    /\ flag' = TRUE
    /\ UNCHANGED <<input, pending, queue, main, typed, wire, short,
                   failure, stopped>>

(* poll returned 0 after 50 ms. *)
RPollTimeout ==
    /\ rpc = "poll"
    /\ rpc' = "check"
    /\ UNCHANGED <<input, pending, queue, flag, main, typed, wire, short,
                   failure, stopped>>

(* POLLIN: a character, or the end of the input, can be read. *)
RPollIn ==
    /\ rpc = "poll"
    /\ rpc' = "read"
    /\ UNCHANGED <<input, pending, queue, flag, main, typed, wire, short,
                   failure, stopped>>

(* poll or read failed, or poll signalled POLLERR, POLLHUP or POLLNVAL. *)
RFail ==
    /\ rpc \in {"poll", "read"}
    /\ rpc' = "exit"
    /\ flag' = TRUE
    /\ failure' = TRUE
    /\ UNCHANGED <<input, pending, queue, main, typed, wire, short, stopped>>

(* Mutant of REof: the reader ends without telling the main loop. *)
REofSilent ==
    /\ rpc = "read"
    /\ input = << >>
    /\ rpc' = "exit"
    /\ UNCHANGED <<input, pending, queue, flag, main, typed, wire, short,
                   failure, stopped>>

(* read returned 0. *)
REof ==
    /\ rpc = "read"
    /\ input = << >>
    /\ rpc' = "exit"
    /\ flag' = TRUE
    /\ UNCHANGED <<input, pending, queue, main, typed, wire, short,
                   failure, stopped>>

(* Byte 0x03 on stdin. *)
RCtrlC ==
    /\ rpc = "read"
    /\ input # << >>
    /\ Head(input) = "ETX"
    /\ input' = Tail(input)
    /\ pending' = << >>
    /\ rpc' = "exit"
    /\ flag' = TRUE
    /\ stopped' = TRUE
    /\ UNCHANGED <<queue, main, typed, wire, short, failure>>

(* A carriage return counts as a newline, and a newline ends the line. *)
Normalized(c) == IF c = "CR" THEN "LF" ELSE c

RByte ==
    /\ rpc = "read"
    /\ input # << >>
    /\ Head(input) # "ETX"
    /\ input' = Tail(input)
    /\ pending' = Append(pending, Normalized(Head(input)))
    /\ rpc' = IF Normalized(Head(input)) = "LF" THEN "enqueue" ELSE "check"
    /\ UNCHANGED <<queue, flag, main, typed, wire, short, failure, stopped>>

(* The critical section of the reader. *)
REnqueue ==
    /\ rpc = "enqueue"
    /\ queue' = Append(queue, pending)
    /\ typed' = Append(typed, pending)
    /\ pending' = << >>
    /\ rpc' = "check"
    /\ UNCHANGED <<input, flag, main, wire, short, failure, stopped>>

Reader ==
    RCheck \/ RPollTimeout \/ RPollIn \/ RFail \/ REof \/ RCtrlC \/ RByte \/ REnqueue

-----------------------------------------------------------------------------
(* The main loop. *)

MCheck ==
    /\ mpc = "check"
    /\ mpc' = IF status >= 0 /\ ~flag THEN "read" ELSE "join"
    /\ UNCHANGED <<reader, queue, flag, status, lines, sent, typed,
                   wire, short, failure, stopped>>

(* Mutant of MRead: an idle device sends the loop back to its start. *)
MReadContinue ==
    /\ mpc = "read"
    /\ status' = 0
    /\ mpc' = "check"
    /\ UNCHANGED <<reader, queue, flag, lines, sent, typed, wire, short,
                   failure, stopped>>

(* Nothing, or something that is printed. *)
MRead ==
    /\ mpc = "read"
    /\ status' \in {0, 1}
    /\ mpc' = "take"
    /\ UNCHANGED <<reader, queue, flag, lines, sent, typed, wire, short, failure, stopped>>

(* ftdi_read_data < 0; with the flag already set the loop body goes on. *)
MReadError ==
    /\ mpc = "read"
    /\ status' = -1
    /\ mpc' = IF flag THEN "take" ELSE "join"
    /\ flag' = TRUE
    /\ failure' = TRUE
    /\ UNCHANGED <<reader, queue, lines, sent, typed, wire, short, stopped>>

(* A line is about to be sent. *)
StartLine(ls) == IF ls = << >> THEN wire ELSE Append(wire, << >>)

(* Mutant of MTake: the lines are copied out of the queue. *)
MTakeCopy ==
    /\ mpc = "take"
    /\ lines' = queue
    /\ sent' = 0
    /\ wire' = StartLine(queue)
    /\ mpc' = "send"
    /\ UNCHANGED <<reader, queue, flag, status, typed, short, failure, stopped>>

(* The critical section of the main loop: linesToSend.swap(stdinLineQueue). *)
MTake ==
    /\ mpc = "take"
    /\ lines' = queue
    /\ queue' = << >>
    /\ sent' = 0
    /\ wire' = StartLine(queue)
    /\ mpc' = "send"
    /\ UNCHANGED <<reader, flag, status, typed, short, failure, stopped>>

Sending == mpc = "send" /\ lines # << >> /\ sent < Len(Head(lines)) /\ ~flag

(* Mutant of MWrite: a partial write is followed by the line's start. *)
MWriteFromStart ==
    /\ Sending
    /\ \E n \in 1 .. (Len(Head(lines)) - sent) :
         /\ sent' = sent + n
         /\ wire' = [wire EXCEPT ![Len(wire)] = @ \o SubSeq(Head(lines), 1, n)]
    /\ UNCHANGED <<reader, queue, flag, mpc, status, lines, typed, short,
                   failure, stopped>>

MWrite ==
    /\ Sending
    /\ \E n \in 1 .. (Len(Head(lines)) - sent) :
         /\ sent' = sent + n
         /\ wire' = [wire EXCEPT ![Len(wire)] =
                                   @ \o SubSeq(Head(lines), sent + 1, sent + n)]
    /\ UNCHANGED <<reader, queue, flag, mpc, status, lines, typed, short,
                   failure, stopped>>

NextLine ==
    /\ lines' = Tail(lines)
    /\ sent' = 0
    /\ wire' = StartLine(Tail(lines))

(* ftdi_write_data < 0: the flag makes the loop skip the other lines. *)
MWriteError ==
    /\ Sending
    /\ NextLine
    /\ flag' = TRUE
    /\ failure' = TRUE
    /\ UNCHANGED <<reader, queue, mpc, status, typed, short, stopped>>

(* ftdi_write_data = 0: the rest of the line is dropped. *)
MWriteZero ==
    /\ Sending
    /\ NextLine
    /\ short' = short \cup {Len(wire)}
    /\ UNCHANGED <<reader, queue, flag, mpc, status, typed, failure, stopped>>

(* The line is sent, or the flag is set. *)
MNextLine ==
    /\ mpc = "send" /\ lines # << >> /\ ~Sending
    /\ NextLine
    /\ UNCHANGED <<reader, queue, flag, mpc, status, typed, short,
                   failure, stopped>>

MLoop ==
    /\ mpc = "send" /\ lines = << >>
    /\ mpc' = "check"
    /\ UNCHANGED <<reader, queue, flag, status, lines, sent, typed,
                   wire, short, failure, stopped>>

(* stdinReaderThread.join, if there is a thread. *)
MJoin ==
    /\ mpc = "join"
    /\ rpc \in {"exit", "none"}
    /\ mpc' = "done"
    /\ UNCHANGED <<reader, queue, flag, status, lines, sent, typed,
                   wire, short, failure, stopped>>

Main ==
    MCheck \/ MRead \/ MReadError \/ MTake \/ MWrite \/ MWriteError \/ MWriteZero
      \/ MNextLine \/ MLoop \/ MJoin

(* SIGINT, SIGTERM or SIGQUIT. *)
Signal ==
    /\ ~flag
    /\ flag' = TRUE
    /\ stopped' = TRUE
    /\ UNCHANGED <<reader, queue, main, typed, wire, short, failure>>

-----------------------------------------------------------------------------
Init ==
    /\ rpc \in {"check", "none"} /\ input \in Inputs /\ pending = << >>
    /\ queue = << >> /\ flag = FALSE
    /\ mpc = "check" /\ status = 0 /\ lines = << >> /\ sent = 0
    /\ typed = << >> /\ wire = << >> /\ short = {}
    /\ failure = FALSE /\ stopped = FALSE

Next == Reader \/ Main \/ Signal

Spec == Init /\ [][Next]_vars

(***************************************************************************)
(* Both threads run.  Calls return: poll within 50 ms, the libftdi calls   *)
(* within their timeouts.  No call has to fail.  A writable link takes     *)
(* data, so a line that is being sent does not stay as it is for ever.     *)
(***************************************************************************)
ReaderProgress == RCheck \/ RPollTimeout \/ REof \/ RCtrlC \/ RByte \/ REnqueue
MainProgress == MCheck \/ MRead \/ MTake \/ MWrite \/ MNextLine \/ MLoop \/ MJoin

FairSpec == Spec /\ WF_vars(ReaderProgress) /\ WF_vars(MainProgress)

-----------------------------------------------------------------------------
(* Every variable has its type, and the history follows the queue. *)
TypeOK ==
    /\ rpc \in {"none", "check", "poll", "read", "enqueue", "exit"}
    /\ input \in Seq(Char)
    /\ pending \in Seq(Char)
    /\ queue \in Seq(Seq(Char))
    /\ flag \in BOOLEAN
    /\ mpc \in {"check", "read", "take", "send", "join", "done"}
    /\ status \in {-1, 0, 1}
    /\ lines \in Seq(Seq(Char))
    /\ sent \in Nat
    /\ lines # << >> => mpc = "send" /\ wire # << >> /\ sent =< Len(Head(lines))
    /\ typed \in Seq(Seq(Char))
    /\ wire \in Seq(Seq(Char))
    /\ short \subseteq 1 .. Len(wire)
    /\ failure \in BOOLEAN /\ stopped \in BOOLEAN
    /\ rpc = "exit" => flag

(* Lines whose sending is over. *)
Over == Len(typed) - Len(lines) - Len(queue)

(***************************************************************************)
(* No line is lost, duplicated or overtaken between the two threads: the   *)
(* lines typed are those that were sent, those being sent and those still  *)
(* in the queue, in that order.                                            *)
(***************************************************************************)
LinesConserved ==
    /\ Over >= 0
    /\ \A i \in 1 .. Len(lines) : lines[i] = typed[Over + i]
    /\ \A i \in 1 .. Len(queue) : queue[i] = typed[Over + Len(lines) + i]
    /\ Len(wire) = Over + (IF lines = << >> THEN 0 ELSE 1)

(***************************************************************************)
(* The device gets every line from its first character on, and all of it   *)
(* unless the console is ending or ftdi_write_data took nothing.           *)
(***************************************************************************)
LinesForwarded ==
    \A i \in 1 .. Len(wire) :
        /\ Len(wire[i]) =< Len(typed[i])
        /\ \A j \in 1 .. Len(wire[i]) : wire[i][j] = typed[i][j]
        /\ (i =< Over /\ ~flag /\ i \notin short) => Len(wire[i]) = Len(typed[i])

(***************************************************************************)
(* The console ends only because of a signal, a Ctrl+C, a failure or the   *)
(* end of the input, and in the last case everything that was typed has    *)
(* been read: neither a silent device, a silent user nor a write that      *)
(* takes nothing ends it.                                                  *)
(***************************************************************************)
EndsForAReason ==
    mpc \in {"join", "done"} =>
        flag /\ (failure \/ stopped \/ (rpc = "exit" /\ input = << >>))

(***************************************************************************)
(* README: "On console exit (Ctrl+C), the stdin reader thread stops within *)
(* 50ms and the process exits cleanly."  Once the flag is set, by whoever, *)
(* both threads end: nobody waits for the other.                           *)
(***************************************************************************)
ExitsCleanly == flag ~> (mpc = "done" /\ rpc \in {"exit", "none"})

(* A complete line is sent to the end, unless the console is ending first. *)
LinesAreSent == \A n \in 1 .. 2 : (Len(typed) >= n) ~> (Over >= n \/ flag)

=============================================================================
