--------------------------- MODULE TcpProxyProofs ---------------------------
(***************************************************************************)
(* Proofs about TcpProxy and the Session that it extends: one run of ftx   *)
(* keeps the libftdi context balanced on every path, the proxy forwards    *)
(* bytes in order and at most once, and it traces the same packets however *)
(* the streams are cut, for any options, clients, chunk size, number of    *)
(* retries and device.                                                     *)
(***************************************************************************)
EXTENDS TcpProxy, SequenceTheorems, WellFoundedInduction, TLAPS

-----------------------------------------------------------------------------
(* The session. *)

ProxyPcs == {"proxy", "accept", "client", "write", "read", "send", "disconnect"}

(* The labels at which the device is in use. *)
InUse == {"command", "mode"} \union ProxyPcs

(***************************************************************************)
(* What main and InitComms know at each of their calls.  TypeOK and        *)
(* RunsConfigured alone are not inductive: that a device which runs is     *)
(* open follows only from what error and opened mean between the calls of  *)
(* InitComms.                                                              *)
(***************************************************************************)
SessionInv ==
    /\ pc \in {"start", "list", "find", "init", "open", "purge", "reset", "config", "cleanup",
               "flush", "end"} \union InUse
    /\ ctx \in {"raw", "init"} /\ dev \in {"closed", "open"}
    /\ recover \in BOOLEAN /\ error \in BOOLEAN /\ opened \in BOOLEAN /\ purged \in BOOLEAN
    /\ closing \in BOOLEAN /\ missed = FALSE
    /\ exit \in {-1, 0, 1} /\ (exit = -1) = (pc \notin {"flush", "end"})
    /\ pc \notin InUse \union {"flush", "end"} => ~closing
    /\ pc \in {"start", "list", "init"} => ctx = "raw" /\ dev = "closed"
    /\ pc \in {"find", "open"} => ctx = "init" /\ dev = "closed"
    /\ pc \in {"open", "purge", "reset"} => ~error
    /\ pc \in {"purge", "reset", "config"} => ctx = "init" /\ opened
    /\ pc \in {"config", "cleanup"} /\ ~error => ctx = "init" /\ dev = "open" /\ purged
    /\ pc = "cleanup" /\ dev = "open" => opened
    /\ pc \in InUse => ~error /\ purged
    /\ pc \in InUse \union {"flush"} => ctx = "init" /\ dev = "open" /\ closing
    /\ pc = "end" => ctx = "raw" /\ dev = "closed"

(* Every step of main, of InitComms and of CloseComms keeps it. *)
LEMMA SessionStep == SessionInv /\ SessionNext => SessionInv'
<1> SUFFICES ASSUME SessionInv, SessionNext PROVE SessionInv'
  OBVIOUS
<1> USE DEF SessionInv, InUse, ProxyPcs
<1>1. CASE parse_args
  <2>1. \/ pc' \in {"list", "init"} /\ exit' = exit
        \/ pc' = "end" /\ exit' \in {0, 1}
    BY <1>1 DEF parse_args, ExitWith
  <2> QED
    BY <1>1, <2>1 DEF parse_args
<1>2. CASE ListDevices
  BY <1>2 DEF ListDevices, ExitWith
<1>3. CASE Init1
  BY <1>3 DEF Init1
<1>4. CASE Open
  <2> USE <1>4 DEF Open
  <2>1. CASE dev' = "open" /\ opened' = TRUE /\ pc' = "purge" /\ UNCHANGED error
    BY <2>1
  <2>2. CASE dev' = "closed" /\ opened' = TRUE /\ pc' = "purge" /\ UNCHANGED error
    BY <2>2
  <2>3. CASE dev' = "closed" /\ opened' = FALSE /\ pc' = "cleanup" /\ error' = TRUE
    BY <2>3
  <2> QED
    BY <2>1, <2>2, <2>3
<1>5. CASE Purge
  <2> USE <1>5 DEF Purge
  <2>1. CASE dev = "open" /\ purged' = TRUE /\ pc' = "config" /\ UNCHANGED error
    BY <2>1
  <2>2. CASE ~recover /\ pc' = "reset" /\ UNCHANGED <<error, purged>>
    BY <2>2
  <2>3. CASE recover /\ pc' = "config" /\ error' = TRUE /\ UNCHANGED purged
    BY <2>3
  <2> QED
    BY <2>1, <2>2, <2>3
<1>6. CASE Recover
  BY <1>6 DEF Recover
<1>7. CASE Configure
  BY <1>7 DEF Configure
<1>8. CASE Cleanup
  <2>1. CASE error
    <3>1. dev' = "closed"
      BY <1>8, <2>1 DEF Cleanup
    <3>2. pc' = "end" /\ ctx' = "raw" /\ exit' = 1 /\ closing' = closing
      BY <1>8, <2>1 DEF Cleanup
    <3>3. recover' = FALSE /\ opened' = FALSE /\ UNCHANGED <<error, purged, missed>>
      BY <1>8 DEF Cleanup
    <3>4. recover' \in BOOLEAN /\ error' \in BOOLEAN /\ opened' \in BOOLEAN /\ purged' \in BOOLEAN
      BY <3>3
    <3>5. closing' \in BOOLEAN /\ missed' = FALSE
      BY <3>2, <3>3
    <3>6.  exit' \in {-1, 0, 1} /\ (exit' = -1) = (pc' \notin {"flush", "end"})
      BY <3>2
    <3> QED
      BY <3>1, <3>2, <3>4, <3>5, <3>6
  <2>2. CASE ~error
    BY <1>8, <2>2 DEF Cleanup
  <2> QED
    BY <2>1, <2>2
<1>9. CASE RunCommand
  BY <1>9 DEF RunCommand, Touch, ExitWith
<1>10. CASE OtherMode
  BY <1>10 DEF OtherMode, Touch, ExitWith
<1>11. CASE CloseComms
  BY <1>11 DEF CloseComms, Touch
<1> QED
  BY <1>1, <1>2, <1>3, <1>4, <1>5, <1>6, <1>7, <1>8, <1>9, <1>10, <1>11 DEF SessionNext, InitComms

(* A step of the proxy, or its end, leaves everything else of the session alone. *)
LEMMA ProxyKeepsSession ==
  ASSUME SessionInv, pc \in InUse,
         \/ \E label \in InUse : Goto(label)
         \/ \E label \in InUse : Call(label)
         \/ /\ \E code \in {0, 1} : ExitWith(code)
            /\ UNCHANGED <<opts, ctx, dev, recover, error, opened, closing, interrupt, purged, missed>>
  PROVE  SessionInv'
<1> USE DEF SessionInv, InUse, ProxyPcs
<1>1. ctx = "init" /\ dev = "open" /\ closing /\ missed = FALSE
  OBVIOUS
<1>2. CASE \E label \in InUse : Goto(label)
  BY <1>2 DEF Goto
<1>3. CASE \E label \in InUse : Call(label)
  <2>1. missed' = FALSE
    BY <1>1, <1>3 DEF Call, Touch
  <2> QED
    BY <1>3, <2>1 DEF Call
<1>4. CASE /\ \E code \in {0, 1} : ExitWith(code)
           /\ UNCHANGED <<opts, ctx, dev, recover, error, opened, closing, interrupt, purged, missed>>
  <2>1. pc' = "flush" /\ exit' \in {0, 1}
    BY <1>1, <1>4 DEF ExitWith
  <2> QED
    BY <1>4, <2>1
<1> QED
  BY <1>2, <1>3, <1>4

-----------------------------------------------------------------------------
(* The bytes. *)

(* Bytes of the clients that were handed to the chip, or given up with their client. *)
Forwarded == Len(recvd) - (Len(block) - written)

(* Types. *)
ProxyTypes ==
    /\ toProxy \in Seq(STRING) /\ recvd \in Seq(STRING) /\ answers \in Seq(STRING)
    /\ block \in Seq(Nat) /\ written \in Nat
    /\ attempt \in 0 .. (Retries - 1) /\ chunk \in 1 .. InitialChunk
    /\ toDev \in Seq(Nat) /\ fromDev \in Seq(Nat) /\ back \in Seq(Nat)
    /\ lastDev \in Nat /\ lastClient \in Nat
    /\ fails \in 0 .. MaxFails /\ flushed \in BOOLEAN

(* The block being written is the end of what was received. *)
BlockInv ==
    /\ written =< Len(block) /\ Len(block) =< Len(recvd)
    /\ pc # "write" => block = <<>>
    /\ \A i \in 1 .. Len(block) : block[i] = Len(recvd) - Len(block) + i

(* What the chip and the device have is in order and was forwarded, and is all of it unless *)
(* a write has failed.                                                                       *)
ToDeviceInv ==
    /\ lastDev =< Forwarded
    /\ \A i \in 1 .. Len(toDev) : lastDev < toDev[i] /\ toDev[i] =< Forwarded
    /\ \A i, j \in 1 .. Len(toDev) : i < j => toDev[i] < toDev[j]
    /\ ~flushed /\ fails = 0 =>
         /\ Len(toDev) = Forwarded - lastDev
         /\ \A i \in 1 .. Len(toDev) : toDev[i] = lastDev + i

(* What the client has, what is being sent and what the chip holds follow each other. *)
ToClientInv ==
    /\ pc # "send" => back = <<>>
    /\ lastClient =< Len(answers)
    /\ \A i \in 1 .. Len(back) : lastClient < back[i] /\ back[i] =< Len(answers)
    /\ \A i \in 1 .. Len(fromDev) : lastClient < fromDev[i] /\ fromDev[i] =< Len(answers)
    /\ \A i \in 1 .. Len(back), j \in 1 .. Len(fromDev) : back[i] < fromDev[j]
    /\ \A i, j \in 1 .. Len(back) : i < j => back[i] < back[j]
    /\ \A i, j \in 1 .. Len(fromDev) : i < j => fromDev[i] < fromDev[j]

(* Numbers put in front of an ascending sequence. *)
LEMMA InOrderCons ==
  ASSUME NEW x \in Nat, NEW s \in Seq(Nat), \A i \in 1 .. Len(s) : x < s[i],
         \A i, j \in 1 .. Len(s) : i < j => s[i] < s[j]
  PROVE  InOrder(<<x>> \o s)
<1>1. <<x>> \in Seq(Nat) /\ Len(<<x>>) = 1 /\ <<x>>[1] = x
  OBVIOUS
<1>2. /\ <<x>> \o s \in Seq(Nat) /\ Len(<<x>> \o s) = 1 + Len(s)
      /\ \A i \in 1 .. 1 + Len(s) : (<<x>> \o s)[i] = IF i =< 1 THEN <<x>>[i] ELSE s[i - 1]
  BY <1>1, ConcatProperties
<1>3. DOMAIN (<<x>> \o s) = 1 .. 1 + Len(s)
  BY <1>2, LenProperties
<1> SUFFICES ASSUME NEW i \in 1 .. 1 + Len(s), NEW j \in 1 .. 1 + Len(s), i < j
             PROVE  (<<x>> \o s)[i] < (<<x>> \o s)[j]
  BY <1>3 DEF InOrder
<1>4. Len(s) \in Nat
  BY LenProperties
<1>5. CASE i = 1
  <2>1. j - 1 \in 1 .. Len(s)
    BY <1>4, <1>5
  <2> QED
    BY <1>1, <1>2, <1>5, <2>1
<1>6. CASE i # 1
  <2>1. i - 1 \in 1 .. Len(s) /\ j - 1 \in 1 .. Len(s) /\ i - 1 < j - 1
    BY <1>4, <1>6
  <2> QED
    BY <1>2, <1>6, <2>1
<1> QED
  BY <1>5, <1>6

BytesInv == ProxyTypes /\ BlockInv /\ ToDeviceInv /\ ToClientInv

(* A step that changes nothing but the client, the traces and the label of the session. *)
LEMMA BytesUntouched ==
  ASSUME BytesInv, toProxy' \in Seq(STRING), pc' # "write", pc # "write",
         pc = "send" => pc' = "send",
         UNCHANGED <<recvd, answers, writing, toDev, fromDev, back, lastDev, lastClient, fails, flushed>>
  PROVE  BytesInv'
  BY DEF BytesInv, ProxyTypes, BlockInv, ToDeviceInv, ToClientInv, Forwarded, writing

(* Two sequences of numbers one after the other. *)
LEMMA Joined ==
  ASSUME NEW s \in Seq(Nat), NEW t \in Seq(Nat)
  PROVE  /\ s \o t \in Seq(Nat) /\ Len(s \o t) = Len(s) + Len(t)
         /\ \A i \in 1 .. Len(s) + Len(t) : (s \o t)[i] =
               IF i =< Len(s) THEN s[i] ELSE t[i - Len(s)]
  BY ConcatProperties

(* The two parts of a sequence. *)
LEMMA Cut ==
  ASSUME NEW S, NEW s \in Seq(S), NEW n \in 0 .. Len(s)
  PROVE  /\ SubSeq(s, 1, n) \in Seq(S) /\ Len(SubSeq(s, 1, n)) = n
         /\ \A i \in 1 .. n : SubSeq(s, 1, n)[i] = s[i]
         /\ SubSeq(s, n + 1, Len(s)) \in Seq(S) /\ Len(SubSeq(s, n + 1, Len(s))) = Len(s) - n
         /\ \A i \in 1 .. (Len(s) - n) : SubSeq(s, n + 1, Len(s))[i] = s[n + i]
<1>1. Len(s) \in Nat /\ \A i \in 1 .. Len(s) : s[i] \in S
  BY LenProperties, ElementOfSeq
<1>2. \A i \in 1 .. n : s[i] \in S
  BY <1>1
<1>3. \A i \in (n + 1) .. Len(s) : s[i] \in S
  BY <1>1
<1>4. /\ SubSeq(s, 1, n) \in Seq(S)
      /\ Len(SubSeq(s, 1, n)) = IF 1 =< n THEN n - 1 + 1 ELSE 0
      /\ \A i \in 1 .. n - 1 + 1 : SubSeq(s, 1, n)[i] = s[1 + i - 1]
  BY <1>1, <1>2, SubSeqProperties
<1>5. /\ SubSeq(s, n + 1, Len(s)) \in Seq(S)
      /\ Len(SubSeq(s, n + 1, Len(s))) = IF n + 1 =< Len(s) THEN Len(s) - (n + 1) + 1 ELSE 0
      /\ \A i \in 1 .. Len(s) - (n + 1) + 1 : SubSeq(s, n + 1, Len(s))[i] = s[n + 1 + i - 1]
  BY <1>1, <1>3, SubSeqProperties
<1> QED
  BY <1>1, <1>4, <1>5

(* The constants are positive. *)
LEMMA Constants ==
  /\ InitialChunk \in Nat /\ InitialChunk > 0 /\ Retries \in Nat /\ Retries > 0
  /\ MaxFails \in Nat /\ MaxFails > 0
  BY ProxyAssumption

(* Consecutive numbers are a sequence. *)
LEMMA CountIsSeq ==
  ASSUME NEW n \in Nat, NEW m \in Nat
  PROVE  /\ [i \in 1 .. n |-> m + i] \in Seq(Nat)
         /\ Len([i \in 1 .. n |-> m + i]) = n
  OBVIOUS

(* Bytes of the client become a block, behind all that was received before. *)
LEMMA PollStep == BytesInv /\ Poll => BytesInv'
<1> SUFFICES ASSUME BytesInv, Poll PROVE BytesInv'
  OBVIOUS
<1>1. CASE UNCHANGED <<clientVars, recvd, writing>> /\ pc' # "write"
  BY <1>1, BytesUntouched DEF Poll, clientVars, chip, BytesInv, ProxyTypes, writing
<1>2. CASE \E n \in 1 .. Len(toProxy) :
             /\ toProxy' = SubSeq(toProxy, n + 1, Len(toProxy))
             /\ recvd' = recvd \o SubSeq(toProxy, 1, n)
             /\ block' = [i \in 1 .. n |-> Len(recvd) + i]
             /\ written' = 0 /\ chunk' = InitialChunk /\ attempt' = 0
             /\ lastClient' = lastClient /\ pc' = "write"
  <2>1. PICK n \in 1 .. Len(toProxy) :
             /\ toProxy' = SubSeq(toProxy, n + 1, Len(toProxy))
             /\ recvd' = recvd \o SubSeq(toProxy, 1, n)
             /\ block' = [i \in 1 .. n |-> Len(recvd) + i]
             /\ written' = 0 /\ chunk' = InitialChunk /\ attempt' = 0
             /\ lastClient' = lastClient /\ pc' = "write"
    BY <1>2
  <2>2. /\ SubSeq(toProxy, 1, n) \in Seq(STRING) /\ Len(SubSeq(toProxy, 1, n)) = n
        /\ toProxy' \in Seq(STRING)
    <3>1. toProxy \in Seq(STRING)
      BY DEF BytesInv, ProxyTypes
    <3> QED
      BY <2>1, <3>1, Cut
  <2>3. recvd' \in Seq(STRING) /\ Len(recvd') = Len(recvd) + n
    BY <2>1, <2>2, ConcatProperties DEF BytesInv, ProxyTypes
  <2>4. Len(recvd) \in Nat
    BY LenProperties DEF BytesInv, ProxyTypes
  <2>5. block' \in Seq(Nat) /\ Len(block') = n /\ \A i \in 1 .. n : block'[i] = Len(recvd) + i
    BY <2>1, <2>4, CountIsSeq
  <2>6. UNCHANGED <<chip, back, fails, flushed>> /\ pc = "client"
    BY DEF Poll
  <2>7. block = <<>> /\ Len(block) = 0 /\ written = 0 /\ back = <<>>
    BY <2>6 DEF BytesInv, BlockInv, ToClientInv, ProxyTypes
  <2>8. Forwarded' = Forwarded
    BY <2>1, <2>3, <2>4, <2>5, <2>7 DEF Forwarded
  <2>9. ProxyTypes'
    BY <2>1, <2>2, <2>3, <2>5, <2>6, Constants DEF BytesInv, ProxyTypes, chip
  <2>10. BlockInv'
    BY <2>1, <2>3, <2>4, <2>5 DEF BlockInv
  <2>11. ToDeviceInv'
    BY <2>6, <2>8 DEF BytesInv, ToDeviceInv, chip
  <2>12. ToClientInv'
    BY <2>1, <2>6, <2>7 DEF BytesInv, ToClientInv, chip
  <2> QED
    BY <2>9, <2>10, <2>11, <2>12 DEF BytesInv
<1> QED
  BY <1>1, <1>2 DEF Poll, Goto, clientVars, traces, writing

(* The next bytes of the block go behind what the chip holds. *)
LEMMA ForwardBytes ==
  ASSUME ProxyTypes, ToDeviceInv, Forwarded \in Nat, NEW n \in Nat, NEW part \in Seq(Nat),
         Len(part) = n, \A i \in 1 .. n : part[i] = Forwarded + i,
         toDev' = toDev \o part, Forwarded' = Forwarded + n, UNCHANGED <<lastDev, fails, flushed>>
  PROVE  ToDeviceInv' /\ toDev' \in Seq(Nat)
<1>1. /\ toDev' \in Seq(Nat) /\ Len(toDev') = Len(toDev) + n /\ Len(toDev) \in Nat
      /\ \A i \in 1 .. Len(toDev) + n : toDev'[i] = IF i =< Len(toDev) THEN toDev[i] ELSE part[i - Len(toDev)]
  BY ConcatProperties, LenProperties DEF ProxyTypes
<1>2. ASSUME NEW i \in 1 .. Len(toDev'), i > Len(toDev)
      PROVE  toDev'[i] = Forwarded + (i - Len(toDev)) /\ i - Len(toDev) \in 1 .. n
  <2>1. i - Len(toDev) \in 1 .. n
    BY <1>1, <1>2
  <2> QED
    BY <1>1, <1>2, <2>1
<1>3. \A i \in 1 .. Len(toDev) : toDev'[i] = toDev[i] /\ toDev[i] \in Nat
  BY <1>1, ElementOfSeq DEF ProxyTypes
<1>4. lastDev \in Nat /\ lastDev =< Forwarded
  BY DEF ProxyTypes, ToDeviceInv
<1>5. ASSUME NEW i \in 1 .. Len(toDev')
      PROVE  lastDev < toDev'[i] /\ toDev'[i] =< Forwarded'
  <2>1. CASE i =< Len(toDev)
    BY <1>1, <1>3, <1>4, <2>1 DEF ToDeviceInv
  <2>2. CASE i > Len(toDev)
    BY <1>1, <1>2, <1>4, <2>2
  <2> QED
    BY <1>1, <2>1, <2>2
<1>6. ASSUME NEW i \in 1 .. Len(toDev'), NEW j \in 1 .. Len(toDev'), i < j
      PROVE  toDev'[i] < toDev'[j]
  <2>1. CASE j =< Len(toDev)
    BY <1>1, <1>3, <1>6, <2>1 DEF ToDeviceInv
  <2>2. CASE j > Len(toDev) /\ i =< Len(toDev)
    <3>1. toDev'[i] \in Nat /\ toDev'[i] =< Forwarded
      BY <1>1, <1>3, <2>2 DEF ToDeviceInv
    <3> QED
      BY <1>1, <1>2, <2>2, <3>1
  <2>3. CASE i > Len(toDev)
    BY <1>1, <1>2, <1>6, <2>3
  <2> QED
    BY <1>1, <1>6, <2>1, <2>2, <2>3
<1>7. ~flushed /\ fails = 0 => /\ Len(toDev') = Forwarded' - lastDev
                              /\ \A i \in 1 .. Len(toDev') : toDev'[i] = lastDev + i
  <2> SUFFICES ASSUME ~flushed, fails = 0
               PROVE  /\ Len(toDev') = Forwarded' - lastDev
                      /\ \A i \in 1 .. Len(toDev') : toDev'[i] = lastDev + i
    OBVIOUS
  <2>1. Len(toDev) = Forwarded - lastDev /\ \A i \in 1 .. Len(toDev) : toDev[i] = lastDev + i
    BY DEF ToDeviceInv
  <2>2. Len(toDev') = Forwarded' - lastDev
    BY <1>1, <1>4, <2>1
  <2>3. ASSUME NEW i \in 1 .. Len(toDev')
        PROVE  toDev'[i] = lastDev + i
    <3>1. CASE i =< Len(toDev)
      BY <1>1, <1>3, <2>1, <3>1
    <3>2. CASE i > Len(toDev)
      BY <1>1, <1>2, <1>4, <2>1, <3>2
    <3> QED
      BY <1>1, <3>1, <3>2
  <2> QED
    BY <2>2, <2>3
<1>8. lastDev' =< Forwarded'
  BY <1>4
<1> QED
  BY <1>1, <1>5, <1>6, <1>7, <1>8 DEF ToDeviceInv

(* ftdi_write_data has taken n bytes: none is skipped or sent twice. *)
LEMMA WriteSomeStep == BytesInv /\ WriteSome => BytesInv'
<1> SUFFICES ASSUME BytesInv, WriteSome PROVE BytesInv'
  OBVIOUS
<1>1. PICK n \in 1 .. Least(chunk, Len(block) - written) :
        /\ toDev' = toDev \o SubSeq(block, written + 1, written + n)
        /\ IF written + n = Len(block)
           THEN Written
           ELSE /\ written' = written + n /\ chunk' = Least(InitialChunk, 2 * chunk)
                /\ attempt' = 0
                /\ Call("write")
                /\ UNCHANGED block
  BY DEF WriteSome
<1>2. /\ pc = "write"
      /\ UNCHANGED <<clientVars, traces, fromDev, lastDev, answers, alive, back, fails, flushed>>
  BY DEF WriteSome
<1>3. /\ Len(block) \in Nat /\ Len(recvd) \in Nat /\ written \in Nat /\ written =< Len(block)
      /\ Len(block) =< Len(recvd) /\ chunk \in 1 .. InitialChunk
  BY LenProperties DEF BytesInv, ProxyTypes, BlockInv
<1>4. n \in Nat /\ n > 0 /\ written + n =< Len(block)
  BY <1>3, Constants DEF Least
<1> DEFINE part == SubSeq(block, written + 1, written + n)
<1>5. /\ part \in Seq(Nat) /\ Len(part) = n
      /\ \A i \in 1 .. n : part[i] = block[written + i]
  <2>a. \A i \in 1 .. Len(block) : block[i] \in Nat
    BY ElementOfSeq DEF BytesInv, ProxyTypes
  <2>1. \A i \in (written + 1) .. (written + n) : block[i] \in Nat
    BY <1>3, <1>4, <2>a
  <2>2. /\ part \in Seq(Nat)
        /\ Len(part) = IF written + 1 =< written + n THEN written + n - (written + 1) + 1 ELSE 0
        /\ \A i \in 1 .. written + n - (written + 1) + 1 : part[i] = block[written + 1 + i - 1]
    BY <1>3, <1>4, <2>1, SubSeqProperties
  <2> QED
    BY <1>3, <1>4, <2>2
<1>6. \A i \in 1 .. n : part[i] = Forwarded + i
  <2> SUFFICES ASSUME NEW i \in 1 .. n PROVE part[i] = Forwarded + i
    OBVIOUS
  <2>1. written + i \in 1 .. Len(block)
    BY <1>3, <1>4
  <2>2. block[written + i] = Len(recvd) - Len(block) + (written + i)
    BY <2>1 DEF BytesInv, BlockInv
  <2> QED
    BY <1>3, <1>5, <2>2 DEF Forwarded
<1>7. Forwarded \in Nat
  BY <1>3 DEF Forwarded
<1> HIDE DEF part
<1>8. recvd' = recvd
  BY <1>2 DEF traces
<1>9. /\ block' \in Seq(Nat) /\ written' \in Nat /\ chunk' \in 1 .. InitialChunk /\ attempt' = 0
      /\ Forwarded' = Forwarded + n /\ BlockInv' /\ pc' # "send"
  <2>1. CASE written + n = Len(block)
    <3>1. block' = <<>> /\ written' = 0 /\ chunk' = InitialChunk /\ attempt' = 0 /\ pc' = "read"
      BY <1>1, <2>1 DEF Written, Call
    <3>2. Len(<<>>) = 0 /\ <<>> \in Seq(Nat)
      OBVIOUS
    <3> QED
      BY <1>3, <1>8, <2>1, <3>1, <3>2, Constants DEF Forwarded, BlockInv
  <2>2. CASE written + n # Len(block)
    <3>1. /\ block' = block /\ written' = written + n /\ attempt' = 0 /\ pc' = "write"
          /\ chunk' = Least(InitialChunk, 2 * chunk)
      BY <1>1, <2>2 DEF Call
    <3>2. chunk' \in 1 .. InitialChunk
      BY <1>3, <3>1, Constants DEF Least
    <3>3. Forwarded' = Forwarded + n
      BY <1>3, <1>4, <1>8, <3>1 DEF Forwarded
    <3>4. BlockInv'
      BY <1>3, <1>4, <1>8, <3>1 DEF BytesInv, BlockInv
    <3> QED
      BY <1>3, <1>4, <3>1, <3>2, <3>3, <3>4 DEF BytesInv, ProxyTypes
  <2> QED
    BY <2>1, <2>2
<1>10. ToDeviceInv' /\ toDev' \in Seq(Nat)
  <2>1. toDev' = toDev \o part
    BY <1>1 DEF part
  <2> QED
    BY <1>2, <1>4, <1>5, <1>6, <1>7, <1>9, <2>1, ForwardBytes DEF BytesInv
<1>11. ProxyTypes'
  BY <1>2, <1>8, <1>9, <1>10, Constants DEF BytesInv, ProxyTypes, clientVars
<1>12. ToClientInv'
  BY <1>2, <1>9 DEF BytesInv, ToClientInv, clientVars
<1> QED
  BY <1>9, <1>10, <1>11, <1>12 DEF BytesInv

(* A write that takes nothing keeps the place in the block, or gives the client up. *)
LEMMA WriteNoneStep == BytesInv /\ WriteNone => BytesInv'
<1> SUFFICES ASSUME BytesInv, WriteNone PROVE BytesInv'
  OBVIOUS
<1>1. /\ UNCHANGED <<clientVars, traces, lastDev, answers, back>> /\ NextAttempt
      /\ fails' = IF fails < MaxFails THEN fails + 1 ELSE fails
      /\ \/ toDev' = <<>> /\ fromDev' = <<>> /\ flushed' = TRUE
         \/ UNCHANGED <<toDev, fromDev, flushed>>
      /\ pc = "write"
  BY DEF WriteNone
<1>2. fails' \in 0 .. MaxFails /\ fails' # 0
  BY <1>1, Constants DEF BytesInv, ProxyTypes
<1>3. /\ Len(block) \in Nat /\ Len(recvd) \in Nat /\ written \in Nat /\ written =< Len(block)
      /\ Len(block) =< Len(recvd) /\ chunk \in 1 .. InitialChunk /\ attempt \in 0 .. (Retries - 1)
  BY LenProperties DEF BytesInv, ProxyTypes, BlockInv
<1>4. recvd' = recvd
  BY <1>1 DEF traces
<1>5. /\ block' \in Seq(Nat) /\ written' \in Nat /\ chunk' \in 1 .. InitialChunk
      /\ attempt' \in 0 .. (Retries - 1)
      /\ Forwarded' >= Forwarded /\ Forwarded' \in Nat /\ Forwarded \in Nat
      /\ BlockInv' /\ pc' # "send"
  <2>1. CASE attempt + 1 = Retries /\ chunk = 1
    <3>1. block' = <<>> /\ written' = 0 /\ chunk' = InitialChunk /\ attempt' = 0 /\ pc' = "read"
      BY <1>1, <2>1 DEF NextAttempt, Written, Call
    <3>2. Len(<<>>) = 0 /\ <<>> \in Seq(Nat)
      OBVIOUS
    <3> QED
      BY <1>3, <1>4, <3>1, <3>2, Constants DEF Forwarded, BlockInv
  <2>2. CASE ~(attempt + 1 = Retries /\ chunk = 1)
    <3>1. /\ block' = block /\ written' = written /\ pc' = "write"
          /\ IF attempt + 1 < Retries THEN attempt' = attempt + 1 /\ UNCHANGED chunk
             ELSE attempt' = 0 /\ chunk' = chunk \div 2
      BY <1>1, <2>2 DEF NextAttempt, Call
    <3>2. chunk' \in 1 .. InitialChunk /\ attempt' \in 0 .. (Retries - 1)
      <4>1. CASE attempt + 1 < Retries
        BY <1>3, <3>1, <4>1, Constants
      <4>2. CASE ~(attempt + 1 < Retries)
        <5>1. chunk # 1
          BY <1>3, <2>2, <4>2, Constants
        <5>2. chunk \div 2 \in 1 .. InitialChunk
          BY <1>3, <5>1, Constants
        <5> QED
          BY <3>1, <4>2, <5>2, Constants
      <4> QED
        BY <4>1, <4>2
    <3>3. Forwarded' = Forwarded /\ Forwarded \in Nat
      BY <1>3, <1>4, <3>1 DEF Forwarded
    <3>4. BlockInv'
      BY <1>3, <1>4, <3>1, <1>1 DEF BytesInv, BlockInv
    <3> QED
      BY <1>3, <3>1, <3>2, <3>3, <3>4 DEF BytesInv, ProxyTypes
  <2> QED
    BY <2>1, <2>2
<1>6. Len(<<>>) = 0 /\ <<>> \in Seq(Nat)
  OBVIOUS
<1>7. ProxyTypes'
  <2>1. toDev' \in Seq(Nat) /\ fromDev' \in Seq(Nat) /\ flushed' \in BOOLEAN
    BY <1>1, <1>6 DEF BytesInv, ProxyTypes
  <2> QED
    BY <1>1, <1>2, <1>4, <1>5, <2>1 DEF BytesInv, ProxyTypes, clientVars
<1>8. ToDeviceInv'
  <2>1. lastDev' = lastDev /\ lastDev \in Nat /\ lastDev =< Forwarded
    BY <1>1 DEF BytesInv, ProxyTypes, ToDeviceInv
  <2>a. lastDev' =< Forwarded' /\ ~(~flushed' /\ fails' = 0)
    BY <1>2, <1>5, <2>1
  <2>2. CASE toDev' = <<>>
    BY <1>6, <2>a, <2>2 DEF ToDeviceInv
  <2>3. CASE toDev' = toDev
    <3>1. \A i \in 1 .. Len(toDev) : toDev[i] \in Nat /\ lastDev < toDev[i] /\ toDev[i] =< Forwarded
      BY ElementOfSeq DEF BytesInv, ToDeviceInv, ProxyTypes
    <3>2. \A i \in 1 .. Len(toDev) : lastDev < toDev[i] /\ toDev[i] =< Forwarded'
      BY <1>5, <3>1
    <3> QED
      BY <2>1, <2>a, <2>3, <3>2 DEF BytesInv, ToDeviceInv
  <2> QED
    BY <1>1, <2>2, <2>3
<1>9. ToClientInv'
  BY <1>1, <1>5, <1>6 DEF BytesInv, ToClientInv, clientVars
<1> QED
  BY <1>5, <1>7, <1>8, <1>9 DEF BytesInv

(* Bytes that are read from the chip are its first ones. *)
LEMMA ReadDeviceStep == BytesInv /\ ReadDevice => BytesInv'
<1> SUFFICES ASSUME BytesInv, ReadDevice PROVE BytesInv'
  OBVIOUS
<1>1. /\ UNCHANGED <<clientVars, gdbCarry, gdbTrace, recvd, toDev, lastDev, answers, writing, fails, flushed>>
      /\ pc = "read"
  BY DEF ReadDevice
<1>2. CASE UNCHANGED <<fromDev, back>> /\ pc' \in {"client", "disconnect"}
  BY <1>1, <1>2, BytesUntouched DEF clientVars, BytesInv, ProxyTypes
<1>3. CASE \E n \in 1 .. Len(fromDev) :
            /\ back' = SubSeq(fromDev, 1, n)
            /\ fromDev' = SubSeq(fromDev, n + 1, Len(fromDev))
            /\ pc' = "send"
  <2>1. PICK n \in 1 .. Len(fromDev) :
            /\ back' = SubSeq(fromDev, 1, n)
            /\ fromDev' = SubSeq(fromDev, n + 1, Len(fromDev))
            /\ pc' = "send"
    BY <1>3
  <2>2. /\ Len(fromDev) \in Nat /\ n \in Nat /\ n =< Len(fromDev) /\ fromDev \in Seq(Nat)
        /\ n \in 0 .. Len(fromDev)
    BY LenProperties DEF BytesInv, ProxyTypes
  <2>3. /\ back' \in Seq(Nat) /\ Len(back') = n
        /\ \A i \in 1 .. n : back'[i] = fromDev[i]
        /\ fromDev' \in Seq(Nat) /\ Len(fromDev') = Len(fromDev) - n
        /\ \A i \in 1 .. (Len(fromDev) - n) : fromDev'[i] = fromDev[n + i]
    BY <2>1, <2>2, Cut
  <2>4. \A i \in 1 .. (Len(fromDev) - n) : n + i \in 1 .. Len(fromDev)
    BY <2>2
  <2>5. \A i \in 1 .. n : i \in 1 .. Len(fromDev)
    BY <2>2
  <2>6. ToClientInv'
    <3>1. /\ lastClient' = lastClient /\ answers' = answers /\ pc' = "send"
          /\ lastClient =< Len(answers)
          /\ \A i \in 1 .. Len(fromDev) : lastClient < fromDev[i] /\ fromDev[i] =< Len(answers)
          /\ \A i, j \in 1 .. Len(fromDev) : i < j => fromDev[i] < fromDev[j]
      BY <1>1, <2>1 DEF BytesInv, ToClientInv, clientVars
    <3>2. \A i \in 1 .. Len(back') : lastClient' < back'[i] /\ back'[i] =< Len(answers')
      BY <2>3, <2>5, <3>1
    <3>3. \A i \in 1 .. Len(fromDev') : lastClient' < fromDev'[i] /\ fromDev'[i] =< Len(answers')
      BY <2>3, <2>4, <3>1
    <3>4. ASSUME NEW i \in 1 .. Len(back'), NEW j \in 1 .. Len(fromDev')
          PROVE  back'[i] < fromDev'[j]
      <4>1. i \in 1 .. Len(fromDev) /\ n + j \in 1 .. Len(fromDev) /\ i < n + j
        BY <2>2, <2>3
      <4> QED
        BY <2>3, <3>1, <4>1
    <3>5. \A i, j \in 1 .. Len(back') : i < j => back'[i] < back'[j]
      BY <2>3, <2>5, <3>1
    <3>6. ASSUME NEW i \in 1 .. Len(fromDev'), NEW j \in 1 .. Len(fromDev'), i < j
          PROVE  fromDev'[i] < fromDev'[j]
      <4>1. n + i \in 1 .. Len(fromDev) /\ n + j \in 1 .. Len(fromDev) /\ n + i < n + j
        BY <2>2, <2>3, <3>6
      <4> QED
        BY <2>3, <3>1, <4>1
    <3> QED
      BY <3>1, <3>2, <3>3, <3>4, <3>5, <3>6 DEF ToClientInv
  <2>7. ProxyTypes' /\ BlockInv' /\ ToDeviceInv'
    BY <1>1, <2>1, <2>3 DEF BytesInv, ProxyTypes, BlockInv, ToDeviceInv, Forwarded, clientVars, writing
  <2> QED
    BY <2>6, <2>7 DEF BytesInv
<1> QED
  BY <1>2, <1>3 DEF ReadDevice, Call

(* The client gets the first bytes of what is being sent. *)
LEMMA SendStep == BytesInv /\ Send => BytesInv'
<1> SUFFICES ASSUME BytesInv, Send PROVE BytesInv'
  OBVIOUS
<1>1. /\ UNCHANGED <<client, clients, toProxy, traces, chip, writing, fails, flushed>> /\ pc = "send"
      /\ pc' \in {"client", "send"} /\ (pc' # "send" => back' = <<>>)
  BY DEF Send, Goto
<1>2. Len(<<>>) = 0 /\ <<>> \in Seq(Nat)
  OBVIOUS
<1>3. back' \in Seq(Nat) /\ lastClient' \in Nat /\ ToClientInv'
  <2>1. CASE \E n \in 1 .. Len(back) : lastClient' = back[n] /\ back' = SubSeq(back, n + 1, Len(back))
    <3>1. PICK n \in 1 .. Len(back) : lastClient' = back[n] /\ back' = SubSeq(back, n + 1, Len(back))
      BY <2>1
    <3>2. Len(back) \in Nat /\ n \in Nat /\ n =< Len(back) /\ back \in Seq(Nat) /\ n \in 0 .. Len(back)
      BY LenProperties DEF BytesInv, ProxyTypes
    <3>3. /\ back' \in Seq(Nat) /\ Len(back') = Len(back) - n
          /\ \A i \in 1 .. (Len(back) - n) : back'[i] = back[n + i]
      BY <3>1, <3>2, Cut
    <3>4. \A i \in 1 .. (Len(back) - n) : n + i \in 1 .. Len(back) /\ n < n + i
      BY <3>2
    <3>5. /\ \A i \in 1 .. Len(back) : lastClient < back[i] /\ back[i] =< Len(answers)
          /\ \A i \in 1 .. Len(fromDev) : lastClient < fromDev[i] /\ fromDev[i] =< Len(answers)
          /\ \A i \in 1 .. Len(back), j \in 1 .. Len(fromDev) : back[i] < fromDev[j]
          /\ \A i, j \in 1 .. Len(back) : i < j => back[i] < back[j]
          /\ \A i, j \in 1 .. Len(fromDev) : i < j => fromDev[i] < fromDev[j]
      BY DEF BytesInv, ToClientInv
    <3>6. lastClient' \in Nat
      BY <3>1, <3>2, ElementOfSeq
    <3>7. fromDev' = fromDev /\ answers' = answers
      BY <1>1 DEF chip
    <3>8. \A i \in 1 .. Len(back') : lastClient' < back'[i] /\ back'[i] =< Len(answers')
      BY <3>1, <3>3, <3>4, <3>5, <3>7
    <3>9. ASSUME NEW i \in 1 .. Len(back'), NEW j \in 1 .. Len(back'), i < j
          PROVE  back'[i] < back'[j]
      <4>1. n + i \in 1 .. Len(back) /\ n + j \in 1 .. Len(back) /\ n + i < n + j
        BY <3>2, <3>3, <3>9
      <4> QED
        BY <3>3, <3>5, <4>1
    <3>10. \A i \in 1 .. Len(back'), j \in 1 .. Len(fromDev') : back'[i] < fromDev'[j]
      BY <3>3, <3>4, <3>5, <3>7
    <3>11. \A i \in 1 .. Len(fromDev') : lastClient' < fromDev'[i] /\ fromDev'[i] =< Len(answers')
      BY <3>1, <3>5, <3>7
    <3>12. lastClient' =< Len(answers') /\ \A i, j \in 1 .. Len(fromDev') : i < j => fromDev'[i] < fromDev'[j]
      BY <3>1, <3>5, <3>7
    <3> QED
      BY <1>1, <3>3, <3>6, <3>8, <3>9, <3>10, <3>11, <3>12 DEF ToClientInv
  <2>2. CASE back' = <<>> /\ lastClient' = lastClient
    BY <1>1, <1>2, <2>2 DEF BytesInv, ProxyTypes, ToClientInv, chip
  <2> QED
    BY <2>1, <2>2 DEF Send
<1>4. ProxyTypes' /\ BlockInv' /\ ToDeviceInv'
  BY <1>1, <1>3 DEF BytesInv, ProxyTypes, BlockInv, ToDeviceInv, Forwarded, chip, traces, writing
<1> QED
  BY <1>3, <1>4 DEF BytesInv

(* The device takes the first byte that the chip holds. *)
LEMMA DeviceReadsStep == BytesInv /\ DeviceReads => BytesInv'
<1> SUFFICES ASSUME BytesInv, DeviceReads PROVE BytesInv'
  OBVIOUS
<1>1. /\ toDev # <<>> /\ toDev \in Seq(Nat) /\ toDev' = Tail(toDev) /\ lastDev' = Head(toDev)
      /\ UNCHANGED <<session, clientVars, traces, fromDev, answers, writing, alive, back, fails, flushed>>
  BY DEF DeviceReads, BytesInv, ProxyTypes
<1>2. /\ toDev' \in Seq(Nat) /\ Len(toDev') = Len(toDev) - 1 /\ lastDev' \in Nat
      /\ \A i \in 1 .. Len(toDev') : toDev'[i] = toDev[i + 1]
  BY <1>1, HeadTailProperties
<1>3. Len(toDev) \in Nat /\ Len(toDev) > 0 /\ lastDev' = toDev[1]
  BY <1>1, LenProperties, EmptySeq
<1>4. Forwarded' = Forwarded
  BY <1>1 DEF Forwarded, traces, writing
<1>5. \A i \in 1 .. Len(toDev') : i + 1 \in 1 .. Len(toDev) /\ 1 < i + 1
  BY <1>2, <1>3
<1>6. 1 \in 1 .. Len(toDev)
  BY <1>3
<1>7. /\ lastDev' =< Forwarded'
      /\ \A i \in 1 .. Len(toDev') : lastDev' < toDev'[i] /\ toDev'[i] =< Forwarded'
  BY <1>2, <1>3, <1>4, <1>5, <1>6 DEF BytesInv, ToDeviceInv
<1>8. \A i, j \in 1 .. Len(toDev') : i < j => toDev'[i] < toDev'[j]
  <2> SUFFICES ASSUME NEW i \in 1 .. Len(toDev'), NEW j \in 1 .. Len(toDev'), i < j
               PROVE  toDev'[i] < toDev'[j]
    OBVIOUS
  <2>1. i + 1 < j + 1 /\ i + 1 \in 1 .. Len(toDev) /\ j + 1 \in 1 .. Len(toDev)
    BY <1>5
  <2> QED
    BY <1>2, <2>1 DEF BytesInv, ToDeviceInv
<1>9. ~flushed' /\ fails' = 0 => /\ Len(toDev') = Forwarded' - lastDev'
                                /\ \A i \in 1 .. Len(toDev') : toDev'[i] = lastDev' + i
  <2> SUFFICES ASSUME ~flushed', fails' = 0
               PROVE  /\ Len(toDev') = Forwarded' - lastDev'
                      /\ \A i \in 1 .. Len(toDev') : toDev'[i] = lastDev' + i
    OBVIOUS
  <2>1. Len(toDev) = Forwarded - lastDev /\ \A i \in 1 .. Len(toDev) : toDev[i] = lastDev + i
    BY <1>1 DEF BytesInv, ToDeviceInv
  <2>2. lastDev' = lastDev + 1 /\ lastDev \in Nat /\ Forwarded \in Int
    <3>1. Forwarded \in Int
      BY LenProperties DEF BytesInv, ProxyTypes, Forwarded
    <3> QED
      BY <1>3, <1>6, <2>1, <3>1 DEF BytesInv, ProxyTypes
  <2>3. Len(toDev') = Forwarded' - lastDev'
    BY <1>2, <1>3, <1>4, <2>1, <2>2
  <2>4. \A i \in 1 .. Len(toDev') : toDev'[i] = lastDev' + i
    BY <1>2, <1>5, <2>1, <2>2
  <2> QED
    BY <2>3, <2>4
<1>10. ToDeviceInv'
  BY <1>7, <1>8, <1>9 DEF ToDeviceInv
<1>11. ProxyTypes' /\ BlockInv' /\ ToClientInv'
  BY <1>1, <1>2 DEF BytesInv, ProxyTypes, BlockInv, ToClientInv, session, clientVars, traces, writing
<1> QED
  BY <1>10, <1>11 DEF BytesInv

(* A new byte of the device comes behind all others. *)
LEMMA DeviceAnswersStep == BytesInv /\ DeviceAnswers => BytesInv'
<1> SUFFICES ASSUME BytesInv, DeviceAnswers PROVE BytesInv'
  OBVIOUS
<1>1. PICK t \in Answers : answers' = Append(answers, t)
  BY DEF DeviceAnswers
<1>2. /\ fromDev' = Append(fromDev, Len(answers'))
      /\ UNCHANGED <<session, clientVars, traces, toDev, lastDev, writing, alive, back, fails, flushed>>
  BY DEF DeviceAnswers
<1>3. answers \in Seq(STRING) /\ fromDev \in Seq(Nat) /\ t \in STRING
  BY ProxyAssumption DEF BytesInv, ProxyTypes
<1>4. answers' \in Seq(STRING) /\ Len(answers') = Len(answers) + 1
  BY <1>1, <1>3, AppendProperties
<1>5. Len(answers) \in Nat /\ Len(answers') \in Nat /\ Len(fromDev) \in Nat
  BY <1>3, <1>4, LenProperties
<1>6. /\ fromDev' \in Seq(Nat) /\ Len(fromDev') = Len(fromDev) + 1
      /\ \A i \in 1 .. Len(fromDev) : fromDev'[i] = fromDev[i]
      /\ fromDev'[Len(fromDev) + 1] = Len(answers')
  BY <1>2, <1>3, <1>5, AppendProperties
<1>7. /\ lastClient' = lastClient /\ back' = back /\ pc' = pc
      /\ lastClient \in Nat /\ back \in Seq(Nat)
      /\ \A i \in 1 .. Len(back) : back[i] \in Nat
      /\ \A i \in 1 .. Len(fromDev) : fromDev[i] \in Nat
  BY <1>2, ElementOfSeq DEF BytesInv, ProxyTypes, clientVars, session
<1>8. \A i \in 1 .. Len(fromDev') : i \in 1 .. Len(fromDev) \/ i = Len(fromDev) + 1
  BY <1>5, <1>6
<1>9. ToClientInv'
  <2>1. lastClient' =< Len(answers') /\ (pc' # "send" => back' = <<>>)
    BY <1>4, <1>5, <1>7 DEF BytesInv, ToClientInv
  <2>2. \A i \in 1 .. Len(back') : lastClient' < back'[i] /\ back'[i] =< Len(answers')
    BY <1>4, <1>5, <1>7 DEF BytesInv, ToClientInv
  <2>3. ASSUME NEW i \in 1 .. Len(fromDev')
        PROVE  lastClient' < fromDev'[i] /\ fromDev'[i] =< Len(answers')
    <3>1. CASE i \in 1 .. Len(fromDev)
      <4>1. fromDev'[i] = fromDev[i] /\ fromDev[i] \in Nat /\ lastClient < fromDev[i] /\ fromDev[i] =< Len(answers)
        BY <1>6, <1>7, <3>1 DEF BytesInv, ToClientInv
      <4> QED
        BY <1>4, <1>5, <1>7, <4>1
    <3>2. CASE i = Len(fromDev) + 1
      BY <1>4, <1>5, <1>6, <1>7, <3>2 DEF BytesInv, ToClientInv
    <3> QED
      BY <1>8, <3>1, <3>2
  <2>4. ASSUME NEW i \in 1 .. Len(back'), NEW j \in 1 .. Len(fromDev')
        PROVE  back'[i] < fromDev'[j]
    <3>1. CASE j \in 1 .. Len(fromDev)
      BY <1>6, <1>7, <3>1 DEF BytesInv, ToClientInv
    <3>2. CASE j = Len(fromDev) + 1
      BY <1>4, <1>5, <1>6, <1>7, <3>2 DEF BytesInv, ToClientInv
    <3> QED
      BY <1>8, <3>1, <3>2
  <2>5. \A i, j \in 1 .. Len(back') : i < j => back'[i] < back'[j]
    BY <1>7 DEF BytesInv, ToClientInv
  <2>6. ASSUME NEW i \in 1 .. Len(fromDev'), NEW j \in 1 .. Len(fromDev'), i < j
        PROVE  fromDev'[i] < fromDev'[j]
    <3>1. i \in 1 .. Len(fromDev)
      BY <1>5, <1>6, <2>6
    <3>2. CASE j \in 1 .. Len(fromDev)
      BY <1>6, <2>6, <3>1, <3>2 DEF BytesInv, ToClientInv
    <3>3. CASE j = Len(fromDev) + 1
      <4>1. fromDev'[i] = fromDev[i] /\ fromDev[i] \in Nat /\ fromDev[i] =< Len(answers)
        BY <1>6, <1>7, <3>1 DEF BytesInv, ToClientInv
      <4> QED
        BY <1>4, <1>5, <1>6, <3>3, <4>1
    <3> QED
      BY <1>8, <3>2, <3>3
  <2> QED
    BY <2>1, <2>2, <2>3, <2>4, <2>5, <2>6 DEF ToClientInv
<1>10. ProxyTypes' /\ BlockInv' /\ ToDeviceInv'
  BY <1>2, <1>4, <1>6 DEF BytesInv, ProxyTypes, BlockInv, ToDeviceInv, Forwarded, session,
                          clientVars, traces, writing
<1> QED
  BY <1>9, <1>10 DEF BytesInv

-----------------------------------------------------------------------------
(* The whole. *)

(* The session is kept by every step of the proxy and of the world around it. *)
LEMMA SessionKept == SessionInv /\ [Next]_vars => SessionInv'
<1> SUFFICES ASSUME SessionInv, [Next]_vars PROVE SessionInv'
  OBVIOUS
<1>1. CASE SessionNext
  BY <1>1, SessionStep
<1>2. CASE SignalHandler
  BY <1>2 DEF SignalHandler, SessionInv, InUse, ProxyPcs
<1>3. CASE DoTcpProxy
  <2> USE DEF InUse, ProxyPcs
  <2>1. CASE Listen
    BY <2>1, ProxyKeepsSession DEF Listen
  <2>2. CASE StopListening
    BY <2>2, ProxyKeepsSession DEF StopListening
  <2>3. CASE Accept
    BY <2>3, ProxyKeepsSession DEF Accept
  <2>4. CASE Poll
    BY <2>4, ProxyKeepsSession DEF Poll
  <2>5. CASE WriteSome
    BY <2>5, ProxyKeepsSession DEF WriteSome, Written
  <2>6. CASE WriteNone
    BY <2>6, ProxyKeepsSession DEF WriteNone, NextAttempt, Written
  <2>7. CASE ReadDevice
    BY <2>7, ProxyKeepsSession DEF ReadDevice
  <2>8. CASE Send
    <3>1. Goto("client") \/ Goto("send")
      BY <2>8 DEF Send
    <3> QED
      BY <2>8, <3>1, ProxyKeepsSession DEF Send
  <2>9. CASE Disconnect
    BY <2>9, ProxyKeepsSession DEF Disconnect
  <2> QED
    BY <1>3, <2>1, <2>2, <2>3, <2>4, <2>5, <2>6, <2>7, <2>8, <2>9 DEF DoTcpProxy
<1>4. CASE UNCHANGED session
  BY <1>4 DEF session, SessionInv, InUse, ProxyPcs
<1> QED
  BY <1>1, <1>2, <1>3, <1>4 DEF Next, vars, Connect, HangUp, DeviceReads, DeviceAnswers

(* The bytes are kept by every step. *)
LEMMA BytesKept == SessionInv /\ BytesInv /\ [Next]_vars => BytesInv'
<1> SUFFICES ASSUME SessionInv, BytesInv, [Next]_vars PROVE BytesInv'
  OBVIOUS
<1>1. CASE UNCHANGED proxy /\ pc \notin {"write", "send"} /\ pc' # "write"
  BY <1>1, BytesUntouched DEF proxy, clientVars, traces, chip, BytesInv, ProxyTypes
<1>2. CASE UNCHANGED proxy /\ pc' = pc
  BY <1>2 DEF proxy, clientVars, traces, chip, writing, BytesInv, ProxyTypes, BlockInv, ToDeviceInv,
              ToClientInv, Forwarded
<1>3. CASE SessionNext /\ UNCHANGED proxy
  <2>1. pc \notin {"write", "send"} /\ pc' # "write"
    <3>1. CASE parse_args
      BY <3>1 DEF parse_args, ExitWith
    <3>2. CASE ListDevices
      BY <3>2 DEF ListDevices, ExitWith
    <3>3. CASE InitComms
      BY <3>3 DEF InitComms, Init1, Open, Purge, Recover, Configure, Cleanup
    <3>4. CASE RunCommand \/ OtherMode \/ CloseComms
      BY <3>4 DEF RunCommand, OtherMode, CloseComms, ExitWith
    <3> QED
      BY <1>3, <3>1, <3>2, <3>3, <3>4 DEF SessionNext
  <2> QED
    BY <1>1, <1>3, <2>1
<1>4. CASE SignalHandler /\ UNCHANGED proxy
  BY <1>2, <1>4 DEF SignalHandler
<1>5. CASE Listen \/ StopListening
  BY <1>1, <1>5 DEF Listen, StopListening, Goto, ExitWith
<1>6. CASE Accept \/ Disconnect
  <2>1. /\ pc \notin {"write", "send"} /\ pc' # "write" /\ toProxy' \in Seq(STRING)
        /\ UNCHANGED <<recvd, answers, writing, toDev, fromDev, back, lastDev, lastClient, fails, flushed>>
    BY <1>6, EmptySeq DEF Accept, Disconnect, Goto, clientVars, traces, chip, BytesInv, ProxyTypes
  <2> QED
    BY <2>1, BytesUntouched
<1>7. CASE Poll
  BY <1>7, PollStep
<1>8. CASE WriteSome
  BY <1>8, WriteSomeStep
<1>9. CASE WriteNone
  BY <1>9, WriteNoneStep
<1>10. CASE ReadDevice
  BY <1>10, ReadDeviceStep
<1>11. CASE Send
  BY <1>11, SendStep
<1>12. CASE Connect \/ HangUp
  <2>1. /\ toProxy' \in Seq(STRING) /\ pc' = pc
        /\ UNCHANGED <<recvd, answers, writing, toDev, fromDev, back, lastDev, lastClient, fails, flushed>>
    BY <1>12, ProxyAssumption DEF Connect, HangUp, session, clientVars, traces, chip, BytesInv, ProxyTypes
  <2> QED
    BY <2>1 DEF writing, BytesInv, ProxyTypes, BlockInv, ToDeviceInv, ToClientInv, Forwarded
<1>13. CASE DeviceReads
  BY <1>13, DeviceReadsStep
<1>14. CASE DeviceAnswers
  BY <1>14, DeviceAnswersStep
<1>15. CASE UNCHANGED vars
  BY <1>2, <1>15 DEF vars, session
<1> QED
  BY <1>3, <1>4, <1>5, <1>6, <1>7, <1>8, <1>9, <1>10, <1>11, <1>12, <1>13, <1>14, <1>15
     DEF Next, DoTcpProxy

(* ftx starts with nothing opened, received or sent. *)
LEMMA InitInv == Init => SessionInv /\ BytesInv
<1> SUFFICES ASSUME Init PROVE SessionInv /\ BytesInv
  OBVIOUS
<1>1. SessionInv
  BY DEF Init, SessionInit, SessionInv, InUse, ProxyPcs
<1>2. <<>> \in Seq(Nat) /\ <<>> \in Seq(STRING) /\ Len(<<>>) = 0
  OBVIOUS
<1>3. ProxyTypes
  <2>1. attempt \in 0 .. (Retries - 1) /\ chunk \in 1 .. InitialChunk /\ fails \in 0 .. MaxFails
    BY Constants DEF Init
  <2> QED
    BY <1>2, <2>1 DEF Init, ProxyTypes
<1>4. BlockInv /\ ToDeviceInv /\ ToClientInv
  BY <1>2 DEF Init, BlockInv, ToDeviceInv, ToClientInv, Forwarded
<1> QED
  BY <1>1, <1>3, <1>4 DEF BytesInv

(* Both invariants hold in every state. *)
LEMMA Invariance == Spec => [](SessionInv /\ BytesInv)
<1>1. SessionInv /\ BytesInv /\ [Next]_vars => (SessionInv /\ BytesInv)'
  BY SessionKept, BytesKept
<1> QED
  BY <1>1, InitInv, PTL DEF Spec

(* From the invariant: the bytes of the clients are in order, and all there. *)
LEMMA DeviceBytes == ProxyTypes /\ BlockInv /\ ToDeviceInv => DeviceInOrder
<1> SUFFICES ASSUME ProxyTypes, BlockInv, ToDeviceInv PROVE DeviceInOrder
  OBVIOUS
<1>1. InOrder(<<lastDev>> \o toDev)
  BY InOrderCons DEF ProxyTypes, ToDeviceInv
<1> DEFINE rest == IF pc = "write" THEN SubSeq(block, written + 1, Len(block)) ELSE <<>>
           all == <<lastDev>> \o toDev \o rest
           count == [i \in 1 .. (Len(recvd) - lastDev + 1) |-> lastDev + i - 1]
<1>2. ASSUME ~flushed, fails = 0 PROVE all = count
  <2>1. /\ Len(block) \in Nat /\ Len(recvd) \in Nat /\ written \in Nat /\ written =< Len(block)
        /\ Len(block) =< Len(recvd) /\ Len(toDev) \in Nat /\ lastDev \in Nat
        /\ Forwarded \in Nat /\ Forwarded =< Len(recvd) /\ lastDev =< Forwarded
    BY LenProperties DEF ProxyTypes, BlockInv, ToDeviceInv, Forwarded
  <2>2. Len(toDev) = Forwarded - lastDev /\ \A i \in 1 .. Len(toDev) : toDev[i] = lastDev + i
    BY <1>2 DEF ToDeviceInv
  <2>3. /\ rest \in Seq(Nat) /\ Len(rest) = Len(recvd) - Forwarded
        /\ \A i \in 1 .. Len(rest) : rest[i] = Forwarded + i
    <3>1. CASE pc = "write"
      <4>1. /\ rest \in Seq(Nat) /\ Len(rest) = Len(block) - written
            /\ \A i \in 1 .. (Len(block) - written) : rest[i] = block[written + i]
        <5>1. written \in 0 .. Len(block) /\ block \in Seq(Nat)
          BY <2>1 DEF ProxyTypes
        <5>2. rest = SubSeq(block, written + 1, Len(block))
          BY <3>1
        <5> HIDE DEF rest
        <5> QED
          BY <5>1, <5>2, Cut
      <4>2. \A i \in 1 .. (Len(block) - written) : written + i \in 1 .. Len(block)
        BY <2>1
      <4>3. \A i \in 1 .. (Len(block) - written) : rest[i] = Len(recvd) - Len(block) + (written + i)
        BY <4>1, <4>2 DEF BlockInv
      <4> HIDE DEF rest
      <4> QED
        BY <2>1, <4>1, <4>3 DEF Forwarded
    <3>2. CASE pc # "write"
      <4>1. rest = <<>> /\ block = <<>>
        BY <3>2 DEF BlockInv
      <4>2. Len(<<>>) = 0 /\ <<>> \in Seq(Nat)
        OBVIOUS
      <4> HIDE DEF rest
      <4> QED
        BY <2>1, <4>1, <4>2 DEF Forwarded
    <3> QED
      BY <3>1, <3>2
  <2> HIDE DEF rest
  <2>4. <<lastDev>> \in Seq(Nat) /\ Len(<<lastDev>>) = 1 /\ <<lastDev>>[1] = lastDev
    BY <2>1
  <2>5. /\ <<lastDev>> \o toDev \in Seq(Nat) /\ Len(<<lastDev>> \o toDev) = 1 + Len(toDev)
        /\ \A i \in 1 .. 1 + Len(toDev) : (<<lastDev>> \o toDev)[i] =
              IF i =< 1 THEN <<lastDev>>[i] ELSE toDev[i - 1]
    BY <2>4, ConcatProperties DEF ProxyTypes
  <2>6. \A i \in 1 .. 1 + Len(toDev) : (<<lastDev>> \o toDev)[i] = lastDev + i - 1
    <3> SUFFICES ASSUME NEW i \in 1 .. 1 + Len(toDev)
                 PROVE  (<<lastDev>> \o toDev)[i] = lastDev + i - 1
      OBVIOUS
    <3>1. CASE i = 1
      BY <2>1, <2>4, <2>5, <3>1
    <3>2. CASE i # 1
      <4>1. i - 1 \in 1 .. Len(toDev) /\ ~(i =< 1)
        BY <2>1, <3>2
      <4>2. (<<lastDev>> \o toDev)[i] = toDev[i - 1]
        BY <2>5, <4>1
      <4> QED
        BY <2>1, <2>2, <4>1, <4>2
    <3> QED
      BY <3>1, <3>2
  <2>7. /\ all \in Seq(Nat) /\ Len(all) = 1 + Len(toDev) + Len(rest)
        /\ \A i \in 1 .. 1 + Len(toDev) + Len(rest) : all[i] =
              IF i =< 1 + Len(toDev) THEN (<<lastDev>> \o toDev)[i] ELSE rest[i - (1 + Len(toDev))]
    <3> DEFINE t == <<lastDev>> \o toDev
    <3> HIDE DEF t
    <3>1. t \in Seq(Nat) /\ Len(t) = 1 + Len(toDev)
      BY <2>5 DEF t
    <3>2. /\ t \o rest \in Seq(Nat) /\ Len(t \o rest) = Len(t) + Len(rest)
          /\ \A i \in 1 .. Len(t) + Len(rest) : (t \o rest)[i] =
                IF i =< Len(t) THEN t[i] ELSE rest[i - Len(t)]
      BY <2>3, <3>1, Joined
    <3>3. all = t \o rest
      BY DEF t
    <3> HIDE DEF all
    <3>4. /\ all \in Seq(Nat) /\ Len(all) = 1 + Len(toDev) + Len(rest)
          /\ \A i \in 1 .. 1 + Len(toDev) + Len(rest) : all[i] =
                IF i =< 1 + Len(toDev) THEN t[i] ELSE rest[i - (1 + Len(toDev))]
      BY <3>1, <3>2, <3>3
    <3> QED
      BY <3>4 DEF t
  <2>8. 1 + Len(toDev) + Len(rest) = Len(recvd) - lastDev + 1
    BY <2>1, <2>2, <2>3
  <2>9. count \in Seq(Nat) /\ Len(count) = Len(recvd) - lastDev + 1
    BY <2>1
  <2>10. \A i \in 1 .. Len(all) : all[i] = count[i]
    <3> SUFFICES ASSUME NEW i \in 1 .. Len(all) PROVE all[i] = count[i]
      OBVIOUS
    <3> HIDE DEF all
    <3>1. i \in 1 .. (Len(recvd) - lastDev + 1) /\ i \in Nat
      BY <2>1, <2>7, <2>8
    <3>2. count[i] = lastDev + i - 1
      BY <3>1
    <3>3. CASE i =< 1 + Len(toDev)
      <4>1. i \in 1 .. 1 + Len(toDev)
        BY <2>1, <3>1, <3>3
      <4> QED
        BY <2>6, <2>7, <3>2, <3>3, <4>1
    <3>4. CASE i > 1 + Len(toDev)
      <4>1. i - (1 + Len(toDev)) \in 1 .. Len(rest) /\ ~(i =< 1 + Len(toDev))
        BY <2>1, <2>2, <2>3, <2>8, <3>1, <3>4
      <4>2. all[i] = rest[i - (1 + Len(toDev))]
        BY <2>7, <4>1
      <4>3. all[i] = Forwarded + (i - (1 + Len(toDev)))
        BY <2>3, <4>1, <4>2
      <4> QED
        BY <2>1, <2>2, <3>1, <3>2, <4>3
    <3> QED
      BY <2>1, <3>1, <3>3, <3>4
  <2> HIDE DEF all, count
  <2> QED
    BY <2>7, <2>8, <2>9, <2>10, SeqEqual
<1> QED
  BY <1>1, <1>2 DEF DeviceInOrder

(* From the invariant: what goes to the clients is in order. *)
LEMMA ClientBytes == ProxyTypes /\ ToClientInv => ClientInOrder
<1> SUFFICES ASSUME ProxyTypes, ToClientInv PROVE ClientInOrder
  OBVIOUS
<1> DEFINE t == back \o fromDev
<1>1. Len(back) \in Nat /\ Len(fromDev) \in Nat
  BY LenProperties DEF ProxyTypes
<1>2. /\ t \in Seq(Nat) /\ Len(t) = Len(back) + Len(fromDev)
      /\ \A i \in 1 .. Len(back) + Len(fromDev) : t[i] = IF i =< Len(back) THEN back[i] ELSE fromDev[i - Len(back)]
  BY ConcatProperties DEF ProxyTypes
<1>3. <<lastClient>> \o back \o fromDev = <<lastClient>> \o t
  <2>1. <<lastClient>> \in Seq(Nat) /\ back \in Seq(Nat) /\ fromDev \in Seq(Nat)
    BY DEF ProxyTypes
  <2> DEFINE one == <<lastClient>>
  <2> HIDE DEF one
  <2>2. (one \o back) \o fromDev = one \o (back \o fromDev)
    BY <2>1, ConcatAssociative DEF one
  <2> QED
    BY <2>2 DEF one
<1> HIDE DEF t
<1>4. ASSUME NEW i \in 1 .. Len(t) PROVE lastClient < t[i]
  <2>1. CASE i =< Len(back)
    <3>1. i \in 1 .. Len(back) /\ i \in 1 .. Len(back) + Len(fromDev)
      BY <1>1, <1>2, <2>1
    <3>2. t[i] = back[i]
      BY <1>2, <2>1, <3>1
    <3> QED
      BY <3>1, <3>2 DEF ToClientInv
  <2>2. CASE i > Len(back)
    <3>1. i - Len(back) \in 1 .. Len(fromDev) /\ ~(i =< Len(back))
      BY <1>1, <1>2, <2>2
    <3> QED
      BY <1>2, <3>1 DEF ToClientInv
  <2> QED
    BY <1>1, <2>1, <2>2
<1>5. ASSUME NEW i \in 1 .. Len(t), NEW j \in 1 .. Len(t), i < j PROVE t[i] < t[j]
  <2>1. CASE j =< Len(back)
    <3>1. i \in 1 .. Len(back) /\ j \in 1 .. Len(back) /\ i =< Len(back)
      BY <1>1, <1>2, <1>5, <2>1
    <3>2. t[i] = back[i] /\ t[j] = back[j]
      BY <1>1, <1>2, <2>1, <3>1
    <3>3. back[i] < back[j]
      BY <1>5, <3>1 DEF ToClientInv, InOrder
    <3> QED
      BY <3>2, <3>3
  <2>2. CASE j > Len(back) /\ i =< Len(back)
    <3>1. j - Len(back) \in 1 .. Len(fromDev) /\ i \in 1 .. Len(back) /\ ~(j =< Len(back))
      BY <1>1, <1>2, <2>2
    <3>2. t[i] = back[i] /\ t[j] = fromDev[j - Len(back)]
      BY <1>1, <1>2, <2>2, <3>1
    <3>3. back[i] < fromDev[j - Len(back)]
      BY <3>1 DEF ToClientInv
    <3> QED
      BY <3>2, <3>3
  <2>3. CASE i > Len(back)
    <3>1. /\ i - Len(back) \in 1 .. Len(fromDev) /\ j - Len(back) \in 1 .. Len(fromDev)
          /\ i - Len(back) < j - Len(back) /\ ~(i =< Len(back)) /\ ~(j =< Len(back))
      BY <1>1, <1>2, <1>5, <2>3
    <3>2. t[i] = fromDev[i - Len(back)] /\ t[j] = fromDev[j - Len(back)]
      BY <1>1, <1>2, <3>1
    <3>3. fromDev[i - Len(back)] < fromDev[j - Len(back)]
      BY <3>1 DEF ToClientInv, InOrder
    <3> QED
      BY <3>2, <3>3
  <2> QED
    BY <1>1, <1>5, <2>1, <2>2, <2>3
<1>6. InOrder(<<lastClient>> \o t)
  BY <1>2, <1>4, <1>5, InOrderCons DEF ProxyTypes
<1> QED
  BY <1>3, <1>6 DEF ClientInOrder

-----------------------------------------------------------------------------
(* Induction from the end of a sequence to its start, for a set of places. *)

(* A set of numbers that is not empty has a least one. *)
LEMMA NatMin ==
  ASSUME NEW T, T \subseteq Nat, T # {}
  PROVE  \E m \in T : \A k \in T : m =< k
<1> DEFINE R == OpToRel(<, Nat)
<1>1. IsWellFoundedOn(R, Nat)
  BY NatLessThanWellFounded
<1> HIDE DEF R
<1>2. PICK m \in T : \A y \in T : ~(<<y, m>> \in R)
  BY <1>1, WFMin
<1>3. \A y \in T : y < m => <<y, m>> \in R
  BY DEF R, OpToRel
<1>4. ASSUME NEW y \in T PROVE m =< y
  <2>1. ~(y < m)
    BY <1>2, <1>3
  <2>2. m \in Nat /\ y \in Nat
    OBVIOUS
  <2> QED
    BY <2>1, <2>2
<1> QED
  BY <1>4

(* What holds of a place when it holds of all later ones holds of all. *)
LEMMA Downward ==
  ASSUME NEW N \in Nat, NEW T, \A i \in 1 .. N : (\A j \in (i + 1) .. N : j \in T) => i \in T
  PROVE  1 .. N \subseteq T
<1> SUFFICES ASSUME ~(1 .. N \subseteq T) PROVE FALSE
  OBVIOUS
<1> DEFINE B == {n \in 0 .. N : N - n \in 1 .. N /\ N - n \notin T}
<1>1. B \subseteq Nat /\ B # {}
  <2>1. PICK i \in 1 .. N : i \notin T
    OBVIOUS
  <2>2. PICK n \in 0 .. N : n = N - i /\ N - n = i
    OBVIOUS
  <2>3. n \in B
    BY <2>1, <2>2
  <2>4. B \subseteq Nat
    OBVIOUS
  <2> QED
    BY <2>3, <2>4
<1>2. PICK m \in B : \A k \in B : m =< k
  BY <1>1, NatMin
<1>3. PICK i \in 1 .. N : i = N - m /\ i \notin T
  BY <1>2
<1>4. ASSUME NEW j \in (i + 1) .. N PROVE j \in T
  <2>1. N - j \in 0 .. N /\ N - (N - j) = j /\ N - j < m /\ j \in 1 .. N
    BY <1>3
  <2>2. N - j \notin B
    BY <1>2, <2>1
  <2> QED
    BY <2>1, <2>2
<1> QED
  BY <1>3, <1>4

-----------------------------------------------------------------------------
(* trace_rsp_stream scans a stream. *)

Tokens == Seq(STRING)

(* A packet ends two tokens behind the first # after its start. *)
LEMMA PacketEndIs ==
  ASSUME NEW s \in Tokens, NEW i \in Nat, NEW k \in Hashes(s, i), \A j \in Hashes(s, i) : k =< j
  PROVE  PacketEnd(s, i) = k + 2
<1>1. Hashes(s, i) \subseteq Nat
  BY DEF Hashes, Tokens
<1>2. PICK c : c = CHOOSE x \in Hashes(s, i) : \A j \in Hashes(s, i) : x =< j
  OBVIOUS
<1>3. c \in Hashes(s, i) /\ \A j \in Hashes(s, i) : c =< j
  BY <1>2
<1>4. c = k
  BY <1>1, <1>3
<1>5. PacketEnd(s, i) = 2 + c
  BY <1>2 DEF PacketEnd
<1> QED
  BY <1>1, <1>4, <1>5

(* Where a packet ends. *)
LEMMA PacketEndFacts ==
  ASSUME NEW s \in Tokens, NEW i \in Nat, Hashes(s, i) # {}
  PROVE  \E k \in Hashes(s, i) : PacketEnd(s, i) = k + 2 /\ \A j \in Hashes(s, i) : k =< j
<1>1. Hashes(s, i) \subseteq Nat
  BY DEF Hashes, Tokens
<1>2. PICK k \in Hashes(s, i) : \A j \in Hashes(s, i) : k =< j
  BY <1>1, NatMin
<1>3. PacketEnd(s, i) = k + 2
  BY <1>2, PacketEndIs
<1> QED
  BY <1>2, <1>3

(* The scan goes forward, and what it prints are tokens. *)
LEMMA AfterType ==
  ASSUME NEW s \in Tokens, NEW i \in 1 .. (Len(s) + 1), ~Stops(s, i)
  PROVE  /\ i \in 1 .. Len(s) /\ After(s, i) \in (i + 1) .. (Len(s) + 1)
         /\ Printed(s, i) \in Seq(Tokens)
<1>1. i \in 1 .. Len(s) /\ Len(s) \in Nat /\ s[i] \in STRING
  BY DEF Stops, Tokens
<1>2. CASE s[i] = "$"
  <2>1. Hashes(s, i) # {} /\ ~(PacketEnd(s, i) > Len(s))
    BY <1>2 DEF Stops
  <2>2. PICK k \in Hashes(s, i) : PacketEnd(s, i) = k + 2
    BY <1>1, <2>1, PacketEndFacts
  <2>3. PICK e \in Nat : e = PacketEnd(s, i) /\ e > i /\ e =< Len(s)
    BY <1>1, <2>1, <2>2 DEF Hashes
  <2>4. SubSeq(s, i, e) \in Tokens
    BY <1>1, <2>3 DEF Tokens
  <2>5. PICK q : q = SubSeq(s, i, e)
    OBVIOUS
  <2>6. <<q>> \in Seq(Tokens)
    BY <2>4, <2>5
  <2> QED
    BY <1>1, <1>2, <2>3, <2>5, <2>6 DEF After, Printed
<1>3. CASE s[i] # "$"
  <2>1. After(s, i) = i + 1
    BY <1>3 DEF After
  <2>2. PICK q : q = <<s[i]>>
    OBVIOUS
  <2>3. q \in Tokens
    BY <1>1, <2>2 DEF Tokens
  <2>4. <<q>> \in Seq(Tokens) /\ <<>> \in Seq(Tokens)
    BY <2>3
  <2>5. Printed(s, i) = <<q>> \/ Printed(s, i) = <<>>
    <3>1. CASE s[i] \in {"+", "-"}
      BY <1>3, <2>2, <3>1, Zenon DEF Printed
    <3>2. CASE s[i] \notin {"+", "-"}
      BY <1>3, <3>2, Zenon DEF Printed
    <3> QED
      BY <3>1, <3>2
  <2>6. Printed(s, i) \in Seq(Tokens)
    BY <2>4, <2>5
  <2>7. After(s, i) \in (i + 1) .. (Len(s) + 1)
    BY <1>1, <2>1
  <2> QED
    BY <1>1, <2>6, <2>7
<1> QED
  BY <1>2, <1>3

(* What the scan of s does from i on, when f is what it does behind i. *)
Body(s, f, i) ==
  IF Stops(s, i) THEN [out |-> <<>>, pos |-> i]
  ELSE [out |-> Printed(s, i) \o f[After(s, i)].out, pos |-> f[After(s, i)].pos]

IsScan(s, a, f) == f = [i \in a .. (Len(s) + 1) |-> Body(s, f, i)]

(* The recursive function of Scan has a solution. *)
LEMMA ScanExists ==
  ASSUME NEW s \in Tokens
  PROVE  \E f : IsScan(s, 1, f)
<1>1. PICK N \in Nat : N = Len(s) + 1 /\ N >= 1
  BY DEF Tokens
<1> DEFINE T == {a \in 1 .. N : \E f : IsScan(s, a, f)}
<1>2. ASSUME NEW a \in 1 .. N, \A j \in (a + 1) .. N : j \in T PROVE a \in T
  <2>1. CASE a = N
    <3>1. Stops(s, a)
      BY <1>1, <2>1 DEF Stops, Tokens
    <3>2. PICK g : g = [i \in a .. N |-> [out |-> <<>>, pos |-> i]]
      OBVIOUS
    <3>3. \A i \in a .. N : i = a
      BY <2>1
    <3>4. \A i \in a .. N : Body(s, g, i) = [out |-> <<>>, pos |-> i]
      BY <3>1, <3>3 DEF Body
    <3>5. IsScan(s, a, g)
      BY <1>1, <3>2, <3>4 DEF IsScan
    <3> QED
      BY <3>5
  <2>2. CASE a < N
    <3>1. PICK c \in Nat : c = a + 1 /\ c \in 1 .. N /\ c \in (a + 1) .. N
      BY <2>2
    <3>2. PICK f : IsScan(s, c, f)
      BY <1>2, <3>1
    <3>3. PICK g : g = [i \in a .. N |-> IF i = a THEN Body(s, f, a) ELSE f[i]]
      OBVIOUS
    <3>4. ASSUME NEW i \in a .. N PROVE g[i] = Body(s, g, i)
      <4>1. Body(s, g, i) = Body(s, f, i)
        <5>1. CASE Stops(s, i)
          BY <5>1 DEF Body
        <5>2. CASE ~Stops(s, i)
          <6>1. After(s, i) \in (i + 1) .. N /\ i \in 1 .. N
            BY <1>1, <5>2, AfterType
          <6>2. After(s, i) \in a .. N /\ After(s, i) # a
            BY <6>1
          <6>3. g[After(s, i)] = f[After(s, i)]
            BY <3>3, <6>2
          <6> QED
            BY <5>2, <6>3 DEF Body
        <5> QED
          BY <5>1, <5>2
      <4>2. CASE i = a
        BY <3>3, <4>1, <4>2
      <4>3. CASE i # a
        <5>1. i \in c .. N
          BY <3>1, <4>3
        <5>2. f[i] = Body(s, f, i)
          BY <1>1, <3>2, <5>1 DEF IsScan
        <5> QED
          BY <3>3, <4>1, <4>3, <5>2
      <4> QED
        BY <4>2, <4>3
    <3>5. g = [i \in a .. N |-> g[i]]
      BY <3>3
    <3>6. g = [i \in a .. N |-> Body(s, g, i)]
      BY <3>4, <3>5
    <3>7. IsScan(s, a, g)
      BY <1>1, <3>6 DEF IsScan
    <3> QED
      BY <3>7
  <2> QED
    BY <2>1, <2>2
<1> HIDE DEF T
<1>3. 1 .. N \subseteq T
  BY <1>2, Downward
<1>4. 1 \in T
  BY <1>1, <1>3
<1> QED
  BY <1>4 DEF T

(* What the scan is from every place on. *)
ScanFrom(s, f) ==
  \A i \in 1 .. (Len(s) + 1) : /\ f[i] = Body(s, f, i)
                               /\ f[i].out \in Seq(Tokens) /\ f[i].pos \in i .. (Len(s) + 1)

(* A scan goes forward, and what it finds are packets. *)
LEMMA ScanTypes ==
  ASSUME NEW s \in Tokens, NEW f, IsScan(s, 1, f)
  PROVE  ScanFrom(s, f)
<1>1. PICK N \in Nat : N = Len(s) + 1
  BY DEF Tokens
<1>2. \A i \in 1 .. N : f[i] = Body(s, f, i)
  BY <1>1 DEF IsScan
<1> DEFINE T == {i \in 1 .. N : f[i].out \in Seq(Tokens) /\ f[i].pos \in i .. N}
<1>3. ASSUME NEW i \in 1 .. N, \A j \in (i + 1) .. N : j \in T PROVE i \in T
  <2>1. CASE Stops(s, i)
    <3>1. f[i] = [out |-> <<>>, pos |-> i]
      BY <1>2, <2>1 DEF Body
    <3>2. <<>> \in Seq(Tokens) /\ i \in i .. N
      OBVIOUS
    <3>3. f[i].out = <<>> /\ f[i].pos = i
      BY <3>1
    <3> QED
      BY <3>2, <3>3
  <2>2. CASE ~Stops(s, i)
    <3>1. PICK j \in (i + 1) .. N : j = After(s, i) /\ Printed(s, i) \in Seq(Tokens)
      BY <1>1, <2>2, AfterType
    <3>2. f[i] = [out |-> Printed(s, i) \o f[j].out, pos |-> f[j].pos]
      BY <1>2, <2>2, <3>1 DEF Body
    <3>3. f[j].out \in Seq(Tokens) /\ f[j].pos \in j .. N
      <4>1. j \in T
        BY <1>3, <3>1
      <4> QED
        BY <4>1
    <3>4. Printed(s, i) \o f[j].out \in Seq(Tokens)
      BY <3>1, <3>3
    <3>5. f[j].pos \in i .. N
      BY <3>1, <3>3
    <3>6. f[i].out = Printed(s, i) \o f[j].out /\ f[i].pos = f[j].pos
      BY <3>2
    <3> QED
      BY <3>4, <3>5, <3>6
  <2> QED
    BY <2>1, <2>2
<1> HIDE DEF T
<1>4. 1 .. N \subseteq T
  BY <1>3, Downward
<1> QED
  BY <1>1, <1>2, <1>4 DEF T, ScanFrom

(* Scan takes the value of such a solution at the first place. *)
LEMMA ScanIs ==
  ASSUME NEW s \in Tokens
  PROVE  \E f : ScanFrom(s, f) /\ Scan(s) = f[1]
<1>1. \E f : IsScan(s, 1, f)
  BY ScanExists
<1>2. PICK f : IsScan(s, 1, f) /\ Scan(s) = f[1]
  BY <1>1 DEF Scan, IsScan, Body
<1>3. ScanFrom(s, f)
  BY <1>2, ScanTypes
<1> QED
  BY <1>2, <1>3

(* A part of a sequence that starts c places later. *)
LEMMA SubSeqShift ==
  ASSUME NEW u \in Tokens, NEW v \in Tokens, NEW c \in Nat, Len(v) + c =< Len(u),
         \A k \in 1 .. Len(v) : v[k] = u[c + k],
         NEW i \in Nat \ {0}, NEW e \in Nat, e =< Len(v)
  PROVE  SubSeq(v, i, e) = SubSeq(u, c + i, c + e)
<1>1. PICK x, y : x = SubSeq(v, i, e) /\ y = SubSeq(u, c + i, c + e)
  OBVIOUS
<1>2. CASE i =< e
  <2>0. Len(v) \in Nat /\ Len(u) \in Nat
    BY DEF Tokens
  <2>1. PICK n \in Nat : n = e - i + 1
    BY <1>2
  <2>2. /\ x \in Tokens /\ Len(x) = n /\ \A k \in 1 .. n : x[k] = v[i + k - 1]
    <3>1. v \in Seq(STRING) /\ \A k \in i .. e : v[k] \in STRING
      BY <2>0 DEF Tokens
    <3>2. /\ SubSeq(v, i, e) \in Seq(STRING)
          /\ Len(SubSeq(v, i, e)) = IF i =< e THEN e - i + 1 ELSE 0
          /\ \A k \in 1 .. e - i + 1 : SubSeq(v, i, e)[k] = v[i + k - 1]
      BY <3>1, SubSeqProperties
    <3> QED
      BY <1>1, <1>2, <2>1, <3>2 DEF Tokens
  <2>3. PICK p \in Nat, q \in Nat : p = c + i /\ q = c + e
    OBVIOUS
  <2>4. p >= 1 /\ q =< Len(u) /\ q - p + 1 = n /\ p =< q
    BY <1>2, <2>0, <2>1, <2>3
  <2>5. /\ y \in Tokens /\ Len(y) = n /\ \A k \in 1 .. n : y[k] = u[p + k - 1]
    <3>1. u \in Seq(STRING) /\ \A k \in p .. q : u[k] \in STRING
      BY <2>0, <2>4 DEF Tokens
    <3>2. /\ SubSeq(u, p, q) \in Seq(STRING)
          /\ Len(SubSeq(u, p, q)) = IF p =< q THEN q - p + 1 ELSE 0
          /\ \A k \in 1 .. q - p + 1 : SubSeq(u, p, q)[k] = u[p + k - 1]
      BY <3>1, SubSeqProperties
    <3> QED
      BY <1>1, <2>3, <2>4, <3>2 DEF Tokens
  <2>6. \A k \in 1 .. n : x[k] = y[k]
    <3> SUFFICES ASSUME NEW k \in 1 .. n PROVE x[k] = y[k]
      OBVIOUS
    <3>1. PICK j \in 1 .. Len(v) : j = i + k - 1 /\ c + j = p + k - 1
      BY <1>2, <2>0, <2>1, <2>3
    <3> QED
      BY <2>2, <2>5, <3>1
  <2>7. x = y
    BY <2>2, <2>5, <2>6, SeqEqual DEF Tokens
  <2> QED
    BY <1>1, <2>7
<1>3. CASE i > e
  <2>1. c + i > c + e
    BY <1>3
  <2>2. x = <<>>
    BY <1>1, <1>3, SubSeqEmpty
  <2>3. y = <<>>
    BY <1>1, <2>1, SubSeqEmpty
  <2> QED
    BY <1>1, <2>2, <2>3
<1> QED
  BY <1>2, <1>3

(* What is added behind a stream changes no complete packet of it. *)
LEMMA PrefixStep ==
  ASSUME NEW a \in Tokens, NEW u \in Tokens, Len(a) =< Len(u), \A k \in 1 .. Len(a) : u[k] = a[k],
         NEW i \in 1 .. (Len(a) + 1), ~Stops(a, i)
  PROVE  ~Stops(u, i) /\ After(u, i) = After(a, i) /\ Printed(u, i) = Printed(a, i)
<1>1. i \in 1 .. Len(a) /\ Len(a) \in Nat /\ Len(u) \in Nat
  BY AfterType DEF Tokens
<1>2. u[i] = a[i] /\ i \in Nat /\ ~(i > Len(u))
  BY <1>1
<1>3. CASE a[i] = "$"
  <2>1. Hashes(a, i) # {} /\ ~(PacketEnd(a, i) > Len(a))
    BY <1>3 DEF Stops
  <2>2. PICK k \in Hashes(a, i) : PacketEnd(a, i) = k + 2 /\ \A j \in Hashes(a, i) : k =< j
    BY <1>2, <2>1, PacketEndFacts
  <2>3. k \in Nat /\ k + 2 =< Len(a) /\ k >= i
    BY <1>1, <2>1, <2>2 DEF Hashes
  <2>4. k \in Hashes(u, i)
    BY <1>1, <2>2, <2>3 DEF Hashes
  <2>5. ASSUME NEW j \in Hashes(u, i) PROVE k =< j
    <3>1. j \in (i + 1) .. Len(u) /\ u[j] = "#"
      BY DEF Hashes
    <3>2. CASE j =< Len(a)
      <4>1. j \in Hashes(a, i)
        BY <1>1, <3>1, <3>2 DEF Hashes
      <4> QED
        BY <2>2, <4>1
    <3>3. CASE j > Len(a)
      BY <1>1, <2>3, <3>1, <3>3
    <3> QED
      BY <1>1, <3>1, <3>2, <3>3
  <2>6. PacketEnd(u, i) = k + 2
    BY <1>2, <2>4, <2>5, PacketEndIs
  <2>7. PICK e \in Nat : e = k + 2 /\ e =< Len(a)
    BY <2>3
  <2>8. SubSeq(u, i, e) = SubSeq(a, i, e)
    <3>1. \A j \in 1 .. Len(a) : a[j] = u[0 + j]
      BY <1>1
    <3>2. Len(a) + 0 =< Len(u) /\ i \in Nat \ {0}
      BY <1>1
    <3>3. SubSeq(a, i, e) = SubSeq(u, 0 + i, 0 + e)
      BY <2>7, <3>1, <3>2, SubSeqShift
    <3>4. 0 + i = i /\ 0 + e = e
      BY <1>2
    <3> QED
      BY <3>3, <3>4
  <2>9. ~Stops(u, i)
    BY <1>1, <1>2, <2>4, <2>6, <2>7 DEF Stops
  <2>10. After(u, i) = After(a, i)
    BY <1>2, <1>3, <2>2, <2>6 DEF After
  <2>11. Printed(u, i) = Printed(a, i)
    BY <1>2, <1>3, <2>2, <2>6, <2>7, <2>8, Zenon DEF Printed
  <2> QED
    BY <2>9, <2>10, <2>11
<1>4. CASE a[i] # "$"
  <2>1. Printed(u, i) = Printed(a, i)
    BY <1>2, <1>4, Zenon DEF Printed
  <2> QED
    BY <1>2, <1>4, <2>1 DEF Stops, After
<1> QED
  BY <1>3, <1>4

(* The scan of what is left of a stream is the scan of the stream from there on. *)
IsShift(u, v, c) ==
  u \in Tokens /\ v \in Tokens /\ c \in Nat /\ Len(u) = Len(v) + c /\ \A k \in 1 .. Len(v) : v[k] = u[c + k]

(* The # of a suffix are those of the whole, moved. *)
LEMMA HashesShift ==
  ASSUME NEW u, NEW v, NEW c, IsShift(u, v, c), NEW i \in Nat
  PROVE  /\ \A k \in Hashes(v, i) : k \in Nat /\ k =< Len(v) /\ c + k \in Hashes(u, c + i)
         /\ \A k \in Hashes(u, c + i) : \E j \in Hashes(v, i) : k = c + j
<1>1. /\ u \in Tokens /\ v \in Tokens /\ c \in Nat /\ Len(u) = Len(v) + c /\ Len(v) \in Nat
      /\ \A k \in 1 .. Len(v) : v[k] = u[c + k]
  BY DEF IsShift, Tokens
<1>2. ASSUME NEW k \in Hashes(v, i) PROVE k \in Nat /\ k =< Len(v) /\ c + k \in Hashes(u, c + i)
  <2>1. k \in (i + 1) .. Len(v) /\ v[k] = "#"
    BY DEF Hashes
  <2>2. k \in 1 .. Len(v) /\ c + k \in ((c + i) + 1) .. Len(u)
    BY <1>1, <2>1
  <2>3. u[c + k] = "#"
    BY <1>1, <2>1, <2>2
  <2> QED
    BY <2>1, <2>2, <2>3 DEF Hashes
<1>3. ASSUME NEW k \in Hashes(u, c + i) PROVE \E j \in Hashes(v, i) : k = c + j
  <2>1. k \in ((c + i) + 1) .. Len(u) /\ u[k] = "#"
    BY DEF Hashes
  <2>2. PICK j \in (i + 1) .. Len(v) : k = c + j
    <3>1. k - c \in (i + 1) .. Len(v) /\ c + (k - c) = k
      BY <1>1, <2>1
    <3> QED
      BY <3>1
  <2>3. v[j] = "#"
    BY <1>1, <2>1, <2>2
  <2> QED
    BY <2>2, <2>3 DEF Hashes
<1> QED
  BY <1>2, <1>3

(* A round of the scan does the same in a suffix as in the whole. *)
LEMMA ShiftStep ==
  ASSUME NEW u, NEW v, NEW c, IsShift(u, v, c), NEW i \in 1 .. (Len(v) + 1)
  PROVE  /\ Stops(v, i) <=> Stops(u, c + i)
         /\ ~Stops(v, i) => After(u, c + i) = c + After(v, i) /\ Printed(u, c + i) = Printed(v, i)
<1>1. /\ u \in Tokens /\ v \in Tokens /\ c \in Nat /\ Len(u) = Len(v) + c /\ Len(v) \in Nat /\ i \in Nat
      /\ \A k \in 1 .. Len(v) : v[k] = u[c + k]
  BY DEF IsShift, Tokens
<1>2. CASE i > Len(v)
  <2>1. c + i > Len(u)
    BY <1>1, <1>2
  <2> QED
    BY <1>2, <2>1 DEF Stops
<1>3. CASE i =< Len(v) /\ v[i] # "$"
  <2>1. u[c + i] = v[i] /\ ~(i > Len(v)) /\ ~(c + i > Len(u))
    BY <1>1, <1>3
  <2>2. ~Stops(v, i) /\ ~Stops(u, c + i)
    BY <1>3, <2>1 DEF Stops
  <2>3. After(u, c + i) = c + After(v, i)
    BY <1>1, <1>3, <2>1 DEF After
  <2>4. Printed(u, c + i) = Printed(v, i)
    BY <1>3, <2>1, Zenon DEF Printed
  <2> QED
    BY <2>2, <2>3, <2>4
<1>4. CASE i =< Len(v) /\ v[i] = "$"
  <2>1. u[c + i] = v[i] /\ ~(i > Len(v)) /\ ~(c + i > Len(u)) /\ c + i \in Nat
    BY <1>1, <1>4
  <2>2. CASE Hashes(v, i) = {}
    <3>1. Hashes(u, c + i) = {}
      BY <1>1, <2>2, HashesShift
    <3> QED
      BY <1>4, <2>1, <2>2, <3>1 DEF Stops
  <2>3. CASE Hashes(v, i) # {}
    <3>1. PICK k \in Hashes(v, i) : PacketEnd(v, i) = k + 2 /\ \A j \in Hashes(v, i) : k =< j
      BY <1>1, <2>3, PacketEndFacts
    <3>2. k \in Nat /\ k =< Len(v) /\ c + k \in Hashes(u, c + i)
      BY <1>1, <3>1, HashesShift
    <3>3. ASSUME NEW j \in Hashes(u, c + i) PROVE c + k =< j
      <4>1. PICK h \in Hashes(v, i) : j = c + h
        BY <1>1, HashesShift
      <4>2. h \in Nat /\ k =< h
        BY <1>1, <3>1, HashesShift
      <4> QED
        BY <1>1, <3>2, <4>1, <4>2
    <3>4. PacketEnd(u, c + i) = (c + k) + 2
      BY <1>1, <2>1, <3>2, <3>3, PacketEndIs
    <3>5. PICK e \in Nat : e = k + 2 /\ (c + k) + 2 = c + e
      BY <1>1, <3>2
    <3>6. PacketEnd(v, i) = e /\ PacketEnd(u, c + i) = c + e
      BY <3>1, <3>4, <3>5
    <3>7. Stops(v, i) <=> e > Len(v)
      BY <1>4, <2>1, <2>3, <3>6 DEF Stops
    <3>8. Stops(u, c + i) <=> c + e > Len(u)
      <4>1. Hashes(u, c + i) # {}
        BY <3>2
      <4> QED
        BY <1>4, <2>1, <3>6, <4>1 DEF Stops
    <3>9. Stops(v, i) <=> Stops(u, c + i)
      <4>1. e > Len(v) <=> c + e > Len(u)
        BY <1>1
      <4> QED
        BY <3>7, <3>8, <4>1
    <3>10. After(u, c + i) = c + After(v, i)
      <4>1. After(u, c + i) = (c + e) + 1
        BY <1>4, <2>1, <3>6 DEF After
      <4>2. After(v, i) = e + 1
        BY <1>4, <3>6 DEF After
      <4> QED
        BY <1>1, <4>1, <4>2
    <3>11. ~Stops(v, i) => Printed(u, c + i) = Printed(v, i)
      <4> SUFFICES ASSUME ~Stops(v, i) PROVE Printed(u, c + i) = Printed(v, i)
        OBVIOUS
      <4>1. e =< Len(v) /\ i \in Nat \ {0} /\ Len(v) + c =< Len(u)
        BY <1>1, <3>7
      <4>2. SubSeq(v, i, e) = SubSeq(u, c + i, c + e)
        BY <1>1, <4>1, SubSeqShift
      <4> QED
        BY <1>4, <2>1, <3>6, <4>2, Zenon DEF Printed
    <3> QED
      BY <3>9, <3>10, <3>11
  <2> QED
    BY <2>2, <2>3
<1>5. i > Len(v) \/ i =< Len(v)
  BY <1>1
<1> QED
  BY <1>2, <1>3, <1>4, <1>5

-----------------------------------------------------------------------------
(* A stream that comes in two parts. *)

(* The scan g goes on where the scan f stops. *)
GoesOn(f, g) == g[1].out = f[1].out \o g[f[1].pos].out /\ g[1].pos = g[f[1].pos].pos

(* More input does not change what was found, and the scan goes on where it stopped. *)
LEMMA ScanPrefix ==
  ASSUME NEW a \in Tokens, NEW u \in Tokens, Len(a) =< Len(u), \A k \in 1 .. Len(a) : u[k] = a[k],
         NEW f, ScanFrom(a, f), NEW g, ScanFrom(u, g)
  PROVE  GoesOn(f, g)
<1>1. PICK N \in Nat : N = Len(a) + 1 /\ N >= 1 /\ N =< Len(u) + 1 /\ Len(u) \in Nat
  BY DEF Tokens
<1>2. \A i \in 1 .. N : /\ f[i] = Body(a, f, i) /\ f[i].out \in Seq(Tokens) /\ f[i].pos \in i .. N
                        /\ g[i] = Body(u, g, i) /\ g[i].out \in Seq(Tokens)
  BY <1>1 DEF ScanFrom
<1> DEFINE T == {i \in 1 .. N : g[i].out = f[i].out \o g[f[i].pos].out /\ g[i].pos = g[f[i].pos].pos}
<1>3. ASSUME NEW i \in 1 .. N, \A j \in (i + 1) .. N : j \in T PROVE i \in T
  <2>1. CASE Stops(a, i)
    <3>1. f[i] = [out |-> <<>>, pos |-> i]
      BY <1>2, <2>1 DEF Body
    <3>2. f[i].out = <<>> /\ f[i].pos = i
      BY <3>1
    <3>3. <<>> \o g[i].out = g[i].out
      BY <1>2, ConcatEmptySeq
    <3> QED
      BY <3>2, <3>3
  <2>2. CASE ~Stops(a, i)
    <3>1. PICK j \in (i + 1) .. N : j = After(a, i) /\ Printed(a, i) \in Seq(Tokens)
      BY <1>1, <2>2, AfterType
    <3>2. ~Stops(u, i) /\ After(u, i) = j /\ Printed(u, i) = Printed(a, i)
      BY <1>1, <2>2, <3>1, PrefixStep
    <3>3. PICK x, y, z : x = Printed(a, i) /\ y = f[j].out /\ z = g[f[j].pos].out
      OBVIOUS
    <3>4. f[i] = [out |-> x \o y, pos |-> f[j].pos]
      BY <1>2, <2>2, <3>1, <3>3 DEF Body
    <3>5. g[i] = [out |-> x \o g[j].out, pos |-> g[j].pos]
      BY <1>2, <3>2, <3>3 DEF Body
    <3>6. g[j].out = y \o z /\ g[j].pos = g[f[j].pos].pos
      <4>1. j \in T
        BY <1>3, <3>1
      <4> QED
        BY <3>3, <4>1
    <3>7. x \in Seq(Tokens) /\ y \in Seq(Tokens) /\ z \in Seq(Tokens)
      <4>1. j \in 1 .. N
        BY <3>1
      <4>2. f[j].pos \in 1 .. N
        BY <1>2, <4>1
      <4> QED
        BY <1>2, <3>1, <3>3, <4>1, <4>2
    <3>8. (x \o y) \o z = x \o (y \o z)
      BY <3>7, ConcatAssociative
    <3>9. f[i].out = x \o y /\ f[i].pos = f[j].pos
      BY <3>4
    <3>10. g[i].out = x \o g[j].out /\ g[i].pos = g[j].pos
      BY <3>5
    <3> QED
      BY <3>3, <3>6, <3>8, <3>9, <3>10
  <2> QED
    BY <2>1, <2>2
<1> HIDE DEF T
<1>4. 1 .. N \subseteq T
  BY <1>3, Downward
<1>5. 1 \in T
  BY <1>1, <1>4
<1> QED
  BY <1>5 DEF T, GoesOn

(* From there on the scan is that of the suffix. *)
LEMMA ScanShift ==
  ASSUME NEW u, NEW v, NEW c, IsShift(u, v, c), NEW g, ScanFrom(u, g), NEW h, ScanFrom(v, h)
  PROVE  h[1].out = g[c + 1].out /\ g[c + 1].pos = c + h[1].pos
<1>0. u \in Tokens /\ v \in Tokens /\ c \in Nat /\ Len(u) = Len(v) + c /\ Len(v) \in Nat
  BY DEF IsShift, Tokens
<1>1. PICK N \in Nat : N = Len(v) + 1 /\ N >= 1
  BY <1>0
<1>2. \A i \in 1 .. N : h[i] = Body(v, h, i) /\ g[c + i] = Body(u, g, c + i)
  <2> SUFFICES ASSUME NEW i \in 1 .. N PROVE h[i] = Body(v, h, i) /\ g[c + i] = Body(u, g, c + i)
    OBVIOUS
  <2>1. i \in 1 .. (Len(v) + 1) /\ c + i \in 1 .. (Len(u) + 1)
    BY <1>0, <1>1
  <2> QED
    BY <2>1 DEF ScanFrom
<1> DEFINE T == {i \in 1 .. N : h[i].out = g[c + i].out /\ g[c + i].pos = c + h[i].pos}
<1>3. ASSUME NEW i \in 1 .. N, \A j \in (i + 1) .. N : j \in T PROVE i \in T
  <2>0. i \in 1 .. (Len(v) + 1)
    BY <1>1
  <2>1. CASE Stops(v, i)
    <3>1. Stops(u, c + i)
      BY <2>0, <2>1, ShiftStep
    <3>2. h[i] = [out |-> <<>>, pos |-> i]
      BY <1>2, <2>1 DEF Body
    <3>3. g[c + i] = [out |-> <<>>, pos |-> c + i]
      BY <1>2, <3>1 DEF Body
    <3>4. h[i].out = <<>> /\ h[i].pos = i /\ g[c + i].out = <<>> /\ g[c + i].pos = c + i
      BY <3>2, <3>3
    <3> QED
      BY <3>4
  <2>2. CASE ~Stops(v, i)
    <3>1. PICK j \in (i + 1) .. N : j = After(v, i)
      BY <1>0, <1>1, <2>0, <2>2, AfterType
    <3>2. ~Stops(u, c + i) /\ After(u, c + i) = c + j /\ Printed(u, c + i) = Printed(v, i)
      BY <2>0, <2>2, <3>1, ShiftStep
    <3>3. h[i] = [out |-> Printed(v, i) \o h[j].out, pos |-> h[j].pos]
      BY <1>2, <2>2, <3>1 DEF Body
    <3>4. g[c + i] = [out |-> Printed(v, i) \o g[c + j].out, pos |-> g[c + j].pos]
      BY <1>2, <3>2 DEF Body
    <3>5. h[j].out = g[c + j].out /\ g[c + j].pos = c + h[j].pos
      <4>1. j \in T
        BY <1>3, <3>1
      <4> QED
        BY <4>1
    <3>6. h[i].out = Printed(v, i) \o h[j].out /\ h[i].pos = h[j].pos
      BY <3>3
    <3>7. g[c + i].out = Printed(v, i) \o g[c + j].out /\ g[c + i].pos = g[c + j].pos
      BY <3>4
    <3> QED
      BY <3>5, <3>6, <3>7
  <2> QED
    BY <2>1, <2>2
<1> HIDE DEF T
<1>4. 1 .. N \subseteq T
  BY <1>3, Downward
<1>5. 1 \in T
  BY <1>1, <1>4
<1> QED
  BY <1>5 DEF T

(* What is printed and kept of a stream does not depend on where it is cut. *)
LEMMA ScanCut ==
  ASSUME NEW a \in Tokens, NEW b \in Tokens
  PROVE  /\ Packets(a \o b) = Packets(a) \o Packets(Rest(a) \o b)
         /\ Rest(a \o b) = Rest(Rest(a) \o b)
         /\ Rest(a) \in Tokens
<1>1. PICK f : ScanFrom(a, f) /\ Scan(a) = f[1]
  BY ScanIs
<1>2. PICK u : u = a \o b
  OBVIOUS
<1>3. PICK A \in Nat, B \in Nat : A = Len(a) /\ B = Len(b)
  BY DEF Tokens
<1>4. /\ u \in Tokens /\ Len(u) = A + B
      /\ \A k \in 1 .. A : u[k] = a[k]
      /\ \A k \in 1 .. (A + B) : k > A => u[k] = b[k - A]
  BY <1>2, <1>3, ConcatProperties DEF Tokens
<1>5. PICK g : ScanFrom(u, g) /\ Scan(u) = g[1]
  BY <1>4, ScanIs
<1>6. g[1].out = f[1].out \o g[f[1].pos].out /\ g[1].pos = g[f[1].pos].pos
  <2>1. Len(a) =< Len(u) /\ \A k \in 1 .. Len(a) : u[k] = a[k]
    BY <1>3, <1>4
  <2>2. GoesOn(f, g)
    BY <1>1, <1>4, <1>5, <2>1, ScanPrefix
  <2> QED
    BY <2>2 DEF GoesOn
<1>7. PICK c \in Nat : f[1].pos = c + 1 /\ c =< A
  <2>1. f[1].pos \in 1 .. (A + 1)
    BY <1>1, <1>3 DEF ScanFrom
  <2>2. f[1].pos - 1 \in Nat /\ f[1].pos = (f[1].pos - 1) + 1 /\ f[1].pos - 1 =< A
    BY <2>1
  <2> QED
    BY <2>2
<1>8. PICK r : r = Rest(a)
  OBVIOUS
<1>9. r \in Tokens /\ Len(r) = A - c /\ \A k \in 1 .. (A - c) : r[k] = a[c + k]
  <2>1. r = SubSeq(a, c + 1, A)
    BY <1>1, <1>3, <1>7, <1>8 DEF Rest
  <2>2. PICK p \in Nat : p = c + 1 /\ p >= 1 /\ p =< A + 1
    BY <1>7
  <2>3. r = SubSeq(a, p, A)
    BY <2>1, <2>2
  <2>4. r \in Tokens /\ Len(r) = A - p + 1 /\ \A k \in 1 .. (A - p + 1) : r[k] = a[p + k - 1]
    <3>1. r \in Tokens
      BY <1>3, <2>2, <2>3 DEF Tokens
    <3>2. Len(r) = A - p + 1
      BY <1>3, <2>2, <2>3 DEF Tokens
    <3>3. \A k \in 1 .. (A - p + 1) : r[k] = a[p + k - 1]
      BY <1>3, <2>2, <2>3 DEF Tokens
    <3> QED
      BY <3>1, <3>2, <3>3
  <2>5. A - p + 1 = A - c /\ \A k \in 1 .. (A - c) : p + k - 1 = c + k
    BY <1>3, <2>2
  <2> QED
    BY <2>4, <2>5
<1>10. PICK v : v = r \o b
  OBVIOUS
<1>11. PICK R \in Nat : R = A - c /\ c + R = A /\ R = Len(r)
  <2>1. A - c \in Nat /\ c + (A - c) = A
    BY <1>7
  <2> QED
    BY <1>9, <2>1
<1>12. /\ v \in Tokens /\ Len(v) = R + B
       /\ \A k \in 1 .. (R + B) : v[k] = IF k =< R THEN r[k] ELSE b[k - R]
  <2>1. r \in Seq(STRING) /\ b \in Seq(STRING)
    BY <1>9 DEF Tokens
  <2> QED
    <3>1. /\ r \o b \in Seq(STRING) /\ Len(r \o b) = Len(r) + Len(b)
          /\ \A k \in 1 .. (Len(r) + Len(b)) : (r \o b)[k] = IF k =< Len(r) THEN r[k] ELSE b[k - Len(r)]
      BY <2>1, ConcatProperties
    <3> QED
      BY <1>3, <1>10, <1>11, <3>1 DEF Tokens
<1>13. IsShift(u, v, c)
  <2>1. ASSUME NEW k \in 1 .. (R + B) PROVE v[k] = u[c + k]
    <3>1. CASE k =< R
      <4>1. k \in 1 .. (A - c) /\ c + k \in 1 .. A
        BY <1>11, <3>1
      <4> QED
        BY <1>4, <1>9, <1>12, <3>1, <4>1
    <3>2. CASE ~(k =< R)
      <4>1. PICK m \in 1 .. (A + B) : m = c + k /\ m > A /\ m - A = k - R
        BY <1>11, <3>2
      <4> QED
        BY <1>4, <1>12, <3>2, <4>1
    <3> QED
      BY <3>1, <3>2
  <2>2. Len(u) = Len(v) + c
    <3>1. A + B = (R + B) + c
      BY <1>11
    <3> QED
      BY <1>4, <1>12, <3>1
  <2> QED
    BY <1>4, <1>7, <1>12, <2>1, <2>2 DEF IsShift
<1>14. PICK h : ScanFrom(v, h) /\ Scan(v) = h[1]
  BY <1>12, ScanIs
<1>15. h[1].out = g[c + 1].out /\ g[c + 1].pos = c + h[1].pos
  BY <1>5, <1>13, <1>14, ScanShift
<1>16. Packets(u) = Packets(a) \o Packets(v)
  BY <1>1, <1>5, <1>6, <1>7, <1>14, <1>15 DEF Packets
<1>17. Rest(u) = Rest(v)
  <2>1. PICK p \in Nat \ {0} : p = h[1].pos
    <3>1. Len(v) \in Nat /\ 1 \in 1 .. (Len(v) + 1)
      BY <1>12
    <3>2. h[1].pos \in 1 .. (Len(v) + 1)
      BY <1>14, <3>1 DEF ScanFrom
    <3> QED
      BY <3>1, <3>2
  <2>2. Rest(v) = SubSeq(v, p, R + B)
    BY <1>12, <1>14, <2>1 DEF Rest
  <2>3. Rest(u) = SubSeq(u, c + p, A + B)
    BY <1>4, <1>5, <1>6, <1>7, <1>15, <2>1 DEF Rest
  <2>4. PICK e \in Nat : e = R + B /\ c + e = A + B /\ e =< Len(v) /\ Len(v) + c =< Len(u)
    BY <1>4, <1>11, <1>12
  <2>5. SubSeq(v, p, e) = SubSeq(u, c + p, c + e)
    BY <1>4, <1>12, <1>13, <2>4, SubSeqShift DEF IsShift
  <2> QED
    BY <2>2, <2>3, <2>4, <2>5
<1> QED
  BY <1>2, <1>8, <1>9, <1>10, <1>16, <1>17


(***************************************************************************)
(* The invariant of the traces: as it stands it is inductive, with the     *)
(* types of what was read from the device.                                 *)
(***************************************************************************)
TraceInv == reads \in Tokens /\ TraceChunkFree

(* Nothing is traced, and the rest is as it was. *)
LEMMA TraceUntouched ==
  ASSUME TraceInv, UNCHANGED traces
  PROVE  TraceInv'
  BY DEF TraceInv, TraceChunkFree, traces

(* Bytes of the client. *)
LEMMA PollTraces == BytesInv /\ TraceInv /\ Poll => TraceInv'
<1> SUFFICES ASSUME BytesInv, TraceInv, Poll PROVE TraceInv'
  OBVIOUS
<1>1. CASE UNCHANGED traces
  BY <1>1, TraceUntouched
<1>2. CASE \E n \in 1 .. Len(toProxy) :
             /\ trace_rsp_stream(gdbCarry, gdbTrace, SubSeq(toProxy, 1, n))
             /\ recvd' = recvd \o SubSeq(toProxy, 1, n)
             /\ UNCHANGED <<targetCarry, targetTrace, reads>>
  <2>1. PICK n \in 1 .. Len(toProxy) :
             /\ trace_rsp_stream(gdbCarry, gdbTrace, SubSeq(toProxy, 1, n))
             /\ recvd' = recvd \o SubSeq(toProxy, 1, n)
             /\ UNCHANGED <<targetCarry, targetTrace, reads>>
    BY <1>2
  <2>2. PICK a, d : a = recvd /\ d = SubSeq(toProxy, 1, n)
    OBVIOUS
  <2>3. a \in Tokens /\ d \in Tokens
    <3>1. toProxy \in Seq(STRING) /\ recvd \in Seq(STRING) /\ n \in 0 .. Len(toProxy)
      BY DEF BytesInv, ProxyTypes
    <3>2. SubSeq(toProxy, 1, n) \in Seq(STRING)
      BY <3>1, Cut
    <3> QED
      BY <2>2, <3>1, <3>2 DEF Tokens
  <2>4. gdbTrace = Packets(a) /\ gdbCarry = Rest(a)
    BY <2>2 DEF TraceInv, TraceChunkFree
  <2>5. gdbTrace' = Packets(a) \o Packets(Rest(a) \o d) /\ gdbCarry' = Rest(Rest(a) \o d)
    BY <2>1, <2>2, <2>4 DEF trace_rsp_stream
  <2>6. Packets(a \o d) = Packets(a) \o Packets(Rest(a) \o d) /\ Rest(a \o d) = Rest(Rest(a) \o d)
    BY <2>3, ScanCut
  <2> QED
    BY <2>1, <2>2, <2>5, <2>6 DEF TraceInv, TraceChunkFree
<1> QED
  BY <1>1, <1>2 DEF Poll

(* Bytes of the device. *)
LEMMA ReadTraces == BytesInv /\ TraceInv /\ ReadDevice => TraceInv'
<1> SUFFICES ASSUME BytesInv, TraceInv, ReadDevice PROVE TraceInv'
  OBVIOUS
<1>1. UNCHANGED <<gdbCarry, gdbTrace, recvd>>
  BY DEF ReadDevice
<1>2. CASE UNCHANGED <<targetCarry, targetTrace, reads>>
  BY <1>1, <1>2, TraceUntouched DEF traces
<1>3. CASE \E n \in 1 .. Len(fromDev) :
             /\ back' = SubSeq(fromDev, 1, n)
             /\ trace_rsp_stream(targetCarry, targetTrace, [i \in 1 .. n |-> answers[back'[i]]])
             /\ reads' = reads \o [i \in 1 .. n |-> answers[back'[i]]]
  <2>1. PICK n \in 1 .. Len(fromDev) :
             /\ back' = SubSeq(fromDev, 1, n)
             /\ trace_rsp_stream(targetCarry, targetTrace, [i \in 1 .. n |-> answers[back'[i]]])
             /\ reads' = reads \o [i \in 1 .. n |-> answers[back'[i]]]
    BY <1>3
  <2>2. PICK a, d : a = reads /\ d = [i \in 1 .. n |-> answers[back'[i]]]
    OBVIOUS
  <2>3. a \in Tokens /\ d \in Tokens
    <3>1. fromDev \in Seq(Nat) /\ answers \in Seq(STRING) /\ n \in 0 .. Len(fromDev) /\ n \in Nat
      BY DEF BytesInv, ProxyTypes
    <3>2. \A i \in 1 .. n : back'[i] = fromDev[i] /\ i \in 1 .. Len(fromDev)
      BY <2>1, <3>1, Cut
    <3>3. \A i \in 1 .. n : back'[i] \in 1 .. Len(answers)
      <4>1. \A i \in 1 .. Len(fromDev) : /\ lastClient < fromDev[i] /\ fromDev[i] =< Len(answers)
                                         /\ fromDev[i] \in Nat
        BY <3>1 DEF BytesInv, ToClientInv
      <4>2. lastClient \in Nat /\ Len(answers) \in Nat
        BY <3>1 DEF BytesInv, ProxyTypes
      <4> QED
        BY <3>2, <4>1, <4>2
    <3>4. \A i \in 1 .. n : answers[back'[i]] \in STRING
      BY <3>1, <3>3
    <3>5. d \in Seq(STRING)
      BY <2>2, <3>1, <3>4
    <3> QED
      BY <2>2, <3>5 DEF TraceInv, Tokens
  <2>4. targetTrace = Packets(a) /\ targetCarry = Rest(a)
    BY <2>2 DEF TraceInv, TraceChunkFree
  <2>5. targetTrace' = Packets(a) \o Packets(Rest(a) \o d) /\ targetCarry' = Rest(Rest(a) \o d)
    BY <2>1, <2>2, <2>4 DEF trace_rsp_stream
  <2>6. Packets(a \o d) = Packets(a) \o Packets(Rest(a) \o d) /\ Rest(a \o d) = Rest(Rest(a) \o d)
    BY <2>3, ScanCut
  <2>7. reads' = a \o d /\ a \o d \in Tokens
    BY <2>1, <2>2, <2>3 DEF Tokens
  <2> QED
    BY <1>1, <2>5, <2>6, <2>7 DEF TraceInv, TraceChunkFree
<1> QED
  BY <1>2, <1>3 DEF ReadDevice

(* Every step keeps TraceInv. *)
LEMMA TraceKept == BytesInv /\ TraceInv /\ [Next]_vars => TraceInv'
<1> SUFFICES ASSUME BytesInv, TraceInv, [Next]_vars PROVE TraceInv'
  OBVIOUS
<1>1. CASE Poll
  BY <1>1, PollTraces
<1>2. CASE ReadDevice
  BY <1>2, ReadTraces
<1>3. CASE UNCHANGED traces
  BY <1>3, TraceUntouched
<1>4. CASE UNCHANGED proxy
  BY <1>3, <1>4 DEF proxy
<1>5. CASE Listen \/ StopListening \/ Accept \/ WriteSome \/ WriteNone \/ Send \/ Disconnect
  BY <1>3, <1>4, <1>5 DEF Listen, StopListening, Accept, WriteSome, WriteNone, Send, Disconnect
<1>6. CASE Connect \/ HangUp \/ DeviceReads \/ DeviceAnswers
  BY <1>3, <1>6 DEF Connect, HangUp, DeviceReads, DeviceAnswers
<1> QED
  BY <1>1, <1>2, <1>4, <1>5, <1>6 DEF Next, DoTcpProxy, vars

(* At the start nothing was traced. *)
LEMMA TraceInit == Init => TraceInv
<1> SUFFICES ASSUME Init PROVE TraceInv
  OBVIOUS
<1>1. <<>> \in Tokens /\ Len(<<>>) = 0
  BY DEF Tokens
<1>2. PICK f : ScanFrom(<<>>, f) /\ Scan(<<>>) = f[1]
  BY <1>1, ScanIs
<1>3. f[1] = Body(<<>>, f, 1)
  BY <1>1, <1>2 DEF ScanFrom
<1>4. Stops(<<>>, 1)
  BY <1>1 DEF Stops
<1>5. Scan(<<>>) = [out |-> <<>>, pos |-> 1]
  BY <1>2, <1>3, <1>4 DEF Body
<1>6. Packets(<<>>) = <<>> /\ Rest(<<>>) = <<>>
  BY <1>1, <1>5 DEF Packets, Rest
<1> QED
  BY <1>1, <1>6 DEF Init, TraceInv, TraceChunkFree

(***************************************************************************)
(* One run of ftx handles the device soundly: on every path through main,  *)
(* InitComms with its recovery, the proxy and CloseComms, whichever call   *)
(* of libftdi fails, and for any options.                                  *)
(***************************************************************************)
THEOREM SessionIsSound == Spec => []SessionSound
<1>1. SessionInv /\ BytesInv => SessionSound
  <2> SUFFICES ASSUME SessionInv, BytesInv PROVE SessionSound
    OBVIOUS
  <2>1. TypeOK
    BY DEF SessionInv, BytesInv, ProxyTypes, BlockInv, TypeOK
  <2>2. ContextBalanced /\ RunsConfigured
    BY DEF SessionInv, InUse, ProxyPcs, ContextBalanced, RunsConfigured
  <2> QED
    BY <2>1, <2>2 DEF SessionSound
<1> QED
  BY <1>1, Invariance, PTL

(***************************************************************************)
(* DoTcpProxy forwards bytes in order and at most once both ways, for any  *)
(* chunk size and number of retries, however calls cut the streams and     *)
(* whichever writes fail.                                                  *)
(***************************************************************************)
THEOREM ProxyKeepsOrder == Spec => []BytesInOrder
<1>1. BytesInv => BytesInOrder
  BY DeviceBytes, ClientBytes DEF BytesInv, BytesInOrder
<1> QED
  BY <1>1, Invariance, PTL

(***************************************************************************)
(* trace_rsp_stream prints what one scan of the whole stream would print,  *)
(* and keeps in its buffer what such a scan would leave, for every stream  *)
(* and wherever TCP and USB cut it: in a packet, before its checksum or    *)
(* between its digits.                                                     *)
(***************************************************************************)
THEOREM TracesAreChunkFree == Spec => []TraceChunkFree
<1>1. SessionInv /\ BytesInv /\ (SessionInv /\ BytesInv)' /\ TraceInv /\ [Next]_vars => TraceInv'
  BY TraceKept
<1>2. TraceInv => TraceChunkFree
  BY DEF TraceInv
<1> QED
  BY <1>1, <1>2, TraceInit, Invariance, PTL DEF Spec

=============================================================================
