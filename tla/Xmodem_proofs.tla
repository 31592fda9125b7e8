---------------------------- MODULE Xmodem_proofs ----------------------------
(***************************************************************************)
(* The xmodem sender, for files of any size, any number of block numbers   *)
(* and any times: its types, and, when files are sent one by one           *)
(* (OneByOne) and a poll is empty only if nothing is on its way (Timely),  *)
(* that the receiver has the beginning of the file, and that the transfer  *)
(* is a FileTransfer.  Timely is the pace of Windows, where a poll waits;  *)
(* on POSIX the line is opened with O_NDELAY (host.cxx 253), polls take no *)
(* time, and only TypeCorrect holds.                                       *)
(***************************************************************************)
EXTENDS Xmodem, Integers, TLAPS

----------------------------------------------------------------------------
(* Block numbers *)

\* Remainders are determined.
LEMMA SameRemainder ==
    ASSUME NEW M \in Nat, NEW p \in Int, NEW q \in Int, NEW r \in 0..(M - 1), NEW s \in 0..(M - 1),
           M * p + r = M * q + s
    PROVE  r = s
OBVIOUS

LEMMA Division ==
    ASSUME NEW a \in Nat, NEW M \in Nat, M > 1
    PROVE  a \div M \in Int /\ a % M \in 0..(M - 1) /\ a = M * (a \div M) + (a % M)
<1>1. a = M * (a \div M) + (a % M)
  OBVIOUS
<1>2. a % M \in 0..(M - 1)
  OBVIOUS
<1>3. a \div M \in Int
  OBVIOUS
<1> QED BY <1>1, <1>2, <1>3

\* The number after the last but one is the first.
LEMMA NextNumber ==
    ASSUME NEW a \in Nat, NEW M \in Nat, M > 1
    PROVE  (a + 1) % M = IF a % M = M - 1 THEN 0 ELSE (a % M) + 1
<1>1. PICK q \in Int, r \in 0..(M - 1) : a = M * q + r /\ r = a % M
  BY Division
<1>2. PICK p \in Int, s \in 0..(M - 1) : a + 1 = M * p + s /\ s = (a + 1) % M
  BY a + 1 \in Nat, Division
<1>3. CASE r < M - 1
  <2>1. M * p + s = M * q + (r + 1)
    BY <1>1, <1>2
  <2>2. s = r + 1
    BY <1>3, <2>1, SameRemainder
  <2> QED BY <1>1, <1>2, <1>3, <2>2
<1>4. CASE r = M - 1
  <2>1. M * (q + 1) = M * q + M
    OBVIOUS
  <2>2. M * p + s = M * (q + 1) + 0
    BY <1>1, <1>2, <1>4, <2>1
  <2>3. s = 0
    BY <2>2, SameRemainder
  <2> QED BY <1>1, <1>2, <1>4, <2>3
<1> QED BY <1>1, <1>3, <1>4

\* Two blocks in a row have different numbers, and a number can be counted on.
LEMMA Numbers ==
    ASSUME NEW a \in Nat
    PROVE  /\ a % Mod \in 0..(Mod - 1) /\ (a + 1) % Mod \in 0..(Mod - 1)
           /\ a % Mod # (a + 1) % Mod
           /\ ((a % Mod) + 1) % Mod = (a + 1) % Mod
<1>0. Mod \in Nat /\ Mod > 1
  BY XmodemAssumption
<1>1. a % Mod \in 0..(Mod - 1)
  BY <1>0, Division
<1>2. a + 1 \in Nat
  OBVIOUS
<1>3. (a + 1) % Mod \in 0..(Mod - 1)
  BY <1>0, <1>2, Division
<1>4. (a + 1) % Mod = IF a % Mod = Mod - 1 THEN 0 ELSE (a % Mod) + 1
  BY <1>0, NextNumber
<1>5. PICK r \in 0..(Mod - 1) : r = a % Mod
  BY <1>1
<1>6. r \div Mod = 0 /\ r % Mod = r
  <2>1. r \in Nat /\ r = Mod * 0 + r
    BY <1>0
  <2>2. PICK q \in Int, s \in 0..(Mod - 1) : r = Mod * q + s /\ s = r % Mod /\ q = r \div Mod
    BY <1>0, <2>1, Division
  <2>3. s = r
    BY <1>0, <2>1, <2>2, SameRemainder
  <2>4. Mod * q = 0
    BY <1>0, <2>2, <2>3
  <2>5. q = 0
    BY <1>0, <2>4
  <2> QED BY <2>2, <2>3, <2>5
<1>7. (r + 1) % Mod = IF r = Mod - 1 THEN 0 ELSE r + 1
  <2>1. r \in Nat
    BY <1>0
  <2>2. (r + 1) % Mod = IF r % Mod = Mod - 1 THEN 0 ELSE (r % Mod) + 1
    BY <1>0, <2>1, NextNumber
  <2> QED BY <1>6, <2>2
<1> QED BY <1>0, <1>1, <1>3, <1>4, <1>5, <1>7

----------------------------------------------------------------------------
(* Types.  The count of polls needs more than its range: a transfer whose  *)
(* counters are not reset yet may be polled once too often.                *)

Bufs == [soh: BOOLEAN, num: 0..(Mod - 1), file: Nat, block: Nat]

XType == [bXmodem: BOOLEAN, started: BOOLEAN, crc: BOOLEAN, timeout: 0..(AbortAfter + 2),
          blk: 0..(Mod - 1), buf: Bufs]
FpType == [file: 0..MaxFiles, size: Nat, next: Nat, open: BOOLEAN]
RcvType == [crc: BOOLEAN, got: Seq(Nat \X Nat), state: {"ready", "done", "gone"}]

Types ==
    /\ connected \in BOOLEAN /\ hasty \in BOOLEAN /\ crashed \in BOOLEAN
    /\ x \in XType
    /\ fp \in FpType /\ fp.next <= fp.size
    /\ script \in {"idle", "flag", "reset", "block"}
    /\ to \in Seq(Packets) /\ Len(to) <= MaxLine
    /\ from \in Seq(Answers) /\ Len(from) <= MaxLine
    /\ rcv \in RcvType
    /\ said \in {"none", "Completed", "Aborted"}

Counted ==
    /\ x.bXmodem => x.timeout <= AbortAfter + 1
    /\ script # "reset" => x.timeout <= AbortAfter + 1
    /\ x.bXmodem /\ script # "reset" => x.timeout <= AbortAfter

Typed == Types /\ Counted

\* The fields, one by one.
LEMMA Fields ==
    ASSUME Types
    PROVE  /\ x.bXmodem \in BOOLEAN /\ x.started \in BOOLEAN /\ x.crc \in BOOLEAN
           /\ x.timeout \in 0..(AbortAfter + 2) /\ x.blk \in 0..(Mod - 1) /\ x.buf \in Bufs
           /\ fp.file \in 0..MaxFiles /\ fp.size \in Nat /\ fp.next \in Nat /\ fp.open \in BOOLEAN
           /\ fp.next <= fp.size
           /\ rcv.crc \in BOOLEAN /\ rcv.got \in Seq(Nat \X Nat) /\ rcv.state \in {"ready", "done", "gone"}
BY DEF Types, XType, FpType, RcvType

LEMMA Zero ==
    /\ 0 \in 0..(AbortAfter + 2) /\ AbortAfter \in 0..(AbortAfter + 2) /\ 0 \in 0..(Mod - 1)
    /\ 0 \in 0..MaxFiles /\ AbortAfter \in Nat
BY XmodemAssumption

LEMMA TypedInit == Init => Typed
<1> SUFFICES ASSUME Init PROVE Typed
  OBVIOUS
<1>1. /\ Mod \in Nat /\ Mod > 1 /\ AbortAfter \in Nat /\ MaxFiles \in Nat /\ MaxLine \in Nat
  BY XmodemAssumption
<1>2. x.buf \in Bufs
  BY <1>1 DEF Init, NoPacket, Bufs
<1>3. /\ x.bXmodem = FALSE /\ x.started \in BOOLEAN /\ x.crc = FALSE /\ x.timeout \in {0, AbortAfter}
      /\ x.blk = 0
      /\ x = [bXmodem |-> x.bXmodem, started |-> x.started, crc |-> x.crc, timeout |-> x.timeout,
              blk |-> x.blk, buf |-> x.buf]
  BY DEF Init
<1>4. x \in XType
  BY <1>2, <1>3, Zero DEF XType
<1>5. rcv \in RcvType /\ fp \in FpType /\ fp.next <= fp.size
  BY <1>1 DEF Init, RcvType, FpType
<1>6. to \in Seq(Packets) /\ from \in Seq(Answers) /\ Len(to) = 0 /\ Len(from) = 0
  BY DEF Init
<1>7. Types
  <2>1. /\ connected \in BOOLEAN /\ hasty \in BOOLEAN /\ crashed \in BOOLEAN
        /\ script = "idle" /\ said = "none"
    BY DEF Init
  <2> QED BY <1>1, <1>4, <1>5, <1>6, <2>1 DEF Types
<1>8. Counted
  BY <1>3, Zero DEF Counted
<1> QED BY <1>7, <1>8 DEF Typed

\* A packet on the line.
LEMMA SentType ==
    ASSUME Types, NEW buf \in Bufs, NEW crc \in BOOLEAN
    PROVE  Sent(buf, crc) \in Seq(Packets) /\ Len(Sent(buf, crc)) <= MaxLine
<1> DEFINE p == [soh |-> buf.soh, num |-> buf.num, file |-> buf.file, block |-> buf.block, crc |-> crc]
<1>1. p \in Packets
  BY DEF Bufs, Packets
<1>2. Sent(buf, crc) = IF connected /\ Len(to) < MaxLine THEN Append(to, p) ELSE to
  BY DEF Sent
<1> HIDE DEF p
<1>3. Append(to, p) \in Seq(Packets) /\ Len(Append(to, p)) = Len(to) + 1
  BY <1>1 DEF Types
<1> QED BY <1>2, <1>3, XmodemAssumption DEF Types

LEMMA AnsweredType ==
    ASSUME Types, NEW a \in Answers, Answered(a)
    PROVE  from' \in Seq(Answers) /\ Len(from') <= MaxLine
BY XmodemAssumption DEF Types, Answered

LEMMA NextBufType == ASSUME Types PROVE NextBuf \in Bufs /\ (x.blk + 1) % Mod \in 0..(Mod - 1)
<1>1. PICK k \in Nat : k = x.blk
  BY Fields, XmodemAssumption
<1>2. (k + 1) % Mod \in 0..(Mod - 1)
  BY Numbers
<1>3. fp.file \in Nat /\ fp.next \in Nat
  BY Fields, XmodemAssumption
<1> QED BY <1>1, <1>2, <1>3 DEF NextBuf, Bufs

LEMMA BlockReadType ==
    ASSUME Types
    PROVE  /\ BlockRead \in FpType
           /\ BlockRead.next <= BlockRead.size
           /\ BlockRead.file = fp.file /\ BlockRead.size = fp.size
           /\ BlockRead.next = IF fp.next < fp.size THEN fp.next + 1 ELSE fp.next
<1>1. CASE fp.next < fp.size
  <2>1. BlockRead = [fp EXCEPT !.next = fp.next + 1]
    BY <1>1 DEF BlockRead
  <2>2. fp.next + 1 \in Nat /\ fp.next + 1 <= fp.size
    BY <1>1, Fields
  <2> QED BY <1>1, <2>1, <2>2 DEF Types, FpType
<1>2. CASE ~(fp.next < fp.size)
  <2>1. BlockRead = [fp EXCEPT !.open = FALSE]
    BY <1>2 DEF BlockRead
  <2> QED BY <1>2, <2>1 DEF Types, FpType
<1> QED BY <1>1, <1>2

LEMMA TypedFile == ASSUME Typed, SendFile PROVE Typed'
<1>0. /\ Mod \in Nat /\ Mod > 1 /\ AbortAfter \in Nat /\ MaxFiles \in Nat /\ Sizes \subseteq Nat
  BY XmodemAssumption
<1>1. CASE Open
  <2>1. fp' \in FpType /\ fp'.next <= fp'.size
    BY <1>0, <1>1 DEF Open, Typed, Types, FpType
  <2>2. rcv' \in RcvType
    <3>1. CASE x.bXmodem
      BY <1>1, <3>1 DEF Open, Typed, Types
    <3>2. CASE ~x.bXmodem
      <4>1. PICK crc \in BOOLEAN : rcv' = [crc |-> crc, got |-> <<>>, state |-> "ready"]
        BY <1>1, <3>2 DEF Open
      <4>2. <<>> \in Seq(Nat \X Nat)
        OBVIOUS
      <4> QED BY <4>1, <4>2 DEF RcvType
    <3> QED BY <3>1, <3>2
  <2>3. UNCHANGED <<connected, x, to, from, crashed>> /\ script' = "flag" /\ said' = "none" /\ hasty' = FALSE
    BY <1>1 DEF Open
  <2>4. script = "idle"
    BY <1>1 DEF Open
  <2> QED BY <2>1, <2>2, <2>3, <2>4 DEF Typed, Types, Counted
<1>2. CASE SetXmodem
  <2>1. /\ x' \in XType
        /\ x'.timeout = x.timeout
    BY <1>2 DEF SetXmodem, Typed, Types, XType
  <2> QED BY <1>2, <2>1 DEF SetXmodem, Typed, Types, Counted
<1>3. CASE Reset
  <2>1. /\ x' \in XType
        /\ x'.timeout = 0
    BY <1>3, Zero DEF Reset, Typed, Types, XType
  <2> QED BY <1>0, <1>3, <2>1 DEF Reset, Typed, Types, Counted
<1>4. CASE FirstBlock
  <2>1. NextBuf \in Bufs /\ (x.blk + 1) % Mod \in 0..(Mod - 1)
    BY NextBufType DEF Typed
  <2>2. /\ x' \in XType
        /\ x'.timeout = x.timeout /\ x'.bXmodem = x.bXmodem
    BY <1>4, <2>1 DEF FirstBlock, Typed, Types, XType
  <2>3. crashed' \in BOOLEAN
    BY <1>4 DEF FirstBlock, Typed, Types
  <2> QED BY <1>4, <2>2, <2>3, BlockReadType DEF FirstBlock, Typed, Types, Counted
<1> QED BY <1>1, <1>2, <1>3, <1>4 DEF SendFile

\* What a poll does to the transfer.
LEMMA TypedPoll == ASSUME Typed, Poll PROVE Typed'
<1>0. /\ Mod \in Nat /\ Mod > 1 /\ AbortAfter \in Nat /\ x.bXmodem /\ Types /\ Counted
  BY XmodemAssumption DEF Poll, Typed
<1>1. PICK op \in Answers \cup {"none"} : xmodem_recv(op)
  BY <1>0 DEF Poll, Types
<1>2. from' \in Seq(Answers) /\ Len(from') <= MaxLine
  <2>1. CASE UNCHANGED from BY <1>0, <2>1 DEF Types
  <2>2. ASSUME NEW n \in 1..Len(from), from' = SubSeq(from, n + 1, Len(from))
        PROVE  from' \in Seq(Answers) /\ Len(from') <= MaxLine
    BY <1>0, <2>2, XmodemAssumption DEF Types
  <2> QED BY <2>1, <2>2 DEF Poll
<1>3. /\ x' \in XType /\ to' \in Seq(Packets) /\ Len(to') <= MaxLine
      /\ fp' \in FpType /\ fp'.next <= fp'.size
      /\ said' \in {"none", "Completed", "Aborted"} /\ crashed' \in BOOLEAN
      /\ \/ x'.timeout <= x.timeout
         \/ x'.timeout = x.timeout + 1 /\ (x'.bXmodem => x'.timeout <= AbortAfter)
  <2>1. CASE op = "none"
    <3>0. Silence
      BY <1>1, <2>1 DEF xmodem_recv
    <3>1. PICK t \in 0..(AbortAfter + 2) : t = x.timeout + 1
      BY <1>0, Fields DEF Counted
    <3>2. PICK b \in BOOLEAN : b = (t <= AbortAfter)
      <4>1. CASE t <= AbortAfter
        <5>1. (t <= AbortAfter) = TRUE
          BY <4>1
        <5> QED BY <5>1, Zenon
      <4>2. CASE ~(t <= AbortAfter)
        <5>1. (t <= AbortAfter) = FALSE
          BY <4>2
        <5> QED BY <5>1, Zenon
      <4> QED BY <4>1, <4>2
    <3>3. x' \in XType /\ x'.timeout = t /\ x'.bXmodem = b
      <4>1. x' = [x EXCEPT !.timeout = t, !.bXmodem = b]
        BY <3>0, <3>1, <3>2 DEF Silence
      <4> QED BY <1>0, <4>1 DEF Types, XType
    <3>4. to' \in Seq(Packets) /\ Len(to') <= MaxLine
      <4>1. x.buf \in Bufs /\ x.crc \in BOOLEAN
        BY <1>0, Fields
      <4>2. to' = Sent(x.buf, x.crc) \/ to' = to
        BY <3>0 DEF Silence
      <4> QED BY <1>0, <4>1, <4>2, SentType DEF Types
    <3>5. fp' \in FpType /\ fp'.next <= fp'.size
      BY <1>0, <3>0 DEF Silence, Types, FpType
    <3>6. said' \in {"none", "Completed", "Aborted"}
      BY <1>0, <3>0 DEF Silence, Types
    <3>7. crashed' \in BOOLEAN
      BY <3>0 DEF Silence
    <3> QED BY <3>1, <3>2, <3>3, <3>4, <3>5, <3>6, <3>7
  <2>2. CASE op = "ACK"
    <3>0. Acked
      BY <1>1, <2>2 DEF xmodem_recv
    <3>1. NextBuf \in Bufs /\ (x.blk + 1) % Mod \in 0..(Mod - 1) /\ x.crc \in BOOLEAN
      BY <1>0, NextBufType, Fields
    <3>2. Sent(NextBuf, x.crc) \in Seq(Packets) /\ Len(Sent(NextBuf, x.crc)) <= MaxLine
      BY <1>0, <3>1, SentType
    <3>3. CASE ~x.buf.soh
      <4>1. x' = [x EXCEPT !.timeout = 0, !.bXmodem = FALSE] /\ UNCHANGED <<fp, to, crashed>> /\ said' = "Completed"
        BY <3>0, <3>3 DEF Acked
      <4>2. x' \in XType /\ x'.timeout = 0
        BY <1>0, <4>1, Zero DEF Types, XType
      <4>3. x.timeout \in Nat
        BY <1>0, Fields
      <4> QED BY <1>0, <4>1, <4>2, <4>3 DEF Types
    <3>4. CASE x.buf.soh
      <4>1. /\ x' = [x EXCEPT !.timeout = 0, !.blk = (@ + 1) % Mod, !.started = TRUE, !.buf = NextBuf]
            /\ fp' = BlockRead /\ to' = Sent(NextBuf, x.crc) /\ crashed' = ~fp.open /\ said' = said
        BY <3>0, <3>4 DEF Acked
      <4>2. x' \in XType /\ x'.timeout = 0
        BY <1>0, <3>1, <4>1, Zero DEF Types, XType
      <4>3. crashed' \in BOOLEAN
        BY <4>1
      <4>4. fp' \in FpType /\ fp'.next <= fp'.size
        BY <1>0, <4>1, BlockReadType
      <4>5. said' \in {"none", "Completed", "Aborted"} /\ x.timeout \in Nat
        BY <1>0, <4>1, Fields DEF Types
      <4> QED BY <3>2, <4>1, <4>2, <4>3, <4>4, <4>5
    <3> QED BY <3>3, <3>4
  <2>3. CASE op \in {"NAK", "C"}
    <3>1. PICK c \in BOOLEAN : /\ x' = [x EXCEPT !.started = TRUE, !.crc = c]
                               /\ to' = Sent(x.buf, c)
                               /\ UNCHANGED <<fp, said, crashed>>
      <4>1. CASE op = "NAK"
        <5>1. Nacked
          BY <1>1, <4>1 DEF xmodem_recv
        <5>2. [x EXCEPT !.started = TRUE] = [x EXCEPT !.started = TRUE, !.crc = x.crc] /\ x.crc \in BOOLEAN
          BY <1>0 DEF Types, XType
        <5> QED BY <5>1, <5>2 DEF Nacked
      <4>2. CASE op = "C"
        <5>1. StartCrc
          BY <1>1, <4>2 DEF xmodem_recv
        <5> QED BY <5>1 DEF StartCrc
      <4> QED BY <2>3, <4>1, <4>2
    <3>2. x' \in XType /\ x'.timeout = x.timeout
      BY <1>0, <3>1 DEF Types, XType
    <3>3. x.buf \in Bufs /\ x.timeout \in Nat
      BY <1>0, Fields
    <3> QED BY <1>0, <3>1, <3>2, <3>3, SentType DEF Types
  <2>4. CASE op = "text"
    <3>1. UNCHANGED <<x, fp, to, said, crashed>>
      BY <1>1, <2>4 DEF xmodem_recv
    <3>2. x.timeout \in Nat
      BY <1>0, Fields
    <3> QED BY <1>0, <3>1, <3>2 DEF Types
  <2> QED BY <2>1, <2>2, <2>3, <2>4 DEF Answers
<1>4. hasty' \in BOOLEAN /\ UNCHANGED <<connected, script, rcv>>
  BY <1>0 DEF Poll, Types
<1>5. Types'
  BY <1>0, <1>2, <1>3, <1>4 DEF Types
<1>6. Counted'
  <2>1. x.timeout \in Nat /\ x'.timeout \in Nat /\ script' = script
    BY <1>0, <1>3, <1>4, Fields DEF XType
  <2>2. CASE x'.timeout <= x.timeout
    BY <1>0, <2>1, <2>2 DEF Counted
  <2>3. CASE x'.timeout = x.timeout + 1 /\ (x'.bXmodem => x'.timeout <= AbortAfter)
    BY <1>0, <2>1, <2>3 DEF Counted
  <2> QED BY <1>3, <2>2, <2>3
<1> QED BY <1>5, <1>6 DEF Typed

\* The line and the receiver leave the sender alone.
LEMMA TypedLine ==
    ASSUME Typed, Display \/ Disconnect \/ Reconnect \/ Receiver \/ Lose
    PROVE  Typed'
<1>0. UNCHANGED <<x, fp, script, said, hasty, crashed>> /\ connected' \in BOOLEAN
  BY DEF Display, Disconnect, Reconnect, Receiver, TakeBlock, RefuseBlock, TakeEot, Ask, Leave,
         Lose, Typed, Types
<1>1. to' \in Seq(Packets) /\ Len(to') <= MaxLine
  <2>1. to' = to \/ to' = <<>> \/ (to # <<>> /\ to' = Tail(to))
    BY DEF Display, Disconnect, Reconnect, Receiver, TakeBlock, RefuseBlock, TakeEot, Ask, Leave, Lose
  <2>2. CASE to # <<>> /\ to' = Tail(to)
    <3>1. to \in Seq(Packets) /\ Len(to) <= MaxLine /\ MaxLine \in Nat
      BY XmodemAssumption DEF Typed, Types
    <3>2. Tail(to) \in Seq(Packets) /\ Len(Tail(to)) = Len(to) - 1
      BY <2>2, <3>1
    <3> QED BY <2>2, <3>1, <3>2
  <2>3. CASE to' = <<>>
    BY <2>3, XmodemAssumption DEF Typed, Types
  <2>4. CASE to' = to
    BY <2>4 DEF Typed, Types
  <2> QED BY <2>1, <2>2, <2>3, <2>4
<1>2. from' \in Seq(Answers) /\ Len(from') <= MaxLine
  <2>1. \/ from' = from \/ from' = <<>> \/ (from # <<>> /\ from' = Tail(from))
        \/ \E a \in Answers : Answered(a)
    BY DEF Display, Disconnect, Reconnect, Receiver, TakeBlock, RefuseBlock, TakeEot, Ask, Leave, Lose, Answers
  <2>2. CASE from # <<>> /\ from' = Tail(from)
    <3>1. from \in Seq(Answers) /\ Len(from) <= MaxLine /\ MaxLine \in Nat
      BY XmodemAssumption DEF Typed, Types
    <3>2. Tail(from) \in Seq(Answers) /\ Len(Tail(from)) = Len(from) - 1
      BY <2>2, <3>1
    <3> QED BY <2>2, <3>1, <3>2
  <2>3. CASE from' = <<>>
    BY <2>3, XmodemAssumption DEF Typed, Types
  <2>4. CASE from' = from
    BY <2>4 DEF Typed, Types
  <2> QED BY <2>1, <2>2, <2>3, <2>4, AnsweredType DEF Typed
<1>3. rcv' \in RcvType
  <2>1. CASE TakeBlock
    <3>1. Head(to) \in Packets
      BY <2>1 DEF TakeBlock, Typed, Types
    <3>2. <<Head(to).file, Head(to).block>> \in Nat \X Nat
      BY <3>1 DEF Packets
    <3>3. rcv.got \in Seq(Nat \X Nat)
      BY Fields DEF Typed
    <3>4. Append(rcv.got, <<Head(to).file, Head(to).block>>) \in Seq(Nat \X Nat)
      BY <3>2, <3>3
    <3> QED BY <2>1, <3>4 DEF TakeBlock, Typed, Types, RcvType
  <2>2. CASE TakeEot \/ Leave
    BY <2>2 DEF TakeEot, Leave, Typed, Types, RcvType
  <2>3. CASE UNCHANGED rcv
    BY <2>3 DEF Typed, Types
  <2> QED BY <2>1, <2>2, <2>3 DEF Display, Disconnect, Reconnect, Receiver, RefuseBlock, Ask, Lose
<1> QED BY <1>0, <1>1, <1>2, <1>3 DEF Typed, Types, Counted

LEMMA TypedStep == Typed /\ [Next]_vars => Typed'
<1>1. Typed /\ UNCHANGED vars => Typed'
  BY DEF vars, Typed, Types, Counted
<1> QED BY <1>1, TypedFile, TypedPoll, TypedLine DEF Next

LEMMA TypedAlways == Spec => []Typed
BY TypedInit, TypedStep, PTL DEF Spec

\* Every variable keeps its type, whatever the timing and however files are dropped.
THEOREM TypeCorrect == Spec => []TypeOK
<1>1. Typed => TypeOK
  BY Fields DEF Typed, Types, TypeOK
<1> QED BY <1>1, TypedAlways, PTL

----------------------------------------------------------------------------
(* What is on its way: when empty polls mean an empty line, one packet or  *)
(* one answer to it, and the word of a receiver that has left.             *)

Quiet(q) == \A n \in 1..Len(q) : q[n] = "text"

Flight ==
    /\ Len(to) <= 1
    /\ to # <<>> => Quiet(from)
    /\ \A n \in 1..Len(from) : n > 1 => from[n] = "text"
    /\ rcv.state # "gone" => Len(to) + Len(from) <= 1

LEMMA FlightInit == Init => Flight
BY DEF Init, Flight, Quiet

\* A packet is put on an empty line, or lost.
LEMMA SentOne ==
    ASSUME NEW buf, NEW crc, to = <<>>
    PROVE  LET p == [soh |-> buf.soh, num |-> buf.num, file |-> buf.file, block |-> buf.block, crc |-> crc]
           IN  Sent(buf, crc) \in {<<>>, <<p>>}
BY DEF Sent

\* A poll takes what comes up to the byte that counts, and sends at most one packet,
\* on an empty line.
LEMMA PollLine ==
    ASSUME Typed, Flight, Timely, Poll
    PROVE  /\ Quiet(from') /\ Len(from') <= Len(from)
           /\ rcv.state # "gone" => from' = <<>>
           /\ to' = to \/ (to = <<>> /\ Len(to') <= 1 /\ (from = <<>> \/ Len(from') < Len(from)))
           /\ \/ xmodem_recv("none") /\ to = <<>> /\ from = <<>>
              \/ \E n \in 1..Len(from) : xmodem_recv(from[n])
<1>0. to \in Seq(Packets) /\ from \in Seq(Answers)
  BY DEF Typed, Types
<1>1. CASE to = <<>> /\ from = <<>> /\ xmodem_recv("none") /\ UNCHANGED from
  <2>1. to' = Sent(x.buf, x.crc) \/ to' = to
    BY <1>1 DEF xmodem_recv, Silence
  <2>2. Len(to') <= 1
    BY <1>1, <2>1, SentOne
  <2> QED BY <1>1, <2>2 DEF Quiet
<1>2. ASSUME NEW n \in 1..Len(from), xmodem_recv(from[n]), from' = SubSeq(from, n + 1, Len(from))
      PROVE  /\ Quiet(from') /\ Len(from') < Len(from)
             /\ rcv.state # "gone" => from' = <<>>
             /\ to' = to \/ (to = <<>> /\ Len(to') <= 1)
  <2>1. Len(from') = Len(from) - n /\ \A m \in 1..(Len(from) - n) : from'[m] = from[n + m]
    BY <1>0, <1>2
  <2>2. Quiet(from')
    BY <2>1 DEF Quiet, Flight
  <2>3. rcv.state # "gone" => from' = <<>>
    <3> SUFFICES ASSUME rcv.state # "gone" PROVE from' = <<>>
      OBVIOUS
    <3>1. Len(from) <= 1
      BY <1>0 DEF Flight
    <3> QED BY <1>0, <1>2, <2>1, <3>1
  <2>4. to' = to \/ (to = <<>> /\ Len(to') <= 1)
    <3>1. CASE from[n] = "text"
      BY <1>2, <3>1 DEF xmodem_recv
    <3>2. CASE from[n] # "text"
      <4>1. to = <<>>
        BY <3>2 DEF Flight, Quiet
      <4>2. to' = to \/ \E buf, crc : to' = Sent(buf, crc)
        <5>1. from[n] \in {"ACK", "NAK", "C"}
          BY <1>0, <1>2, <3>2 DEF Answers
        <5>2. CASE from[n] = "ACK" BY <1>2, <5>2 DEF xmodem_recv, Acked
        <5>3. CASE from[n] = "NAK" BY <1>2, <5>3 DEF xmodem_recv, Nacked
        <5>4. CASE from[n] = "C" BY <1>2, <5>4 DEF xmodem_recv, StartCrc
        <5> QED BY <5>1, <5>2, <5>3, <5>4
      <4> QED BY <4>1, <4>2, SentOne
    <3> QED BY <3>1, <3>2
  <2> QED BY <1>0, <2>1, <2>2, <2>3, <2>4
<1> QED BY <1>1, <1>2 DEF Poll

LEMMA AlmostEmpty == ASSUME to' = <<>>, Len(from') \in 0..1 PROVE Flight'
<1>1. PICK k \in 0..1 : k = Len(from')
  OBVIOUS
<1>2. Len(to') = 0
  OBVIOUS
<1>3. \A n \in 1..k : ~(n > 1)
  BY <1>1
<1>4. 0 + k <= 1
  BY <1>1
<1> QED BY <1>1, <1>2, <1>3, <1>4 DEF Flight

LEMMA FlightStep == ASSUME Typed, Flight, Timely, [Next]_vars PROVE Flight'
<1>0. to \in Seq(Packets) /\ from \in Seq(Answers) /\ rcv \in RcvType
  BY DEF Typed, Types
<1>1. CASE Open
  <2>1. to = <<>> /\ from = <<>> /\ to' = <<>> /\ from' = <<>>
    BY <1>1 DEF Open
  <2> QED BY <2>1 DEF Flight, Quiet
<1>2. CASE SetXmodem \/ Reset \/ FirstBlock \/ Reconnect \/ UNCHANGED vars
  <2>1. UNCHANGED <<to, from, rcv>>
    BY <1>2 DEF SetXmodem, Reset, FirstBlock, Reconnect, vars
  <2> QED BY <2>1 DEF Flight, Quiet
<1>3. CASE Poll
  <2>1. /\ Quiet(from') /\ Len(from') <= Len(from)
        /\ rcv.state # "gone" => from' = <<>>
        /\ to' = to \/ (to = <<>> /\ Len(to') <= 1)
    BY <1>3, PollLine
  <2>2. rcv' = rcv
    BY <1>3 DEF Poll
  <2>3. Len(to') <= 1
    BY <2>1 DEF Flight
  <2> QED BY <2>1, <2>2, <2>3 DEF Flight, Quiet
<1>4. CASE Display
  <2>1. from' = <<>> /\ UNCHANGED <<to, rcv>>
    BY <1>4 DEF Display
  <2> QED BY <1>0, <2>1 DEF Flight, Quiet
<1>5. CASE Disconnect
  <2>1. from' = <<>> /\ to' = <<>>
    BY <1>5 DEF Disconnect
  <2> QED BY <2>1 DEF Flight, Quiet
<1>6. CASE TakeBlock \/ RefuseBlock \/ TakeEot
  <2>1. to # <<>> /\ to' = Tail(to) /\ rcv.state # "gone" /\ \E a \in Answers : Answered(a)
    BY <1>6 DEF TakeBlock, RefuseBlock, TakeEot, Answers
  <2>2. Len(to) = 1 /\ from = <<>>
    <3>1. Len(to) + Len(from) <= 1
      BY <2>1 DEF Flight
    <3>2. PICK a \in Nat, b \in Nat : a = Len(to) /\ b = Len(from)
      BY <1>0
    <3>3. a # 0
      BY <1>0, <2>1, <3>2
    <3>4. a = 1 /\ b = 0
      BY <3>1, <3>2, <3>3
    <3>5. Len(to) = 1 /\ Len(from) = 0
      BY <3>2, <3>4
    <3>6. from = <<>>
      BY <1>0, <3>5
    <3> QED BY <3>5, <3>6
  <2>3. to' = <<>>
    BY <1>0, <2>1, <2>2
  <2>4. PICK a \in Answers : from' = <<a>> \/ from' = <<>>
    BY <2>1, <2>2 DEF Answered
  <2>5. Len(from') \in 0..1
    <3>1. CASE from' = <<a>> BY <3>1
    <3>2. CASE from' = <<>> BY <3>2
    <3> QED BY <2>4, <3>1, <3>2
  <2> QED BY <2>3, <2>5, AlmostEmpty
<1>7. CASE Ask
  <2>1. to = <<>> /\ from = <<>> /\ to' = to /\ rcv' = rcv /\ \E a \in Answers : Answered(a)
    BY <1>7 DEF Ask, Answers
  <2>2. PICK a \in Answers : from' = <<a>> \/ from' = <<>>
    BY <2>1 DEF Answered
  <2>3. Len(from') \in 0..1
    <3>1. CASE from' = <<a>> BY <3>1
    <3>2. CASE from' = <<>> BY <3>2
    <3> QED BY <2>2, <3>1, <3>2
  <2> QED BY <2>1, <2>3, AlmostEmpty
<1>8. CASE Leave
  <2>1. rcv.state # "gone" /\ rcv'.state = "gone" /\ to' = to
    BY <1>0, <1>8 DEF Leave, RcvType
  <2>2. Answered("text") \/ from' = from
    BY <1>8 DEF Leave
  <2>3. from' = from \/ from' = Append(from, "text")
    BY <2>2 DEF Answered
  <2>4. Len(from) <= 1 /\ (to # <<>> => from = <<>>)
    BY <1>0, <2>1 DEF Flight
  <2>5. CASE from' = from
    BY <2>1, <2>5 DEF Flight, Quiet
  <2>6. CASE from' = Append(from, "text")
    <3>1. Len(from') = Len(from) + 1 /\ from'[Len(from) + 1] = "text"
      BY <1>0, <2>6 DEF Answers
    <3>2. \A n \in 1..Len(from') : n > 1 => from'[n] = "text"
      BY <1>0, <2>4, <3>1
    <3>3. to # <<>> => Quiet(from')
      BY <1>0, <2>4, <3>1 DEF Quiet
    <3> QED BY <2>1, <3>2, <3>3 DEF Flight
  <2> QED BY <2>3, <2>5, <2>6
<1>9. CASE Lose
  <2>1. rcv' = rcv
    BY <1>9 DEF Lose
  <2>2. CASE to # <<>> /\ to' = Tail(to) /\ UNCHANGED from
    <3>1. to' = <<>>
      BY <1>0, <2>2 DEF Flight
    <3>2. Len(to') + Len(from') <= Len(to) + Len(from)
      BY <1>0, <2>2, <3>1
    <3> QED BY <1>0, <2>1, <2>2, <3>1, <3>2 DEF Flight
  <2>3. CASE from # <<>> /\ from' = Tail(from) /\ UNCHANGED to
    <3>1. Len(from') = Len(from) - 1 /\ \A n \in 1..(Len(from) - 1) : from'[n] = from[n + 1]
      BY <1>0, <2>3
    <3>2. Quiet(from')
      BY <1>0, <3>1 DEF Flight, Quiet
    <3> QED BY <1>0, <2>1, <2>3, <3>1, <3>2 DEF Flight, Quiet
  <2> QED BY <1>9, <2>2, <2>3 DEF Lose
<1> QED BY <1>1, <1>2, <1>3, <1>4, <1>5, <1>6, <1>7, <1>8, <1>9 DEF Next, SendFile, Receiver

----------------------------------------------------------------------------
(* The transfer, when files are sent one by one.                           *)

Acks(q) == \E n \in 1..Len(q) : q[n] = "ACK"

\* The packet p is the block or the EOT in b.
Copy(p, b) == p.soh = b.soh /\ p.num = b.num /\ p.file = b.file /\ p.block = b.block

\* While send_file() prepares it, nothing has been sent.
Fresh ==
    /\ to = <<>> /\ rcv.got = <<>> /\ fp.next = 0 /\ fp.file > 0
    /\ ~Acks(from)
    /\ script = "flag" => ~x.bXmodem
    /\ script # "flag" => x.bXmodem
    /\ script = "block" => x.blk = 0

\* Then buf is the block the receiver lacks or has just got, or the EOT after the
\* last one, and an ACK on its way acknowledges it.
Current ==
    /\ x.buf.soh =>
         /\ fp.next > 0 /\ x.buf.file = fp.file /\ x.buf.block = fp.next
         /\ x.buf.num = fp.next % Mod /\ x.blk = fp.next % Mod
         /\ Len(rcv.got) \in {fp.next - 1, fp.next}
    /\ ~x.buf.soh => fp.next = fp.size /\ Len(rcv.got) = fp.size
    /\ Acks(from) => Len(rcv.got) = fp.next
    /\ \A n \in 1..Len(to) : Copy(to[n], x.buf)

\* Before the first file.
Unused ==
    /\ script = "idle" /\ ~x.bXmodem /\ to = <<>>
    /\ rcv.got = <<>> /\ rcv.state = "gone" /\ fp.size = 0

InOrder == Len(rcv.got) <= fp.size /\ \A i \in 1..Len(rcv.got) : rcv.got[i] = <<fp.file, i>>

Sending ==
    ~hasty =>
        /\ fp.file = 0 => Unused
        /\ script # "idle" => Fresh
        /\ script = "idle" /\ fp.file > 0 => Current
        /\ InOrder

LEMMA SendingInit == Init => Sending
<1> SUFFICES ASSUME Init PROVE Sending
  OBVIOUS
<1>1. fp.file = 0 /\ fp.size = 0 /\ script = "idle" /\ to = <<>> /\ rcv.got = <<>> /\ rcv.state = "gone"
  BY DEF Init
<1>2. ~x.bXmodem
  BY DEF Init
<1> QED BY <1>1, <1>2 DEF Sending, Unused, InOrder

\* A step that sends nothing but copies of buf and acknowledges nothing new.
LEMMA CurrentKept ==
    ASSUME Current, x'.buf = x.buf, x'.blk = x.blk, rcv'.got = rcv.got,
           fp'.next = fp.next, fp'.size = fp.size, fp'.file = fp.file,
           Acks(from') => Acks(from), \A n \in 1..Len(to') : Copy(to'[n], x.buf)
    PROVE  Current'
BY DEF Current

\* A step that leaves the sender alone and takes nothing.
LEMMA LineStep ==
    ASSUME Sending, ~hasty, UNCHANGED <<x, fp, script>>, rcv'.got = rcv.got,
           rcv.state = "gone" => rcv'.state = "gone",
           Acks(from') => Acks(from),
           \A n \in 1..Len(to') : \E m \in 1..Len(to) : to'[n] = to[m], to = <<>> => to' = <<>>
    PROVE  Sending'
<1>1. fp.file = 0 => Unused'
  BY DEF Sending, Unused
<1>2. script # "idle" => Fresh'
  BY DEF Sending, Fresh
<1>3. script = "idle" /\ fp.file > 0 => Current'
  <2>1. ASSUME Current PROVE \A n \in 1..Len(to') : Copy(to'[n], x.buf)
    BY <2>1 DEF Current
  <2> QED BY <2>1, CurrentKept DEF Sending
<1>4. InOrder'
  BY DEF Sending, InOrder
<1> QED BY <1>1, <1>2, <1>3, <1>4 DEF Sending

LEMMA NextBufIs ==
    /\ NextBuf.num = (x.blk + 1) % Mod /\ NextBuf.file = fp.file
    /\ fp.next < fp.size => NextBuf.soh /\ NextBuf.block = fp.next + 1
    /\ ~(fp.next < fp.size) => ~NextBuf.soh
<1>1. NextBuf.num = (x.blk + 1) % Mod /\ NextBuf.file = fp.file
  BY DEF NextBuf
<1>2. fp.next < fp.size => NextBuf.block = fp.next + 1
  BY DEF NextBuf
<1>3. NextBuf.soh = (fp.next < fp.size)
  BY Zenon DEF NextBuf
<1> QED BY <1>1, <1>2, <1>3

\* send_file().
LEMMA FileStep == ASSUME Typed, Sending, Timely, OneByOne, SendFile PROVE Sending'
<1>0. Types /\ Mod \in Nat /\ Mod > 1
  BY XmodemAssumption DEF Typed
<1>1. CASE Open
  <2>1. /\ to' = <<>> /\ from' = <<>> /\ x' = x /\ ~x.bXmodem /\ script' = "flag"
        /\ fp'.file = fp.file + 1 /\ fp'.next = 0 /\ fp'.size \in Nat
    BY <1>1, XmodemAssumption DEF Open
  <2>2. rcv'.got = <<>>
    BY <1>1, <2>1 DEF Open
  <2>3. fp'.file > 0
    BY <1>0, <2>1, Fields
  <2>4. ~Acks(from')
    BY <2>1 DEF Acks
  <2>5. Fresh'
    BY <2>1, <2>2, <2>3, <2>4 DEF Fresh
  <2>6. InOrder'
    BY <2>1, <2>2 DEF InOrder
  <2> QED BY <2>1, <2>3, <2>5, <2>6 DEF Sending
<1>2. CASE SetXmodem
  <2>1. /\ x'.bXmodem /\ script = "flag" /\ script' = "reset"
        /\ UNCHANGED <<fp, to, from, rcv, hasty>>
    BY <1>0, <1>2 DEF SetXmodem, Types, XType
  <2> QED BY <2>1 DEF Sending, Fresh, InOrder, Unused
<1>3. CASE Reset
  <2>1. /\ x'.bXmodem = x.bXmodem /\ x'.blk = 0 /\ script = "reset" /\ script' = "block"
        /\ UNCHANGED <<fp, to, from, rcv, hasty>>
    BY <1>0, <1>3 DEF Reset, Types, XType
  <2> QED BY <2>1 DEF Sending, Fresh, InOrder, Unused
<1>4. CASE FirstBlock
  <2> SUFFICES ASSUME ~hasty PROVE Sending'
    BY <1>4 DEF FirstBlock, Sending
  <2>1. /\ script = "block" /\ script' = "idle" /\ fp' = BlockRead
        /\ UNCHANGED <<to, from, rcv, hasty>>
    BY <1>4 DEF FirstBlock
  <2>2. x'.blk = (x.blk + 1) % Mod /\ x'.buf = NextBuf
    BY <1>0, <1>4 DEF FirstBlock, Types, XType
  <2>3. Fresh /\ InOrder /\ x.blk = 0 /\ fp.next = 0 /\ Len(rcv.got) = 0
    BY <2>1 DEF Sending, Fresh
  <2>4. /\ fp'.file = fp.file /\ fp'.size = fp.size
        /\ fp'.next = IF fp.next < fp.size THEN fp.next + 1 ELSE fp.next
    BY <1>0, <2>1, BlockReadType
  <2>5. InOrder'
    BY <2>1, <2>3, <2>4 DEF InOrder
  <2>6. fp.file > 0 /\ to = <<>> /\ ~Acks(from) /\ fp.size \in Nat
    BY <1>0, <2>3, Fields DEF Fresh
  <2>7. CASE fp.size > 0
    <3>1. fp'.next = 1
      BY <2>3, <2>4, <2>6, <2>7
    <3>2. /\ NextBuf.soh /\ NextBuf.num = 1 % Mod /\ NextBuf.file = fp.file /\ NextBuf.block = 1
      <4>1. fp.next < fp.size /\ x.blk + 1 = 1 /\ fp.next + 1 = 1
        BY <2>3, <2>6, <2>7
      <4> QED BY <4>1, NextBufIs
    <3>3. x'.blk = 1 % Mod
      BY <2>2, <2>3
    <3>4. Current'
      BY <2>1, <2>2, <2>3, <2>4, <2>6, <3>1, <3>2, <3>3 DEF Current
    <3> QED BY <2>1, <2>4, <2>5, <2>6, <3>4 DEF Sending
  <2>8. CASE fp.size = 0
    <3>1. fp'.next = 0 /\ fp'.size = 0
      BY <2>3, <2>4, <2>8
    <3>2. ~NextBuf.soh
      <4>1. ~(fp.next < fp.size)
        BY <2>3, <2>8
      <4> QED BY <4>1, NextBufIs
    <3>3. Current'
      BY <2>1, <2>2, <2>3, <2>6, <3>1, <3>2 DEF Current
    <3> QED BY <2>1, <2>4, <2>5, <2>6, <3>3 DEF Sending
  <2> QED BY <2>6, <2>7, <2>8
<1> QED BY <1>1, <1>2, <1>3, <1>4 DEF SendFile

\* A poll, once the transfer is prepared.
LEMMA PollStep == ASSUME Typed, Flight, Sending, Timely, Poll PROVE Sending'
<1> SUFFICES ASSUME ~hasty' PROVE Sending'
  BY DEF Sending
<1>0. Types /\ Mod \in Nat /\ Mod > 1 /\ to \in Seq(Packets)
  BY XmodemAssumption DEF Typed, Types
<1>1. ~hasty /\ script = "idle" /\ script' = "idle" /\ rcv' = rcv /\ x.bXmodem
  BY DEF Poll
<1>2. Current /\ InOrder /\ fp.file > 0
  <2>1. fp.file # 0 /\ fp.file \in Nat
    BY <1>0, <1>1, Fields, XmodemAssumption DEF Sending, Unused
  <2> QED BY <1>1, <2>1 DEF Sending
<1>3. Quiet(from') /\ (to' = to \/ to = <<>>)
  BY PollLine
<1>4. ~Acks(from')
  <2> SUFFICES ASSUME NEW n \in 1..Len(from'), from'[n] = "ACK" PROVE FALSE
    BY DEF Acks
  <2> QED BY <1>3 DEF Quiet
<1>5. ASSUME fp'.file = fp.file, fp'.size = fp.size, Current' PROVE Sending'
  BY <1>1, <1>2, <1>5 DEF Sending, InOrder
<1>6. ASSUME NEW buf, NEW crc, to = <<>>, to' = Sent(buf, crc) PROVE \A n \in 1..Len(to') : Copy(to'[n], buf)
  <2> DEFINE q == [soh |-> buf.soh, num |-> buf.num, file |-> buf.file, block |-> buf.block, crc |-> crc]
  <2>1. Copy(q, buf)
    BY DEF Copy
  <2>2. to' \in {<<>>, <<q>>}
    BY <1>6, SentOne
  <2> HIDE DEF q
  <2>3. CASE to' = <<>> BY <2>3
  <2>4. CASE to' = <<q>> BY <2>1, <2>4
  <2> QED BY <2>2, <2>3, <2>4
<1>7. \A n \in 1..Len(to) : Copy(to[n], x.buf)
  BY <1>2 DEF Current
<1>8. ASSUME NEW crc, x'.buf = x.buf, x'.blk = x.blk, fp'.file = fp.file, fp'.size = fp.size, fp'.next = fp.next,
             to' = to \/ (to = <<>> /\ to' = Sent(x.buf, crc))
      PROVE  Sending'
  <2>1. \A n \in 1..Len(to') : Copy(to'[n], x.buf)
    <3>1. CASE to' = to BY <1>7, <3>1
    <3>2. CASE to = <<>> /\ to' = Sent(x.buf, crc) BY <1>6, <3>2
    <3> QED BY <1>8, <3>1, <3>2
  <2>2. rcv'.got = rcv.got
    BY <1>1
  <2> QED BY <1>2, <1>4, <1>5, <1>8, <2>1, <2>2, CurrentKept
<1>9. CASE xmodem_recv("none") /\ to = <<>> /\ from = <<>>
  <2>1. Silence
    BY <1>9 DEF xmodem_recv
  <2>2. x'.buf = x.buf /\ x'.blk = x.blk
    BY <1>0, <2>1 DEF Silence, Types, XType
  <2>3. fp'.file = fp.file /\ fp'.size = fp.size /\ fp'.next = fp.next
    BY <1>0, <2>1 DEF Silence, Types, FpType
  <2>4. to' = to \/ to' = Sent(x.buf, x.crc)
    BY <2>1 DEF Silence
  <2> QED BY <1>8, <1>9, <2>2, <2>3, <2>4
<1>10. ASSUME NEW n \in 1..Len(from), xmodem_recv(from[n]) PROVE Sending'
  <2>1. CASE from[n] = "text"
    <3>1. UNCHANGED <<x, fp, to>>
      BY <1>10, <2>1 DEF xmodem_recv
    <3> QED BY <1>8, <3>1
  <2>2. CASE from[n] # "text"
    <3>0. to = <<>> /\ from[n] \in {"ACK", "NAK", "C"}
      <4>1. from \in Seq(Answers)
        BY <1>0 DEF Types
      <4> QED BY <2>2, <4>1 DEF Flight, Quiet, Answers
    <3>1. CASE from[n] = "NAK"
      <4>1. Nacked
        BY <1>10, <3>1 DEF xmodem_recv
      <4>2. x'.buf = x.buf /\ x'.blk = x.blk /\ fp' = fp /\ to' = Sent(x.buf, x.crc)
        BY <1>0, <4>1 DEF Nacked, Types, XType
      <4> QED BY <1>8, <3>0, <4>2
    <3>2. CASE from[n] = "C"
      <4>1. StartCrc
        BY <1>10, <3>2 DEF xmodem_recv
      <4>2. x'.buf = x.buf /\ x'.blk = x.blk /\ fp' = fp /\ to' = Sent(x.buf, TRUE)
        BY <1>0, <4>1 DEF StartCrc, Types, XType
      <4> QED BY <1>8, <3>0, <4>2
    <3>3. CASE from[n] = "ACK" /\ ~x.buf.soh
      <4>1. x' = [x EXCEPT !.timeout = 0, !.bXmodem = FALSE] /\ UNCHANGED <<fp, to>>
        BY <1>10, <3>3 DEF xmodem_recv, Acked
      <4>2. x'.buf = x.buf /\ x'.blk = x.blk
        BY <1>0, <4>1 DEF Types, XType
      <4> QED BY <1>8, <4>1, <4>2
    <3>4. CASE from[n] = "ACK" /\ x.buf.soh
      <4>1. /\ x' = [x EXCEPT !.timeout = 0, !.blk = (@ + 1) % Mod, !.started = TRUE, !.buf = NextBuf]
            /\ fp' = BlockRead /\ to' = Sent(NextBuf, x.crc)
        BY <1>10, <3>4 DEF xmodem_recv, Acked
      <4>2. x'.buf = NextBuf /\ x'.blk = (x.blk + 1) % Mod
        BY <1>0, <4>1 DEF Types, XType
      <4>3. /\ fp'.file = fp.file /\ fp'.size = fp.size
            /\ fp'.next = IF fp.next < fp.size THEN fp.next + 1 ELSE fp.next
        BY <1>0, <4>1, BlockReadType
      <4>4. Len(rcv.got) = fp.next
        BY <1>2, <3>4 DEF Current, Acks
      <4>5. PICK k \in Nat : k = fp.next /\ x.blk = k % Mod /\ k <= fp.size /\ fp.size \in Nat
        BY <1>0, <1>2, <3>4, Fields DEF Current
      <4>6. (x.blk + 1) % Mod = (k + 1) % Mod
        BY <4>5, Numbers
      <4>7. \A m \in 1..Len(to') : Copy(to'[m], NextBuf)
        BY <1>6, <3>0, <4>1
      <4>8. CASE k < fp.size
        <5>1. fp'.next = k + 1
          BY <4>3, <4>5, <4>8
        <5>2. NextBuf.soh /\ NextBuf.num = (k + 1) % Mod /\ NextBuf.file = fp.file /\ NextBuf.block = k + 1
          BY <4>5, <4>6, <4>8 DEF NextBuf
        <5>3. Len(rcv'.got) = fp'.next - 1 /\ fp'.next > 0
          BY <1>1, <4>4, <4>5, <5>1
        <5>4. Current'
          BY <1>4, <4>2, <4>3, <4>6, <4>7, <5>1, <5>2, <5>3 DEF Current
        <5> QED BY <1>5, <4>3, <5>4
      <4>9. CASE k = fp.size
        <5>1. fp'.next = fp'.size /\ ~NextBuf.soh
          <6>1. ~(fp.next < fp.size)
            BY <4>5, <4>9
          <6> QED BY <4>3, <4>5, <4>9, <6>1, NextBufIs
        <5>2. Len(rcv'.got) = fp'.size
          BY <1>1, <4>3, <4>4, <4>5, <4>9
        <5>3. Current'
          BY <1>4, <4>2, <4>7, <5>1, <5>2 DEF Current
        <5> QED BY <1>5, <4>3, <5>3
      <4> QED BY <4>5, <4>8, <4>9
    <3> QED BY <3>0, <3>1, <3>2, <3>3, <3>4
  <2> QED BY <2>1, <2>2
<1> QED BY <1>9, <1>10, PollLine

\* The receiver takes a block: it is the one it lacks, or the last one again.
LEMMA TakeStep == ASSUME Typed, Flight, Sending, TakeBlock PROVE Sending'
<1> SUFFICES ASSUME ~hasty PROVE Sending'
  BY DEF Sending, TakeBlock
<1>0. /\ Types /\ to \in Seq(Packets) /\ from \in Seq(Answers) /\ UNCHANGED <<x, fp, script, hasty>>
      /\ to # <<>> /\ to' = Tail(to) /\ rcv.state = "ready" /\ Good(Head(to))
  BY DEF Typed, Types, TakeBlock
<1>1. script = "idle" /\ fp.file > 0 /\ Current /\ InOrder
  <2>1. script = "idle" /\ fp.file # 0 /\ fp.file \in Nat
    BY <1>0, Fields, XmodemAssumption DEF Sending, Fresh, Unused
  <2> QED BY <2>1 DEF Sending
<1>2. Len(to) = 1 /\ from = <<>> /\ to' = <<>>
  <2>1. PICK a \in Nat, b \in Nat : a = Len(to) /\ b = Len(from)
    BY <1>0
  <2>2. a # 0 /\ a + b <= 1
    BY <1>0, <2>1 DEF Flight
  <2>3. Len(to) = 1 /\ Len(from) = 0
    BY <2>1, <2>2
  <2> QED BY <1>0, <2>3
<1>3. Copy(to[1], x.buf) /\ to[1].soh
  BY <1>0, <1>1, <1>2 DEF Current, Good
<1>4. x.buf.soh
  BY <1>3 DEF Copy
<1>5. PICK k \in Nat : /\ k = fp.next /\ k > 0 /\ k <= fp.size /\ fp.size \in Nat
                       /\ x.buf.file = fp.file /\ x.buf.block = k /\ x.buf.num = k % Mod
                       /\ Len(rcv.got) \in {k - 1, k}
  BY <1>0, <1>1, <1>4, Fields DEF Current
<1>6. Head(to).num = k % Mod /\ Head(to).file = fp.file /\ Head(to).block = k
  BY <1>0, <1>3, <1>5 DEF Copy
<1>7. rcv.got \in Seq(Nat \X Nat)
  BY <1>0, Fields
<1>8. /\ k % Mod # (k + 1) % Mod /\ (k - 1) % Mod # k % Mod
  <2>1. k - 1 \in Nat /\ (k - 1) + 1 = k
    BY <1>5
  <2> QED BY <2>1, Numbers
<1>8a. ASSUME Len(rcv'.got) = k PROVE Current'
  <2>1. /\ x'.buf = x.buf /\ x'.blk = x.blk /\ fp'.next = k /\ fp'.size = fp.size /\ fp'.file = fp.file
    BY <1>0, <1>5
  <2>2. x.blk = k % Mod
    BY <1>1, <1>4, <1>5 DEF Current
  <2>3. \A n \in 1..Len(to') : Copy(to'[n], x'.buf)
    BY <1>2
  <2>4. Len(rcv'.got) \in {k - 1, k}
    BY <1>8a
  <2> QED BY <1>4, <1>5, <1>8a, <2>1, <2>2, <2>3, <2>4 DEF Current
<1>9. CASE /\ Expected(Head(to))
           /\ rcv' = [rcv EXCEPT !.got = Append(@, <<Head(to).file, Head(to).block>>)]
  <2>1. Len(rcv.got) = k - 1
    BY <1>5, <1>6, <1>8, <1>9 DEF Expected
  <2>2. rcv'.got = Append(rcv.got, <<fp.file, k>>) /\ rcv'.state = rcv.state
    BY <1>0, <1>6, <1>9 DEF Types, RcvType
  <2>3. /\ Len(rcv'.got) = k /\ rcv'.got[k] = <<fp.file, k>>
        /\ \A i \in 1..(k - 1) : rcv'.got[i] = rcv.got[i]
    BY <1>5, <1>7, <2>1, <2>2
  <2>4. InOrder'
    <3>1. \A i \in 1..k : rcv'.got[i] = <<fp.file, i>>
      <4> SUFFICES ASSUME NEW i \in 1..k PROVE rcv'.got[i] = <<fp.file, i>>
        OBVIOUS
      <4>1. CASE i = k BY <2>3, <4>1
      <4>2. CASE i # k
        <5>1. i \in 1..(k - 1)
          BY <4>2
        <5> QED BY <1>1, <2>1, <2>3, <5>1 DEF InOrder
      <4> QED BY <4>1, <4>2
    <3> QED BY <1>0, <1>5, <2>3, <3>1 DEF InOrder
  <2>5. Current'
    BY <1>8a, <2>3
  <2> QED BY <1>0, <1>1, <2>4, <2>5 DEF Sending
<1>10. CASE Repeated(Head(to)) /\ UNCHANGED rcv
  <2>1. Len(rcv.got) = k
    BY <1>5, <1>6, <1>8, <1>10 DEF Repeated
  <2>2. Current'
    BY <1>8a, <1>10, <2>1
  <2> QED BY <1>0, <1>1, <1>10, <2>2 DEF Sending, InOrder
<1>11. CASE rcv' = [rcv EXCEPT !.state = "gone"] /\ Answered("text")
  <2>1. rcv'.got = rcv.got
    BY <1>0, <1>11 DEF Types, RcvType
  <2>2. from' = <<"text">> \/ from' = <<>>
    BY <1>2, <1>11 DEF Answered
  <2>3. ~Acks(from')
    BY <2>2 DEF Acks
  <2>4. /\ x'.buf = x.buf /\ x'.blk = x.blk
        /\ fp'.next = fp.next /\ fp'.size = fp.size /\ fp'.file = fp.file
    BY <1>0
  <2>5. Current /\ \A n \in 1..Len(to') : Copy(to'[n], x.buf)
    BY <1>1, <1>2
  <2>6. Current'
    BY ONLY <2>1, <2>3, <2>4, <2>5, CurrentKept
  <2> QED BY <1>0, <1>1, <2>1, <2>6 DEF Sending, InOrder
<1> QED BY <1>9, <1>10, <1>11 DEF TakeBlock

\* The other steps of the receiver, and the line's.
LEMMA OtherStep ==
    ASSUME Typed, Flight, Sending, Timely,
           \/ RefuseBlock \/ TakeEot \/ Ask \/ Leave \/ Lose
           \/ Display \/ Disconnect \/ Reconnect \/ UNCHANGED vars
    PROVE  Sending'
<1> SUFFICES ASSUME ~hasty PROVE Sending'
  BY DEF Sending, RefuseBlock, TakeEot, Ask, Leave, Lose, Display, Disconnect, Reconnect, vars
<1>0. /\ Types /\ to \in Seq(Packets) /\ from \in Seq(Answers) /\ rcv \in RcvType
      /\ UNCHANGED <<x, fp, script, hasty>>
  BY DEF Typed, Types, RefuseBlock, TakeEot, Ask, Leave, Lose, Display, Disconnect, Reconnect, vars
<1>1. \A n \in 1..Len(to') : \E m \in 1..Len(to) : to'[n] = to[m]
  <2>1. to' = to \/ to' = <<>> \/ (to # <<>> /\ to' = Tail(to))
    BY DEF RefuseBlock, TakeEot, Ask, Leave, Lose, Display, Disconnect, Reconnect, vars
  <2>2. CASE to # <<>> /\ to' = Tail(to)
    <3>1. Len(to') = Len(to) - 1 /\ \A n \in 1..(Len(to) - 1) : to'[n] = to[n + 1]
      BY <1>0, <2>2
    <3> QED BY <1>0, <3>1
  <2> QED BY <2>1, <2>2
<1>2. to = <<>> => to' = <<>>
  BY DEF RefuseBlock, TakeEot, Ask, Leave, Lose, Display, Disconnect, Reconnect, vars
<1>3. rcv'.got = rcv.got /\ (rcv.state = "gone" => rcv'.state = "gone")
  BY <1>0 DEF RefuseBlock, TakeEot, Ask, Leave, Lose, Display, Disconnect, Reconnect, vars, RcvType
<1>4. ASSUME NEW a \in Answers, a # "ACK", Answered(a) PROVE Acks(from') => Acks(from)
  <2>1. from' = Append(from, a) \/ from' = from
    BY <1>4 DEF Answered
  <2>2. CASE from' = Append(from, a)
    <3>1. /\ Len(from') = Len(from) + 1 /\ from'[Len(from) + 1] = a
          /\ \A n \in 1..Len(from) : from'[n] = from[n]
      BY <1>0, <2>2
    <3> QED BY <1>0, <1>4, <3>1 DEF Acks
  <2> QED BY <2>1, <2>2 DEF Acks
<1>5. CASE RefuseBlock
  <2>1. Answered("NAK")
    BY <1>5 DEF RefuseBlock
  <2>2. Acks(from') => Acks(from)
    BY <1>4, <2>1 DEF Answers
  <2> QED BY <1>0, <1>1, <1>2, <1>3, <2>2, LineStep
<1>6. CASE Ask
  <2>1. Answered("C") \/ Answered("NAK")
    BY <1>6 DEF Ask
  <2>2. Acks(from') => Acks(from)
    BY <1>4, <2>1 DEF Answers
  <2> QED BY <1>0, <1>1, <1>2, <1>3, <2>2, LineStep
<1>7. CASE Leave
  <2>1. Answered("text") \/ from' = from
    BY <1>7 DEF Leave
  <2>2. Acks(from') => Acks(from)
    BY <1>4, <2>1 DEF Answers, Acks
  <2> QED BY <1>0, <1>1, <1>2, <1>3, <2>2, LineStep
<1>8. CASE Lose \/ Display \/ Disconnect \/ Reconnect \/ UNCHANGED vars
  <2>1. from' = from \/ from' = <<>> \/ (from # <<>> /\ from' = Tail(from))
    BY <1>8 DEF Lose, Display, Disconnect, Reconnect, vars
  <2>2. Acks(from') => Acks(from)
    <3>1. CASE from # <<>> /\ from' = Tail(from)
      <4>1. Len(from') = Len(from) - 1 /\ \A n \in 1..(Len(from) - 1) : from'[n] = from[n + 1]
        BY <1>0, <3>1
      <4> QED BY <1>0, <4>1 DEF Acks
    <3> QED BY <2>1, <3>1 DEF Acks
  <2> QED BY <1>0, <1>1, <1>2, <1>3, <2>2, LineStep
<1>9. CASE TakeEot
  <2>1. to # <<>> /\ ~Head(to).soh /\ rcv.state # "gone" /\ Answered("ACK")
    BY <1>9 DEF TakeEot
  <2>2. script = "idle" /\ fp.file > 0 /\ Current /\ InOrder
    <3>1. script = "idle" /\ fp.file # 0 /\ fp.file \in Nat
      BY <1>0, <2>1, Fields, XmodemAssumption DEF Sending, Fresh, Unused
    <3> QED BY <3>1 DEF Sending
  <2>3. 1 \in 1..Len(to) /\ Head(to) = to[1]
    BY <1>0, <2>1
  <2>4. ~x.buf.soh
    BY <2>1, <2>2, <2>3 DEF Current, Copy
  <2>5. \A n \in 1..Len(to') : Copy(to'[n], x.buf)
    BY <1>1, <2>2 DEF Current
  <2>6. Current'
    BY <1>0, <1>3, <2>2, <2>4, <2>5 DEF Current
  <2> QED BY <1>0, <1>3, <2>2, <2>6 DEF Sending, InOrder
<1> QED BY <1>5, <1>6, <1>7, <1>8, <1>9

LEMMA SendingStep ==
    ASSUME Typed, Flight, Sending, Timely, OneByOne, [Next]_vars
    PROVE  Sending'
BY FileStep, PollStep, TakeStep, OtherStep DEF Next, Receiver

IInv == Typed /\ Flight /\ Sending

\* The inductive invariant of a line that is Timely and of files sent OneByOne: the
\* packet in hand, the one on the line and the blocks the receiver has keep step.
THEOREM Invariance == ASSUME Timely, OneByOne PROVE Spec => []IInv
<1>1. Init => IInv
  BY TypedInit, FlightInit, SendingInit DEF IInv
<1>2. IInv /\ [Next]_vars => IInv'
  BY TypedStep, FlightStep, SendingStep DEF IInv
<1> QED BY <1>1, <1>2, PTL DEF Spec

\* The receiver never has anything but the first blocks of the file, in order,
\* however many block numbers there are (host.cxx 108-135), on a line that is Timely
\* and for files sent OneByOne.
THEOREM ReceivedRight == ASSUME Timely, OneByOne PROVE Spec => []ReceivedInOrder
<1>1. IInv => ReceivedInOrder
  BY DEF IInv, Sending, InOrder, ReceivedInOrder
<1> QED BY <1>1, Invariance, PTL

----------------------------------------------------------------------------
(* FileTransfer *)

\* Its variables, as they are substituted.
Size     == IF hasty THEN 0 ELSE fp.size
Received == IF hasty THEN 0 ELSE Len(rcv.got)
Result   == IF hasty THEN "void" ELSE IF x.bXmodem \/ script # "idle" THEN "sending" ELSE said

LEMMA Stutter ==
    ASSUME Size' = Size, Received' = Received, Result' = Result
    PROVE  [Transfer!Next]_(Transfer!vars)
BY DEF Transfer!vars, Size, Received, Result

\* The initial state and the steps of FileTransfer, in these words.
LEMMA Mapped ==
    /\ Transfer!Init <=> Size = 0 /\ Received = 0 /\ Result = "none"
    /\ Transfer!Start <=> /\ Result # "sending" /\ Size' \in Sizes
                          /\ Received' = 0 /\ Result' = "sending"
    /\ Transfer!Receive <=> /\ Received < Size /\ Received' = Received + 1
                            /\ Size' = Size /\ Result' = Result
    /\ Transfer!Complete <=> /\ Result = "sending" /\ Received = Size /\ Result' = "Completed"
                             /\ Size' = Size /\ Received' = Received
    /\ Transfer!Abort <=> /\ Result = "sending" /\ Result' = "Aborted"
                          /\ Size' = Size /\ Received' = Received
    /\ Transfer!Void <=> Result = "sending" /\ Size' = 0 /\ Received' = 0 /\ Result' = "void"
<1>1. Transfer!Init <=> Size = 0 /\ Received = 0 /\ Result = "none"
  BY DEF Transfer!Init, Size, Received, Result
<1>2. Transfer!Start <=> Result # "sending" /\ Size' \in Sizes /\ Received' = 0 /\ Result' = "sending"
  BY DEF Transfer!Start, Size, Received, Result
<1>3. Transfer!Receive <=> /\ Received < Size /\ Received' = Received + 1
                           /\ Size' = Size /\ Result' = Result
  BY DEF Transfer!Receive, Size, Received, Result
<1>4. Transfer!Complete <=> /\ Result = "sending" /\ Received = Size /\ Result' = "Completed"
                            /\ Size' = Size /\ Received' = Received
  BY DEF Transfer!Complete, Size, Received, Result
<1>5. Transfer!Abort <=> /\ Result = "sending" /\ Result' = "Aborted"
                         /\ Size' = Size /\ Received' = Received
  BY DEF Transfer!Abort, Size, Received, Result
<1>6. Transfer!Void <=> Result = "sending" /\ Size' = 0 /\ Received' = 0 /\ Result' = "void"
  BY DEF Transfer!Void, Size, Received, Result
<1> QED BY <1>1, <1>2, <1>3, <1>4, <1>5, <1>6

\* A poll that ends the transfer tells the user how.
LEMMA PollEnds ==
    ASSUME IInv, Poll, Timely, ~hasty', ~x'.bXmodem
    PROVE  said' = "Aborted" \/ (said' = "Completed" /\ Len(rcv.got) = fp.size)
<1>0. Types /\ x.bXmodem /\ script = "idle" /\ ~hasty
  BY DEF Poll, IInv, Typed
<1>1. Current
  <2>1. fp.file # 0 /\ fp.file \in Nat
    BY <1>0, Fields, XmodemAssumption DEF IInv, Sending, Unused
  <2> QED BY <1>0, <2>1 DEF IInv, Sending
<1>2. CASE xmodem_recv("none")
  <2>1. Silence
    BY <1>2 DEF xmodem_recv
  <2>2. PICK t : t = x.timeout + 1
    OBVIOUS
  <2>3. x' = [x EXCEPT !.timeout = t, !.bXmodem = t <= AbortAfter]
    BY <2>1, <2>2 DEF Silence
  <2>4. x'.bXmodem = (t <= AbortAfter)
    BY <1>0, <2>3, Zenon DEF Types, XType
  <2>5. ~(t <= AbortAfter)
    BY <2>4
  <2>6. t > AbortAfter
    <3>1. t \in Int /\ AbortAfter \in Int
      BY <1>0, <2>2, Fields, Zero
    <3> QED BY <2>5, <3>1
  <2> QED BY <2>1, <2>2, <2>6 DEF Silence
<1>3. ASSUME NEW n \in 1..Len(from), xmodem_recv(from[n])
      PROVE  said' = "Completed" /\ Len(rcv.got) = fp.size
  <2>0. from[n] \in Answers
    <3>1. from \in Seq(Answers)
      BY <1>0 DEF Types
    <3> QED BY <3>1
  <2>1. from[n] = "ACK" /\ ~x.buf.soh
    <3>1. CASE from[n] = "NAK"
      BY <1>0, <1>3, <3>1 DEF xmodem_recv, Nacked, Types, XType
    <3>2. CASE from[n] = "C"
      BY <1>0, <1>3, <3>2 DEF xmodem_recv, StartCrc, Types, XType
    <3>3. CASE from[n] = "text"
      BY <1>0, <1>3, <3>3 DEF xmodem_recv
    <3>4. CASE from[n] = "ACK" /\ x.buf.soh
      <4>1. x' = [x EXCEPT !.timeout = 0, !.blk = (@ + 1) % Mod, !.started = TRUE, !.buf = NextBuf]
        BY <1>3, <3>4 DEF xmodem_recv, Acked
      <4>2. x'.bXmodem = x.bXmodem
        BY <1>0, <4>1 DEF Types, XType
      <4> QED BY <1>0, <4>2
    <3> QED BY <2>0, <3>1, <3>2, <3>3, <3>4 DEF Answers
  <2>2. Acked
    BY <1>3, <2>1 DEF xmodem_recv
  <2> QED BY <1>1, <2>1, <2>2 DEF Acked, Current
<1> QED BY <1>2, <1>3 DEF Poll

\* A poll does not change the size of the file.
LEMMA PollSize == ASSUME Typed, Poll PROVE fp'.size = fp.size
<1>0. Types
  BY DEF Typed
<1>1. fp' = fp \/ fp' = BlockRead \/ fp' = [fp EXCEPT !.open = FALSE]
  BY DEF Poll, xmodem_recv, Silence, Acked, Nacked, StartCrc
<1> QED BY <1>0, <1>1, BlockReadType DEF Types, FpType

LEMMA RefineStep ==
    ASSUME IInv, IInv', Timely, OneByOne, [Next]_vars
    PROVE  [Transfer!Next]_(Transfer!vars)
<1>0. Types /\ Types' /\ Sending /\ Sending'
  BY DEF IInv, Typed
<1>1. CASE Open
  <2>1. /\ ~hasty' /\ ~x.bXmodem /\ script = "idle" /\ script' = "flag"
        /\ fp'.size \in Sizes
    BY <1>1 DEF Open
  <2>2. rcv'.got = <<>>
    BY <1>1, <2>1 DEF Open
  <2>3. Result # "sending" /\ Result' = "sending" /\ Size' \in Sizes /\ Received' = 0
    BY <1>0, <2>1, <2>2 DEF Result, Size, Received, Types
  <2> QED BY <2>3, Mapped DEF Transfer!Next
<1>2. CASE SetXmodem \/ Reset \/ FirstBlock
  <2>1. /\ script # "idle" /\ UNCHANGED <<rcv, said, hasty>>
    BY <1>2 DEF SetXmodem, Reset, FirstBlock
  <2>2. fp'.size = fp.size
    BY <1>0, <1>2, BlockReadType DEF SetXmodem, Reset, FirstBlock
  <2>3. ~hasty => script' # "idle" \/ x'.bXmodem
    <3>1. CASE SetXmodem \/ Reset
      BY <3>1 DEF SetXmodem, Reset
    <3>2. CASE FirstBlock
      <4>1. x'.bXmodem = x.bXmodem /\ script = "block"
        BY <1>0, <3>2 DEF FirstBlock, Types, XType
      <4> QED BY <1>0, <4>1 DEF Sending, Fresh
    <3> QED BY <1>2, <3>1, <3>2
  <2>4. Size' = Size /\ Received' = Received
    BY <2>1, <2>2 DEF Size, Received
  <2>5. Result' = Result
    BY <2>1, <2>3 DEF Result
  <2> QED BY <2>4, <2>5, Stutter
<1>3. CASE Poll
  <2>1. x.bXmodem /\ script' = script /\ rcv' = rcv /\ fp'.size = fp.size /\ (hasty => hasty')
    BY <1>3, PollSize DEF Poll, IInv
  <2>2. CASE hasty
    BY <2>1, <2>2, Stutter DEF Size, Received, Result
  <2>3. CASE ~hasty /\ hasty'
    <3>1. Result = "sending" /\ Size' = 0 /\ Received' = 0 /\ Result' = "void"
      BY <2>1, <2>3 DEF Size, Received, Result
    <3> QED BY <3>1, Mapped DEF Transfer!Next
  <2>4. CASE ~hasty' /\ x'.bXmodem
    BY <2>1, <2>4, Stutter DEF Size, Received, Result
  <2>5. CASE ~hasty' /\ ~x'.bXmodem
    <3>1. said' = "Aborted" \/ (said' = "Completed" /\ Len(rcv.got) = fp.size)
      BY <1>3, <2>5, PollEnds
    <3>2. script' = "idle"
      BY <1>3, <2>5 DEF Poll
    <3>3. Size' = Size /\ Received' = Received /\ Result = "sending" /\ Result' = said'
      BY <2>1, <2>5, <3>2 DEF Size, Received, Result
    <3>4. said' = "Completed" => Received = Size
      BY <2>1, <2>5, <3>1 DEF Size, Received
    <3> QED BY <3>1, <3>3, <3>4, Mapped DEF Transfer!Next
  <2> QED BY <2>1, <2>2, <2>3, <2>4, <2>5
<1>4. CASE TakeBlock /\ rcv'.got # rcv.got /\ ~hasty
  <2>1. UNCHANGED <<x, fp, script, said, hasty>>
    BY <1>4 DEF TakeBlock
  <2>2. PICK e : rcv' = [rcv EXCEPT !.got = Append(@, e)] /\ e = <<Head(to).file, Head(to).block>>
    BY <1>0, <1>4 DEF TakeBlock, Types, RcvType
  <2>3. rcv'.got = Append(rcv.got, e) /\ rcv.got \in Seq(Nat \X Nat)
    BY <1>0, <2>2 DEF Types, RcvType
  <2>4. Len(rcv'.got) = Len(rcv.got) + 1 /\ Len(rcv.got) \in Nat
    BY <2>3
  <2>5. Len(rcv'.got) <= fp.size /\ fp.size \in Nat
    BY <1>0, <1>4, <2>1, Fields DEF Sending, InOrder
  <2>6. Received < Size /\ Received' = Received + 1
    BY <1>4, <2>1, <2>4, <2>5 DEF Received, Size
  <2>7. Size' = Size /\ Result' = Result
    BY <2>1 DEF Size, Result
  <2> QED BY <2>6, <2>7, Mapped DEF Transfer!Next
<1>5. CASE TakeBlock /\ (rcv'.got = rcv.got \/ hasty)
  <2>1. UNCHANGED <<x, fp, script, said, hasty>>
    BY <1>5 DEF TakeBlock
  <2> QED BY <1>5, <2>1, Stutter DEF Size, Received, Result
<1>6. CASE \/ RefuseBlock \/ TakeEot \/ Ask \/ Leave \/ Lose
           \/ Display \/ Disconnect \/ Reconnect \/ UNCHANGED vars
  <2>1. UNCHANGED <<x, fp, script, said, hasty>> /\ rcv'.got = rcv.got
    BY <1>0, <1>6 DEF RefuseBlock, TakeEot, Ask, Leave, Lose, Display, Disconnect, Reconnect, vars,
                      Types, RcvType
  <2> QED BY <2>1, Stutter DEF Size, Received, Result
<1> QED BY <1>1, <1>2, <1>3, <1>4, <1>5, <1>6 DEF Next, SendFile, Receiver

\* The sender, the line and the receiver implement FileTransfer: Completed is said
\* only when the receiver has the whole file (host.cxx 73-168), on a line that is
\* Timely and for files sent OneByOne.  Where polls take no time (253) a block sent
\* again too early has two ACKs, the second skips a block, and Completed is said
\* without it.
THEOREM Implements == ASSUME Timely, OneByOne PROVE Spec => ImplementsTransfer
<1>1. Init => Transfer!Init
  <2> SUFFICES ASSUME Init PROVE Size = 0 /\ Received = 0 /\ Result = "none"
    BY Mapped
  <2>1. ~hasty /\ ~x.bXmodem /\ script = "idle" /\ said = "none" /\ fp.size = 0 /\ Len(rcv.got) = 0
    BY DEF Init
  <2> QED BY <2>1 DEF Size, Received, Result
<1>2. IInv /\ IInv' /\ [Next]_vars => [Transfer!Next]_(Transfer!vars)
  BY RefineStep
<1> QED BY <1>1, <1>2, Invariance, PTL DEF Spec, ImplementsTransfer, Transfer!Spec
=============================================================================
