------------------------------- MODULE Xmodem -------------------------------
(***************************************************************************)
(* comHost's xmodem sender, the serial line and a receiver.                *)
(*                                                                         *)
(* send_file() runs in a script's thread and prepares the transfer; the    *)
(* rest of the sender is xmodem_recv(), which the reader thread calls for  *)
(* every poll of the port, with the last byte it got or with 0.  The line  *)
(* loses and garbles; the receiver is one of the original protocol.        *)
(***************************************************************************)
EXTENDS Naturals, Sequences

CONSTANTS
    Sizes,         \* sizes of files, in blocks of 128 bytes
    Mod,           \* block numbers: 256
    ResendAfter,   \* polls after which a packet is sent again: 10000
    AbortAfter,    \* polls after which the sender gives up: 60000
    Timely,        \* TRUE: a poll is empty only when nothing is on its way
    OneByOne,      \* TRUE: a file is dropped only when no other is being sent
    MaxFiles,      \* bound: files sent in turn
    MaxLine        \* bound: packets, and answers, on the line

ASSUME XmodemAssumption ==
    /\ Sizes \subseteq Nat
    /\ {Mod, ResendAfter, AbortAfter, MaxFiles, MaxLine} \subseteq Nat \ {0}
    /\ Mod > 1
    /\ {Timely, OneByOne} \subseteq BOOLEAN

VARIABLES
    connected,   \* status()==HOST_CONNECTED
    x,           \* comHost: bXmodem, started, crc, timeout, blk and the packet buf
    fp,          \* xmodem_fp: file, size in blocks, next (blocks read), open
    script,      \* the next statement of send_file()
    to, from,    \* the line: packets to the receiver, answers from it
    rcv,         \* the receiver: crc mode, got (blocks it has), state
    said,        \* the last word to the user: "Completed" or "Aborted"
    hasty,       \* history: xmodem_recv() ran while send_file() was preparing
    crashed      \* a closed FILE was read or closed

vars == <<connected, x, fp, script, to, from, rcv, said, hasty, crashed>>

Answers == {"ACK", "NAK", "C", "text"}
Packets == [soh: BOOLEAN, num: 0..(Mod - 1), file: Nat, block: Nat, crc: BOOLEAN]

TypeOK ==
    /\ connected \in BOOLEAN
    /\ x.bXmodem \in BOOLEAN /\ x.started \in BOOLEAN /\ x.crc \in BOOLEAN
    /\ x.timeout \in 0..(AbortAfter + 2)
    /\ x.blk \in 0..(Mod - 1)
    /\ fp.next \in 0..fp.size /\ fp.file \in 0..MaxFiles
    /\ script \in {"idle", "flag", "reset", "block"}
    /\ to \in Seq(Packets) /\ Len(to) <= MaxLine
    /\ from \in Seq(Answers) /\ Len(from) <= MaxLine
    /\ rcv.state \in {"ready", "done", "gone"}
    /\ said \in {"none", "Completed", "Aborted"}
    /\ hasty \in BOOLEAN /\ crashed \in BOOLEAN

NoPacket == [soh |-> FALSE, num |-> 0, file |-> 0, block |-> 0]

\* The constructor sets bXmodem only: the packet may look like a block or not.
Init ==
    /\ connected = TRUE
    /\ x \in [bXmodem: {FALSE}, started: BOOLEAN, crc: {FALSE}, timeout: {0, AbortAfter},
              blk: {0}, buf: {[NoPacket EXCEPT !.soh = b] : b \in BOOLEAN}]
    /\ fp = [file |-> 0, size |-> 0, next |-> 0, open |-> FALSE]
    /\ script = "idle"
    /\ to = <<>> /\ from = <<>>
    /\ rcv = [crc |-> FALSE, got |-> <<>>, state |-> "gone"]
    /\ said = "none" /\ hasty = FALSE /\ crashed = FALSE

----------------------------------------------------------------------------
(* The sender *)

\* xmodem_block(): the next block of the file, or EOT at its end, where the
\* file is closed.
BlockRead == IF fp.next < fp.size THEN [fp EXCEPT !.next = @ + 1] ELSE [fp EXCEPT !.open = FALSE]
NextBuf ==
    [soh |-> fp.next < fp.size, num |-> (x.blk + 1) % Mod,
     file |-> fp.file, block |-> IF fp.next < fp.size THEN fp.next + 1 ELSE 0]

\* xmodem_send(): write() when connected.  Bound: what a full line cannot take
\* is lost.
Sent(buf, crc) ==
    IF connected /\ Len(to) < MaxLine
    THEN Append(to, [soh |-> buf.soh, num |-> buf.num, file |-> buf.file,
                     block |-> buf.block, crc |-> crc])
    ELSE to

\* send_file(): fopen() and xmodem_fp = fp.  The user has started a receiver.
Open ==
    /\ ~crashed
    /\ script = "idle"
    /\ fp.file < MaxFiles
    /\ OneByOne => ~x.bXmodem
    /\ Timely => to = <<>> /\ from = <<>>
    /\ \E n \in Sizes :
          fp' = [file |-> fp.file + 1, size |-> n, next |-> 0, open |-> TRUE]
    /\ IF x.bXmodem THEN UNCHANGED rcv
       ELSE \E crc \in BOOLEAN : rcv' = [crc |-> crc, got |-> <<>>, state |-> "ready"]
    /\ script' = "flag"
    /\ said' = "none" /\ hasty' = FALSE
    /\ UNCHANGED <<connected, x, to, from, crashed>>

SetXmodem ==
    /\ ~crashed
    /\ script = "flag"
    /\ x' = [x EXCEPT !.bXmodem = TRUE]
    /\ script' = "reset"
    /\ UNCHANGED <<connected, fp, to, from, rcv, said, hasty, crashed>>

Reset ==
    /\ ~crashed
    /\ script = "reset"
    /\ x' = [x EXCEPT !.crc = FALSE, !.started = FALSE, !.timeout = 0, !.blk = 0]
    /\ script' = "block"
    /\ UNCHANGED <<connected, fp, to, from, rcv, said, hasty, crashed>>

FirstBlock ==
    /\ ~crashed
    /\ script = "block"
    /\ x' = [x EXCEPT !.blk = (@ + 1) % Mod, !.buf = NextBuf]
    /\ fp' = BlockRead
    /\ crashed' = ~fp.open
    /\ script' = "idle"
    /\ UNCHANGED <<connected, to, from, rcv, said, hasty>>

\* Slip: a packet that is sent again starts the count again.
Silence_CountsAgain ==
    LET t == x.timeout + 1
        again == t % ResendAfter = 0 /\ x.started
    IN  /\ to' = IF again THEN Sent(x.buf, x.crc) ELSE to
        /\ x' = [x EXCEPT !.timeout = IF again THEN 0 ELSE t, !.bXmodem = t <= AbortAfter]
        /\ fp' = IF t > AbortAfter THEN [fp EXCEPT !.open = FALSE] ELSE fp
        /\ said' = IF t > AbortAfter THEN "Aborted" ELSE said
        /\ crashed' = (t > AbortAfter /\ ~fp.open)

\* An empty poll: resend, give up, or just count.
Silence ==
    LET t == x.timeout + 1
    IN  /\ to' = IF t % ResendAfter = 0 /\ x.started THEN Sent(x.buf, x.crc) ELSE to
        /\ x' = [x EXCEPT !.timeout = t, !.bXmodem = t <= AbortAfter]
        /\ fp' = IF t > AbortAfter THEN [fp EXCEPT !.open = FALSE] ELSE fp
        /\ said' = IF t > AbortAfter THEN "Aborted" ELSE said
        /\ crashed' = (t > AbortAfter /\ ~fp.open)

Acked ==
    IF ~x.buf.soh
    THEN /\ x' = [x EXCEPT !.timeout = 0, !.bXmodem = FALSE]
         /\ said' = "Completed"
         /\ UNCHANGED <<fp, to, crashed>>
    ELSE /\ x' = [x EXCEPT !.timeout = 0, !.blk = (@ + 1) % Mod, !.started = TRUE,
                           !.buf = NextBuf]
         /\ fp' = BlockRead
         /\ to' = Sent(NextBuf, x.crc)
         /\ crashed' = ~fp.open
         /\ UNCHANGED said

\* Slip: a NAK is taken for an ACK.
Nacked_Advances == Acked

\* Slip: a NAK sends the next bytes of the file under the old number.
Nacked_ReadsOn ==
    LET buf == [NextBuf EXCEPT !.num = x.buf.num]
    IN  /\ x' = [x EXCEPT !.started = TRUE, !.buf = buf]
        /\ fp' = BlockRead
        /\ to' = Sent(buf, x.crc)
        /\ UNCHANGED <<said, crashed>>

Nacked ==
    /\ x' = [x EXCEPT !.started = TRUE]
    /\ to' = Sent(x.buf, x.crc)
    /\ UNCHANGED <<fp, said, crashed>>

StartCrc ==
    /\ x' = [x EXCEPT !.started = TRUE, !.crc = TRUE]
    /\ to' = Sent(x.buf, TRUE)
    /\ UNCHANGED <<fp, said, crashed>>

xmodem_recv(op) ==
    CASE op = "none" -> Silence
      [] op = "ACK"  -> Acked
      [] op = "NAK"  -> Nacked
      [] op = "C"    -> StartCrc
      [] OTHER       -> UNCHANGED <<x, fp, to, said, crashed>>

\* The reader's loop while a file is sent: of what it reads the last byte counts.
Poll ==
    /\ connected /\ ~crashed
    /\ x.bXmodem
    /\ \/ /\ Timely => to = <<>> /\ from = <<>>
          /\ xmodem_recv("none")
          /\ UNCHANGED from
       \/ \E n \in 1..Len(from) :
             /\ xmodem_recv(from[n])
             /\ from' = SubSeq(from, n + 1, Len(from))
    /\ hasty' = (hasty \/ script # "idle")
    /\ UNCHANGED <<connected, script, rcv>>

\* ... and while none is sent: what arrives is displayed.
Display ==
    /\ connected /\ ~crashed
    /\ ~x.bXmodem
    /\ from # <<>>
    /\ from' = <<>>
    /\ UNCHANGED <<connected, x, fp, script, to, rcv, said, hasty, crashed>>

\* The user, or a write() that fails, ends the session; a file being sent stays.
Disconnect ==
    /\ connected /\ ~crashed
    /\ connected' = FALSE
    /\ to' = <<>> /\ from' = <<>>
    /\ UNCHANGED <<x, fp, script, rcv, said, hasty, crashed>>

Reconnect ==
    /\ ~connected /\ ~crashed
    /\ connected' = TRUE
    /\ UNCHANGED <<x, fp, script, to, from, rcv, said, hasty, crashed>>

----------------------------------------------------------------------------
(* The line and the receiver *)

Answered(a) == from' = IF Len(from) < MaxLine THEN Append(from, a) ELSE from

Good(p) == p.soh /\ p.crc = rcv.crc
Expected(p) == p.num = (Len(rcv.got) + 1) % Mod
Repeated(p) == rcv.got # <<>> /\ p.num = Len(rcv.got) % Mod

\* A block: the next one is taken, the last one acknowledged again, any other
\* ends the transfer.
TakeBlock ==
    /\ rcv.state = "ready"
    /\ to # <<>> /\ Good(Head(to))
    /\ to' = Tail(to)
    /\ \/ /\ Expected(Head(to))
          /\ rcv' = [rcv EXCEPT !.got = Append(@, <<Head(to).file, Head(to).block>>)]
          /\ Answered("ACK")
       \/ /\ Repeated(Head(to))
          /\ Answered("ACK")
          /\ UNCHANGED rcv
       \/ /\ ~Expected(Head(to)) /\ ~Repeated(Head(to))
          /\ rcv' = [rcv EXCEPT !.state = "gone"]
          /\ Answered("text")
    /\ UNCHANGED <<connected, x, fp, script, said, hasty, crashed>>

\* A block that was garbled, or has a check of the other kind.
RefuseBlock ==
    /\ rcv.state = "ready"
    /\ to # <<>> /\ Head(to).soh
    /\ to' = Tail(to)
    /\ Answered("NAK")
    /\ UNCHANGED <<connected, x, fp, script, rcv, said, hasty, crashed>>

TakeEot ==
    /\ rcv.state # "gone"
    /\ to # <<>> /\ ~Head(to).soh
    /\ to' = Tail(to)
    /\ rcv' = [rcv EXCEPT !.state = "done"]
    /\ Answered("ACK")
    /\ UNCHANGED <<connected, x, fp, script, said, hasty, crashed>>

\* The receiver asks for the first block, or for the one that does not come.
Ask ==
    /\ connected
    /\ rcv.state = "ready"
    /\ Timely => to = <<>> /\ from = <<>>
    /\ Answered(IF rcv.crc /\ rcv.got = <<>> THEN "C" ELSE "NAK")
    /\ UNCHANGED <<connected, x, fp, script, to, rcv, said, hasty, crashed>>

\* The receiver stops, and its host may say so.
Leave ==
    /\ rcv.state # "gone"
    /\ rcv' = [rcv EXCEPT !.state = "gone"]
    /\ IF connected THEN Answered("text") ELSE UNCHANGED from
    /\ UNCHANGED <<connected, x, fp, script, to, said, hasty, crashed>>

\* Packets and answers are lost, packets for a receiver that is gone too.
Lose ==
    /\ \/ to # <<>> /\ to' = Tail(to) /\ UNCHANGED from
       \/ from # <<>> /\ from' = Tail(from) /\ UNCHANGED to
    /\ UNCHANGED <<connected, x, fp, script, rcv, said, hasty, crashed>>

----------------------------------------------------------------------------
SendFile == Open \/ SetXmodem \/ Reset \/ FirstBlock
Receiver == TakeBlock \/ RefuseBlock \/ TakeEot \/ Ask \/ Leave

Next == SendFile \/ Poll \/ Display \/ Disconnect \/ Reconnect \/ Receiver \/ Lose

Spec == Init /\ [][Next]_vars

(* The reader polls for ever and send_file() goes on.  A line that loses   *)
(* and garbles does so only now and then.                                  *)
FairSpec ==
    /\ Spec
    /\ SF_vars(Poll) /\ WF_vars(SetXmodem \/ Reset \/ FirstBlock)
    /\ SF_vars(Poll /\ from # <<>> /\ from' = <<>> /\ Head(from) = "ACK")
    /\ WF_vars(Lose) /\ SF_vars(TakeBlock) /\ SF_vars(TakeEot)

----------------------------------------------------------------------------
(* Properties *)

\* What the receiver has is the beginning of the file, in order: nothing is
\* skipped, repeated or taken from another file, whatever is lost, garbled,
\* acknowledged twice or sent again after a session that was cut.
ReceivedInOrder ==
    ~hasty => /\ Len(rcv.got) <= fp.size
              /\ \A i \in 1..Len(rcv.got) : rcv.got[i] = <<fp.file, i>>

\* The sender and the receiver implement FileTransfer, but for a transfer the
\* reader polled for before it was prepared: "Completed" is said only when the
\* receiver has the whole file.
Transfer == INSTANCE FileTransfer WITH
    size     <- IF hasty THEN 0 ELSE fp.size,
    received <- IF hasty THEN 0 ELSE Len(rcv.got),
    result   <- IF hasty THEN "void"
                ELSE IF x.bXmodem \/ script # "idle" THEN "sending" ELSE said
ImplementsTransfer == Transfer!Spec

\* A transfer comes to an end, even when the receiver falls silent, unless the
\* session does or the reader polled for it before it was prepared.
TransferEnds == x.bXmodem /\ ~hasty ~> ~x.bXmodem \/ hasty \/ ~connected \/ crashed
=============================================================================
