-------------------------- MODULE SftpSession_proofs --------------------------
(***************************************************************************)
(* The safety of the sftp session, for any keys, file sizes and numbers of *)
(* files and sessions.  KeyIsAccepted and TypedIsForgotten are inductive   *)
(* as they stand; TotalIsWhole needs to know how much of a file is on its  *)
(* way while it is copied, which is what InTransit says.                   *)
(***************************************************************************)
EXTENDS SftpSession, TLAPS

\* What is known of the transfer r: of a file being copied nothing is lost, what
\* is written, in the block being written and left adds up to the file.
TransferType ==
    [pc: {"none", "open", "copy", "write", "stuck"}, kind: {"get", "put"}, size: 0..MaxSize,
     left: 0..MaxSize, done: 0..MaxSize, cut: BOOLEAN, total: BOOLEAN]

Whole(r) ==
    /\ r.pc = "open" => r.done = 0 /\ r.left = r.size
    /\ r.pc = "copy" => r.done + r.left = r.size
    /\ r.pc = "write" => r.done + r.left <= r.size
    /\ r.pc # "none" => ~r.total
    /\ r.total => r.done = r.size \/ r.cut

InTransit == x \in [Threads -> TransferType] /\ \A t \in Threads : Whole(x[t])

\* A transfer that has not begun is whole.
LEMMA NothingYet == NoTransfer \in TransferType /\ Whole(NoTransfer)
BY SftpAssumption DEF NoTransfer, TransferType, Whole

\* One transfer changes: the others stay as they are.
LEMMA OneChanges ==
    ASSUME InTransit, NEW t \in Threads, NEW r \in TransferType, Whole(r), x' = [x EXCEPT ![t] = r]
    PROVE  InTransit'
<1>1. x' \in [Threads -> TransferType]
  BY DEF InTransit
<1>2. \A u \in Threads : Whole(x'[u])
  BY DEF InTransit
<1> QED BY <1>1, <1>2 DEF InTransit

\* A file of size n begins.
LEMMA Begins ==
    ASSUME NEW n \in 0..MaxSize, NEW kind \in {"get", "put"}, NEW e,
           e = [NoTransfer EXCEPT !.pc = "open", !.kind = kind, !.size = n, !.left = n]
    PROVE  e \in TransferType /\ Whole(e)
<1>1. NoTransfer \in TransferType /\ NoTransfer.done = 0 /\ ~NoTransfer.total
  BY NothingYet DEF NoTransfer
<1>2. e \in TransferType
  BY <1>1 DEF TransferType
<1>3. e.pc = "open" /\ e.size = n /\ e.left = n /\ e.done = 0 /\ e.total = NoTransfer.total
  BY <1>1 DEF TransferType
<1>4. Whole(e)
  BY <1>1, <1>2, <1>3 DEF Whole
<1> QED BY <1>2, <1>4

\* A transfer is given up, or its files are open.
LEMMA Goes ==
    ASSUME NEW r \in TransferType, Whole(r), NEW p \in {"none", "copy", "stuck"}, p # "copy" \/ r.pc = "open",
           p # "none" => r.pc # "none",
           NEW e, e = [r EXCEPT !.pc = p]
    PROVE  e \in TransferType /\ Whole(e)
<1>1. e \in TransferType
  BY DEF TransferType
<1>2. /\ e.pc = p /\ e.size = r.size /\ e.left = r.left /\ e.done = r.done
      /\ e.total = r.total /\ e.cut = r.cut
  BY DEF TransferType
<1>3. Whole(e)
  BY <1>1, <1>2, SftpAssumption DEF TransferType, Whole
<1> QED BY <1>1, <1>3

\* The total is printed at the end of the file, or at what looks like it, and
\* all of it, or the d units that fclose saved, is copied then.
LEMMA Ends ==
    ASSUME NEW r \in TransferType, Whole(r), r.pc = "copy", NEW c \in BOOLEAN, NEW d \in 0..MaxSize,
           (r.left = 0 /\ d = r.done) \/ c,
           NEW e, e = [r EXCEPT !.pc = "none", !.total = TRUE, !.cut = c, !.done = d]
    PROVE  e \in TransferType /\ Whole(e)
<1>1. e \in TransferType
  BY DEF TransferType
<1>2. e.pc = "none" /\ e.done = d /\ e.size = r.size /\ e.cut = c
  BY DEF TransferType
<1>3. Whole(e)
  BY <1>1, <1>2, SftpAssumption DEF TransferType, Whole
<1> QED BY <1>1, <1>3

\* Whatever moves n bytes from what is left or in the block keeps the sum.
LEMMA Moves ==
    ASSUME NEW r \in TransferType, Whole(r), NEW p \in {"copy", "write"}, r.pc # "none",
           NEW l \in Nat, NEW d \in Nat, l + d <= r.size, p = "copy" => d + l = r.size,
           NEW e, e = [r EXCEPT !.pc = p, !.left = l, !.done = d]
    PROVE  e \in TransferType /\ Whole(e)
<1>1. e = [pc |-> p, kind |-> r.kind, size |-> r.size, left |-> l, done |-> d, cut |-> r.cut, total |-> r.total]
  BY DEF TransferType
<1>2. e \in TransferType
  BY <1>1, SftpAssumption DEF TransferType
<1>3. ~r.total
  BY DEF Whole
<1>4. Whole(e)
  BY <1>1, <1>3, SftpAssumption DEF TransferType, Whole
<1> QED BY <1>2, <1>4

\* Every step of a copy.
LEMMA CopyStep == ASSUME InTransit, NEW t \in Threads, Transfer(t) PROVE InTransit'
<1>1. PICK r \in TransferType : r = x[t] /\ Whole(r)
  BY DEF InTransit
<1>2. r.size \in Nat /\ r.left \in Nat /\ r.done \in Nat
  BY SftpAssumption DEF TransferType
<1>3. ASSUME NEW e \in TransferType, Whole(e), x' = [x EXCEPT ![t] = e] PROVE InTransit'
  BY <1>3, OneChanges
<1>4. ASSUME NEW p \in {"copy", "none", "stuck"}, XGo(t, p), p # "copy" \/ r.pc = "open",
             p # "none" => r.pc # "none"
      PROVE  InTransit'
  <2>1. x' = [x EXCEPT ![t] = [r EXCEPT !.pc = p]]
    BY <1>1, <1>4 DEF XGo
  <2> QED BY <1>1, <1>3, <1>4, <2>1, Goes
<1>5. CASE Open(t)
  <2>1. r.pc = "open" /\ (XGo(t, "copy") \/ XGo(t, "none"))
    BY <1>1, <1>5 DEF Open
  <2> QED BY <1>4, <2>1
<1>6. CASE GetBlock(t)
  <2>1. r.pc = "copy" /\ r.done + r.left = r.size
    BY <1>1, <1>6 DEF GetBlock, Whole
  <2>2. CASE XGo(t, "none")
    <3>1. "none" \in {"copy", "none", "stuck"}
      OBVIOUS
    <3> QED BY ONLY <1>4, <2>2, <3>1
  <2>3. CASE r.left = 0 /\ x' = [x EXCEPT ![t].pc = "none", ![t].total = TRUE]
    <3> DEFINE e == [r EXCEPT !.pc = "none", !.total = TRUE]
    <3>1. x' = [x EXCEPT ![t] = e]
      BY <1>1, <2>3
    <3>2. e = [r EXCEPT !.pc = "none", !.total = TRUE, !.cut = r.cut, !.done = r.done]
      BY DEF TransferType
    <3>3. r.cut \in BOOLEAN /\ r.done \in 0..MaxSize /\ r.left = 0
      BY <2>3 DEF TransferType
    <3> HIDE DEF e
    <3>4. e \in TransferType /\ Whole(e)
      BY <1>1, <2>1, <3>2, <3>3, Ends
    <3> QED BY <1>3, <3>1, <3>4
  <2>5. ASSUME NEW n \in 0..r.done,
               x' = [x EXCEPT ![t].pc = "none", ![t].total = TRUE, ![t].cut = TRUE, ![t].done = n]
        PROVE  InTransit'
    <3>1. x' = [x EXCEPT ![t] = [r EXCEPT !.pc = "none", !.total = TRUE, !.cut = TRUE, !.done = n]]
      BY <1>1, <2>5
    <3>2. n \in 0..MaxSize
      BY <1>2, SftpAssumption DEF TransferType
    <3> QED BY <1>1, <1>3, <2>1, <3>1, <3>2, Ends
  <2>4. CASE r.left > 0 /\ x' = [x EXCEPT ![t].left = @ - 1, ![t].done = @ + 1]
    <3> DEFINE e == [r EXCEPT !.left = r.left - 1, !.done = r.done + 1]
    <3>1. x' = [x EXCEPT ![t] = e]
      BY <1>1, <2>4
    <3>2. e = [r EXCEPT !.pc = "copy", !.left = r.left - 1, !.done = r.done + 1]
      BY <2>1 DEF TransferType
    <3>3. /\ r.left - 1 \in Nat /\ r.done + 1 \in Nat
          /\ (r.left - 1) + (r.done + 1) <= r.size /\ (r.done + 1) + (r.left - 1) = r.size
      BY <1>2, <2>1, <2>4
    <3> HIDE DEF e
    <3>4. e \in TransferType /\ Whole(e)
      BY <1>1, <1>2, <2>1, <3>2, <3>3, Moves
    <3> QED BY <1>3, <3>1, <3>4
  <2> QED BY <1>1, <1>6, <2>2, <2>3, <2>4, <2>5 DEF GetBlock, GetEnd
<1>7. CASE PutRead(t)
  <2>1. r.pc = "copy" /\ r.done + r.left = r.size
    BY <1>1, <1>7 DEF PutRead, Whole
  <2>2. ASSUME NEW n \in 1..r.left, x' = [x EXCEPT ![t].pc = "write", ![t].left = @ - n]
        PROVE  InTransit'
    <3> DEFINE e == [r EXCEPT !.pc = "write", !.left = r.left - n]
    <3>1. x' = [x EXCEPT ![t] = e]
      BY <1>1, <2>2
    <3>2. e = [r EXCEPT !.pc = "write", !.left = r.left - n, !.done = r.done]
      BY DEF TransferType
    <3>3. r.left - n \in Nat /\ (r.left - n) + r.done <= r.size
      BY <1>2, <2>1
    <3> HIDE DEF e
    <3>4. e \in TransferType /\ Whole(e)
      BY <1>1, <1>2, <2>1, <3>2, <3>3, Moves
    <3> QED BY <1>3, <3>1, <3>4
  <2>3. CASE x' = [x EXCEPT ![t].pc = "none", ![t].total = TRUE, ![t].cut = (r.left > 0)]
    <3> DEFINE c == r.left > 0
               e == [r EXCEPT !.pc = "none", !.total = TRUE, !.cut = c]
    <3>1. x' = [x EXCEPT ![t] = e]
      BY <1>1, <2>3
    <3>2. c \in BOOLEAN /\ (r.left = 0 \/ c) /\ r.done \in 0..MaxSize
      BY <1>2 DEF TransferType
    <3>3. e = [r EXCEPT !.pc = "none", !.total = TRUE, !.cut = c, !.done = r.done]
      BY DEF TransferType
    <3> HIDE DEF e, c
    <3>4. e \in TransferType /\ Whole(e)
      BY <1>1, <2>1, <3>2, <3>3, Ends
    <3> QED BY <1>3, <3>1, <3>4
  <2> QED BY <1>1, <1>7, <2>2, <2>3 DEF PutRead
<1>8. CASE PutWrite(t)
  <2>1. r.pc = "write" /\ r.done + r.left <= r.size
    BY <1>1, <1>8 DEF PutWrite, Whole
  <2>2. CASE XGo(t, "none") \/ XGo(t, "stuck") BY <1>4, <2>1, <2>2
  <2>3. ASSUME NEW n \in 1..(r.size - r.left - r.done),
               x' = [x EXCEPT ![t].done = @ + n,
                              ![t].pc = IF r.done + n + r.left = r.size THEN "copy" ELSE "write"]
        PROVE  InTransit'
    <3> DEFINE p == IF r.done + n + r.left = r.size THEN "copy" ELSE "write"
    <3> DEFINE e == [r EXCEPT !.done = r.done + n, !.pc = p]
    <3>1. x' = [x EXCEPT ![t] = e]
      BY <1>1, <2>3
    <3>2. e = [r EXCEPT !.pc = p, !.left = r.left, !.done = r.done + n]
      BY DEF TransferType
    <3>3. r.done + n \in Nat /\ r.left + (r.done + n) <= r.size
      BY <1>2, <2>1
    <3>4. p \in {"copy", "write"} /\ (p = "copy" => (r.done + n) + r.left = r.size)
      BY <1>2
    <3> HIDE DEF e, p
    <3>5. e \in TransferType /\ Whole(e)
      BY <1>1, <1>2, <2>1, <3>2, <3>3, <3>4, Moves
    <3> QED BY <1>3, <3>1, <3>5
  <2> QED BY <1>1, <1>8, <2>2, <2>3 DEF PutWrite
<1> QED BY <1>5, <1>6, <1>7, <1>8 DEF Transfer

\* A file of any size begins.
LEMMA BeginStep ==
    ASSUME InTransit, NEW t \in Threads, sftp_get(t) \/ sftp_put(t) PROVE InTransit'
<1>1. PICK n \in 0..MaxSize, kind \in {"get", "put"} :
        x' = [x EXCEPT ![t] = [NoTransfer EXCEPT !.pc = "open", !.kind = kind, !.size = n, !.left = n]]
  BY DEF sftp_get, sftp_put, Begin
<1> QED BY <1>1, Begins, OneChanges

\* Of every file what is copied is known, in every step.
THEOREM Transit == Spec => []InTransit
<1>1. Init => InTransit
  BY NothingYet DEF Init, InTransit
<1>2. InTransit /\ [Next]_vars => InTransit'
  <2> SUFFICES ASSUME InTransit, [Next]_vars PROVE InTransit'
    OBVIOUS
  <2>1. CASE x' = x BY <2>1 DEF InTransit
  <2>2. CASE Connect \/ disconn \/ Drop
    BY <2>1, <2>2 DEF Connect, disconn, Drop, files
  <2>3. CASE Handshake \/ CheckKey \/ AskKey \/ Auth \/ TypePassword \/ InitSftp
    BY <2>1, <2>3 DEF Handshake, CheckKey, AskKey, Auth, TypePassword, InitSftp, files
  <2>4. CASE Start \/ Loop \/ Gets \/ Lock \/ Shutdown \/ Free
    BY <2>1, <2>4 DEF Start, Loop, Gets, Lock, Shutdown, Free, files
  <2>5. CASE Command
    BY <2>5, NothingYet, BeginStep, OneChanges DEF Command, Threads
  <2>6. CASE SendFile
    BY <2>6, BeginStep DEF SendFile, Threads
  <2>7. CASE Sent
    BY <2>7, NothingYet, OneChanges DEF Sent, Threads
  <2>8. CASE \E t \in Threads : Transfer(t)
    BY <2>8, CopyStep
  <2>9. CASE UNCHANGED vars BY <2>1, <2>9 DEF vars, files
  <2> QED
    BY <2>2, <2>3, <2>4, <2>5, <2>6, <2>7, <2>8, <2>9 DEF Next, Reader, Copier
<1> QED BY <1>1, <1>2, PTL DEF Spec

\* A total is printed of a whole file only, or of one whose local file failed
\* in fread or fclose.
THEOREM TotalWhole == Spec => []TotalIsWhole
<1>1. InTransit => TotalIsWhole
  BY DEF InTransit, Whole, TotalIsWhole
<1> QED BY <1>1, Transit, PTL

\* Every variable of the sftp session keeps its type.
THEOREM TypeCorrect == Spec => []TypeOK
<1> DEFINE Types == /\ pc \in {"idle", "handshake", "knownhost", "update", "add", "auth", "prompt",
                              "init", "start", "loop", "gets", "lock", "sftp", "shutdown", "free"}
                    /\ known \subseteq HostKeys /\ key \in HostKeys
                    /\ user \in BOOLEAN /\ pass \in {"none", "given", "typed"}
                    /\ tries \in Nat
                    /\ {bRunning, yes, asked, misused} \subseteq BOOLEAN
                    /\ mtx \in Threads \cup {Nobody}
                    /\ sftp_session \in {"none", "open", "shut"}
                    /\ copier \in {"none", "lock", "send"}
                    /\ sessions \in 0..MaxSessions /\ drops \in 0..MaxDrops
<1>1. Init => Types
  <2> SUFFICES ASSUME Init PROVE Types
    OBVIOUS
  <2>1. {bRunning, yes, asked, misused} \subseteq BOOLEAN /\ user \in BOOLEAN
    BY DEF Init
  <2>2. tries \in Nat /\ sessions \in 0..MaxSessions /\ drops \in 0..MaxDrops
    BY SftpAssumption DEF Init
  <2>3. known \subseteq HostKeys /\ key \in HostKeys /\ pass \in {"none", "given", "typed"}
    BY DEF Init
  <2> QED BY <2>1, <2>2, <2>3 DEF Init
<1>2. Types /\ [Next]_vars => Types'
  <2> SUFFICES ASSUME Types, [Next]_vars PROVE Types'
    OBVIOUS
  <2>1. CASE Connect BY <2>1, SftpAssumption DEF Connect, login, files
  <2>2. CASE disconn BY <2>2 DEF disconn, login, files
  <2>3. CASE Drop BY <2>3, SftpAssumption DEF Drop, login
  <2>4. CASE Handshake BY <2>4 DEF Handshake, files
  <2>5. CASE CheckKey BY <2>5 DEF CheckKey, login, files
  <2>6. CASE AskKey BY <2>6 DEF AskKey, files
  <2>7. CASE Auth
    <3>1. user' \in BOOLEAN
      BY <2>7 DEF Auth, Authenticated, Refused
    <3>2. pass' \in {"none", "given", "typed"} /\ tries' \in Nat
      BY <2>7 DEF Auth, Kept, Authenticated, Refused
    <3>3. pc' \in {"free", "init", "prompt"}
      BY <2>7 DEF Auth, Kept, Authenticated, Refused
    <3> QED BY <2>7, <3>1, <3>2, <3>3 DEF Auth, files
  <2>8. CASE TypePassword
    <3>1. user' \in BOOLEAN
      BY <2>8 DEF TypePassword, Authenticated, Refused
    <3>2. pass' \in {"none", "given", "typed"} /\ tries' \in Nat
      BY <2>8 DEF TypePassword, Authenticated, Refused
    <3>3. pc' \in {"free", "init", "prompt"}
      BY <2>8 DEF TypePassword, Authenticated, Refused
    <3> QED BY <2>8, <3>1, <3>2, <3>3 DEF TypePassword, files
  <2>9. CASE InitSftp BY <2>9 DEF InitSftp, login, files
  <2>10. CASE Start BY <2>10 DEF Start, login, files
  <2>11. CASE Loop BY <2>11, SftpAssumption DEF Loop, login, files
  <2>12. CASE Gets BY <2>12 DEF Gets, login, files
  <2>13. CASE Lock BY <2>13, SftpAssumption DEF Lock, login, files, Threads
  <2>14. CASE Command BY <2>14 DEF Command, login, Nobody
  <2>15. CASE Shutdown \/ Free BY <2>15 DEF Shutdown, Free, files
  <2>16. CASE Copier BY <2>16 DEF Copier, SendFile, Sent, login, Threads, Nobody
  <2>17. CASE \E t \in Threads : Transfer(t)
    BY <2>17 DEF Transfer, Open, GetBlock, PutRead, PutWrite, Calling, Rest, login
  <2>18. CASE UNCHANGED vars BY <2>18 DEF vars, login, files
  <2> QED
    BY <2>1, <2>2, <2>3, <2>4, <2>5, <2>6, <2>7, <2>8, <2>9, <2>10, <2>11, <2>12, <2>13, <2>14,
       <2>15, <2>16, <2>17, <2>18 DEF Next, Reader
<1>3. Types /\ InTransit => TypeOK
  BY DEF TypeOK, InTransit, TransferType
<1> QED BY <1>1, <1>2, <1>3, Transit, PTL DEF Spec

----------------------------------------------------------------------------

\* No name and no password goes to a host whose key is neither in known_hosts
\* nor accepted in this log-in, whatever the host, the user and libssh2 answer.
THEOREM KeyAccepted == Spec => []KeyIsAccepted
<1>1. Init => KeyIsAccepted
  BY DEF Init, KeyIsAccepted
<1>2. KeyIsAccepted /\ [Next]_vars => KeyIsAccepted'
  <2> SUFFICES ASSUME KeyIsAccepted, [Next]_vars PROVE KeyIsAccepted'
    OBVIOUS
  <2> USE DEF KeyIsAccepted
  <2>1. CASE Connect BY <2>1 DEF Connect
  <2>2. CASE disconn BY <2>2 DEF disconn, login
  <2>3. CASE Drop BY <2>3 DEF Drop, login
  <2>4. CASE Handshake BY <2>4 DEF Handshake
  <2>5. CASE CheckKey BY <2>5 DEF CheckKey, login
  <2>6. CASE AskKey BY <2>6 DEF AskKey
  <2>7. CASE Auth BY <2>7 DEF Auth, Kept, Authenticated, Refused
  <2>8. CASE TypePassword BY <2>8 DEF TypePassword, Authenticated, Refused
  <2>9. CASE InitSftp BY <2>9 DEF InitSftp, login
  <2>10. CASE Start \/ Loop \/ Gets \/ Lock
    BY <2>10 DEF Start, Loop, Gets, Lock, login
  <2>11. CASE Command BY <2>11 DEF Command, login
  <2>12. CASE Shutdown \/ Free BY <2>12 DEF Shutdown, Free
  <2>13. CASE Copier BY <2>13 DEF Copier, SendFile, Sent, login
  <2>14. CASE \E t \in Threads : Transfer(t)
    BY <2>14 DEF Transfer, Open, GetBlock, PutRead, PutWrite, Rest, login
  <2>15. CASE UNCHANGED vars BY <2>15 DEF vars, login
  <2> QED
    BY <2>1, <2>2, <2>3, <2>4, <2>5, <2>6, <2>7, <2>8, <2>9, <2>10, <2>11, <2>12, <2>13,
       <2>14, <2>15 DEF Next, Reader
<1> QED BY <1>1, <1>2, PTL DEF Spec

\* A typed password exists only while the user is asked for one.
THEOREM TypedForgotten == Spec => []TypedIsForgotten
<1>1. Init => TypedIsForgotten
  BY DEF Init, TypedIsForgotten
<1>2. TypedIsForgotten /\ [Next]_vars => TypedIsForgotten'
  <2> SUFFICES ASSUME TypedIsForgotten, [Next]_vars PROVE TypedIsForgotten'
    OBVIOUS
  <2> USE DEF TypedIsForgotten
  <2>1. CASE Connect \/ disconn \/ Drop BY <2>1 DEF Connect, disconn, Drop, login
  <2>2. CASE Handshake \/ CheckKey \/ AskKey BY <2>2 DEF Handshake, CheckKey, AskKey, login
  <2>3. CASE Auth BY <2>3 DEF Auth, Kept, Authenticated, Refused
  <2>4. CASE TypePassword BY <2>4 DEF TypePassword, Authenticated, Refused
  <2>5. CASE InitSftp \/ Start \/ Loop \/ Gets \/ Lock
    BY <2>5 DEF InitSftp, Start, Loop, Gets, Lock, login
  <2>6. CASE Command BY <2>6 DEF Command, login
  <2>7. CASE Shutdown \/ Free BY <2>7 DEF Shutdown, Free
  <2>8. CASE Copier BY <2>8 DEF Copier, SendFile, Sent, login
  <2>9. CASE \E t \in Threads : Transfer(t)
    BY <2>9 DEF Transfer, Open, GetBlock, PutRead, PutWrite, Rest, login
  <2>10. CASE UNCHANGED vars BY <2>10 DEF vars, login
  <2> QED
    BY <2>1, <2>2, <2>3, <2>4, <2>5, <2>6, <2>7, <2>8, <2>9, <2>10 DEF Next, Reader
<1> QED BY <1>1, <1>2, PTL DEF Spec
=============================================================================
