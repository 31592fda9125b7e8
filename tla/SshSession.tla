----------------------------- MODULE SshSession -----------------------------
(***************************************************************************)
(* The libssh2 session and shell channel of an sshHost, shared by          *)
(*                                                                         *)
(*   - the reader thread, which runs sshHost::read: it makes both, reads   *)
(*     the channel, and closes and frees them;                             *)
(*   - Users, threads that call write, send_size and disconn;              *)
(*   - Copiers, script threads that run an scp command.                    *)
(*                                                                         *)
(* A call made under sshHost::mtx takes two steps, Acquire and a return,   *)
(* so that what other threads do in between is seen.  A session is a       *)
(* number, the channel of session s is s, and 0 is NULL.                   *)
(***************************************************************************)
EXTENDS Integers

CONSTANTS
    Reader,       \* the thread running sshHost::read
    Users,        \* threads that write, resize and disconnect
    Copiers,      \* threads that run scp
    NoOne,        \* the owner of a free mutex
    MaxSessions   \* bound: how many sessions are opened in turn

ASSUME ThreadsAssumption ==
    /\ Reader \notin Users \cup Copiers
    /\ Users \cap Copiers = {}
    /\ NoOne \notin {Reader} \cup Users \cup Copiers
    /\ MaxSessions \in Nat

Procs    == {Reader} \cup Users \cup Copiers
Sessions == 0..MaxSessions

\* Connection set-up: libssh2 is called in blocking mode and without mtx.
Setup == {"handshake", "auth", "shell"}

\* A thread about to lock mtx, and the call it makes once it has it.
Queued == [loop      |-> "read",  closing |-> "close", freeing  |-> "free",
           writeLock |-> "write", sizeLock |-> "size", eofLock  |-> "eof",
           endLock   |-> "end",   openLock |-> "open", copyLock |-> "copy",
           dropLock  |-> "drop"]

ChannelCalls == {"read", "close", "write", "size", "eof"}
SessionCalls == {"free", "end", "open"}
CopyCalls    == {"copy", "drop"}
Calls        == ChannelCalls \cup SessionCalls \cup CopyCalls

ReaderPcs == {"idle", "tcp", "wait", "over", "closed", "freed", "ending",
              "loop", "read", "closing", "close", "freeing", "free"} \cup Setup
WritePcs  == {"idle", "writeTest", "writeLock", "write", "writeWait"}
UserPcs   == WritePcs \cup {"sizeLock", "size", "eofTest", "eofLock", "eof",
                            "endTest", "endLock", "end"}
CopierPcs == WritePcs \cup {"openLock", "open", "openWait", "copyLock", "copy",
                            "copyWait", "dropLock", "drop"}

VARIABLES
    pc,        \* pc[p]: where thread p is
    obj,       \* obj[p]: the session or channel p's call works on
    session,   \* sshHost::session
    channel,   \* sshHost::channel
    opened,    \* how many sessions libssh2_session_init made
    freed,     \* sessions given to libssh2_session_free
    mtx,       \* the owner of sshHost::mtx
    hung,      \* session_disconnect reached the peer of this session
    crashed    \* the call that used a freed or NULL session, or "no"

vars == <<pc, obj, session, channel, opened, freed, mtx, hung, crashed>>

TypeOK ==
    /\ pc \in [Procs -> ReaderPcs \cup UserPcs \cup CopierPcs]
    /\ pc[Reader] \in ReaderPcs
    /\ \A u \in Users : pc[u] \in UserPcs
    /\ \A k \in Copiers : pc[k] \in CopierPcs
    /\ obj \in [Procs -> Sessions]
    /\ session \in Sessions
    /\ channel \in Sessions
    /\ opened \in Sessions
    /\ freed \in SUBSET (1..opened)
    /\ mtx \in Procs \cup {NoOne}
    /\ hung \in BOOLEAN
    /\ crashed \in Calls \cup {"no", "wait"}

Init ==
    /\ pc = [p \in Procs |-> "idle"]
    /\ obj = [p \in Procs |-> 0]
    /\ session = 0
    /\ channel = 0
    /\ opened = 0
    /\ freed = {}
    /\ mtx = NoOne
    /\ hung = FALSE
    /\ crashed = "no"

At(p, here) == crashed = "no" /\ pc[p] = here
Goes(p, there) == pc' = [pc EXCEPT ![p] = there]
Moves(p, here, there) == At(p, here) /\ Goes(p, there)

----------------------------------------------------------------------------
(* mtx and the calls made under it *)

\* The pointer a call is given, read after mtx.lock() returned.
Argument(p, call) == CASE call \in ChannelCalls -> channel
                       [] call \in SessionCalls -> session
                       [] OTHER                 -> obj[p]

Acquire(p) ==
    /\ crashed = "no"
    /\ pc[p] \in DOMAIN Queued
    /\ mtx = NoOne
    /\ mtx' = p
    /\ Goes(p, Queued[pc[p]])
    /\ obj' = [obj EXCEPT ![p] = Argument(p, Queued[pc[p]])]
    /\ UNCHANGED <<session, channel, opened, freed, hung, crashed>>

\* libssh2's channel functions refuse a NULL channel; nothing survives a
\* freed one, or a NULL session.
Valid(p) == /\ obj[p] \notin freed
            /\ pc[p] \in SessionCalls => obj[p] # 0

\* The call returns and mtx.unlock() follows.
Returns(p, call, there) ==
    /\ Moves(p, call, there)
    /\ mtx' = NoOne
    /\ crashed' = (IF Valid(p) THEN "no" ELSE call)

\* wait_socket asks the session, without mtx, what it is blocked on.
Waits(p, here, there) ==
    /\ Moves(p, here, there)
    /\ crashed' = (IF session \in freed \cup {0} THEN "wait" ELSE "no")
    /\ UNCHANGED <<obj, session, channel, opened, freed, mtx, hung>>

----------------------------------------------------------------------------
(* sshHost::read *)

\* HOST::connect started the reader: status(HOST_CONNECTING).
Connect ==
    /\ Moves(Reader, "idle", "tcp")
    /\ opened < MaxSessions
    /\ hung' = FALSE
    /\ UNCHANGED <<obj, session, channel, opened, freed, mtx, crashed>>

TcpFails ==
    /\ Moves(Reader, "tcp", "ending")
    /\ UNCHANGED <<obj, session, channel, opened, freed, mtx, hung, crashed>>

SessionInit ==
    /\ Moves(Reader, "tcp", "handshake")
    /\ channel' = 0
    /\ opened' = opened + 1
    /\ session' = opened'
    /\ UNCHANGED <<obj, freed, mtx, hung, crashed>>

Handshake ==
    /\ Moves(Reader, "handshake", "auth")
    /\ UNCHANGED <<obj, session, channel, opened, freed, mtx, hung, crashed>>

\* Known host verified and user authenticated: libssh2_channel_open_session.
OpenChannel ==
    /\ Moves(Reader, "auth", "shell")
    /\ channel' = session
    /\ UNCHANGED <<obj, session, opened, freed, mtx, hung, crashed>>

\* Handshake, verification, authentication or channel failure: Session_Close;
\* pty, shell or subsystem failure: Channel_Close.
SetupFails ==
    /\ \/ Moves(Reader, "handshake", "freeing")
       \/ Moves(Reader, "auth", "freeing")
       \/ Moves(Reader, "shell", "closing")
    /\ UNCHANGED <<obj, session, channel, opened, freed, mtx, hung, crashed>>

\* libssh2_session_set_blocking(session, 0) and "Connected".
Connected ==
    /\ Moves(Reader, "shell", "loop")
    /\ UNCHANGED <<obj, session, channel, opened, freed, mtx, hung, crashed>>

\* Data for the terminal, or EAGAIN.
ReadReturns ==
    /\ \E there \in {"loop", "wait"} : Returns(Reader, "read", there)
    /\ UNCHANGED <<obj, session, channel, opened, freed, hung>>

ReadEnds ==
    /\ Returns(Reader, "read", "over")
    /\ UNCHANGED <<obj, session, channel, opened, freed, hung>>

\* wait_socket()<0 ends the loop.
ReaderWaits == Waits(Reader, "wait", "loop") \/ Waits(Reader, "wait", "over")

\* "Disconnected", tun_closeall, the password forgotten.
Over ==
    /\ Moves(Reader, "over", "closing")
    /\ UNCHANGED <<obj, session, channel, opened, freed, mtx, hung, crashed>>

CloseReturns ==
    /\ Returns(Reader, "close", "closed")
    /\ UNCHANGED <<obj, session, channel, opened, freed, hung>>

\* Slip: the closed channel stays in `channel`.
ChannelNull_Forgotten ==
    /\ Moves(Reader, "closed", "freeing")
    /\ UNCHANGED <<obj, session, channel, opened, freed, mtx, hung, crashed>>

ChannelNull ==
    /\ Moves(Reader, "closed", "freeing")
    /\ channel' = 0
    /\ UNCHANGED <<obj, session, opened, freed, mtx, hung, crashed>>

\* libssh2_session_free frees the channels of the session too.
FreeReturns ==
    /\ Returns(Reader, "free", "freed")
    /\ freed' = freed \cup {obj[Reader]}
    /\ UNCHANGED <<obj, session, channel, opened, hung>>

\* Slip: the freed session stays in `session`.
SessionNull_Forgotten ==
    /\ Moves(Reader, "freed", "ending")
    /\ UNCHANGED <<obj, session, channel, opened, freed, mtx, hung, crashed>>

SessionNull ==
    /\ Moves(Reader, "freed", "ending")
    /\ session' = 0
    /\ UNCHANGED <<obj, channel, opened, freed, mtx, hung, crashed>>

\* closesocket, HOST_IDLE, reader.detach().
Ending ==
    /\ Moves(Reader, "ending", "idle")
    /\ UNCHANGED <<obj, session, channel, opened, freed, mtx, hung, crashed>>

----------------------------------------------------------------------------
(* write, send_size and disconn *)

\* Fl_Term::write and sshHost::disconn look at reader.joinable() first,
\* Fl_Term::resize does not.
Begin(u) ==
    /\ \/ pc[Reader] # "idle" /\ Moves(u, "idle", "writeTest")
       \/ pc[Reader] # "idle" /\ Moves(u, "idle", "eofTest")
       \/ Moves(u, "idle", "sizeLock")
    /\ UNCHANGED <<obj, session, channel, opened, freed, mtx, hung, crashed>>

\* `total<len && channel!=NULL`, `if ( channel!=NULL )`, `if ( session!=NULL )`
Test(p) ==
    /\ \/ Moves(p, "writeTest", IF channel # 0 THEN "writeLock" ELSE "idle")
       \/ Moves(p, "eofTest", IF channel # 0 THEN "eofLock" ELSE "endTest")
       \/ Moves(p, "endTest", IF session # 0 THEN "endLock" ELSE "idle")
    /\ UNCHANGED <<obj, session, channel, opened, freed, mtx, hung, crashed>>

\* Slip: an error leaves the write loop with mtx locked.
WriteReturns_Locked(p) ==
    /\ \/ \E there \in {"writeTest", "writeWait"} : Returns(p, "write", there)
       \/ Moves(p, "write", "idle") /\ UNCHANGED <<mtx, crashed>>
    /\ UNCHANGED <<obj, session, channel, opened, freed, hung>>

\* All was sent or an error ends the loop, a part was, or EAGAIN.
WriteReturns(p) ==
    /\ \E there \in {"idle", "writeTest", "writeWait"} : Returns(p, "write", there)
    /\ UNCHANGED <<obj, session, channel, opened, freed, hung>>

WriteWaits(p) == Waits(p, "writeWait", "writeTest") \/ Waits(p, "writeWait", "idle")

SizeReturns(u) ==
    /\ Returns(u, "size", "idle")
    /\ UNCHANGED <<obj, session, channel, opened, freed, hung>>

\* Slip: disconn locks once for both calls, and mtx is not recursive.
EofReturns_Locked(u) ==
    /\ Moves(u, "eof", "endTest")
    /\ UNCHANGED <<obj, session, channel, opened, freed, mtx, hung, crashed>>

EofReturns(u) ==
    /\ Returns(u, "eof", "endTest")
    /\ UNCHANGED <<obj, session, channel, opened, freed, hung>>

EndReturns(u) ==
    /\ Returns(u, "end", "idle")
    /\ hung' = (hung \/ obj[u] = session)
    /\ UNCHANGED <<obj, session, channel, opened, freed>>

----------------------------------------------------------------------------
(* scp_read_one and scp_write_one *)

\* The scp command is passed on to the host whether it is live or not.
BeginCopy(k) ==
    /\ Moves(k, "idle", "openLock")
    /\ UNCHANGED <<obj, session, channel, opened, freed, mtx, hung, crashed>>

\* libssh2_scp_recv2 or libssh2_scp_send: a channel, EAGAIN or an error.
OpenReturns(k) ==
    /\ \E there \in {"copyLock", "openWait", "writeTest"} : Returns(k, "open", there)
    /\ UNCHANGED <<obj, session, channel, opened, freed, hung>>

OpenWaits(k) == Waits(k, "openWait", "openLock") \/ Waits(k, "openWait", "writeTest")

\* A block was transferred, EAGAIN, or the file is done or failed.
CopyReturns(k) ==
    /\ \E there \in {"copyLock", "copyWait", "dropLock"} : Returns(k, "copy", there)
    /\ UNCHANGED <<obj, session, channel, opened, freed, hung>>

CopyWaits(k) == Waits(k, "copyWait", "copyLock") \/ Waits(k, "copyWait", "dropLock")

\* Close and free the scp channel; sshHost::command then writes "\r".
DropReturns(k) ==
    /\ Returns(k, "drop", "writeTest")
    /\ UNCHANGED <<obj, session, channel, opened, freed, hung>>

----------------------------------------------------------------------------
ReaderSteps ==
    \/ Connect \/ TcpFails \/ SessionInit \/ Handshake \/ OpenChannel
    \/ SetupFails \/ Connected \/ ReadReturns \/ ReadEnds \/ ReaderWaits
    \/ Over \/ CloseReturns \/ ChannelNull \/ FreeReturns \/ SessionNull
    \/ Ending

WriteSteps(p) == Test(p) \/ WriteReturns(p) \/ WriteWaits(p)

UserSteps(u) ==
    WriteSteps(u) \/ SizeReturns(u) \/ EofReturns(u) \/ EndReturns(u)

CopierSteps(k) ==
    \/ WriteSteps(k) \/ OpenReturns(k) \/ OpenWaits(k)
    \/ CopyReturns(k) \/ CopyWaits(k) \/ DropReturns(k)

Next ==
    \/ \E p \in Procs : Acquire(p)
    \/ ReaderSteps
    \/ \E u \in Users : Begin(u) \/ UserSteps(u)
    \/ \E k \in Copiers : BeginCopy(k) \/ CopierSteps(k)

Spec == Init /\ [][Next]_vars

(* Once Connected the calls do not block, and wait_socket waits at most    *)
(* 10 ms; while the connection is set up they may block for as long as the *)
(* peer likes.  No thread is starved of mtx.  A peer that is told to       *)
(* disconnect closes the connection, which ends the read loop or fails the *)
(* set-up.                                                                 *)
Answered == pc[Reader] \notin Setup

Teardown == \/ TcpFails \/ SessionInit \/ ReadReturns \/ ReaderWaits \/ Over
            \/ CloseReturns \/ ChannelNull \/ FreeReturns \/ SessionNull
            \/ Ending

Fairness ==
    /\ \A p \in Procs : SF_vars(Acquire(p))
    /\ WF_vars(Teardown)
    /\ SF_vars(ReadEnds /\ hung)
    /\ WF_vars(SetupFails /\ hung)
    /\ \A u \in Users : WF_vars(UserSteps(u) /\ Answered)
    /\ \A k \in Copiers : WF_vars(CopierSteps(k) /\ Answered)

FairSpec == Spec /\ Fairness

----------------------------------------------------------------------------
(* Properties *)

\* The reader clears `channel` before it frees the session and holds mtx
\* while it frees it, so that the calls of write, send_size and disconn on
\* the shell channel, and the reader's own, never reach freed memory however
\* they race with the end of the session.
ChannelCallsSafe == crashed \notin ChannelCalls \cup {"free"}

\* A session that is over leaves no pointer behind: a write or a resize on
\* the disconnected host finds NULL, not the last session's channel.
NothingLeftBehind ==
    pc[Reader] \in {"idle", "tcp", "ending"} => session = 0 /\ channel = 0

\* Whoever holds mtx is inside a libssh2 call: no thread waits for the
\* socket, or leaves, with the mutex locked.
HolderIsCalling == \A p \in Procs : mtx = p <=> pc[p] \in Calls

\* A session the user disconnected is over in the end, whatever the other
\* threads are writing or copying.
DisconnectEndsSession ==
    hung ~> pc[Reader] = "idle" \/ crashed # "no"

\* disconn and send_size give the window's thread back: they return unless
\* the connection is still being set up.
WindowGoesOn ==
    \A u \in Users :
        pc[u] \in {"eofTest", "sizeLock"} ~>
            pc[u] = "idle" \/ crashed # "no" \/ ~Answered

\* `mtx` is there "to protect ssh session access": no call is made on a
\* session that is NULL or freed.
SessionProtected == crashed = "no"
=============================================================================
