----------------------------- MODULE TermLocks -----------------------------
(***************************************************************************)
(* The locks of a terminal and the threads that nest them:                 *)
(*                                                                         *)
(*   fl       FLTK's lock, recursive, held by the window's thread for the  *)
(*            whole of every event;                                        *)
(*   append   Fl_Term::append_mtx, held while text is put in the buffer;   *)
(*   ssh      sshHost::mtx, held for a libssh2 call, but by an sftpHost    *)
(*            for a whole command;                                         *)
(*   tunnel   sshHost::tunnel_mtx.                                         *)
(*                                                                         *)
(* A thread is the stack of the routines it is in that hold a lock.        *)
(***************************************************************************)
EXTENDS Naturals, Sequences

CONSTANTS
    Window,     \* the thread that runs Fl::run
    HostReader, \* the thread that runs read() of the host
    Scripts,    \* script, copier and HTTP threads
    Workers,    \* tunnel threads
    None

Threads == {Window, HostReader} \cup Scripts \cup Workers

\* The lock each routine takes first and drops last.
LockOf == [event   |-> "fl",     \* Fl::run handling an event, draw()
           clear   |-> "fl",     \* Fl_Term::clear
           grow    |-> "fl",     \* next_line() moving the buffer
           append  |-> "append", \* Fl_Term::append
           call    |-> "ssh",    \* one libssh2 call of an sshHost
           sftp    |-> "ssh",    \* a command or a dropped file of an sftpHost
           tunDel  |-> "tunnel", \* tun_del() and the listing of tun()
           tunList |-> "tunnel"] \* tun_add(), tun_closeall(), tun() closing

Routines == {"event", "clear", "grow", "append", "call", "sftp", "tunDel", "tunList"}

ASSUME LockThreadsAssumption ==
    /\ Window # HostReader
    /\ {Window, HostReader} \cap (Scripts \cup Workers) = {}
    /\ Scripts \cap Workers = {}
    /\ None \notin Routines

VARIABLES
    stack,     \* stack[t]: the routines t is in
    waits,     \* waits[t]: the routine t is about to enter, or None
    kind,      \* the host: "ssh" or "sftp"
    bEcho      \* Fl_Term::bEcho, local echo

locksVars == <<stack, waits, kind, bEcho>>

In(t, r) == \E i \in 1..Len(stack[t]) : stack[t][i] = r
Holds(t, l) == \E i \in 1..Len(stack[t]) : LockOf[stack[t][i]] = l
Top(t) == IF stack[t] = <<>> THEN "main" ELSE stack[t][Len(stack[t])]

\* A thread nests three routines at most: append() does not return to itself.
MaxNest == 3

LocksTypeOK ==
    /\ stack \in [Threads -> Seq(Routines)]
    /\ \A t \in Threads : Len(stack[t]) <= MaxNest
    /\ waits \in [Threads -> Routines \cup {None}]
    /\ kind \in {"ssh", "sftp"}
    /\ bEcho \in BOOLEAN

LocksInit ==
    /\ stack = [t \in Threads |-> <<>>]
    /\ waits = [t \in Threads |-> None]
    /\ kind \in {"ssh", "sftp"}
    /\ bEcho = FALSE

----------------------------------------------------------------------------
(* Who calls what, from which routine *)

\* Every event of the window's thread: keys, resizing, the menu, drawing.
\* Keys typed for gets(), and with local echo all others, are appended; keys,
\* the window's size and Disconnect go to the host; a tab or !Clear clears.
WindowCalls(t, r) ==
    /\ t = Window
    /\ \/ Top(t) = "main" /\ r = "event"
       \/ Top(t) = "event" /\ r \in {"append", "clear"}
       \/ Top(t) = "event" /\ r = "call"   \* send_size of an sftpHost too

\* sshHost::read: a channel_read, the text for the terminal, tun_closeall;
\* sftpHost::read: gets() and its prompt, then the command.
ReaderCalls(t, r) ==
    /\ t = HostReader
    /\ Top(t) = "main"
    /\ \/ r = "append"
       \/ kind = "ssh" /\ r \in {"call", "tunList"}
       \/ kind = "sftp" /\ r = "sftp"

\* Fl_Term::command and the copier: text, sends, !Clear, !scp, !tun and the
\* dropped files of an sftpHost.
ScriptCalls(t, r) ==
    /\ t \in Scripts
    /\ Top(t) = "main"
    /\ \/ r \in {"append", "clear"}
       \/ kind = "ssh" /\ r \in {"call", "tunList", "tunDel"}
       \/ kind = "sftp" /\ r = "sftp"

\* tun_local, tun_remote and tun_worker
WorkerCalls(t, r) ==
    /\ t \in Workers
    /\ kind = "ssh"
    /\ Top(t) = "main"
    /\ r \in {"append", "call", "tunList", "tunDel"}

\* Slip: a tunnel's entry is deleted while its channel is closed under mtx.
NestedCalls_TunDelUnderMtx(t, r) ==
    \/ Top(t) = "append" /\ r = "grow"
    \/ Top(t) = "append" /\ t \notin Workers /\ kind = "ssh" /\ r = "call"
    \/ Top(t) = "append" /\ t \notin Workers /\ bEcho /\ r = "append"
    \/ Top(t) \in {"sftp", "tunDel"} /\ r = "append"
    \/ Top(t) = "call" /\ t \in Workers /\ r = "tunDel"

\* Slip: an sftp command clears the terminal while mtx is held.
NestedCalls_ClearInSftp(t, r) ==
    \/ Top(t) = "append" /\ r = "grow"
    \/ Top(t) = "append" /\ t \notin Workers /\ kind = "ssh" /\ r = "call"
    \/ Top(t) = "append" /\ t \notin Workers /\ bEcho /\ r = "append"
    \/ Top(t) \in {"sftp", "tunDel"} /\ r = "append"
    \/ Top(t) = "sftp" /\ r = "clear"

\* Inside a routine: print() of an sftp command and of the tunnel list, the
\* buffer that is full, and the answer to an ESC [ c in the text of the host,
\* of !Disp or of an echoed paste, sent while parsing.
NestedCalls(t, r) ==
    \/ Top(t) = "append" /\ r = "grow"
    \/ Top(t) = "append" /\ t \notin Workers /\ kind = "ssh" /\ r = "call"
    \/ Top(t) = "append" /\ t \notin Workers /\ bEcho /\ r = "append"
    \/ Top(t) \in {"sftp", "tunDel"} /\ r = "append"

Enter(t, r) ==
    /\ waits[t] = None
    /\ \/ WindowCalls(t, r) \/ ReaderCalls(t, r) \/ ScriptCalls(t, r)
       \/ WorkerCalls(t, r) \/ NestedCalls(t, r)
    /\ waits' = [waits EXCEPT ![t] = r]
    /\ UNCHANGED <<stack, kind, bEcho>>

\* Slip: next_line() moves the buffer without Fl::lock().
Free_GrowUnlocked(l, t) ==
    waits[t] = "grow" \/ \A u \in Threads : Holds(u, l) => u = t /\ l = "fl"

\* The lock l is free for t: only FLTK's may be locked twice.
Free(l, t) == \A u \in Threads : Holds(u, l) => u = t /\ l = "fl"

Lock(t) ==
    /\ waits[t] # None
    /\ Free(LockOf[waits[t]], t)
    /\ stack' = [stack EXCEPT ![t] = Append(@, waits[t])]
    /\ waits' = [waits EXCEPT ![t] = None]
    /\ UNCHANGED <<kind, bEcho>>

Leave(t) ==
    /\ waits[t] = None
    /\ stack[t] # <<>>
    /\ stack' = [stack EXCEPT ![t] = SubSeq(@, 1, Len(@) - 1)]
    /\ UNCHANGED <<waits, kind, bEcho>>

\* !Echo, from the command line or a script
ToggleEcho(t) ==
    /\ \/ t \in Scripts /\ Top(t) = "main"
       \/ t = Window /\ Top(t) = "event"
    /\ waits[t] = None
    /\ bEcho' = ~bEcho
    /\ UNCHANGED <<stack, waits, kind>>

LocksNext == \E t \in Threads :
                \/ \E r \in Routines : Enter(t, r)
                \/ Lock(t) \/ Leave(t) \/ ToggleEcho(t)

LocksSpec == LocksInit /\ [][LocksNext]_locksVars

(* A routine that has its lock goes on, and no thread is starved of a lock *)
(* that others keep giving back.  An event comes to an end: it does not    *)
(* call for ever.                                                          *)
LocksFairSpec ==
    LocksSpec /\ \A t \in Threads : SF_locksVars(Lock(t)) /\ SF_locksVars(Leave(t))

----------------------------------------------------------------------------
(* Properties *)

\* The threads in D wait for one another.
Deadlocked(D) ==
    \A t \in D : /\ waits[t] # None
                 /\ ~Free(LockOf[waits[t]], t)
                 /\ \E u \in D : Holds(u, LockOf[waits[t]])

\* Text is never moved under the window's hands: while next_line() moves the
\* buffer no event handler, and so no draw(), of another thread is running.
NotMovedWhileDrawn ==
    \A t \in Threads : In(t, "grow") => ~In(Window, "event") \/ t = Window

\* A thread answers a device attributes request while it appends, and with
\* local echo on appends its own answer.
EchoesToItself(t) == In(t, "append") /\ waits[t] = "append"

\* The threads behind the window never deadlock among themselves, unless one
\* of them echoes to itself: they nest the locks in one order, tunnel before
\* append before fl, and an sshHost's mtx comes last, an sftpHost's first.
WorkersNeverDeadlock ==
    \A D \in SUBSET (Threads \ {Window}) :
        D # {} /\ Deadlocked(D) => \E t \in D : EchoesToItself(t)

\* When threads do deadlock, one of them is appending text: without append()
\* calling out with its lock held there would be no deadlock at all.
DeadlockNeedsAppend ==
    \A D \in SUBSET Threads :
        D # {} /\ Deadlocked(D) => \E t \in D : In(t, "append")

\* "Once a connection is made, any key press will be transmitted to remote
\* host": the event of a key is handled in the end.
KeyPressHandled == In(Window, "event") ~> ~In(Window, "event")
=============================================================================
