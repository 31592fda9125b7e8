--------------------------- MODULE HostLifecycle ---------------------------
(***************************************************************************)
(* One Fl_Term and the HOST objects it is given over time.                 *)
(*                                                                         *)
(* A HOST owns a std::thread member `reader`.  HOST::connect starts a      *)
(* thread running the virtual read() and swaps it into `reader`; read()    *)
(* ends with reader.detach(), and HOST::live() is reader.joinable().       *)
(* Fl_Term::connect replaces the host only when it is not live.            *)
(*                                                                         *)
(* The threads that call into the terminal (the window's event thread, a   *)
(* script thread, the HTTP thread) are Callers; the reader threads are     *)
(* Threads.  Each shared access is a step of its own, and nothing keeps    *)
(* two Callers apart: the history variable `raced` remembers whether two   *)
(* of them were in connect, Enter or a deleted host at once.               *)
(***************************************************************************)
EXTENDS Naturals, FiniteSets

CONSTANTS
    Hosts,       \* addresses of HOST objects
    Threads,     \* reader threads
    Callers,     \* threads that operate the terminal
    Kinds,       \* the HOST subclasses in play, a subset of HostKinds
    FirstHost,   \* the HOST made by Fl_Term's constructor
    AfterRace,   \* bound: whether connect and Enter are begun after a race
    None

HostKinds == {"com", "tcp", "pipe", "ssh"}
Objects   == {"unused", "base", "deleted"} \cup HostKinds
Status    == {"IDLE", "CONNECTING", "AUTHENTICATING", "CONNECTED"}

ASSUME HostsAssumption == /\ FirstHost \in Hosts
                          /\ Kinds \subseteq HostKinds
                          /\ None \notin Hosts \cup Threads
ASSUME AfterRaceAssumption == AfterRace \in BOOLEAN

\* Fl_Term::connect: check, delete, assign;  HOST::connect: start, swap;
\* Fl_Term::write of Enter: enter.
CallerPcs == {"idle", "check", "delete", "assign", "enter", "start", "swap"}
ReaderPcs == {"none", "entry", "opening", "failed", "loop", "closing",
              "noted", "detach", "gone"}

VARIABLES
    host,      \* Fl_Term::host
    object,    \* object[h]: the class of the object at h
    state,     \* HOST::state
    handle,    \* handle[h]: the thread HOST::reader holds, or None
    hangup,    \* hosts whose open connection disconn() reached
    forked,    \* pipeHosts whose shell_pid is a process, not -1
    caller,    \* caller[c]: pc, its newhost argument, its local new_reader
    rd,        \* rd[t]: pc and host (the `this` of read())
    notice,    \* "reconnect" once "..., Press Enter to reconnect" is displayed
    aborted,   \* what ended the process, if anything did: std::terminate from
               \* detach() or ~thread(), kill(-1), or the use of a deleted HOST
    raced      \* history: a thread entered connect or Enter while another was
               \* inside, or turned to the host while another was replacing it

vars == <<host, object, state, handle, hangup, forked, caller, rd, notice, aborted,
          raced>>

TypeOK ==
    /\ host \in Hosts
    /\ object \in [Hosts -> Objects]
    /\ state \in [Hosts -> Status]
    /\ handle \in [Hosts -> Threads \cup {None}]
    /\ hangup \subseteq Hosts
    /\ forked \subseteq Hosts
    /\ caller \in [Callers -> [pc: CallerPcs, newhost: Hosts \cup {None},
                               newReader: Threads \cup {None}]]
    /\ \A c \in Callers : caller[c].pc \in {"check", "delete", "assign", "swap"} =>
          caller[c].newhost \in Hosts
    /\ rd \in [Threads -> [pc: ReaderPcs, host: Hosts \cup {None}]]
    /\ \A t \in Threads : rd[t].pc # "none" => rd[t].host \in Hosts
    /\ notice \in {"none", "reconnect"}
    /\ aborted \in {"no", "detach", "destroy", "killall", "freed"}
    /\ raced \in BOOLEAN

IdleCaller == [pc |-> "idle", newhost |-> None, newReader |-> None]
NoReader   == [pc |-> "none", host |-> None]

Init ==
    /\ host = FirstHost
    /\ object = [h \in Hosts |-> IF h = FirstHost THEN "base" ELSE "unused"]
    /\ state = [h \in Hosts |-> "IDLE"]
    /\ handle = [h \in Hosts |-> None]
    /\ hangup = {}
    /\ forked = {}
    /\ caller = [c \in Callers |-> IdleCaller]
    /\ rd = [t \in Threads |-> NoReader]
    /\ notice = "none"
    /\ aborted = "no"
    /\ raced = FALSE

\* Slip: a host is taken for live by its status, not by its thread.
live_ByStatus(h) == state[h] # "IDLE"

live(h) == handle[h] # None

\* read() is still executing in t
Active(t) == rd[t].pc \notin {"none", "gone"}

CallerAt(c, pc) == aborted = "no" /\ caller[c].pc = pc
CallerGoes(c, pc) == caller' = [caller EXCEPT ![c].pc = pc]
CallerDone(c) == caller' = [caller EXCEPT ![c] = IdleCaller]

\* `this` of the line c is at is still an object.
Exists(h) == object[h] # "deleted"

\* c enters connect or Enter; no lock makes it wait for another that is there.
Enters(c) == /\ CallerAt(c, "idle")
             /\ raced => AfterRace
             /\ raced' = (raced \/ \E d \in Callers : caller[d].pc # "idle")

----------------------------------------------------------------------------
(* Fl_Term::connect(newhost) *)

\* host_new: the caller builds the HOST it will hand to Fl_Term::connect.
HostNew(c, h, k) ==
    /\ Enters(c)
    /\ object[h] = "unused"
    /\ object' = [object EXCEPT ![h] = k]
    /\ caller' = [caller EXCEPT ![c] = [pc |-> "check", newhost |-> h, newReader |-> None]]
    /\ UNCHANGED <<host, state, handle, hangup, forked, rd, notice, aborted>>

\* Slip: connect without looking at the present host.
ConnectCheck_Unguarded(c) ==
    /\ CallerAt(c, "check")
    /\ Exists(host)
    /\ CallerGoes(c, "delete")
    /\ UNCHANGED <<host, object, state, handle, hangup, forked, rd, notice, aborted, raced>>

\* `if ( host->live() ) return` -- the new HOST is then never deleted.
ConnectCheck(c) ==
    /\ CallerAt(c, "check")
    /\ Exists(host)
    /\ IF live(host) THEN CallerDone(c) ELSE CallerGoes(c, "delete")
    /\ UNCHANGED <<host, object, state, handle, hangup, forked, rd, notice, aborted, raced>>

\* `delete host`: destroying a joinable std::thread calls std::terminate.
ConnectDelete(c) ==
    /\ CallerAt(c, "delete")
    /\ Exists(host)
    /\ object' = [object EXCEPT ![host] = "deleted"]
    /\ aborted' = IF live(host) THEN "destroy" ELSE aborted
    /\ CallerGoes(c, "assign")
    /\ UNCHANGED <<host, state, handle, hangup, forked, rd, notice, raced>>

ConnectAssign(c) ==
    /\ CallerAt(c, "assign")
    /\ host' = caller[c].newhost
    /\ CallerGoes(c, "start")
    /\ UNCHANGED <<object, state, handle, hangup, forked, rd, notice, aborted, raced>>

----------------------------------------------------------------------------
(* HOST::connect *)

\* `if ( !reader.joinable() ) std::thread new_reader(&HOST::read, this)`
StartReader(c, t) ==
    /\ CallerAt(c, "start")
    /\ Exists(host)
    /\ IF live(host)
       THEN CallerDone(c) /\ UNCHANGED <<hangup, rd, notice>>
       ELSE /\ rd[t].pc = "none"
            /\ rd' = [rd EXCEPT ![t] = [pc |-> "entry", host |-> host]]
            /\ caller' = [caller EXCEPT ![c] = [pc |-> "swap", newhost |-> host,
                                                newReader |-> t]]
            /\ notice' = "none"
            /\ hangup' = hangup \ {host}
    /\ UNCHANGED <<host, object, state, handle, forked, aborted, raced>>

\* `reader.swap(new_reader)`, then ~new_reader at the end of the block.
SwapReader(c) ==
    LET h == caller[c].newhost IN
    /\ CallerAt(c, "swap")
    /\ Exists(h)
    /\ handle' = [handle EXCEPT ![h] = caller[c].newReader]
    /\ aborted' = IF live(h) THEN "destroy" ELSE aborted
    /\ CallerDone(c)
    /\ UNCHANGED <<host, object, state, hangup, forked, rd, notice, raced>>

----------------------------------------------------------------------------
(* Fl_Term::write and Fl_Term::disconn *)

\* Enter on a terminal that is not live starts HOST::connect.
EnterOffline(c) ==
    /\ Enters(c)
    /\ Exists(host)
    /\ ~live(host)
    /\ CallerGoes(c, "start")
    /\ UNCHANGED <<host, object, state, handle, hangup, forked, rd, notice, aborted>>

\* On a live one it goes to host->write: a failing write on a serial line
\* calls comHost::disconn, one on a pty closes it, the others just return.
WriteLive(c) ==
    /\ CallerAt(c, "idle")
    /\ live(host)
    /\ state[host] = "CONNECTED"
    /\ object[host] \in {"com", "pipe"}
    /\ state' = [state EXCEPT ![host] = IF object[host] = "com" THEN "IDLE" ELSE @]
    /\ hangup' = hangup \cup {host}
    /\ UNCHANGED <<host, object, handle, forked, caller, rd, notice, aborted, raced>>

\* A session far enough for its disconn() to have something to end.
Hangable(h) == \E t \in Threads : rd[t].host = h /\ rd[t].pc = "loop"

\* Slip: disconn() drops the thread itself, as if read() would not.
Disconn_Detaches(c) ==
    /\ CallerAt(c, "idle")
    /\ Exists(host) /\ Hangable(host)
    /\ handle' = [handle EXCEPT ![host] = None]
    /\ hangup' = hangup \cup {host}
    /\ UNCHANGED <<host, object, state, forked, caller, rd, notice, aborted, raced>>

\* comHost::disconn only acts on a CONNECTED port, tcpHost's and sshHost's on
\* an open socket; HOST::disconn is empty.
Disconn(c) ==
    /\ CallerAt(c, "idle")
    /\ \/ /\ object[host] = "com" /\ state[host] = "CONNECTED"
          /\ state' = [state EXCEPT ![host] = "IDLE"]
       \/ /\ object[host] \in {"tcp", "ssh"} /\ Hangable(host)
          /\ UNCHANGED state
    /\ hangup' = hangup \cup {host}
    /\ UNCHANGED <<host, object, handle, forked, caller, rd, notice, aborted, raced>>

\* pipeHost::disconn: `kill( shell_pid, SIGTERM )`, whatever shell_pid is.
DisconnPipe(c) ==
    /\ CallerAt(c, "idle")
    /\ object[host] = "pipe"
    /\ aborted' = IF host \in forked THEN aborted ELSE "killall"
    /\ hangup' = (IF Hangable(host) THEN hangup \cup {host} ELSE hangup)
    /\ UNCHANGED <<host, object, state, handle, forked, caller, rd, notice, raced>>

----------------------------------------------------------------------------
(* A HOST that another caller has deleted *)

Freed == aborted' = "freed"
         /\ UNCHANGED <<host, object, state, handle, hangup, forked, caller, rd, notice>>

\* Inside connect: live() of it, a second delete, its connect(), its swap().
UsesDeleted(c) ==
    /\ aborted = "no"
    /\ \/ caller[c].pc \in {"check", "delete", "start"} /\ ~Exists(host)
       \/ caller[c].pc = "swap" /\ ~Exists(caller[c].newhost)
    /\ Freed
    /\ UNCHANGED raced

\* From outside: every operation begins with a call of the present host's.
OperatesOnDeleted(c) ==
    /\ CallerAt(c, "idle")
    /\ ~Exists(host)
    /\ raced' = TRUE
    /\ Freed

\* A read() whose `this` is gone.
ReaderUsesDeleted(t) ==
    /\ aborted = "no"
    /\ Active(t) /\ ~Exists(rd[t].host)
    /\ Freed
    /\ UNCHANGED raced

----------------------------------------------------------------------------
(* HOST::read and its overrides *)

ReaderAt(t, pc) == aborted = "no" /\ rd[t].pc = pc /\ Exists(rd[t].host)
ReaderGoes(t, pc) == rd' = [rd EXCEPT ![t].pc = pc]
KindOf(t) == object[rd[t].host]
SetStatus(t, s) == state' = [state EXCEPT ![rd[t].host] = s]

\* HOST::read() { return 0; }: no detach.
BaseRead(t) ==
    /\ ReaderAt(t, "entry")
    /\ KindOf(t) = "base"
    /\ ReaderGoes(t, "gone")
    /\ UNCHANGED <<host, object, state, handle, hangup, forked, caller, notice, aborted, raced>>

ReadEntry(t) ==
    /\ ReaderAt(t, "entry")
    /\ KindOf(t) # "base"
    /\ IF KindOf(t) \in {"tcp", "ssh"} THEN SetStatus(t, "CONNECTING")
                                       ELSE UNCHANGED state
    /\ ReaderGoes(t, "opening")
    /\ UNCHANGED <<host, object, handle, hangup, forked, caller, notice, aborted, raced>>

\* sshHost::read past the handshake
Authenticate(t) ==
    /\ ReaderAt(t, "opening")
    /\ KindOf(t) = "ssh"
    /\ state[rd[t].host] = "CONNECTING"
    /\ SetStatus(t, "AUTHENTICATING")
    /\ UNCHANGED <<host, object, handle, hangup, forked, caller, rd, notice, aborted, raced>>

\* The port, address, connection, login or pty fails, with a notice; when
\* socket() itself fails tcp() returns without one.
OpenFails(t) ==
    /\ ReaderAt(t, "opening")
    /\ \/ notice' = "reconnect"
       \/ KindOf(t) \in {"tcp", "ssh"} /\ state[rd[t].host] = "CONNECTING"
          /\ UNCHANGED notice
    /\ ReaderGoes(t, "failed")
    /\ UNCHANGED <<host, object, state, handle, hangup, forked, caller, aborted, raced>>

\* posix_openpt fails: pipeHost::read gives its notice and returns, no detach.
OpenptFails(t) ==
    /\ ReaderAt(t, "opening")
    /\ KindOf(t) = "pipe"
    /\ notice' = "reconnect"
    /\ ReaderGoes(t, "gone")
    /\ UNCHANGED <<host, object, state, handle, hangup, forked, caller, aborted, raced>>

Connected(t) ==
    /\ ReaderAt(t, "opening")
    /\ KindOf(t) = "ssh" => state[rd[t].host] = "AUTHENTICATING"
    /\ SetStatus(t, "CONNECTED")
    /\ forked' = (IF KindOf(t) = "pipe" THEN forked \cup {rd[t].host} ELSE forked)
    /\ ReaderGoes(t, "loop")
    /\ UNCHANGED <<host, object, handle, hangup, caller, notice, aborted, raced>>

\* The peer closes, the device fails, or disconn() took effect.
LoopEnds(t) ==
    /\ ReaderAt(t, "loop")
    /\ ReaderGoes(t, "closing")
    /\ UNCHANGED <<host, object, state, handle, hangup, forked, caller, notice, aborted, raced>>

\* comHost and pipeHost become IDLE and then give the notice; tcpHost and
\* sshHost do it the other way round.
IdleFirst(t) == KindOf(t) \in {"com", "pipe"}

\* term_puts("Disconnected", -1); the shell's notice is empty.
DisconnectNotice(t) ==
    /\ Active(t)
    /\ ReaderAt(t, IF IdleFirst(t) THEN "noted" ELSE "closing")
    /\ notice' = (IF KindOf(t) = "pipe" THEN notice ELSE "reconnect")
    /\ ReaderGoes(t, IF IdleFirst(t) THEN "detach" ELSE "noted")
    /\ UNCHANGED <<host, object, state, handle, hangup, forked, caller, aborted, raced>>

BecomeIdle(t) ==
    /\ Active(t)
    /\ ReaderAt(t, IF IdleFirst(t) THEN "closing" ELSE "noted")
    /\ SetStatus(t, "IDLE")
    /\ ReaderGoes(t, IF IdleFirst(t) THEN "noted" ELSE "detach")
    /\ UNCHANGED <<host, object, handle, hangup, forked, caller, notice, aborted, raced>>

\* Slip: nor is that of a session that never opened.
GiveUp_KeepsStatus(t) ==
    /\ ReaderAt(t, "failed")
    /\ ReaderGoes(t, "detach")
    /\ UNCHANGED <<host, object, state, handle, hangup, forked, caller, notice, aborted, raced>>

\* The `shutdown:` or `pty_close:` path of a session that never opened.
GiveUp(t) ==
    /\ ReaderAt(t, "failed")
    /\ IF IdleFirst(t) THEN UNCHANGED state ELSE SetStatus(t, "IDLE")
    /\ ReaderGoes(t, "detach")
    /\ UNCHANGED <<host, object, handle, hangup, forked, caller, notice, aborted, raced>>

\* Slip: read() returns without reader.detach().
Detach_Forgotten(t) ==
    /\ ReaderAt(t, "detach")
    /\ rd' = [rd EXCEPT ![t] = NoReader]
    /\ UNCHANGED <<host, object, state, handle, hangup, forked, caller, notice, aborted, raced>>

\* `reader.detach()`: throws, uncaught, when reader is not joinable.
Detach(t) ==
    LET h == rd[t].host IN
    /\ ReaderAt(t, "detach")
    /\ handle' = [handle EXCEPT ![h] = None]
    /\ aborted' = IF live(h) THEN aborted ELSE "detach"
    /\ rd' = [rd EXCEPT ![t] = NoReader]
    /\ UNCHANGED <<host, object, state, hangup, forked, caller, notice, raced>>

----------------------------------------------------------------------------
CallerSteps(c) ==
    \/ ConnectCheck(c) \/ ConnectDelete(c) \/ ConnectAssign(c)
    \/ \E t \in Threads : StartReader(c, t)
    \/ SwapReader(c) \/ UsesDeleted(c)

Operate(c) ==
    \/ \E h \in Hosts, k \in Kinds : HostNew(c, h, k)
    \/ EnterOffline(c) \/ WriteLive(c) \/ Disconn(c) \/ DisconnPipe(c)
    \/ OperatesOnDeleted(c)

ReaderSteps(t) ==
    \/ BaseRead(t) \/ ReadEntry(t) \/ Authenticate(t)
    \/ OpenFails(t) \/ OpenptFails(t) \/ Connected(t)
    \/ LoopEnds(t) \/ DisconnectNotice(t) \/ BecomeIdle(t) \/ GiveUp(t)
    \/ Detach(t) \/ ReaderUsesDeleted(t)

Next ==
    \/ \E c \in Callers : CallerSteps(c) \/ Operate(c)
    \/ \E t \in Threads : ReaderSteps(t)

Spec == Init /\ [][Next]_vars

(* A reader runs until read() returns.  It may stay in its receive loop as *)
(* long as the peer likes, but not once disconn() ended the connection: a  *)
(* serial reader tests its status, and a peer closes a socket whose other  *)
(* side was shut down.  A shell may ignore SIGTERM: nothing is assumed.    *)
ReaderProgress(t) ==
    /\ ReaderSteps(t)
    /\ rd[t].pc = "loop" => rd[t].host \in hangup /\ KindOf(t) # "pipe"

Fairness == /\ \A c \in Callers : WF_vars(CallerSteps(c))
            /\ \A t \in Threads : WF_vars(ReaderProgress(t))

FairSpec == Spec /\ Fairness

----------------------------------------------------------------------------
(* Properties *)

\* A running reader works for the terminal's present host, which is still
\* allocated: Fl_Term::connect never deletes or replaces the `this` of a
\* read() that has yet to return, until two threads race each other in it.
ReaderUsesPresentHost ==
    raced \/ \A t \in Threads : Active(t) =>
                 rd[t].host = host /\ Exists(rd[t].host)

\* How threads and hosts can bring the process down.  A thread object is
\* destroyed or overwritten while it holds a thread, or a deleted host used,
\* only after two threads raced in connect or Enter (Fl_Term.cxx 49 to 62); detach()
\* throws only then, or for a reader done before the swap() that was to store it
\* (host.cxx 37 to 39).
OnlyRacesAbort ==
    /\ aborted \in {"destroy", "freed"} => raced
    /\ aborted = "detach" =>
          raced \/ \E c \in Callers :
                     caller[c].pc = "swap" /\ rd[caller[c].newReader].pc = "none"

\* Once live() is false and no connect is under way, the last session left
\* the host IDLE: a disconnected host never reports a stale status, until
\* two threads race in connect.
IdleWhenNotLive ==
    raced \/ \A h \in Hosts :
                 ~live(h) /\ (\A t \in Threads : Active(t) => rd[t].host # h)
                     => state[h] = "IDLE"

\* The notices and the status of a session reach the terminal before live()
\* turns false, so a callback that sees a dead host sees its final state:
\* only detach() drops the thread, and only from an IDLE host.
DetachIsLast ==
    [][raced' \/ \A h \in Hosts : live(h) /\ ~live(h)' =>
            state[h] = "IDLE" /\ rd'[handle[h]].pc = "none"]_vars

phase == [t \in Threads |->
            CASE rd[t].pc \in {"none", "gone"}     -> "none"
              [] rd[t].pc \in {"entry", "opening"} -> "opening"
              [] rd[t].pc = "loop"                 -> "open"
              [] OTHER                             -> "closing"]

\* The terminal serves one session at a time, until two threads race in
\* connect or Enter.
Session == INSTANCE TermSession
OneSessionAtATime == Session!SessionSpec

\* A connection that the user ends is gone in the end, unless the process is.
DisconnectCompletes ==
    \A h \in Hosts :
        h \in hangup /\ object[h] # "pipe" /\ live(h) ~> ~live(h) \/ aborted # "no"

\* Enter on a terminal whose session is over "restart[s] connection".
EnterRestarts ==
    /\ aborted = "no"
    /\ \A t \in Threads : ~Active(t)
    /\ \A c \in Callers : caller[c].pc = "idle"
    => ~live(host)
=============================================================================
