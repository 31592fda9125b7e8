---------------------------- MODULE Locks_proofs ----------------------------
(***************************************************************************)
(* Safety of what the threads of an ssh terminal share under locks: the    *)
(* libssh2 session and its channel, for every set of users and scp threads *)
(* and every number of sessions; and the order the four locks are nested   *)
(* in, for every number of scripts and of tunnels.                         *)
(***************************************************************************)
EXTENDS SshSession, TermLocks, TLAPS

----------------------------------------------------------------------------
(* The session: the inductive invariant.  ChannelCallsSafe is not         *)
(* inductive: it needs to be known that a channel pointer handed to a call *)
(* under mtx stays good until mtx is released (ArgumentsAlive), because    *)
(* freeing needs mtx (HolderIsCalling) and happens only after `channel`    *)
(* was cleared (ChannelOfSession), and that a session pointer dangles only *)
(* between the reader's unlock and its next assignment (SessionDangles).   *)

\* The reader has a session from session_init to `session = NULL`.
SessionDangles ==
    /\ pc[Reader] \notin {"idle", "tcp", "ending"} => session = opened /\ session # 0
    /\ opened \in freed => pc[Reader] \in {"freed", "idle", "tcp", "ending"}
    /\ pc[Reader] = "tcp" => opened < MaxSessions

\* The shell channel is the session's, until the reader is done with it.
ChannelOfSession ==
    channel # 0 => /\ channel = session
                   /\ pc[Reader] \in {"shell", "loop", "read", "wait", "over",
                                      "closing", "close", "closed"}

ArgumentsAlive ==
    /\ \A p \in Procs : pc[p] \in ChannelCalls => obj[p] \notin freed
    /\ pc[Reader] = "free" => obj[Reader] = session

\* Only the reader makes the calls that end a session.
Inv == /\ TypeOK
       /\ HolderIsCalling
       /\ NothingLeftBehind
       /\ SessionDangles
       /\ ChannelOfSession
       /\ ArgumentsAlive
       /\ ChannelCallsSafe

----------------------------------------------------------------------------
\* A thread that queues for mtx makes no call yet, and makes one of its own
\* kind of calls once it has it.
LEMMA QueuedCalls ==
  \A q \in DOMAIN Queued :
    /\ q \notin Calls
    /\ Queued[q] \in Calls
    /\ q \in ReaderPcs => /\ <<q, Queued[q]>> \in {<<"loop", "read">>,
                               <<"closing", "close">>, <<"freeing", "free">>}
                          /\ Queued[q] \in ReaderPcs
    /\ q \in UserPcs   => Queued[q] \in UserPcs \ {"free"}
    /\ q \in CopierPcs => Queued[q] \in CopierPcs \ {"free"}
BY DEF Queued, Calls, ChannelCalls, SessionCalls, CopyCalls, ReaderPcs, Setup,
   UserPcs, CopierPcs, WritePcs

\* A new sshHost has no session, no channel and a free mutex.
LEMMA InitInv == Init => Inv
<1> SUFFICES ASSUME Init PROVE Inv
  OBVIOUS
<1>1. \A p \in Procs : pc[p] = "idle"
  BY DEF Init
<1>2. pc \in [Procs -> ReaderPcs \cup UserPcs \cup CopierPcs]
  BY DEF Init, ReaderPcs
<1>3. /\ pc[Reader] \in ReaderPcs
      /\ \A u \in Users : pc[u] \in UserPcs
      /\ \A k \in Copiers : pc[k] \in CopierPcs
  BY <1>1 DEF Procs, ReaderPcs, UserPcs, CopierPcs, WritePcs
<1>4. /\ obj \in [Procs -> Sessions]
      /\ {session, channel, opened} \subseteq Sessions
  BY ThreadsAssumption DEF Init, Sessions
<1>5. TypeOK
  BY <1>2, <1>3, <1>4 DEF Init, TypeOK
<1>6. HolderIsCalling
  BY <1>1, ThreadsAssumption
  DEF Init, HolderIsCalling, Procs, Calls, ChannelCalls, SessionCalls, CopyCalls
<1>7. NothingLeftBehind /\ ChannelOfSession /\ ChannelCallsSafe
  BY DEF Init, NothingLeftBehind, ChannelOfSession, ChannelCallsSafe, ChannelCalls
<1>8. SessionDangles /\ ArgumentsAlive
  BY <1>1 DEF Init, SessionDangles, ArgumentsAlive, Procs
<1> QED BY <1>5, <1>6, <1>7, <1>8 DEF Inv

\* Locking mtx hands the call a channel that is not freed: nothing can have
\* been freed while `channel` was not NULL.
LEMMA AcquireInv == ASSUME Inv, NEW p \in Procs, Acquire(p) PROVE Inv'
<1> USE ThreadsAssumption DEF Inv, TypeOK
<1> DEFINE q == pc[p]
           call == Queued[pc[p]]
<1>1. /\ q \in DOMAIN Queued /\ mtx = NoOne /\ mtx' = p
      /\ pc' = [pc EXCEPT ![p] = call]
      /\ obj' = [obj EXCEPT ![p] = Argument(p, call)]
      /\ UNCHANGED <<session, channel, opened, freed, hung, crashed>>
  BY DEF Acquire, Goes
<1>2. /\ q \notin Calls /\ call \in Calls
      /\ q \in ReaderPcs => /\ <<q, call>> \in {<<"loop", "read">>,
                               <<"closing", "close">>, <<"freeing", "free">>}
                            /\ call \in ReaderPcs
      /\ q \in UserPcs   => call \in UserPcs \ {"free"}
      /\ q \in CopierPcs => call \in CopierPcs \ {"free"}
  BY <1>1, QueuedCalls
<1>3. Argument(p, call) \in Sessions
  BY DEF Argument
<1> HIDE DEF q, call
<1>4. TypeOK'
  <2>1. /\ pc' \in [Procs -> ReaderPcs \cup UserPcs \cup CopierPcs]
        /\ pc'[Reader] \in ReaderPcs
        /\ \A u \in Users : pc'[u] \in UserPcs
        /\ \A k \in Copiers : pc'[k] \in CopierPcs
    BY <1>1, <1>2 DEF Procs, q
  <2> QED BY <1>1, <1>3, <2>1
<1>5. HolderIsCalling'
  BY <1>1, <1>2 DEF HolderIsCalling, Procs, q
<1>6. pc'[Reader] # pc[Reader] =>
        <<pc[Reader], pc'[Reader]>> \in {<<"loop", "read">>,
          <<"closing", "close">>, <<"freeing", "free">>}
  BY <1>1, <1>2 DEF q
<1>7. NothingLeftBehind' /\ SessionDangles' /\ ChannelOfSession'
  BY <1>1, <1>6 DEF NothingLeftBehind, SessionDangles, ChannelOfSession
<1>8. ArgumentsAlive'
  <2>1. channel \notin freed
    BY DEF ChannelOfSession, SessionDangles
  <2>2. call \in ChannelCalls => Argument(p, call) = channel
    BY DEF Argument, ChannelCalls, SessionCalls
  <2>3. call = "free" => Argument(p, call) = session
    BY DEF Argument, ChannelCalls, SessionCalls
  <2>4. \A r \in Procs : pc'[r] \in ChannelCalls => obj'[r] \notin freed'
    BY <1>1, <2>1, <2>2 DEF ArgumentsAlive
  <2>5. pc'[Reader] = "free" => obj'[Reader] = session'
    BY <1>1, <2>3 DEF ArgumentsAlive, Procs
  <2> QED BY <2>4, <2>5 DEF ArgumentsAlive
<1>9. ChannelCallsSafe'
  BY <1>1 DEF ChannelCallsSafe
<1> QED BY <1>4, <1>5, <1>7, <1>8, <1>9 DEF Inv

\* sshHost::read keeps the invariant: it frees only what it holds mtx for
\* and only after clearing `channel`.
LEMMA ReaderStepInv == ASSUME Inv, ReaderSteps PROVE Inv'
<1> USE ThreadsAssumption DEF Inv, TypeOK, Sessions, Procs, Moves, Goes, At,
        HolderIsCalling, NothingLeftBehind, SessionDangles, ChannelOfSession,
        ArgumentsAlive, ChannelCallsSafe, ReaderPcs, Setup, Calls, ChannelCalls,
        SessionCalls, CopyCalls
<1>1. CASE Connect BY <1>1 DEF Connect
<1>2. CASE TcpFails BY <1>2 DEF TcpFails
<1>3. CASE SessionInit BY <1>3 DEF SessionInit
<1>4. CASE Handshake BY <1>4 DEF Handshake
<1>5. CASE OpenChannel BY <1>5 DEF OpenChannel
<1>6. CASE SetupFails BY <1>6 DEF SetupFails
<1>7. CASE Connected BY <1>7 DEF Connected
<1>8. CASE ReadReturns BY <1>8 DEF ReadReturns, Returns, Valid
<1>9. CASE ReadEnds BY <1>9 DEF ReadEnds, Returns, Valid
<1>10. CASE ReaderWaits
  <2>1. PICK there \in {"loop", "over"} : Waits(Reader, "wait", there)
    BY <1>10 DEF ReaderWaits
  <2>2. /\ pc[Reader] = "wait" /\ pc' = [pc EXCEPT ![Reader] = there]
        /\ crashed' \in {"no", "wait"}
        /\ UNCHANGED <<obj, session, channel, opened, freed, mtx, hung>>
    BY <2>1 DEF Waits
  <2> QED BY <2>1, <2>2
<1>11. CASE Over BY <1>11 DEF Over
<1>12. CASE CloseReturns BY <1>12 DEF CloseReturns, Returns, Valid
<1>13. CASE ChannelNull BY <1>13 DEF ChannelNull
<1>14. CASE FreeReturns
  <2>1. /\ pc[Reader] = "free" /\ pc' = [pc EXCEPT ![Reader] = "freed"]
        /\ mtx' = NoOne /\ freed' = freed \cup {obj[Reader]}
        /\ crashed = "no" /\ crashed' \in {"no", "free"}
        /\ UNCHANGED <<obj, session, channel, opened, hung>>
    BY <1>14 DEF FreeReturns, Returns
  <2>2. mtx = Reader /\ obj[Reader] = session /\ session = opened /\ session \in 1..opened
    BY <2>1
  <2>3. crashed' = "no"
    BY <1>14, <2>1, <2>2 DEF FreeReturns, Returns, Valid
  <2>4. TypeOK'
    BY <2>1, <2>2, <2>3
  <2>5. HolderIsCalling' /\ NothingLeftBehind' /\ ChannelOfSession' /\ ChannelCallsSafe'
    BY <2>1, <2>2, <2>3
  <2>6. SessionDangles' /\ ArgumentsAlive'
    BY <2>1, <2>2
  <2> QED BY <2>4, <2>5, <2>6
<1>15. CASE SessionNull BY <1>15 DEF SessionNull
<1>16. CASE Ending BY <1>16 DEF Ending
<1> QED BY <1>1, <1>2, <1>3, <1>4, <1>5, <1>6, <1>7, <1>8, <1>9, <1>10,
           <1>11, <1>12, <1>13, <1>14, <1>15, <1>16 DEF ReaderSteps

\* The write loop keeps the invariant, EAGAIN and errors included.
LEMMA WriteStepInv == ASSUME Inv, NEW p \in Users \cup Copiers, WriteSteps(p) PROVE Inv'
<1> USE ThreadsAssumption DEF Inv, TypeOK, Sessions, Procs, Moves, Goes, At,
        HolderIsCalling, NothingLeftBehind, SessionDangles, ChannelOfSession,
        ArgumentsAlive, ChannelCallsSafe, UserPcs, CopierPcs, WritePcs, Calls,
        ChannelCalls, SessionCalls, CopyCalls
<1>1. CASE Test(p) BY <1>1 DEF Test
<1>2. CASE WriteReturns(p) BY <1>2 DEF WriteReturns, Returns, Valid
<1>3. CASE WriteWaits(p)
  <2>1. PICK there \in {"writeTest", "idle"} : Waits(p, "writeWait", there)
    BY <1>3 DEF WriteWaits
  <2>2. /\ pc[p] = "writeWait" /\ pc' = [pc EXCEPT ![p] = there]
        /\ crashed' \in {"no", "wait"}
        /\ UNCHANGED <<obj, session, channel, opened, freed, mtx, hung>>
    BY <2>1 DEF Waits
  <2> QED BY <2>1, <2>2
<1> QED BY <1>1, <1>2, <1>3 DEF WriteSteps

\* So do the rest of send_size and disconn,
LEMMA UserStepInv == ASSUME Inv, NEW p \in Users, UserSteps(p) PROVE Inv'
<1> USE ThreadsAssumption DEF Inv, TypeOK, Sessions, Procs, Moves, Goes, At,
        HolderIsCalling, NothingLeftBehind, SessionDangles, ChannelOfSession,
        ArgumentsAlive, ChannelCallsSafe, UserPcs, CopierPcs, WritePcs, Calls,
        ChannelCalls, SessionCalls, CopyCalls
<1>1. CASE SizeReturns(p) BY <1>1 DEF SizeReturns, Returns, Valid
<1>2. CASE EofReturns(p) BY <1>2 DEF EofReturns, Returns, Valid
<1>3. CASE EndReturns(p) BY <1>3 DEF EndReturns, Returns, Valid
<1>4. CASE WriteSteps(p) BY <1>4, WriteStepInv
<1> QED BY <1>4, <1>1, <1>2, <1>3 DEF UserSteps

\* and every step of an scp transfer, even of one whose session is gone.
LEMMA CopierStepInv == ASSUME Inv, NEW p \in Copiers, CopierSteps(p) PROVE Inv'
<1> USE ThreadsAssumption DEF Inv, TypeOK, Sessions, Procs, Moves, Goes, At,
        HolderIsCalling, NothingLeftBehind, SessionDangles, ChannelOfSession,
        ArgumentsAlive, ChannelCallsSafe, UserPcs, CopierPcs, WritePcs, Calls,
        ChannelCalls, SessionCalls, CopyCalls
<1>1. CASE OpenReturns(p) BY <1>1 DEF OpenReturns, Returns, Valid
<1>2. CASE OpenWaits(p)
  <2>1. PICK there \in {"openLock", "writeTest"} : Waits(p, "openWait", there)
    BY <1>2 DEF OpenWaits
  <2>2. /\ pc[p] = "openWait" /\ pc' = [pc EXCEPT ![p] = there]
        /\ crashed' \in {"no", "wait"}
        /\ UNCHANGED <<obj, session, channel, opened, freed, mtx, hung>>
    BY <2>1 DEF Waits
  <2> QED BY <2>1, <2>2
<1>3. CASE CopyReturns(p) BY <1>3 DEF CopyReturns, Returns, Valid
<1>4. CASE CopyWaits(p)
  <2>1. PICK there \in {"copyLock", "dropLock"} : Waits(p, "copyWait", there)
    BY <1>4 DEF CopyWaits
  <2>2. /\ pc[p] = "copyWait" /\ pc' = [pc EXCEPT ![p] = there]
        /\ crashed' \in {"no", "wait"}
        /\ UNCHANGED <<obj, session, channel, opened, freed, mtx, hung>>
    BY <2>1 DEF Waits
  <2> QED BY <2>1, <2>2
<1>5. CASE DropReturns(p) BY <1>5 DEF DropReturns, Returns, Valid
<1>6. CASE WriteSteps(p) BY <1>6, WriteStepInv
<1> QED BY <1>6, <1>1, <1>2, <1>3, <1>4, <1>5 DEF CopierSteps

\* Starting an operation changes nothing shared.
LEMMA BeginInv ==
  ASSUME Inv, NEW p \in Users \cup Copiers,
         \/ p \in Users /\ Begin(p)
         \/ p \in Copiers /\ BeginCopy(p)
  PROVE  Inv'
<1> USE ThreadsAssumption DEF Inv, TypeOK, Sessions, Procs, Moves, Goes, At,
        HolderIsCalling, NothingLeftBehind, SessionDangles, ChannelOfSession,
        ArgumentsAlive, ChannelCallsSafe, UserPcs, CopierPcs, WritePcs, Calls,
        ChannelCalls, SessionCalls, CopyCalls
<1>1. CASE p \in Users /\ Begin(p) BY <1>1 DEF Begin
<1>2. CASE p \in Copiers /\ BeginCopy(p) BY <1>2 DEF BeginCopy
<1> QED BY <1>1, <1>2

\* The strengthened invariant holds throughout every behaviour.
THEOREM Invariance == Spec => []Inv
<1>1. Inv /\ [Next]_vars => Inv'
  <2> SUFFICES ASSUME Inv, [Next]_vars PROVE Inv'
    OBVIOUS
  <2>1. CASE UNCHANGED vars
    BY <2>1 DEF vars, Inv, TypeOK, HolderIsCalling, NothingLeftBehind,
       SessionDangles, ChannelOfSession, ArgumentsAlive, ChannelCallsSafe
  <2>2. CASE Next
    BY <2>2, AcquireInv, ReaderStepInv, UserStepInv, CopierStepInv, BeginInv DEF Next
  <2> QED BY <2>1, <2>2
<1> QED BY <1>1, InitInv, PTL DEF Spec

\* The threads and pointers of an sshHost keep their types.
THEOREM TypeCorrect == Spec => []TypeOK
<1>1. Inv => TypeOK
  BY DEF Inv
<1> QED BY <1>1, Invariance, PTL

\* No call on the shell channel, and no session_free, is given freed memory,
\* however many threads write, resize, disconnect and copy.
THEOREM ChannelSafe == Spec => []ChannelCallsSafe
<1>1. Inv => ChannelCallsSafe
  BY DEF Inv
<1> QED BY <1>1, Invariance, PTL

\* Between sessions `session` and `channel` are NULL.
THEOREM NothingLeft == Spec => []NothingLeftBehind
<1>1. Inv => NothingLeftBehind
  BY DEF Inv
<1> QED BY <1>1, Invariance, PTL

\* mtx is held exactly by a thread that is inside a libssh2 call.
THEOREM MutexHolder == Spec => []HolderIsCalling
<1>1. Inv => HolderIsCalling
  BY DEF Inv
<1> QED BY <1>1, Invariance, PTL

----------------------------------------------------------------------------
(* The order of the locks: the inductive invariant.  Every thread nests    *)
(* its routines in one order, and so the threads behind the window cannot  *)
(* wait for one another in a circle.                                       *)

\* The order the routines are nested in.
Rank == [event |-> 0, sftp |-> 0, tunDel |-> 0, tunList |-> 0,
         append |-> 1, grow |-> 2, clear |-> 2, call |-> 2]

\* t, in routine q, may be about to enter r.
MayNest(t, q, r) ==
    \/ q = "event" /\ t = Window /\ r \in {"append", "clear", "call"}
    \/ q = "append" /\ r \in {"grow", "call", "append"}
    \/ q \in {"sftp", "tunDel"} /\ r = "append"

Types ==
    /\ stack \in [Threads -> Seq(Routines)]
    /\ waits \in [Threads -> Routines \cup {None}]
    /\ kind \in {"ssh", "sftp"}
    /\ bEcho \in BOOLEAN

Ascending ==
    \A t \in Threads : \A i, j \in 1..Len(stack[t]) :
        i < j => Rank[stack[t][i]] < Rank[stack[t][j]]

WaitsAbove ==
    \A t \in Threads :
        waits[t] # None /\ stack[t] # <<>> => MayNest(t, stack[t][Len(stack[t])], waits[t])

\* What a thread has to do with routine r: only the window handles events, and
\* only its calls of an sftpHost are single libssh2 calls.
Own(t, r) ==
    /\ r = "event" => t = Window
    /\ r = "call" /\ t # Window => kind = "ssh"
    /\ r = "sftp" => kind = "sftp"

Owned ==
    \A t \in Threads :
        /\ \A i \in 1..Len(stack[t]) : Own(t, stack[t][i])
        /\ waits[t] # None => Own(t, waits[t])

Exclusive ==
    \A t, u \in Threads : \A l \in {"fl", "append", "ssh", "tunnel"} :
        Holds(t, l) /\ Holds(u, l) => t = u

LInv == Types /\ Ascending /\ WaitsAbove /\ Owned /\ Exclusive

\* Every routine takes one of the four locks.
LEMMA LockNames == \A r \in Routines : LockOf[r] \in {"fl", "append", "ssh", "tunnel"}
BY DEF Routines, LockOf

----------------------------------------------------------------------------
\* No thread holds or wants a lock at first.
LEMMA InitLInv == LocksInit => LInv
<1> SUFFICES ASSUME LocksInit PROVE LInv
  OBVIOUS
<1>1. \A t \in Threads : stack[t] = <<>> /\ waits[t] = None /\ Len(stack[t]) = 0
  BY DEF LocksInit
<1>2. Types
  <2>1. <<>> \in Seq(Routines)
    OBVIOUS
  <2> QED BY <2>1 DEF LocksInit, Types
<1>3. Ascending /\ WaitsAbove /\ Owned /\ Exclusive
  BY <1>1 DEF Ascending, WaitsAbove, Owned, Exclusive, Holds
<1> QED BY <1>2, <1>3 DEF LInv

\* A thread sets out to enter a routine: nothing is locked yet.
LEMMA EnterLInv ==
  ASSUME LInv, NEW t \in Threads, NEW r \in Routines, Enter(t, r)
  PROVE  LInv'
<1> USE LockThreadsAssumption DEF LInv
<1>1. /\ stack' = stack /\ kind' = kind /\ bEcho' = bEcho
      /\ waits' = [waits EXCEPT ![t] = r]
  BY DEF Enter
<1>2. Types'
  BY <1>1 DEF Types
<1>3. Ascending' /\ Exclusive'
  BY <1>1 DEF Ascending, Exclusive, Holds
<1>4. stack[t] # <<>> => MayNest(t, stack[t][Len(stack[t])], r)
  <2> SUFFICES ASSUME stack[t] # <<>> PROVE MayNest(t, Top(t), r)
    BY DEF Top
  <2>1. Top(t) # "main"
    <3>1. Top(t) \in Routines
      BY DEF Top, Types
    <3> QED BY <3>1 DEF Routines
  <2> QED BY <2>1 DEF Enter, WindowCalls, ReaderCalls, ScriptCalls, WorkerCalls,
             NestedCalls, MayNest
<1>5. Own(t, r)
  BY DEF Enter, WindowCalls, ReaderCalls, ScriptCalls, WorkerCalls, NestedCalls, Own
<1>6. WaitsAbove'
  BY <1>1, <1>4 DEF WaitsAbove, MayNest, Types
<1>7. Owned'
  BY <1>1, <1>5 DEF Owned, Own, Types
<1> QED BY <1>2, <1>3, <1>6, <1>7

\* A thread gets the lock it waits for: nobody else has it, and it is later in
\* the order than all the thread holds.
LEMMA LockLInv ==
  ASSUME LInv, NEW t \in Threads, Lock(t)
  PROVE  LInv'
<1> USE LockThreadsAssumption DEF LInv
<1> DEFINE r == waits[t]
           s == stack[t]
<1>1. /\ r \in Routines /\ s \in Seq(Routines)
      /\ stack' = [stack EXCEPT ![t] = Append(s, r)]
      /\ waits' = [waits EXCEPT ![t] = None]
      /\ kind' = kind /\ bEcho' = bEcho
      /\ Free(LockOf[r], t)
  BY DEF Lock, Types
<1>2. /\ Len(Append(s, r)) = Len(s) + 1
      /\ \A i \in 1..Len(s) : Append(s, r)[i] = s[i]
      /\ Append(s, r)[Len(s) + 1] = r
  BY <1>1
<1>3. Types'
  BY <1>1 DEF Types
<1>4. \A i \in 1..Len(s) : Rank[s[i]] < Rank[r]
  <2>1. s # <<>> => Rank[s[Len(s)]] < Rank[r]
    <3> SUFFICES ASSUME s # <<>> PROVE Rank[s[Len(s)]] < Rank[r]
      OBVIOUS
    <3>1. MayNest(t, s[Len(s)], r) /\ Len(s) \in 1..Len(s)
      BY <1>1 DEF WaitsAbove, Types
    <3>2. ~(s[Len(s)] = "append" /\ r = "append")
      BY <1>1, <3>1 DEF Free, Holds, LockOf
    <3> QED BY <3>1, <3>2 DEF MayNest, Rank
  <2>2. \A i \in 1..Len(s) : Rank[s[i]] \in Nat /\ Rank[r] \in Nat
    BY <1>1 DEF Rank, Routines
  <2>3. ASSUME NEW i \in 1..Len(s) PROVE Rank[s[i]] < Rank[r]
    <3>1. i = Len(s) \/ Rank[s[i]] < Rank[s[Len(s)]]
      BY <1>1 DEF Ascending
    <3> QED BY <1>1, <2>1, <2>2, <3>1
  <2> QED BY <2>3
<1>5. Ascending'
  BY <1>1, <1>2, <1>4 DEF Ascending, Types
<1>6. WaitsAbove'
  BY <1>1 DEF WaitsAbove, MayNest, Types
<1>7. Owned'
  BY <1>1, <1>2 DEF Owned, Own, Types
<1>8. Exclusive'
  <2>1. \A u \in Threads, l \in {"fl", "append", "ssh", "tunnel"} :
            Holds(u, l)' => Holds(u, l) \/ (u = t /\ l = LockOf[r])
    BY <1>1, <1>2 DEF Holds, Types
  <2> QED BY <1>1, <2>1 DEF Exclusive, Free
<1> QED BY <1>3, <1>5, <1>6, <1>7, <1>8

\* A thread leaves the routine it entered last.
LEMMA LeaveLInv ==
  ASSUME LInv, NEW t \in Threads, Leave(t)
  PROVE  LInv'
<1> USE LockThreadsAssumption DEF LInv
<1> DEFINE s == stack[t]
           s1 == SubSeq(s, 1, Len(s) - 1)
<1>1. /\ s \in Seq(Routines) /\ s # <<>>
      /\ stack' = [stack EXCEPT ![t] = s1]
      /\ waits' = waits /\ waits[t] = None /\ kind' = kind /\ bEcho' = bEcho
  BY DEF Leave, Types
<1>2. /\ s1 \in Seq(Routines)
      /\ Len(s1) = Len(s) - 1
      /\ \A i \in 1..Len(s1) : s1[i] = s[i] /\ i \in 1..Len(s)
  BY <1>1
<1>3. Types'
  BY <1>1, <1>2 DEF Types
<1>4. Ascending'
  BY <1>1, <1>2 DEF Ascending, Types
<1>5. WaitsAbove'
  BY <1>1 DEF WaitsAbove, MayNest, Types
<1>6. Owned'
  BY <1>1, <1>2 DEF Owned, Own, Types
<1>7. Exclusive'
  <2>1. \A u \in Threads, l \in {"fl", "append", "ssh", "tunnel"} : Holds(u, l)' => Holds(u, l)
    BY <1>1, <1>2 DEF Holds, Types
  <2> QED BY <2>1 DEF Exclusive
<1> QED BY <1>3, <1>4, <1>5, <1>6, <1>7

\* LInv holds in every behaviour.
THEOREM LockOrder == LocksSpec => []LInv
<1>1. LocksInit => LInv
  BY InitLInv
<1>2. LInv /\ [LocksNext]_locksVars => LInv'
  <2> SUFFICES ASSUME LInv, [LocksNext]_locksVars PROVE LInv'
    OBVIOUS
  <2>1. CASE UNCHANGED locksVars
    BY <2>1 DEF locksVars, LInv, Types, Ascending, WaitsAbove, Owned, Own, MayNest, Exclusive, Holds
  <2>2. ASSUME NEW t \in Threads, ToggleEcho(t) PROVE LInv'
    <3>1. stack' = stack /\ waits' = waits /\ kind' = kind /\ bEcho' \in BOOLEAN
      BY <2>2 DEF ToggleEcho
    <3>2. Types' /\ Ascending' /\ WaitsAbove'
      BY <3>1 DEF LInv, Types, Ascending, WaitsAbove, MayNest
    <3>3. Owned' /\ Exclusive'
      BY <3>1 DEF LInv, Owned, Own, Exclusive, Holds
    <3> QED BY <3>2, <3>3 DEF LInv
  <2> QED BY <2>1, <2>2, EnterLInv, LockLInv, LeaveLInv DEF LocksNext
<1> QED BY <1>1, <1>2, PTL DEF LocksSpec

----------------------------------------------------------------------------
\* Types, and at most MaxNest routines deep: the ranks of a stack ascend.
THEOREM LocksTypeCorrect == LocksSpec => []LocksTypeOK
<1>1. LInv => LocksTypeOK
  <2> SUFFICES ASSUME LInv, NEW t \in Threads, Len(stack[t]) > 3 PROVE FALSE
    BY DEF LInv, Types, LocksTypeOK, MaxNest
  <2> DEFINE s == stack[t]
  <2>1. s \in Seq(Routines) /\ {1, 2, 3, 4} \subseteq 1..Len(s)
    BY DEF LInv, Types
  <2>2. \A i \in {1, 2, 3, 4} : Rank[s[i]] \in 0..2
    BY <2>1 DEF Rank, Routines
  <2>3. Rank[s[1]] < Rank[s[2]] /\ Rank[s[2]] < Rank[s[3]] /\ Rank[s[3]] < Rank[s[4]]
    BY <2>1 DEF LInv, Ascending
  <2> QED BY <2>2, <2>3
<1> QED BY <1>1, LockOrder, PTL

\* The buffer is never moved while another thread's event handler, and so no
\* draw(), is running.
THEOREM DrawSafe == LocksSpec => []NotMovedWhileDrawn
<1>1. LInv => NotMovedWhileDrawn
  <2> SUFFICES ASSUME LInv, NEW t \in Threads, In(t, "grow"), In(Window, "event")
               PROVE  t = Window
    BY DEF NotMovedWhileDrawn
  <2>1. Holds(t, "fl") /\ Holds(Window, "fl") /\ Window \in Threads
    BY DEF In, Holds, LockOf, Threads
  <2> QED BY <2>1 DEF LInv, Exclusive
<1> QED BY <1>1, LockOrder, PTL

\* Behind the window, a thread that has the lock another waits for waits, if it
\* does, for one that is later in the order.
LEMMA WaitsForLater ==
  ASSUME LInv, NEW t \in Threads \ {Window}, NEW u \in Threads \ {Window},
         waits[t] # None, waits[u] # None, Holds(u, LockOf[waits[t]]),
         ~EchoesToItself(u)
  PROVE  Rank[waits[t]] < Rank[waits[u]]
<1> USE LockThreadsAssumption DEF LInv
<1> DEFINE s == stack[u]
           n == Len(s)
<1>1. PICK i \in 1..n : LockOf[s[i]] = LockOf[waits[t]]
  BY DEF Holds
<1>2. s \in Seq(Routines) /\ waits[t] \in Routines /\ waits[u] \in Routines
  BY DEF Types
<1>3. n \in 1..n /\ s # <<>>
  BY <1>1, <1>2
<1>4. Rank[s[i]] = Rank[waits[t]]
  <2>1. Own(u, s[i]) /\ Own(t, waits[t]) /\ s[i] \in Routines
    BY <1>1, <1>2 DEF Owned
  <2> QED BY <1>1, <1>2, <2>1 DEF Own, Routines, LockOf, Rank
<1>5. MayNest(u, s[n], waits[u])
  BY <1>3 DEF WaitsAbove
<1>6. ~(s[n] = "append" /\ waits[u] = "append")
  BY <1>3 DEF EchoesToItself, In
<1>7. Rank[s[n]] < Rank[waits[u]]
  BY <1>5, <1>6 DEF MayNest, Rank
<1>8. Rank[s[i]] = Rank[s[n]] \/ Rank[s[i]] < Rank[s[n]]
  BY <1>1, <1>3 DEF Ascending
<1>9. Rank[s[i]] \in Nat /\ Rank[s[n]] \in Nat /\ Rank[waits[u]] \in Nat
  BY <1>1, <1>2, <1>3 DEF Rank, Routines
<1> QED BY <1>4, <1>7, <1>8, <1>9

\* The threads behind the window never deadlock among themselves, unless one
\* of them echoes to itself: four waits in a row would need four ranks.
THEOREM NoWorkerDeadlock == LocksSpec => []WorkersNeverDeadlock
<1>1. LInv => WorkersNeverDeadlock
  <2> SUFFICES ASSUME LInv, NEW D \in SUBSET (Threads \ {Window}), D # {}, Deadlocked(D),
                      \A t \in D : ~EchoesToItself(t)
               PROVE  FALSE
    BY DEF WorkersNeverDeadlock
  <2>1. \A t \in D : waits[t] \in Routines /\ Rank[waits[t]] \in 0..2
    BY DEF Deadlocked, LInv, Types, Rank, Routines
  <2>2. ASSUME NEW t \in D PROVE \E u \in D : Rank[waits[t]] < Rank[waits[u]]
    <3>1. PICK u \in D : Holds(u, LockOf[waits[t]])
      BY DEF Deadlocked
    <3>2. waits[t] # None /\ waits[u] # None
      BY DEF Deadlocked
    <3> QED BY <3>1, <3>2, WaitsForLater
  <2>3. PICK a \in D : TRUE
    OBVIOUS
  <2>4. PICK b \in D : Rank[waits[a]] < Rank[waits[b]]
    BY <2>2
  <2>5. PICK c \in D : Rank[waits[b]] < Rank[waits[c]]
    BY <2>2
  <2>6. PICK d \in D : Rank[waits[c]] < Rank[waits[d]]
    BY <2>2
  <2> QED BY <2>1, <2>4, <2>5, <2>6
<1> QED BY <1>1, LockOrder, PTL

\* Every deadlock has a thread in append(): without one a thread that waits is
\* the window's, and waits for a thread that does not.
THEOREM AppendDeadlocks == LocksSpec => []DeadlockNeedsAppend
<1>1. LInv => DeadlockNeedsAppend
  <2> SUFFICES ASSUME LInv, NEW D \in SUBSET Threads, D # {}, Deadlocked(D),
                      \A t \in D : ~In(t, "append")
               PROVE  FALSE
    BY DEF DeadlockNeedsAppend
  <2> USE LockThreadsAssumption
  <2>1. \A t \in D : waits[t] # "append"
    <3> SUFFICES ASSUME NEW t \in D, waits[t] = "append" PROVE FALSE
      OBVIOUS
    <3>1. PICK u \in D : Holds(u, "append")
      BY DEF Deadlocked, LockOf
    <3>2. PICK i \in 1..Len(stack[u]) : LockOf[stack[u][i]] = "append"
      BY <3>1 DEF Holds
    <3>3. stack[u][i] \in Routines
      BY <3>2 DEF LInv, Types
    <3>4. stack[u][i] = "append"
      BY <3>2, <3>3 DEF Routines, LockOf
    <3> QED BY <3>2, <3>4 DEF In
  <2>2. ASSUME NEW u \in D, stack[u] # <<>>
        PROVE  u = Window /\ waits[u] \in {"clear", "call"} /\ Holds(Window, "fl")
    <3> DEFINE n == Len(stack[u])
    <3>1. n \in 1..n
      BY <2>2 DEF LInv, Types
    <3>2. waits[u] # None /\ MayNest(u, stack[u][n], waits[u])
      BY <2>2 DEF Deadlocked, LInv, WaitsAbove
    <3>3. stack[u][n] # "append"
      BY <3>1 DEF In
    <3>4. stack[u][n] = "event" /\ u = Window /\ waits[u] \in {"clear", "call"}
      BY <2>1, <3>2, <3>3 DEF MayNest
    <3> QED BY <3>1, <3>4 DEF Holds, LockOf
  <2>3. ASSUME NEW t \in D PROVE Holds(Window, LockOf[waits[t]]) /\ Window \in D /\ stack[Window] # <<>>
    <3>1. PICK u \in D : Holds(u, LockOf[waits[t]])
      BY DEF Deadlocked
    <3>2. stack[u] # <<>>
      BY <3>1 DEF Holds
    <3> QED BY <2>2, <3>1, <3>2
  <2>4. Window \in D /\ stack[Window] # <<>>
    BY <2>3
  <2>5. CASE waits[Window] = "clear"
    <3>1. ~Free("fl", Window) /\ Holds(Window, "fl")
      BY <2>2, <2>4, <2>5 DEF Deadlocked, LockOf
    <3> QED BY <3>1, <2>4 DEF Free, LInv, Exclusive
  <2>6. CASE waits[Window] = "call"
    <3>1. Holds(Window, "ssh")
      BY <2>3, <2>4, <2>6 DEF LockOf
    <3> DEFINE s == stack[Window]
               n == Len(s)
    <3>2. PICK i \in 1..n : LockOf[s[i]] = "ssh"
      BY <3>1 DEF Holds
    <3>3. s \in Seq(Routines) /\ n \in 1..n /\ s[i] \in Routines
      BY <3>2, <2>4 DEF LInv, Types
    <3>4. s[i] \in {"call", "sftp"}
      BY <3>2, <3>3 DEF Routines, LockOf
    <3>5. s[n] = "event"
      BY <2>1, <2>4, <3>3, <2>6 DEF LInv, WaitsAbove, MayNest, Deadlocked, In
    <3>6. Rank[s[i]] < Rank[s[n]]
      <4>1. i # n
        BY <3>4, <3>5
      <4>2. i < n
        BY <3>2, <3>3, <4>1
      <4> QED BY <2>4, <3>2, <3>3, <4>2 DEF LInv, Ascending
    <3> QED BY <3>4, <3>5, <3>6 DEF Rank
  <2> QED BY <2>2, <2>4, <2>5, <2>6
<1> QED BY <1>1, LockOrder, PTL
=============================================================================
