--------------------------- MODULE Reader_proofs ---------------------------
(***************************************************************************)
(* The two sides of a host's reader thread.                                *)
(*                                                                         *)
(* First its life: safety of the host lifecycle for every number of hosts, *)
(* readers and callers, until two callers race in connect or Enter.        *)
(* Then its prompts: the safety of gets() for a user who waits for  *)
(* the prompt.  For any keys and any size of the buffer the caller gets    *)
(* the line that was typed, no key of a password is displayed, and nothing *)
(* is written outside keys.                                                *)
(***************************************************************************)
EXTENDS HostLifecycle, KeyboardGets, SequenceTheorems, TLAPS

----------------------------------------------------------------------------
(* The inductive invariant.  An active reader is always accounted for: the *)
(* present host holds it, or the one caller inside HOST::connect still has *)
(* it in its local new_reader.  That is what makes the unlocked test of    *)
(* live() in Fl_Term::connect decide the right thing.                      *)

OneCaller == \A c, d \in Callers :
                caller[c].pc # "idle" /\ caller[d].pc # "idle" => c = d

\* What a caller has established by the time it is at a given line.
CallerKnows == \A c \in Callers :
    /\ caller[c].pc \in {"check", "delete", "assign"} =>
          /\ caller[c].newhost \in Hosts \ {host}
          /\ object[caller[c].newhost] \in HostKinds
    /\ caller[c].pc \in {"delete", "assign", "start"} =>
          /\ handle[host] = None
          /\ \A t \in Threads : ~Active(t)
    /\ caller[c].pc = "swap" =>
          /\ caller[c].newhost = host
          /\ caller[c].newReader \in Threads
          /\ handle[host] = None

ReaderHeld == \A t \in Threads : Active(t) =>
    /\ rd[t].host = host
    /\ \/ handle[host] = t
       \/ \E c \in Callers : caller[c].pc = "swap" /\ caller[c].newReader = t

\* Only the present host ever holds a thread, and it is an object that was
\* constructed, deleted only while a caller is about to replace it.
PresentHost ==
    /\ \A h \in Hosts : h # host => handle[h] = None
    /\ object[host] # "unused"
    /\ object[host] = "deleted" => \E c \in Callers : caller[c].pc = "assign"

\* A reader that was done too soon left its caller at the swap.
OnlyOutrun == /\ aborted \notin {"destroy", "freed"}
              /\ aborted = "detach" => \E c \in Callers :
                    caller[c].pc = "swap" /\ rd[caller[c].newReader].pc = "none"

\* All of this until callers race.
Peaceful == /\ OneCaller
            /\ CallerKnows
            /\ ReaderHeld
            /\ PresentHost
            /\ OnlyOutrun

SInv == TypeOK /\ (~raced => Peaceful)

----------------------------------------------------------------------------
\* A new terminal has its types.
LEMMA InitType == Init => TypeOK
<1> SUFFICES ASSUME Init PROVE TypeOK
  OBVIOUS
<1>1. /\ host \in Hosts
      /\ object \in [Hosts -> Objects]
      /\ state \in [Hosts -> Status]
      /\ handle \in [Hosts -> Threads \cup {None}]
  BY HostsAssumption DEF Init, Objects, Status
<1>2. hangup \subseteq Hosts /\ forked \subseteq Hosts
  BY DEF Init
<1>3. caller \in [Callers -> [pc: CallerPcs, newhost: Hosts \cup {None},
                             newReader: Threads \cup {None}]]
  BY DEF Init, IdleCaller, CallerPcs
<1>4. \A c \in Callers : caller[c].pc \in {"check", "delete", "assign", "swap"} =>
          caller[c].newhost \in Hosts
  BY DEF Init, IdleCaller
<1>5. /\ rd \in [Threads -> [pc: ReaderPcs, host: Hosts \cup {None}]]
      /\ \A t \in Threads : rd[t].pc # "none" => rd[t].host \in Hosts
  BY DEF Init, NoReader, ReaderPcs
<1>6. /\ notice \in {"none", "reconnect"}
      /\ aborted \in {"no", "detach", "destroy", "killall", "freed"}
      /\ raced \in BOOLEAN
  BY DEF Init
<1> QED BY <1>1, <1>2, <1>3, <1>4, <1>5, <1>6 DEF TypeOK

\* The state of Fl_Term and its hosts keeps its types in every behaviour.
THEOREM TypeCorrect == Spec => []TypeOK
<1>1. Init => TypeOK
  BY InitType
<1>2. TypeOK /\ [Next]_vars => TypeOK'
  <2> SUFFICES ASSUME TypeOK, [Next]_vars PROVE TypeOK'
    OBVIOUS
  <2> USE HostsAssumption DEF TypeOK, Objects, Status, CallerPcs, ReaderPcs,
      HostKinds
  <2>1. ASSUME NEW c \in Callers, CallerSteps(c) PROVE TypeOK'
    <3>1. CASE ConnectCheck(c)
      BY <3>1 DEF ConnectCheck, CallerAt, CallerDone, CallerGoes, IdleCaller
    <3>2. CASE ConnectDelete(c)
      BY <3>2 DEF ConnectDelete, CallerAt, CallerGoes, live
    <3>3. CASE ConnectAssign(c)
      BY <3>3 DEF ConnectAssign, CallerAt, CallerGoes
    <3>4. ASSUME NEW t \in Threads, StartReader(c, t) PROVE TypeOK'
      <4>1. CASE live(host)
        <5>1. UNCHANGED <<host, object, state, handle, hangup, forked, rd, notice,
                          aborted, raced>>
          BY <3>4, <4>1 DEF StartReader
        <5>2. caller' = [caller EXCEPT ![c] = IdleCaller]
          BY <3>4, <4>1 DEF StartReader, CallerDone
        <5> QED BY <5>1, <5>2 DEF IdleCaller
      <4>2. CASE ~live(host)
        <5>1. /\ UNCHANGED <<host, object, state, handle, forked, aborted, raced>>
              /\ hangup' = hangup \ {host}
              /\ notice' = "none"
          BY <3>4, <4>2 DEF StartReader
        <5>2. rd' = [rd EXCEPT ![t] = [pc |-> "entry", host |-> host]]
          BY <3>4, <4>2 DEF StartReader
        <5>3. caller' = [caller EXCEPT ![c] = [pc |-> "swap", newhost |-> host,
                                               newReader |-> t]]
          BY <3>4, <4>2 DEF StartReader
        <5> QED BY <5>1, <5>2, <5>3
      <4> QED BY <4>1, <4>2
    <3>5. CASE SwapReader(c)
      BY <3>5 DEF SwapReader, CallerAt, CallerDone, IdleCaller, live
    <3>6. CASE UsesDeleted(c)
      BY <3>6 DEF UsesDeleted, Freed
    <3> QED BY <2>1, <3>1, <3>2, <3>3, <3>4, <3>5, <3>6 DEF CallerSteps
  <2>2. ASSUME NEW c \in Callers, Operate(c) PROVE TypeOK'
    <3>1. ASSUME NEW h \in Hosts, NEW k \in Kinds, HostNew(c, h, k) PROVE TypeOK'
      BY <3>1 DEF HostNew, Enters
    <3>2. CASE EnterOffline(c)
      BY <3>2 DEF EnterOffline, CallerGoes, Enters, CallerAt
    <3>3. CASE WriteLive(c) BY <3>3 DEF WriteLive
    <3>4. CASE Disconn(c) BY <3>4 DEF Disconn
    <3>5. CASE DisconnPipe(c) BY <3>5 DEF DisconnPipe, Hangable
    <3>6. CASE OperatesOnDeleted(c) BY <3>6 DEF OperatesOnDeleted, Freed
    <3> QED BY <2>2, <3>1, <3>2, <3>3, <3>4, <3>5, <3>6 DEF Operate
  <2>3. ASSUME NEW t \in Threads, ReaderSteps(t) PROVE TypeOK'
    <3> USE DEF ReaderAt, ReaderGoes, SetStatus, Active
    <3>1. CASE BaseRead(t) BY <3>1 DEF BaseRead
    <3>2. CASE ReadEntry(t) BY <3>2 DEF ReadEntry
    <3>3. CASE Authenticate(t) BY <3>3 DEF Authenticate
    <3>4. CASE OpenFails(t) BY <3>4 DEF OpenFails
    <3>5. CASE OpenptFails(t) BY <3>5 DEF OpenptFails
    <3>6. CASE Connected(t) BY <3>6 DEF Connected
    <3>7. CASE LoopEnds(t) BY <3>7 DEF LoopEnds
    <3>8. CASE DisconnectNotice(t) BY <3>8 DEF DisconnectNotice, IdleFirst, KindOf
    <3>9. CASE BecomeIdle(t) BY <3>9 DEF BecomeIdle, IdleFirst, KindOf
    <3>10. CASE GiveUp(t) BY <3>10 DEF GiveUp
    <3>11. CASE Detach(t) BY <3>11 DEF Detach, NoReader, live
    <3>12. CASE ReaderUsesDeleted(t) BY <3>12 DEF ReaderUsesDeleted, Freed
    <3> QED BY <2>3, <3>1, <3>2, <3>3, <3>4, <3>5, <3>6, <3>7, <3>8, <3>9,
               <3>10, <3>11, <3>12 DEF ReaderSteps
  <2>4. CASE UNCHANGED vars
    BY <2>4 DEF vars
  <2> QED BY <2>1, <2>2, <2>3, <2>4 DEF Next
<1> QED BY <1>1, <1>2, PTL DEF Spec

----------------------------------------------------------------------------
(* SInv is inductive: a step that begins no race keeps the peace. *)

\* A new terminal satisfies the inductive invariant.
LEMMA InitSInv == Init => SInv
<1> SUFFICES ASSUME Init PROVE SInv
  OBVIOUS
<1>1. TypeOK
  BY InitType
<1>2. OneCaller /\ CallerKnows
  BY DEF Init, OneCaller, CallerKnows, IdleCaller
<1>3. ReaderHeld
  BY DEF Init, ReaderHeld, Active, NoReader
<1>4. PresentHost /\ OnlyOutrun
  BY HostsAssumption DEF Init, PresentHost, OnlyOutrun
<1> QED BY <1>1, <1>2, <1>3, <1>4 DEF SInv, Peaceful

\* Each line of Fl_Term::connect and HOST::connect keeps the peace.
LEMMA CallerStepPeace ==
  ASSUME TypeOK, Peaceful, NEW c \in Callers, CallerSteps(c)
  PROVE  Peaceful'
<1> USE HostsAssumption DEF Peaceful, TypeOK, CallerAt, Objects
<1>1. CASE ConnectCheck(c)
  <2>1. /\ UNCHANGED <<host, object, handle, rd, aborted>>
        /\ caller[c].pc = "check" /\ aborted = "no"
        /\ \/ caller' = [caller EXCEPT ![c] = IdleCaller]
           \/ handle[host] = None /\ caller' = [caller EXCEPT ![c].pc = "delete"]
    BY <1>1 DEF ConnectCheck, CallerDone, CallerGoes, live
  <2>2. OneCaller'
    BY <2>1 DEF OneCaller, IdleCaller
  <2>3. CallerKnows'
    <3>1. \A t \in Threads : handle[host] = None => ~Active(t)
      BY <2>1 DEF ReaderHeld, OneCaller
    <3> QED BY <2>1, <3>1 DEF CallerKnows, Active, IdleCaller
  <2>4. ReaderHeld'
    <3>1. \A d \in Callers : caller[d].pc = "swap" => caller'[d] = caller[d]
      BY <2>1
    <3> QED BY <2>1, <3>1 DEF ReaderHeld, Active
  <2>5. PresentHost' /\ OnlyOutrun'
    BY <2>1 DEF PresentHost, OnlyOutrun, IdleCaller
  <2> QED BY <2>2, <2>3, <2>4, <2>5
<1>2. CASE ConnectDelete(c)
  <2>1. /\ caller' = [caller EXCEPT ![c].pc = "assign"]
        /\ object' = [object EXCEPT ![host] = "deleted"]
        /\ UNCHANGED <<host, handle, rd>>
        /\ caller[c].pc = "delete"
        /\ aborted = "no" /\ aborted' = "no"
    BY <1>2 DEF ConnectDelete, CallerKnows, CallerGoes, live
  <2>2. OneCaller'
    BY <2>1 DEF OneCaller
  <2>3. CallerKnows'
    BY <2>1 DEF CallerKnows, OneCaller, Active
  <2>4. ReaderHeld'
    BY <2>1 DEF CallerKnows, ReaderHeld, Active
  <2>5. PresentHost' /\ OnlyOutrun'
    BY <2>1 DEF PresentHost, OnlyOutrun
  <2> QED BY <2>1, <2>2, <2>3, <2>4, <2>5
<1>3. CASE ConnectAssign(c)
  <2>1. OneCaller'
    BY <1>3 DEF ConnectAssign, OneCaller, CallerGoes
  <2>2. CallerKnows'
    BY <1>3 DEF ConnectAssign, CallerKnows, OneCaller, PresentHost, Active, CallerGoes
  <2>3. ReaderHeld'
    BY <1>3 DEF ConnectAssign, CallerKnows, ReaderHeld, Active, CallerGoes
  <2>4. PresentHost' /\ OnlyOutrun'
    BY <1>3 DEF ConnectAssign, CallerKnows, PresentHost, OnlyOutrun, CallerGoes, HostKinds
  <2> QED BY <2>1, <2>2, <2>3, <2>4
<1>4. ASSUME NEW t \in Threads, StartReader(c, t) PROVE Peaceful'
  <2>0. ~live(host)
    BY <1>4 DEF StartReader, CallerKnows, live
  <2>1. /\ caller' = [caller EXCEPT ![c] = [pc |-> "swap", newhost |-> host,
                                             newReader |-> t]]
        /\ rd' = [rd EXCEPT ![t] = [pc |-> "entry", host |-> host]]
        /\ UNCHANGED <<host, object, handle, aborted>>
        /\ caller[c].pc = "start" /\ aborted = "no"
    BY <1>4, <2>0 DEF StartReader
  <2>2. OneCaller'
    BY <2>1 DEF OneCaller
  <2>3. CallerKnows'
    BY <2>1 DEF CallerKnows, OneCaller
  <2>4. ReaderHeld'
    BY <2>1 DEF CallerKnows, ReaderHeld, Active
  <2>5. PresentHost' /\ OnlyOutrun'
    BY <2>1 DEF PresentHost, OnlyOutrun
  <2> QED BY <2>2, <2>3, <2>4, <2>5
<1>5. CASE SwapReader(c)
  <2>1. /\ caller' = [caller EXCEPT ![c] = IdleCaller]
        /\ handle' = [handle EXCEPT ![host] = caller[c].newReader]
        /\ UNCHANGED <<host, object, rd>>
        /\ caller[c].pc = "swap"
        /\ aborted = "no" /\ aborted' = aborted
    BY <1>5 DEF SwapReader, CallerKnows, CallerDone, live
  <2>2. OneCaller'
    BY <2>1 DEF OneCaller, IdleCaller
  <2>3. CallerKnows'
    BY <2>1 DEF CallerKnows, OneCaller, IdleCaller
  <2>4. ReaderHeld'
    BY <2>1 DEF CallerKnows, OneCaller, ReaderHeld, Active, IdleCaller
  <2>5. PresentHost' /\ OnlyOutrun'
    BY <2>1 DEF PresentHost, OnlyOutrun, IdleCaller
  <2> QED BY <2>2, <2>3, <2>4, <2>5
<1>6. CASE UsesDeleted(c)
  BY <1>6 DEF UsesDeleted, Exists, PresentHost, CallerKnows, OneCaller
<1> QED BY <1>1, <1>2, <1>3, <1>4, <1>5, <1>6 DEF CallerSteps

\* So does what starts an operation while no other is under way, and what goes
\* to the host at once.
LEMMA OperatePeace ==
  ASSUME TypeOK, Peaceful, ~raced', NEW c \in Callers, Operate(c)
  PROVE  Peaceful'
<1> USE HostsAssumption DEF Peaceful, TypeOK, CallerAt, Objects
<1>1. ASSUME NEW h \in Hosts, NEW k \in Kinds, HostNew(c, h, k) PROVE Peaceful'
  <2>1. /\ \A d \in Callers : caller[d].pc = "idle"
        /\ caller' = [caller EXCEPT ![c] = [pc |-> "check", newhost |-> h,
                                             newReader |-> None]]
        /\ object[h] = "unused" /\ object' = [object EXCEPT ![h] = k]
        /\ UNCHANGED <<host, handle, rd, aborted>>
        /\ aborted = "no"
    BY <1>1 DEF HostNew, Enters
  <2>2. OneCaller'
    BY <2>1 DEF OneCaller
  <2>3. CallerKnows'
    BY <2>1 DEF CallerKnows, PresentHost
  <2>4. ReaderHeld'
    BY <2>1 DEF ReaderHeld, Active
  <2>5. PresentHost' /\ OnlyOutrun'
    BY <2>1 DEF PresentHost, OnlyOutrun
  <2> QED BY <2>2, <2>3, <2>4, <2>5
<1>2. CASE EnterOffline(c)
  <2>1. /\ \A d \in Callers : caller[d].pc = "idle"
        /\ caller' = [caller EXCEPT ![c].pc = "start"]
        /\ handle[host] = None
        /\ UNCHANGED <<host, object, handle, rd, aborted>>
        /\ aborted = "no"
    BY <1>2 DEF EnterOffline, Enters, CallerGoes, live
  <2>2. OneCaller'
    BY <2>1 DEF OneCaller
  <2>3. CallerKnows'
    BY <2>1 DEF CallerKnows, ReaderHeld, Active
  <2>4. ReaderHeld'
    BY <2>1 DEF ReaderHeld, Active
  <2>5. PresentHost' /\ OnlyOutrun'
    BY <2>1 DEF PresentHost, OnlyOutrun
  <2> QED BY <2>2, <2>3, <2>4, <2>5
<1>3. CASE WriteLive(c) \/ Disconn(c) \/ DisconnPipe(c)
  <2>1. /\ UNCHANGED <<host, object, handle, caller, rd>>
        /\ aborted = "no" /\ aborted' \in {"no", "killall"}
    BY <1>3 DEF WriteLive, Disconn, DisconnPipe
  <2> QED BY <2>1 DEF OneCaller, CallerKnows, ReaderHeld, PresentHost, Active, OnlyOutrun
<1>4. ~OperatesOnDeleted(c)
  BY DEF OperatesOnDeleted
<1> QED BY <1>1, <1>2, <1>3, <1>4 DEF Operate

\* A reader disturbs it only when it detaches, and throws only ahead of its swap.
LEMMA ReaderStepPeace ==
  ASSUME TypeOK, Peaceful, NEW t \in Threads, ReaderSteps(t)
  PROVE  Peaceful'
<1> USE DEF Peaceful, TypeOK, ReaderAt
<1>1. CASE Detach(t)
  <2>1. /\ rd[t].pc = "detach"
        /\ rd[t].host = host
        /\ handle' = [handle EXCEPT ![host] = None]
        /\ rd' = [rd EXCEPT ![t] = NoReader]
        /\ UNCHANGED <<host, object, caller>>
        /\ aborted = "no" /\ aborted' = IF handle[host] # None THEN "no" ELSE "detach"
    BY <1>1 DEF Detach, ReaderHeld, Active, live
  <2>2. ReaderHeld'
    BY <2>1 DEF ReaderHeld, Active, CallerKnows, NoReader
  <2>3. OneCaller' /\ CallerKnows'
    BY <2>1 DEF OneCaller, CallerKnows, Active, NoReader
  <2>4. PresentHost'
    BY <2>1 DEF PresentHost
  <2>5. CASE handle[host] = None
    <3>1. PICK c \in Callers : caller[c].pc = "swap" /\ caller[c].newReader = t
      BY <2>1, <2>5, HostsAssumption DEF ReaderHeld, Active
    <3>2. aborted' = "detach" /\ caller'[c] = caller[c] /\ rd'[t].pc = "none"
      BY <2>1, <2>5 DEF NoReader
    <3>3. OnlyOutrun'
      BY <3>1, <3>2 DEF OnlyOutrun
    <3> QED BY <2>2, <2>3, <2>4, <3>3
  <2>6. CASE handle[host] # None
    <3>1. OnlyOutrun'
      BY <2>1, <2>6 DEF OnlyOutrun
    <3> QED BY <2>2, <2>3, <2>4, <3>1
  <2> QED BY <2>5, <2>6
<1>0. ~ReaderUsesDeleted(t)
  BY DEF ReaderUsesDeleted, Exists, ReaderHeld, PresentHost, CallerKnows
<1>2. CASE ~Detach(t)
  <2>1. /\ UNCHANGED <<host, object, handle, caller, aborted>>
        /\ aborted = "no"
        /\ \E pc \in ReaderPcs : rd' = [rd EXCEPT ![t].pc = pc] \/ rd' = rd
        /\ Active(t)
    BY <1>0, <1>2 DEF ReaderSteps, BaseRead, ReadEntry, Authenticate, OpenFails,
       OpenptFails, Connected, LoopEnds, DisconnectNotice, BecomeIdle, GiveUp,
       ReaderGoes, ReaderPcs, Active
  <2>2. \A u \in Threads : Active(u)' => Active(u) /\ rd'[u].host = rd[u].host
    BY <2>1 DEF Active
  <2> QED BY <2>1, <2>2 DEF OneCaller, CallerKnows, ReaderHeld, PresentHost, OnlyOutrun
<1> QED BY <1>1, <1>2

\* A race is never forgotten.
LEMMA RacedStays == ASSUME TypeOK, [Next]_vars, raced PROVE raced'
<1>1. ASSUME NEW c \in Callers, CallerSteps(c) PROVE raced'
  BY <1>1 DEF CallerSteps, ConnectCheck, ConnectDelete, ConnectAssign, StartReader,
     SwapReader, UsesDeleted
<1>2. ASSUME NEW c \in Callers, Operate(c) PROVE raced'
  BY <1>2 DEF Operate, HostNew, EnterOffline, Enters, WriteLive, Disconn, DisconnPipe,
     OperatesOnDeleted
<1>3. ASSUME NEW t \in Threads, ReaderSteps(t) PROVE raced'
  BY <1>3 DEF ReaderSteps, BaseRead, ReadEntry, Authenticate, OpenFails, OpenptFails,
     Connected, LoopEnds, DisconnectNotice, BecomeIdle, GiveUp, Detach, ReaderUsesDeleted
<1> QED BY <1>1, <1>2, <1>3 DEF Next, vars

\* The inductive invariant holds in every behaviour: an active reader is held by
\* the present host or by the caller that has just started it.
THEOREM SInvariant == Spec => []SInv
<1>1. Init => SInv
  BY InitSInv
<1>2. SInv /\ TypeOK' /\ [Next]_vars => SInv'
  <2> SUFFICES ASSUME TypeOK, TypeOK', Peaceful, ~raced', [Next]_vars PROVE Peaceful'
    BY RacedStays DEF SInv
  <2>1. CASE UNCHANGED vars
    BY <2>1 DEF vars, Peaceful, OneCaller, CallerKnows, ReaderHeld, PresentHost,
       OnlyOutrun, Active
  <2> QED BY <2>1, CallerStepPeace, OperatePeace, ReaderStepPeace DEF Next
<1> QED BY <1>1, <1>2, TypeCorrect, PTL DEF Spec

\* At most one reader is active: two would both be held by the host, or by
\* the one caller that is between start and swap.
LEMMA OneReader ==
  ASSUME Peaceful, NEW t \in Threads, NEW u \in Threads, Active(t), Active(u)
  PROVE  t = u
BY HostsAssumption DEF Peaceful, ReaderHeld, CallerKnows, OneCaller

\* A running read() belongs to the present host, which is never deleted under
\* it until callers race, for any number of hosts, readers and callers.
THEOREM ReaderSafe == Spec => []ReaderUsesPresentHost
<1>1. SInv => ReaderUsesPresentHost
  BY DEF SInv, Peaceful, ReaderHeld, CallerKnows, PresentHost, ReaderUsesPresentHost, Exists
<1> QED BY <1>1, SInvariant, PTL

\* Only a race of callers, or a reader that is done before its own swap(), ends
\* the process by std::terminate or the use of a deleted host.
THEOREM RacesAbort == Spec => []OnlyRacesAbort
<1>1. SInv => OnlyRacesAbort
  BY DEF SInv, Peaceful, OnlyOutrun, OnlyRacesAbort
<1> QED BY <1>1, SInvariant, PTL

----------------------------------------------------------------------------
(* Status.  What a reader at a given line knows about its host's status;   *)
(* a host without a reader is IDLE.                                        *)

QuietIdle == \A h \in Hosts :
    (\A t \in Threads : Active(t) => rd[t].host # h) => state[h] = "IDLE"

ReaderKnows == \A t \in Threads : Active(t) =>
    /\ KindOf(t) \in HostKinds \/ (KindOf(t) = "base" /\ rd[t].pc = "entry")
    /\ rd[t].pc \in {"entry", "detach"} => state[rd[t].host] = "IDLE"
    /\ IdleFirst(t) /\ rd[t].pc \in {"opening", "failed", "noted"} =>
          state[rd[t].host] = "IDLE"

StatusInv == QuietIdle /\ ReaderKnows

\* The callers' steps keep what readers know of their host's status.
LEMMA CallerStepStatus ==
  ASSUME TypeOK, Peaceful, ~raced', StatusInv,
         NEW c \in Callers, CallerSteps(c) \/ Operate(c)
  PROVE  StatusInv'
<1> USE HostsAssumption DEF Peaceful, TypeOK, StatusInv, KindOf, IdleFirst
<1>1. ASSUME NEW t \in Threads, StartReader(c, t) PROVE StatusInv'
  <2>1. /\ \A u \in Threads : ~Active(u)
        /\ rd' = [rd EXCEPT ![t] = [pc |-> "entry", host |-> host]]
        /\ UNCHANGED <<host, object, state>>
        /\ object[host] \in HostKinds \cup {"base"}
    <3>1. caller[c].pc = "start"
      BY <1>1 DEF StartReader, CallerAt
    <3>2. handle[host] = None /\ \A u \in Threads : ~Active(u)
      BY <3>1 DEF CallerKnows
    <3>3. object[host] \in HostKinds \cup {"base"}
      BY <3>1 DEF PresentHost, OneCaller, Objects
    <3> QED BY <1>1, <3>2, <3>3 DEF StartReader, live
  <2> QED BY <2>1 DEF QuietIdle, ReaderKnows, Active
<1>2. ASSUME rd' = rd, state' = state,
             \A h \in Hosts : object'[h] = object[h] \/ (\A t \in Threads : Active(t) => rd[t].host # h)
      PROVE  StatusInv'
  BY <1>2 DEF QuietIdle, ReaderKnows, Active
<1>3. CASE WriteLive(c) \/ Disconn(c)
  <2>1. /\ UNCHANGED <<rd, object>>
        /\ state' = state \/ state' = [state EXCEPT ![host] = "IDLE"]
    BY <1>3 DEF WriteLive, Disconn
  <2> QED BY <2>1 DEF QuietIdle, ReaderKnows, Active
<1>4. CASE ConnectDelete(c)
  BY <1>2, <1>4 DEF ConnectDelete, CallerKnows, CallerAt
<1>5. ASSUME NEW h \in Hosts, NEW k \in Kinds, HostNew(c, h, k) PROVE StatusInv'
  BY <1>2, <1>5 DEF HostNew, PresentHost, ReaderHeld
<1>6. CASE ConnectCheck(c) \/ ConnectAssign(c) \/ SwapReader(c) \/ EnterOffline(c)
           \/ DisconnPipe(c) \/ UsesDeleted(c) \/ OperatesOnDeleted(c)
  BY <1>2, <1>6 DEF ConnectCheck, ConnectAssign, SwapReader, EnterOffline, DisconnPipe,
     UsesDeleted, OperatesOnDeleted, Freed
<1> QED BY <1>1, <1>3, <1>4, <1>5, <1>6 DEF CallerSteps, Operate

\* So do the readers' own, one of which is active at a time.
LEMMA ReaderStepStatus ==
  ASSUME TypeOK, Peaceful, StatusInv, NEW t \in Threads, ReaderSteps(t)
  PROVE  StatusInv'
<1> USE DEF Peaceful, TypeOK, StatusInv, KindOf, IdleFirst, ReaderAt, ReaderGoes,
            SetStatus, Active, HostKinds
<1>1. Active(t) /\ rd[t].host \in Hosts /\ \A u \in Threads : Active(u) => u = t
  <2>1. Active(t)
    BY DEF ReaderSteps, BaseRead, ReadEntry, Authenticate, OpenFails, OpenptFails,
       Connected, LoopEnds, DisconnectNotice, BecomeIdle, GiveUp, Detach,
       ReaderUsesDeleted
  <2> QED BY <2>1, OneReader
<1>2. ASSUME NEW pc \in ReaderPcs, NEW s \in Status,
             object' = object,
             rd' = [rd EXCEPT ![t].pc = pc],
             state' = [state EXCEPT ![rd[t].host] = s],
             pc = "gone" => s = "IDLE",
             pc # "gone" => KindOf(t) # "base",
             pc \notin {"none", "entry"},
             pc = "detach" => s = "IDLE",
             IdleFirst(t) /\ pc \in {"opening", "failed", "noted"} => s = "IDLE"
      PROVE  StatusInv'
  <2>1. \A u \in Threads : Active(u)' => u = t
    BY <1>1, <1>2
  <2>2. QuietIdle'
    BY <1>1, <1>2 DEF QuietIdle
  <2>3. ReaderKnows'
    BY <1>1, <1>2, <2>1 DEF ReaderKnows
  <2> QED BY <2>2, <2>3
<1>3. CASE Detach(t)
  BY <1>1, <1>3 DEF Detach, QuietIdle, ReaderKnows, NoReader
<1> DEFINE s0 == state[rd[t].host]
<1>4. s0 \in Status /\ state = [state EXCEPT ![rd[t].host] = s0]
  BY <1>1
<1>5. rd = [rd EXCEPT ![t].pc = rd[t].pc]
  OBVIOUS
<1>6. ReaderKnows
  OBVIOUS
<1> USE <1>1, <1>2, <1>4, <1>6 DEF ReaderPcs, Status, ReaderKnows
<1>7. CASE BaseRead(t) BY <1>7 DEF BaseRead
<1>8. CASE ReadEntry(t) BY <1>8 DEF ReadEntry
<1>9. CASE Authenticate(t) BY <1>5, <1>9 DEF Authenticate
<1>10. CASE OpenFails(t) BY <1>10 DEF OpenFails
<1>11. CASE OpenptFails(t) BY <1>11 DEF OpenptFails
<1>12. CASE Connected(t) BY <1>12 DEF Connected
<1>13. CASE LoopEnds(t) BY <1>13 DEF LoopEnds
<1>14. CASE DisconnectNotice(t) BY <1>14 DEF DisconnectNotice
<1>15. CASE BecomeIdle(t) BY <1>15 DEF BecomeIdle
<1>16. CASE GiveUp(t)
  <2>1. /\ object' = object
        /\ rd' = [rd EXCEPT ![t].pc = "detach"]
        /\ rd[t].pc = "failed"
    BY <1>16 DEF GiveUp
  <2>2. state' = [state EXCEPT ![rd[t].host] = "IDLE"]
    BY <1>16, <2>1 DEF GiveUp
  <2> QED BY <2>1, <2>2
<1>17. CASE ReaderUsesDeleted(t)
  BY <1>17 DEF ReaderUsesDeleted, Exists, PresentHost, ReaderHeld, CallerKnows
<1> QED BY <1>3, <1>7, <1>8, <1>9, <1>10, <1>11, <1>12, <1>13, <1>14, <1>15,
           <1>16, <1>17 DEF ReaderSteps

\* The status is IDLE where no reader is, and where a reader is done with it.
PeacefulStatus == ~raced => StatusInv

LEMMA StatusInvariant == Spec => []PeacefulStatus
<1>1. Init => PeacefulStatus
  BY DEF Init, PeacefulStatus, StatusInv, QuietIdle, ReaderKnows, Active, NoReader
<1>2. SInv /\ PeacefulStatus /\ [Next]_vars => PeacefulStatus'
  <2> SUFFICES ASSUME TypeOK, Peaceful, ~raced', StatusInv, [Next]_vars PROVE StatusInv'
    BY RacedStays DEF SInv, PeacefulStatus
  <2>1. CASE UNCHANGED vars
    BY <2>1 DEF vars, StatusInv, QuietIdle, ReaderKnows, Active, KindOf, IdleFirst
  <2> QED BY <2>1, CallerStepStatus, ReaderStepStatus DEF Next
<1> QED BY <1>1, <1>2, SInvariant, PTL DEF Spec

\* A host that is not live has the status IDLE, until callers race.
THEOREM IdleSafe == Spec => []IdleWhenNotLive
<1>1. PeacefulStatus => IdleWhenNotLive
  BY DEF PeacefulStatus, StatusInv, QuietIdle, IdleWhenNotLive
<1> QED BY <1>1, StatusInvariant, PTL

----------------------------------------------------------------------------
\* live() turns false only in detach(), when the host is IDLE already, until
\* callers race.
THEOREM DetachLast == Spec => DetachIsLast
<1> DEFINE A == raced' \/ \A h \in Hosts : live(h) /\ ~live(h)' =>
                    state[h] = "IDLE" /\ rd'[handle[h]].pc = "none"
<1>1. SInv /\ PeacefulStatus /\ [Next]_vars => A
  <2> SUFFICES ASSUME TypeOK, Peaceful, StatusInv, ~raced', [Next]_vars,
                      NEW h \in Hosts, live(h), ~live(h)'
               PROVE  state[h] = "IDLE" /\ rd'[handle[h]].pc = "none"
    BY RacedStays DEF SInv, PeacefulStatus
  <2> USE HostsAssumption DEF Peaceful, TypeOK, live
  <2>1. PICK t \in Threads : Detach(t)
    <3>1. ASSUME NEW c \in Callers, SwapReader(c) PROVE FALSE
      BY <3>1 DEF SwapReader, CallerKnows, CallerAt
    <3>2. ASSUME NEW c \in Callers, CallerSteps(c), ~SwapReader(c) PROVE FALSE
      BY <3>2 DEF CallerSteps, ConnectCheck, ConnectDelete, ConnectAssign, StartReader,
         UsesDeleted, Freed
    <3>3. ASSUME NEW c \in Callers, Operate(c) PROVE FALSE
      BY <3>3 DEF Operate, HostNew, EnterOffline, WriteLive, Disconn, DisconnPipe,
         OperatesOnDeleted, Freed
    <3>4. ASSUME NEW t \in Threads, ReaderSteps(t), ~Detach(t) PROVE FALSE
      BY <3>4 DEF ReaderSteps, BaseRead, ReadEntry, Authenticate, OpenFails,
         OpenptFails, Connected, LoopEnds, DisconnectNotice, BecomeIdle, GiveUp,
         ReaderUsesDeleted, Freed
    <3>5. CASE UNCHANGED vars
      BY <3>5 DEF vars
    <3> QED BY <3>1, <3>2, <3>3, <3>4, <3>5 DEF Next
  <2>2. rd[t].pc = "detach" /\ Active(t) /\ h = rd[t].host
    BY <2>1 DEF Detach, ReaderAt, Active
  <2>3. handle[h] = t
    BY <2>2 DEF ReaderHeld, CallerKnows
  <2> QED BY <2>1, <2>2, <2>3 DEF Detach, StatusInv, ReaderKnows, NoReader
<1>2. A => [A]_vars
  OBVIOUS
<1> QED BY <1>1, SInvariant, StatusInvariant, PTL DEF Spec, DetachIsLast

----------------------------------------------------------------------------
(* Refinement: until callers race, the terminal serves one session at a    *)
(* time.                                                                   *)

\* A new terminal has no session.
LEMMA InitSession == Init => Session!SessionInit
BY DEF Init, Session!SessionInit, phase, NoReader

\* Every step of the host lifecycle is a step of TermSession, or none.
LEMMA StepSession ==
  ASSUME SInv, SInv', [Next]_vars
  PROVE  [Session!SessionNext]_(Session!sessionVars)
<1> SUFFICES ASSUME TypeOK, Peaceful, raced' = raced
             PROVE  \/ \E t \in Threads : \/ Session!Begin(t) \/ Session!Establish(t)
                                          \/ Session!Close(t) \/ Session!End(t)
                    \/ phase' = phase
  <2>1. raced \in BOOLEAN /\ raced' \in BOOLEAN /\ TypeOK
    BY DEF SInv, TypeOK
  <2>2. CASE raced' = TRUE
    BY <2>2 DEF Session!SessionNext, Session!Race
  <2>3. CASE raced' = FALSE
    <3>1. raced = FALSE
      BY <2>1, <2>3, RacedStays
    <3>2. Peaceful /\ raced' = raced
      BY <2>3, <3>1 DEF SInv
    <3> QED BY <2>1, <3>2 DEF Session!SessionNext, Session!sessionVars
  <2> QED BY <2>1, <2>2, <2>3
<1> USE DEF Peaceful, TypeOK
<1>1. CASE \E c \in Callers, t \in Threads : StartReader(c, t) /\ ~live(host)
  <2>1. PICK c \in Callers, t \in Threads : StartReader(c, t) /\ ~live(host)
    BY <1>1
  <2>2. /\ \A u \in Threads : rd[u].pc \in {"none", "gone"}
        /\ rd' = [rd EXCEPT ![t] = [pc |-> "entry", host |-> host]]
    BY <2>1 DEF StartReader, CallerAt, CallerKnows, Active
  <2>3. Session!Begin(t)
    BY <2>2 DEF Session!Begin, phase
  <2> QED BY <2>3
<1>2. CASE rd' = rd
  BY <1>2 DEF phase
<1>3. ASSUME NEW t \in Threads, ReaderSteps(t)
      PROVE  \/ Session!Begin(t) \/ Session!Establish(t) \/ Session!Close(t) \/ Session!End(t)
             \/ phase' = phase
  <2> USE <1>3 DEF ReaderAt, ReaderGoes, Active
  <2>1. CASE BaseRead(t) \/ OpenptFails(t) \/ Detach(t)
    <3>1. /\ rd[t].pc \in {"entry", "opening", "detach"}
          /\ \/ rd' = [rd EXCEPT ![t].pc = "gone"]
             \/ rd' = [rd EXCEPT ![t] = NoReader]
      BY <2>1 DEF BaseRead, OpenptFails, Detach
    <3>2. phase[t] \in {"opening", "closing"}
      BY <3>1 DEF phase
    <3>3. ASSUME rd' = [rd EXCEPT ![t].pc = "gone"] PROVE Session!End(t)
      BY <3>2, <3>3 DEF Session!End, phase
    <3>4. ASSUME rd' = [rd EXCEPT ![t] = NoReader] PROVE Session!End(t)
      BY <3>2, <3>4 DEF NoReader, Session!End, phase
    <3> QED BY <3>1, <3>3, <3>4
  <2>2. CASE Connected(t)
    <3>1. Session!Establish(t)
      BY <2>2 DEF Connected, Session!Establish, phase
    <3> QED BY <3>1
  <2>3. CASE OpenFails(t) \/ LoopEnds(t)
    <3>1. Session!Close(t)
      BY <2>3 DEF OpenFails, LoopEnds, Session!Close, phase
    <3> QED BY <3>1
  <2>4. CASE ReadEntry(t) \/ Authenticate(t) \/ DisconnectNotice(t)
             \/ BecomeIdle(t) \/ GiveUp(t) \/ ReaderUsesDeleted(t)
    BY <2>4 DEF ReadEntry, Authenticate, DisconnectNotice, BecomeIdle, GiveUp,
       ReaderUsesDeleted, Freed, phase
  <2> QED BY <2>1, <2>2, <2>3, <2>4 DEF ReaderSteps
<1>4. ASSUME NEW c \in Callers, CallerSteps(c) \/ Operate(c), rd' # rd
      PROVE  \E t \in Threads : StartReader(c, t) /\ ~live(host)
  BY <1>4 DEF CallerSteps, Operate, ConnectCheck, ConnectDelete, ConnectAssign,
     StartReader, SwapReader, HostNew, EnterOffline, WriteLive, Disconn, DisconnPipe,
     UsesDeleted, OperatesOnDeleted, Freed
<1> QED BY <1>1, <1>2, <1>3, <1>4 DEF Next, vars

\* The host lifecycle implements TermSession: one session at a time until two
\* callers race in connect or Enter.
THEOREM OneSession == Spec => OneSessionAtATime
<1> QED BY InitSession, StepSession, SInvariant, PTL
        DEF Spec, OneSessionAtATime, Session!SessionSpec

----------------------------------------------------------------------------
(* Prompts *)

\* gets() has been prepared and has not returned to its caller.
Asked == gets.pc \in {"loop", "clear", "return", "copy"}

\* keys up to cursor holds the line l.
Holds(l) == Len(l) = cursor /\ \A n \in 1 .. cursor : l[n] = keys[n - 1]

\* keys is a C string that says what line says.
Ended == \E e \in 0 .. MaxKey :
            /\ keys[e] = "NUL"
            /\ Len(line) = e
            /\ \A n \in 1 .. e : line[n] = keys[n - 1]

\* The key in the hands of write() that ends the line, or will change it.
Ending   == wr.pc = "post" /\ wr.key = "CR"
Changing == wr.pc = "edit" \/ (wr.pc = "test" /\ bGets)

\* A prompt finds write() idle, and nothing is typed before the wait begins.
Prepared ==
    /\ wr.pc # "idle" => Asked \/ gets.pc = "idle"
    /\ gets.pc \in {"cursor", "bGets", "bReturn", "bPassword"} => line = <<>>
    /\ gets.pc \in {"bGets", "bReturn", "bPassword"} => cursor = 0
    /\ gets.pc = "bPassword" => ~bReturn

\* During the wait the buffer holds the line but for the key in hand.
Typed ==
    /\ wr.pc \in {"test", "edit"} => cursor <= MaxKey
    /\ Asked /\ bReturn => wr.pc = "idle"
    /\ gets.pc = "copy" => bReturn
    /\ Asked /\ (bReturn \/ Ending) => Ended
    /\ Asked /\ ~bReturn /\ Changing =>
         \E l \in Seq(Chars) : Holds(l) /\ line = Edited(l, wr.key)
    /\ Asked /\ ~bReturn /\ bGets /\ (wr.pc = "idle" \/ (wr.pc = "post" /\ ~Ending)) =>
         cursor <= MaxKey /\ Holds(line)

Secret == Asked => bPassword = ~gets.echo

Patient == ~hasty => Prepared /\ Typed /\ Secret /\ ~shown /\ ~overrun

IInv == GetsTypeOK /\ Patient

----------------------------------------------------------------------------
(* The line editor *)

\* A line of the keyboard's characters stays one, and fits.
LEMMA EditedType ==
    ASSUME NEW l \in Seq(Chars), Len(l) <= MaxKey, NEW k \in Keys
    PROVE  Edited(l, k) \in Seq(Chars) /\ Len(Edited(l, k)) <= MaxKey
<1>1. CASE k = "CR" BY <1>1 DEF Edited
<1>2. CASE k = "BS" /\ l = <<>> BY <1>2 DEF Edited
<1>3. CASE k = "BS" /\ l # <<>>
  <2>1. Edited(l, k) = SubSeq(l, 1, Len(l) - 1)
    BY <1>3 DEF Edited
  <2>2. PICK m \in Int : m = Len(l) - 1 /\ 0 <= m
    BY <1>3
  <2>3. \A i \in 1 .. m : l[i] \in Chars
    BY <2>2
  <2>4. SubSeq(l, 1, m) \in Seq(Chars) /\ Len(SubSeq(l, 1, m)) = IF 1 <= m THEN m - 1 + 1 ELSE 0
    BY <2>3, SubSeqProperties
  <2> QED BY <2>1, <2>2, <2>4, KeysAssumption
<1>4. CASE k \in Chars
  <2>1. k # "CR" /\ k # "BS"
    BY <1>4, KeysAssumption
  <2>2. Edited(l, k) = IF Len(l) < MaxKey THEN Append(l, k) ELSE l
    BY <2>1 DEF Edited
  <2>3. CASE Len(l) < MaxKey
    <3>1. Append(l, k) \in Seq(Chars) /\ Len(Append(l, k)) = Len(l) + 1
      BY <1>4
    <3> QED BY <2>2, <2>3, <3>1, KeysAssumption
  <2> QED BY <2>2, <2>3
<1> QED BY <1>1, <1>2, <1>3, <1>4 DEF Keys

\* What the array and the cursor are after write() has stored a key in bounds.
LEMMA Stored ==
    ASSUME GetsTypeOK, cursor <= MaxKey, NEW l \in Seq(Chars), Holds(l), line = Edited(l, wr.key),
           line' = line, EditKey
    PROVE  /\ wr.key = "CR" => Ended'
           /\ wr.key # "CR" => cursor' <= MaxKey /\ Holds(line)'
<1>0. cursor \in 0 .. MaxKey /\ MaxKey \in Nat /\ keys \in [0 .. MaxKey -> Bytes]
  BY KeysAssumption DEF GetsTypeOK
<1>1. CASE wr.key = "BS" /\ keys' = keys /\ cursor' = IF cursor > 0 THEN cursor - 1 ELSE cursor
  <2>1. CASE cursor = 0
    BY <1>0, <1>1, <2>1 DEF Holds, Edited
  <2>2. CASE cursor > 0
    <3>1. line = SubSeq(l, 1, Len(l) - 1)
      BY <1>0, <1>1, <2>2 DEF Holds, Edited
    <3>2. Len(line) = cursor - 1 /\ \A n \in 1 .. cursor - 1 : line[n] = l[n]
      BY <1>0, <2>2, <3>1 DEF Holds
    <3> QED BY <1>0, <1>1, <2>2, <3>2 DEF Holds
  <2> QED BY <1>0, <2>1, <2>2
<1>2. CASE wr.key = "CR" /\ keys' = [keys EXCEPT ![cursor] = "NUL"]
  <2>1. line = l
    BY <1>2 DEF Edited
  <2>2. keys'[cursor] = "NUL" /\ \A n \in 1 .. cursor : keys'[n - 1] = keys[n - 1]
    BY <1>0, <1>2
  <2>3. Len(line') = cursor /\ \A n \in 1 .. cursor : line'[n] = keys'[n - 1]
    BY <2>1, <2>2 DEF Holds
  <2> QED BY <1>0, <1>2, <2>2, <2>3 DEF Ended
<1>3. CASE /\ wr.key \in Chars
           /\ keys' = [keys EXCEPT ![cursor] = wr.key]
           /\ cursor' = IF cursor + 1 > MaxKey THEN MaxKey ELSE cursor + 1
  <2>1. wr.key # "CR" /\ wr.key # "BS"
    BY <1>3, KeysAssumption
  <2>2. line = IF Len(l) < MaxKey THEN Append(l, wr.key) ELSE l
    BY <2>1 DEF Edited
  <2>3. \A n \in 1 .. cursor : keys'[n - 1] = keys[n - 1]
    BY <1>0, <1>3
  <2>4. CASE cursor < MaxKey
    <3>1. line = Append(l, wr.key) /\ cursor' = cursor + 1 /\ keys'[cursor] = wr.key
      BY <1>0, <1>3, <2>2, <2>4 DEF Holds
    <3>2. Len(line) = cursor + 1 /\ line[cursor + 1] = wr.key /\ \A n \in 1 .. cursor : line[n] = l[n]
      BY <1>0, <3>1 DEF Holds
    <3> QED BY <1>0, <2>1, <2>3, <2>4, <3>1, <3>2 DEF Holds
  <2>5. CASE cursor = MaxKey
    <3>1. line = l /\ cursor' = cursor
      BY <1>0, <1>3, <2>2, <2>5 DEF Holds
    <3> QED BY <1>0, <2>1, <2>3, <2>5, <3>1 DEF Holds
  <2> QED BY <1>0, <2>4, <2>5
<1> QED BY <1>0, <1>1, <1>2, <1>3 DEF EditKey, StoreKey

\* The C string the caller reads is the line.
LEMMA StringIsLine == ASSUME GetsTypeOK, Ended PROVE Terminated /\ KeysLine = line
<1>1. PICK e \in 0 .. MaxKey : /\ keys[e] = "NUL" /\ Len(line) = e
                               /\ \A n \in 1 .. e : line[n] = keys[n - 1]
  BY DEF Ended
<1>2. MaxKey \in Nat /\ line \in Seq(Chars) /\ "NUL" \notin Chars
  BY KeysAssumption DEF GetsTypeOK
<1>3. \A m \in 0 .. e - 1 : keys[m] # "NUL"
  <2> SUFFICES ASSUME NEW m \in 0 .. e - 1 PROVE keys[m] # "NUL"
    OBVIOUS
  <2>1. m + 1 \in 1 .. e /\ (m + 1) - 1 = m
    BY <1>2
  <2>2. line[m + 1] = keys[m] /\ line[m + 1] \in Chars
    BY <1>1, <1>2, <2>1
  <2> QED BY <1>2, <2>2
<1>4. \A n \in 0 .. MaxKey :
        (keys[n] = "NUL" /\ \A m \in 0 .. n - 1 : keys[m] # "NUL") => n = e
  <2> SUFFICES ASSUME NEW n \in 0 .. MaxKey, keys[n] = "NUL",
                      \A m \in 0 .. n - 1 : keys[m] # "NUL", n # e
               PROVE  FALSE
    OBVIOUS
  <2>1. n < e \/ e < n
    BY <1>2
  <2>2. CASE n < e BY <1>2, <1>3, <2>2
  <2>3. CASE e < n
    <3>1. e \in 0 .. n - 1
      BY <1>2, <2>3
    <3> QED BY <1>1, <3>1
  <2> QED BY <2>1, <2>2, <2>3
<1>5. StrLen = e
  <2>1. \E n \in 0 .. MaxKey : keys[n] = "NUL" /\ \A m \in 0 .. n - 1 : keys[m] # "NUL"
    BY <1>1, <1>3
  <2> QED BY <1>4, <2>1 DEF StrLen
<1>6. Terminated
  BY <1>1 DEF Terminated
<1>7. KeysLine = [n \in 1 .. e |-> keys[n - 1]]
  BY <1>5, <1>6 DEF KeysLine
<1>8. line = [n \in 1 .. Len(line) |-> line[n]]
  BY <1>2
<1>9. KeysLine = line
  BY <1>1, <1>7, <1>8
<1> QED BY <1>6, <1>9

----------------------------------------------------------------------------
(* GetsTypeOK *)

LEMMA TypeInit == GetsInit => GetsTypeOK
BY KeysAssumption DEF GetsInit, GetsTypeOK, GetsPcs, WritePcs, Keys, Bytes

\* The record of gets() keeps its type when its pc moves.
LEMMA GetsType ==
    ASSUME GetsTypeOK, NEW p \in GetsPcs, GetsGoes(p)
    PROVE  /\ gets' \in [pc: GetsPcs, echo: BOOLEAN, i: 0 .. Limit, old: 0 .. MaxKey + 2]
           /\ gets'.pc = p /\ gets'.echo = gets.echo
BY DEF GetsTypeOK, GetsGoes

\* So it does when a wait begins or ends.
LEMMA WaitType ==
    ASSUME GetsTypeOK, NEW p \in GetsPcs, NEW i \in 0 .. Limit, NEW o \in 0 .. MaxKey + 2,
           gets' = [gets EXCEPT !.pc = p, !.i = i, !.old = o]
    PROVE  gets' \in [pc: GetsPcs, echo: BOOLEAN, i: 0 .. Limit, old: 0 .. MaxKey + 2]
<1>1. gets \in [pc: GetsPcs, echo: BOOLEAN, i: 0 .. Limit, old: 0 .. MaxKey + 2]
  BY DEF GetsTypeOK
<1> QED BY ONLY <1>1, p \in GetsPcs, i \in 0 .. Limit, o \in 0 .. MaxKey + 2,
                gets' = [gets EXCEPT !.pc = p, !.i = i, !.old = o]

LEMMA WriteType ==
    ASSUME GetsTypeOK, NEW p \in WritePcs, WriteGoes(p)
    PROVE  wr' \in [pc: WritePcs, key: Keys] /\ wr'.pc = p /\ wr'.key = wr.key
BY DEF GetsTypeOK, WriteGoes

LEMMA TypeStep == GetsTypeOK /\ [GetsNext]_getsVars => GetsTypeOK'
<1> SUFFICES ASSUME GetsTypeOK, [GetsNext]_getsVars PROVE GetsTypeOK'
  OBVIOUS
<1>0. MaxKey \in Nat /\ Limit \in Nat \ {0}
  BY KeysAssumption
<1>1. ASSUME NEW echo \in BOOLEAN, Prompt(echo) PROVE GetsTypeOK'
  <2>1. gets' \in [pc: GetsPcs, echo: BOOLEAN, i: 0 .. Limit, old: 0 .. MaxKey + 2]
    <3>1. gets \in [pc: GetsPcs, echo: BOOLEAN, i: 0 .. Limit, old: 0 .. MaxKey + 2]
      BY DEF GetsTypeOK
    <3>2. gets' = [gets EXCEPT !.pc = "cursor", !.echo = echo]
      BY <1>1 DEF Prompt
    <3> QED BY ONLY <3>1, <3>2, echo \in BOOLEAN DEF GetsPcs
  <2>2. line' \in Seq(Chars) /\ Len(line') <= MaxKey
    BY <1>0, <1>1 DEF Prompt
  <2>3. hasty' \in BOOLEAN /\ shown' \in BOOLEAN /\ overrun' \in BOOLEAN
    BY <1>1, Zenon DEF Prompt
  <2> QED BY <1>1, <2>1, <2>2, <2>3, Zenon DEF Prompt, fl, GetsTypeOK
<1>2. ASSUME NEW k \in Keys, Press(k) PROVE GetsTypeOK'
  <2>1. line' \in Seq(Chars) /\ Len(line') <= MaxKey
    BY <1>0, <1>2, EditedType DEF Press, GetsTypeOK
  <2>2. wr' \in [pc: WritePcs, key: Keys] /\ hasty' \in BOOLEAN
    BY <1>2 DEF Press, GetsTypeOK, WritePcs
  <2> QED BY <1>2, <2>1, <2>2 DEF Press, fl, GetsTypeOK
<1>3. CASE GetsSteps
  <2>1. CASE ResetCursor
    BY <1>0, <2>1, GetsType DEF ResetCursor, hist, GetsTypeOK, GetsPcs
  <2>2. CASE SetGets
    BY <2>2, GetsType DEF SetGets, hist, GetsTypeOK, GetsPcs
  <2>3. CASE ClearReturn
    BY <2>3, GetsType DEF ClearReturn, hist, GetsTypeOK, GetsPcs
  <2>4. CASE SetPassword
    <3>1. "loop" \in GetsPcs /\ 0 \in 0 .. Limit /\ cursor \in 0 .. MaxKey + 2
      BY <1>0 DEF GetsPcs, GetsTypeOK
    <3>2. gets' = [gets EXCEPT !.pc = "loop", !.i = 0, !.old = cursor]
      BY <2>4 DEF SetPassword
    <3>3. gets' \in [pc: GetsPcs, echo: BOOLEAN, i: 0 .. Limit, old: 0 .. MaxKey + 2]
      BY ONLY <3>1, <3>2, GetsTypeOK, WaitType
    <3>4. bPassword' \in BOOLEAN
      BY <2>4, Zenon DEF SetPassword
    <3> QED BY <2>4, <3>3, <3>4, Zenon DEF SetPassword, hist, GetsTypeOK
  <2>5. CASE Sleep100
    <3>1. gets.i + 1 \in 0 .. Limit /\ 1 \in 0 .. Limit
      BY <1>0, <2>5 DEF Sleep100, Waiting, GetsTypeOK
    <3>2. gets' \in [pc: GetsPcs, echo: BOOLEAN, i: 0 .. Limit, old: 0 .. MaxKey + 2]
      BY <2>5, <3>1 DEF Sleep100, GetsTypeOK
    <3> QED BY <2>5, <3>2 DEF Sleep100, fl, hist, GetsTypeOK
  <2>6. CASE LoopExit
    <3>1. gets' \in [pc: GetsPcs, echo: BOOLEAN, i: 0 .. Limit, old: 0 .. MaxKey + 2]
      <4>1. "clear" \in GetsPcs /\ 0 \in 0 .. Limit /\ 0 \in 0 .. MaxKey + 2
        BY <1>0 DEF GetsPcs
      <4>2. gets' = [gets EXCEPT !.pc = "clear", !.i = 0, !.old = 0]
        BY <2>6 DEF LoopExit
      <4> QED BY ONLY <4>1, <4>2, GetsTypeOK, WaitType
    <3> QED BY <2>6, <3>1 DEF LoopExit, fl, hist, GetsTypeOK
  <2>7. CASE ClearGets
    BY <2>7, GetsType DEF ClearGets, hist, GetsTypeOK, GetsPcs
  <2>8. CASE Return
    BY <2>8, GetsType DEF Return, fl, hist, GetsTypeOK, GetsPcs
  <2>9. CASE CopyKeys
    BY <2>9, GetsType DEF CopyKeys, fl, hist, GetsTypeOK, GetsPcs
  <2> QED BY <1>3, <2>1, <2>2, <2>3, <2>4, <2>5, <2>6, <2>7, <2>8, <2>9 DEF GetsSteps
<1>4. IdleWrite \in [pc: WritePcs, key: Keys]
  BY DEF IdleWrite, WritePcs, Keys
<1>5. CASE WriteLoop
  <2>1. wr' \in [pc: WritePcs, key: Keys]
    BY <1>4, <1>5, WriteType DEF WriteLoop, WritePcs
  <2> QED BY <1>5, <2>1 DEF WriteLoop, fl, hist, GetsTypeOK
<1>6. CASE EditKey
  <2>1. wr' \in [pc: WritePcs, key: Keys]
    BY <1>6, WriteType DEF EditKey, WritePcs
  <2>2. cursor' \in 0 .. MaxKey + 2
    BY <1>0, <1>6 DEF EditKey, GetsTypeOK
  <2>3. ASSUME NEW b \in Bytes, StoreKey(b)
        PROVE  keys' \in [0 .. MaxKey -> Bytes] /\ bPassword' \in BOOLEAN /\ overrun' \in BOOLEAN
    <3>1. keys' \in [0 .. MaxKey -> Bytes]
      BY <1>0, <2>3 DEF StoreKey, GetsTypeOK
    <3>2. bPassword' \in BOOLEAN
      BY <2>3, Zenon DEF StoreKey, GetsTypeOK
    <3>3. overrun' \in BOOLEAN
      BY <2>3, Zenon DEF StoreKey, GetsTypeOK
    <3> QED BY <3>1, <3>2, <3>3
  <2>4. keys' \in [0 .. MaxKey -> Bytes] /\ bPassword' \in BOOLEAN /\ overrun' \in BOOLEAN
    BY <1>6, <2>3 DEF EditKey, Bytes, GetsTypeOK
  <2> QED BY <1>6, <2>1, <2>2, <2>4 DEF EditKey, GetsTypeOK
<1>7. CASE PostKey
  <2>1. wr' \in [pc: WritePcs, key: Keys]
    BY <1>4, <1>7 DEF PostKey
  <2>2. bReturn' \in BOOLEAN /\ shown' \in BOOLEAN
    BY <1>7, Zenon DEF PostKey, GetsTypeOK
  <2> QED BY <1>7, <2>1, <2>2 DEF PostKey, GetsTypeOK
<1>8. CASE DisconnGets
  BY <1>8 DEF DisconnGets, hist, GetsTypeOK
<1>9. CASE UNCHANGED getsVars
  BY <1>9 DEF getsVars, GetsTypeOK
<1> QED BY <1>1, <1>2, <1>3, <1>5, <1>6, <1>7, <1>8, <1>9 DEF GetsNext, WriteSteps

\* Every variable of the line input keeps its type.
THEOREM GetsTypeCorrect == GetsSpec => []GetsTypeOK
BY TypeInit, TypeStep, PTL DEF GetsSpec

----------------------------------------------------------------------------
(* Patient *)

LEMMA PatientInit == GetsInit => Patient
BY KeysAssumption DEF GetsInit, Patient, Prepared, Typed, Secret, Asked, Changing, Ending

\* The state that Patient speaks of.
said == <<fl, gets.pc, gets.echo, wr, hist>>

\* A step that leaves all of it, but for the counters of gets(), keeps Patient.
LEMMA Unsaid == ASSUME Patient, UNCHANGED said PROVE Patient'
<1>1. /\ bGets' = bGets /\ bReturn' = bReturn /\ bPassword' = bPassword /\ cursor' = cursor
      /\ keys' = keys /\ gets'.pc = gets.pc /\ gets'.echo = gets.echo /\ wr' = wr
      /\ line' = line /\ hasty' = hasty /\ shown' = shown /\ overrun' = overrun
  BY DEF said, fl, hist
<1>2. /\ Prepared' = Prepared /\ Typed' = Typed /\ Secret' = Secret
  BY <1>1 DEF Prepared, Typed, Secret, Asked, Ended, Holds, Ending, Changing
<1> QED BY <1>1, <1>2 DEF Patient

\* The steps of gets().
LEMMA GetsStep == ASSUME IInv, GetsSteps PROVE Patient'
<1> SUFFICES ASSUME ~hasty' PROVE Prepared' /\ Typed' /\ Secret' /\ ~shown' /\ ~overrun'
  BY DEF Patient
<1>0. GetsTypeOK /\ ~hasty /\ Prepared /\ Typed /\ Secret /\ ~shown /\ ~overrun
  BY DEF IInv, Patient, GetsSteps, ResetCursor, SetGets, ClearReturn, SetPassword, Sleep100,
         LoopExit, ClearGets, Return, CopyKeys, hist
<1>1. CASE ResetCursor
  <2>1. gets.pc = "cursor" /\ gets'.pc = "bGets"
    BY <1>0, <1>1, GetsType DEF ResetCursor, GetsAt, GetsPcs
  <2>2. wr' = wr /\ line' = line /\ cursor' = 0 /\ shown' = shown /\ overrun' = overrun
    BY <1>1 DEF ResetCursor, hist
  <2> QED BY <1>0, <2>1, <2>2 DEF Prepared, Typed, Secret, Asked
<1>2. CASE SetGets
  <2>1. gets.pc = "bGets" /\ gets'.pc = "bReturn"
    BY <1>0, <1>2, GetsType DEF SetGets, GetsAt, GetsPcs
  <2>2. wr' = wr /\ line' = line /\ cursor' = cursor /\ shown' = shown /\ overrun' = overrun
    BY <1>2 DEF SetGets, hist
  <2> QED BY <1>0, <2>1, <2>2 DEF Prepared, Typed, Secret, Asked
<1>3. CASE ClearReturn
  <2>1. gets.pc = "bReturn" /\ gets'.pc = "bPassword"
    BY <1>0, <1>3, GetsType DEF ClearReturn, GetsAt, GetsPcs
  <2>2. /\ wr' = wr /\ line' = line /\ cursor' = cursor /\ bReturn' = FALSE
        /\ shown' = shown /\ overrun' = overrun
    BY <1>3 DEF ClearReturn, hist
  <2> QED BY <1>0, <2>1, <2>2 DEF Prepared, Typed, Secret, Asked
<1>4. CASE SetPassword
  <2>1. gets.pc = "bPassword" /\ gets'.pc = "loop" /\ gets'.echo = gets.echo
    BY <1>0, <1>4 DEF SetPassword, GetsAt, GetsTypeOK
  <2>2. /\ wr' = wr /\ line' = line /\ cursor' = cursor /\ bReturn' = bReturn
        /\ shown' = shown /\ overrun' = overrun /\ bPassword' = ~gets.echo
    BY <1>4 DEF SetPassword, hist
  <2>3. wr.pc = "idle" /\ line = <<>> /\ cursor = 0 /\ ~bReturn
    BY <1>0, <2>1 DEF Prepared, Asked
  <2>4. Holds(line)'
    BY <2>2, <2>3 DEF Holds
  <2>5. Prepared' /\ Secret'
    BY <2>1, <2>2, <2>3 DEF Prepared, Secret, Asked
  <2>6. Typed'
    BY <2>1, <2>2, <2>3, <2>4, KeysAssumption DEF Typed, Ending, Changing
  <2> QED BY <1>0, <2>2, <2>5, <2>6
<1>5. CASE Sleep100
  <2>1. gets'.pc = gets.pc /\ gets'.echo = gets.echo
    BY <1>0, <1>5 DEF Sleep100, GetsTypeOK
  <2>2. UNCHANGED said
    BY <1>5, <2>1 DEF Sleep100, said
  <2> QED BY <2>2, Unsaid DEF IInv, Patient
<1>6. CASE LoopExit
  <2>1. gets.pc = "loop" /\ gets'.pc = "clear" /\ gets'.echo = gets.echo
    BY <1>0, <1>6 DEF LoopExit, GetsAt, GetsTypeOK
  <2>2. UNCHANGED <<bGets, bReturn, bPassword, cursor, keys, wr, line, shown, overrun>>
    BY <1>6 DEF LoopExit, fl, hist
  <2>3. Ended' = Ended /\ Ending' = Ending /\ Changing' = Changing /\ \A l \in Seq(Chars) : Holds(l)' = Holds(l)
    BY <2>2 DEF Ended, Ending, Changing, Holds
  <2>4. Prepared' /\ Secret'
    BY <1>0, <2>1, <2>2 DEF Prepared, Secret, Asked
  <2>5. Typed'
    BY <1>0, <2>1, <2>2, <2>3 DEF Typed, Asked, GetsTypeOK
  <2> QED BY <1>0, <2>2, <2>4, <2>5
<1>7. CASE ClearGets
  <2>1. gets.pc = "clear" /\ gets'.pc = "return" /\ gets'.echo = gets.echo
    BY <1>0, <1>7, GetsType DEF ClearGets, GetsAt, GetsPcs
  <2>2. UNCHANGED <<bReturn, bPassword, cursor, keys, wr, line, shown, overrun>> /\ bGets' = FALSE
    BY <1>7 DEF ClearGets, hist
  <2>3. Ended' = Ended /\ Ending' = Ending /\ (Changing' => Changing) /\ \A l \in Seq(Chars) : Holds(l)' = Holds(l)
    BY <2>2 DEF Ended, Ending, Changing, Holds
  <2>4. Prepared' /\ Secret'
    BY <1>0, <2>1, <2>2 DEF Prepared, Secret, Asked
  <2>5. Typed'
    BY <1>0, <2>1, <2>2, <2>3 DEF Typed, Asked, GetsTypeOK
  <2> QED BY <1>0, <2>2, <2>4, <2>5
<1>8. CASE Return
  <2>1. gets.pc = "return" /\ gets'.pc = (IF bReturn THEN "copy" ELSE "idle") /\ gets'.echo = gets.echo
    BY <1>0, <1>8, GetsType DEF Return, GetsAt, GetsPcs
  <2>2. UNCHANGED <<bGets, bReturn, bPassword, cursor, keys, wr, line, shown, overrun>>
    BY <1>8 DEF Return, fl, hist
  <2>3. Ended' = Ended /\ Ending' = Ending
    BY <2>2 DEF Ended, Ending
  <2>4. Prepared' /\ Secret'
    BY <1>0, <2>1, <2>2 DEF Prepared, Secret, Asked
  <2>5. Typed'
    BY <1>0, <2>1, <2>2, <2>3 DEF Typed, Asked
  <2> QED BY <1>0, <2>2, <2>4, <2>5
<1>9. CASE CopyKeys
  <2>1. gets.pc = "copy" /\ gets'.pc = "idle"
    BY <1>0, <1>9, GetsType DEF CopyKeys, GetsAt, GetsPcs
  <2>2. UNCHANGED <<bGets, bReturn, bPassword, cursor, keys, wr, line, shown, overrun>>
    BY <1>9 DEF CopyKeys, fl, hist
  <2> QED BY <1>0, <2>1, <2>2 DEF Prepared, Typed, Secret, Asked
<1> QED BY <1>1, <1>2, <1>3, <1>4, <1>5, <1>6, <1>7, <1>8, <1>9 DEF GetsSteps

\* The steps of write(), and disconn().
LEMMA WriteStep ==
    ASSUME IInv, WriteSteps \/ DisconnGets \/ \E k \in Keys : Press(k)
    PROVE  Patient'
<1> SUFFICES ASSUME ~hasty' PROVE Prepared' /\ Typed' /\ Secret' /\ ~shown' /\ ~overrun'
  BY DEF Patient
<1>0. GetsTypeOK /\ ~hasty /\ Prepared /\ Typed /\ Secret /\ ~shown /\ ~overrun
  <2>1. CASE WriteSteps \/ DisconnGets
    BY <2>1 DEF IInv, Patient, WriteSteps, WriteLoop, EditKey, PostKey, DisconnGets, hist
  <2>2. ASSUME NEW k \in Keys, Press(k) PROVE ~hasty
    BY <2>2 DEF Press
  <2> QED BY <2>1, <2>2 DEF IInv, Patient
<1>1. ASSUME NEW k \in Keys, Press(k) PROVE Prepared' /\ Typed' /\ Secret' /\ ~shown' /\ ~overrun'
  <2>1. gets.pc = "loop" /\ ~bReturn /\ line' = Edited(line, k) /\ wr.pc = "idle"
    BY <1>1 DEF Press, GetsAt, WriteAt
  <2>2. UNCHANGED <<bGets, bReturn, bPassword, cursor, keys, gets, shown, overrun>>
    BY <1>1 DEF Press, fl
  <2>3. CASE bGets
    <3>1. wr'.pc = "test" /\ wr'.key = k
      BY <1>1, <2>3 DEF Press
    <3>2. cursor <= MaxKey /\ Holds(line) /\ line \in Seq(Chars)
      BY <1>0, <2>1, <2>3 DEF Typed, Asked, GetsTypeOK
    <3>3. \E l \in Seq(Chars) : Holds(l)' /\ line' = Edited(l, wr'.key)
      BY <2>1, <2>2, <3>1, <3>2 DEF Holds
    <3> QED BY <1>0, <2>1, <2>2, <3>1, <3>2, <3>3
            DEF Prepared, Typed, Secret, Asked, Ending, Changing
  <2>4. CASE ~bGets
    <3>1. wr' = wr
      BY <1>1, <2>4 DEF Press
    <3> QED BY <1>0, <2>1, <2>2, <2>4, <3>1 DEF Prepared, Typed, Secret, Asked, Ending, Changing
  <2> QED BY <2>3, <2>4
<1>2. CASE WriteLoop
  <2>1. wr.pc = "test" /\ UNCHANGED <<bGets, bReturn, bPassword, cursor, keys, gets, line, shown, overrun>>
    BY <1>2 DEF WriteLoop, WriteAt, fl, hist
  <2>2. Ended' = Ended /\ \A l \in Seq(Chars) : Holds(l)' = Holds(l)
    BY <2>1 DEF Ended, Holds
  <2>3. CASE bGets
    <3>1. wr'.pc = "edit" /\ wr'.key = wr.key
      BY <1>0, <1>2, <2>3, WriteType DEF WriteLoop, WritePcs
    <3> QED BY <1>0, <2>1, <2>2, <2>3, <3>1 DEF Prepared, Typed, Secret, Asked, Ending, Changing
  <2>4. CASE ~bGets
    <3>1. wr'.pc = "idle"
      BY <1>2, <2>4 DEF WriteLoop, IdleWrite
    <3> QED BY <1>0, <2>1, <2>2, <2>4, <3>1 DEF Prepared, Typed, Secret, Asked, Ending, Changing
  <2> QED BY <2>3, <2>4
<1>3. CASE EditKey
  <2>1. /\ wr.pc = "edit" /\ wr'.pc = "post" /\ wr'.key = wr.key
        /\ UNCHANGED <<bGets, bReturn, gets, line, hasty, shown>>
    BY <1>0, <1>3, WriteType DEF EditKey, WriteAt, WritePcs
  <2>2. cursor <= MaxKey
    BY <1>0, <2>1 DEF Typed
  <2>3. bPassword' = bPassword
    BY <1>0, <1>3, <2>2, KeysAssumption DEF EditKey, StoreKey, GetsTypeOK
  <2>4. ~overrun'
    BY <1>0, <1>3, <2>2, KeysAssumption DEF EditKey, StoreKey, GetsTypeOK
  <2>5. Prepared' /\ Secret'
    BY <1>0, <2>1, <2>3 DEF Prepared, Secret, Asked
  <2>6. CASE Asked
    <3>1. ~bReturn
      BY <1>0, <2>1, <2>6 DEF Typed
    <3>2. PICK l \in Seq(Chars) : Holds(l) /\ line = Edited(l, wr.key)
      BY <1>0, <2>1, <2>6, <3>1 DEF Typed, Changing
    <3>3. /\ wr.key = "CR" => Ended'
          /\ wr.key # "CR" => cursor' <= MaxKey /\ Holds(line)'
      BY <1>0, <1>3, <2>1, <2>2, <3>2, Stored
    <3> QED BY <1>0, <2>1, <2>4, <2>5, <2>6, <3>1, <3>3 DEF Typed, Asked, Ending, Changing
  <2>7. CASE ~Asked
    BY <1>0, <2>1, <2>4, <2>5, <2>7 DEF Typed, Asked
  <2> QED BY <2>6, <2>7
<1>4. CASE PostKey
  <2>1. /\ wr.pc = "post" /\ wr'.pc = "idle"
        /\ UNCHANGED <<bGets, bPassword, cursor, keys, gets, line, overrun>>
    BY <1>4 DEF PostKey, WriteAt, IdleWrite
  <2>2. bReturn' <=> bReturn \/ Ending
    BY <1>4, <2>1 DEF PostKey, Ending
  <2>3. Ended' = Ended /\ \A l \in Seq(Chars) : Holds(l)' = Holds(l)
    BY <2>1 DEF Ended, Holds
  <2>4. ~shown'
    <3>1. Asked \/ gets.pc = "idle"
      BY <1>0, <2>1 DEF Prepared
    <3>2. CASE Asked
      BY <1>0, <1>4, <3>2 DEF Secret, PostKey
    <3>3. CASE gets.pc = "idle"
      BY <1>0, <1>4, <3>3 DEF PostKey, GetsAt
    <3> QED BY <3>1, <3>2, <3>3
  <2>5. Prepared'
    BY <1>0, <2>1 DEF Prepared, Asked
  <2>6. Secret'
    BY <1>0, <2>1 DEF Secret, Asked
  <2>7. Typed'
    <3>1. CASE Asked
      BY <1>0, <2>1, <2>2, <2>3, <3>1 DEF Typed, Asked, Ending, Changing, GetsTypeOK
    <3>2. CASE ~Asked
      BY <2>1, <3>2 DEF Typed, Asked
    <3> QED BY <3>1, <3>2
  <2> QED BY <1>0, <2>1, <2>4, <2>5, <2>6, <2>7
<1>5. CASE DisconnGets
  <2>1. bGets' = FALSE /\ UNCHANGED <<bReturn, bPassword, cursor, keys, gets, wr, line, shown, overrun>>
    BY <1>5 DEF DisconnGets, hist
  <2>2. /\ Ended' = Ended /\ Ending' = Ending /\ (Changing' => Changing)
        /\ \A l \in Seq(Chars) : Holds(l)' = Holds(l)
    BY <2>1 DEF Ended, Ending, Changing, Holds
  <2>3. Prepared' /\ Secret'
    BY <1>0, <2>1 DEF Prepared, Secret, Asked
  <2>4. Typed'
    BY <1>0, <2>1, <2>2 DEF Typed, Asked
  <2> QED BY <1>0, <2>1, <2>3, <2>4
<1> QED BY <1>1, <1>2, <1>3, <1>4, <1>5 DEF WriteSteps

LEMMA PatientStep == IInv /\ [GetsNext]_getsVars => Patient'
<1> SUFFICES ASSUME IInv, [GetsNext]_getsVars PROVE Patient'
  OBVIOUS
<1>1. ASSUME NEW echo \in BOOLEAN, Prompt(echo) PROVE Patient'
  <2> SUFFICES ASSUME ~hasty' PROVE Prepared' /\ Typed' /\ Secret' /\ ~shown' /\ ~overrun'
    BY DEF Patient
  <2>1. gets'.pc = "cursor" /\ wr.pc = "idle" /\ wr' = wr /\ line' = <<>> /\ ~shown' /\ ~overrun'
    BY <1>1 DEF Prompt, IInv, GetsTypeOK
  <2> QED BY <2>1 DEF Prepared, Typed, Secret, Asked
<1>2. CASE GetsSteps
  BY <1>2, GetsStep
<1>3. CASE WriteSteps \/ DisconnGets \/ \E k \in Keys : Press(k)
  BY <1>3, WriteStep
<1>4. CASE UNCHANGED getsVars
  <2>1. UNCHANGED said
    BY <1>4 DEF getsVars, said, fl, hist
  <2> QED BY <2>1, Unsaid DEF IInv
<1> QED BY <1>1, <1>2, <1>3, <1>4 DEF GetsNext

\* The inductive invariant: while gets() waits, keys holds the line but for the
\* key write() has in hand.
THEOREM Invariance == GetsSpec => []IInv
<1>1. GetsInit => IInv
  BY TypeInit, PatientInit DEF IInv
<1>2. IInv /\ [GetsNext]_getsVars => IInv'
  BY TypeStep, PatientStep DEF IInv
<1> QED BY <1>1, <1>2, PTL DEF GetsSpec

\* gets() returns what the user typed and corrected, for every sequence of keys
\* and every size of the buffer.
THEOREM LineCorrect == GetsSpec => []LineIntact
<1>1. IInv => LineIntact
  <2> SUFFICES ASSUME IInv, gets.pc = "copy", ~hasty PROVE Terminated /\ KeysLine = line
    BY DEF LineIntact, GetsAt
  <2>1. Ended
    BY DEF IInv, Patient, Typed, Asked
  <2> QED BY <2>1, StringIsLine DEF IInv
<1> QED BY <1>1, Invariance, PTL

\* No key of a password typed at its prompt is displayed.
THEOREM PasswordSafe == GetsSpec => []PasswordHidden
<1>1. IInv => PasswordHidden
  BY DEF IInv, Patient, PasswordHidden
<1> QED BY <1>1, Invariance, PTL

\* No byte is written outside keys for a user who waits for the prompt.
THEOREM KeysSafe == GetsSpec => []KeysInBounds
<1>1. IInv => KeysInBounds
  BY DEF IInv, Patient, KeysInBounds
<1> QED BY <1>1, Invariance, PTL

=============================================================================
