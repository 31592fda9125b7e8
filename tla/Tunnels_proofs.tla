--------------------------- MODULE Tunnels_proofs ---------------------------
(***************************************************************************)
(* The list of tunnels has one entry for each thread that is yet to remove *)
(* one, however many connections there are and whatever the user closes;   *)
(* and until the user closes one, what is open is listed.  A thread knows  *)
(* its entry by the socket's number only, which another may have by then:  *)
(* threads and entries are matched by number, and the entry of what is     *)
(* open is the latest with its number, while the first one is removed.     *)
(*                                                                         *)
(* The bytes of a stream follow one another from one end to the other,     *)
(* through a worker that never holds another's number before a close.      *)
(***************************************************************************)
EXTENDS Tunnels, FiniteSetTheorems, SequenceTheorems, TLAPS

\* The threads that have an entry in the list; None stands for tun_local's.
Ids == Conns \cup {None}
Holds(k) == IF k = None THEN lis["local"].pc \notin {"none", "gone"} ELSE Running(k)
Holders == {k \in Ids : Holds(k)}
socket == [k \in Ids |-> IF k = None THEN lis["local"].sock ELSE w[k].sock]

\* g gives each entry of the list s to a thread of H with its number.
Matching(g, s, H, sock) ==
    /\ g \in [1..Len(s) -> H]
    /\ \A i, j \in 1..Len(s) : g[i] = g[j] => i = j
    /\ \A k \in H : \E i \in 1..Len(s) : g[i] = k
    /\ \A i \in 1..Len(s) : s[i].socket = sock[g[i]]

Matched == \E g : Matching(g, tunnel_list, Holders, socket)

\* What the threads and the clients are made of; of what values does not matter.
WForm == \E U : w \in [Conns -> [pc : U, sock : U, isset : U, buff : U]]
LForm == \E U : lis \in [Listeners -> [pc : U, sock : U, tun : U, conn : U]]
CForm == \E U : client \in [Conns -> [state : U, sent : U, pending : U, got : U]]
Shape == WForm /\ LForm /\ CForm

\* A connection that is about to get a worker has none yet.
Fresh ==
    /\ \A c \in Conns : client[c].state \in {"none", "queued"} => w[c].pc = "none"
    /\ lis["local"].pc = "channel" =>
          /\ lis["local"].conn \in Conns
          /\ w[lis["local"].conn].pc = "none"
          /\ client[lis["local"].conn].state \notin {"none", "queued"}

IInv ==
    /\ \E S : tunnel_list \in Seq(S)
    /\ Shape
    /\ Fresh
    /\ Matched

LEMMA Distinct ==
    /\ None \notin Conns /\ Listening \notin Conns /\ None # Listening
    /\ None \in Ids /\ Conns \subseteq Ids
BY TunnelsAssumption DEF None, Listening, Ids

\* The tunnels that should be listed are those of the threads that have an entry.
LEMMA ListedAre == Listed = {Tunnel(socket[k], k) : k \in Holders}
<1>1. ASSUME NEW t \in Listed PROVE \E k \in Holders : t = Tunnel(socket[k], k)
  <2>1. CASE \E c \in Conns : Running(c) /\ t = Tunnel(w[c].sock, c)
    BY <2>1, Distinct DEF Holders, Holds, Ids, socket
  <2>2. CASE lis["local"].pc \notin {"none", "gone"} /\ t = Tunnel(lis["local"].sock, None)
    BY <2>2, Distinct DEF Holders, Holds, Ids, socket
  <2> QED BY <1>1, <2>1, <2>2 DEF Listed
<1>2. ASSUME NEW k \in Holders PROVE Tunnel(socket[k], k) \in Listed
  <2>1. CASE k = None
    BY <2>1, Distinct DEF Holders, Holds, Ids, socket, Listed
  <2>2. CASE k # None
    BY <2>2, Distinct DEF Holders, Holds, Ids, socket, Listed
  <2> QED BY <2>1, <2>2
<1> QED BY <1>1, <1>2

-----------------------------------------------------------------------------
(* The list *)

LEMMA Removed ==
    ASSUME NEW S, NEW s \in Seq(S), NEW j \in 1..Len(s)
    PROVE  /\ RemoveAt(s, j) \in Seq(S)
           /\ Len(RemoveAt(s, j)) = Len(s) - 1
           /\ \A i \in 1..(Len(s) - 1) : RemoveAt(s, j)[i] = s[IF i < j THEN i ELSE i + 1]
<1> DEFINE a == SubSeq(s, 1, j - 1)
           b == SubSeq(s, j + 1, Len(s))
<1>1. PICK n \in Nat : n = Len(s) /\ j \in 1..n
  OBVIOUS
<1>2. \A i \in 1..n : s[i] \in S
  BY <1>1, ElementOfSeq
<1>3. a \in Seq(S) /\ Len(a) = j - 1 /\ \A i \in 1..(j - 1) : a[i] = s[i]
  BY <1>1, <1>2
<1>4. b \in Seq(S) /\ Len(b) = n - j /\ \A i \in 1..(n - j) : b[i] = s[j + i]
  BY <1>1, <1>2
<1> HIDE DEF a, b
<1>5. /\ a \o b \in Seq(S) /\ Len(a \o b) = n - 1
      /\ \A i \in 1..(n - 1) : (a \o b)[i] = IF i < j THEN a[i] ELSE b[i - (j - 1)]
  <2>1. /\ a \o b \in Seq(S) /\ Len(a \o b) = Len(a) + Len(b)
        /\ \A i \in 1..(Len(a) + Len(b)) : (a \o b)[i] = IF i <= Len(a) THEN a[i] ELSE b[i - Len(a)]
    BY <1>3, <1>4, ConcatProperties
  <2> QED BY <1>1, <1>3, <1>4, <2>1
<1>6. ASSUME NEW i \in 1..(n - 1) PROVE (a \o b)[i] = s[IF i < j THEN i ELSE i + 1]
  <2>1. CASE i < j BY <1>1, <1>3, <1>5, <2>1
  <2>2. CASE ~(i < j)
    <3>1. i - (j - 1) \in 1..(n - j) /\ j + (i - (j - 1)) = i + 1
      BY <1>1, <2>2
    <3> QED BY <1>4, <1>5, <2>2, <3>1
  <2> QED BY <2>1, <2>2
<1>7. RemoveAt(s, j) = a \o b
  BY DEF RemoveAt, a, b
<1> QED BY <1>1, <1>5, <1>6, <1>7

LEMMA Least ==
    ASSUME NEW I, I \subseteq Nat, I # {}
    PROVE  \E m \in I : \A i \in I : m <= i
<1>1. PICK m \in I : \A i \in I : <<i, m>> \notin OpToRel(<, Nat)
  BY NatLessThanWellFounded, WFMin
<1>2. ASSUME NEW i \in I PROVE m <= i
  <2>1. ~(i < m)
    BY <1>1 DEF OpToRel
  <2> QED BY <2>1
<1> QED BY <1>2

\* tun_del() looks the first entry up that has the number.
LEMMA FirstWith ==
    ASSUME NEW S, NEW s \in Seq(S), NEW n, \E i \in 1..Len(s) : s[i].socket = n
    PROVE  \E j \in 1..Len(s) :
             /\ SelectInSeq(s, LAMBDA t : t.socket = n) = j
             /\ s[j].socket = n
             /\ \A i \in 1..Len(s) : s[i].socket = n => j <= i
<1> DEFINE I == {i \in 1..Len(s) : s[i].socket = n}
<1>1. SelectInSeq(s, LAMBDA t : t.socket = n) = IF I # {} THEN Min(I) ELSE 0
  BY DEF SelectInSeq
<1>2. I # {} /\ I \subseteq Nat
  OBVIOUS
<1>3. \E m \in I : \A i \in I : m <= i
  BY <1>2, Least
<1>4. Min(I) \in I /\ \A i \in I : Min(I) <= i
  BY <1>3 DEF Min
<1> QED BY <1>1, <1>2, <1>4
-----------------------------------------------------------------------------
(* Entries and threads *)

\* A new thread is matched with the new entry.
LEMMA Extended ==
    ASSUME NEW S, NEW s \in Seq(S), NEW e, NEW H, NEW k, k \notin H,
           NEW sock, NEW sock2, \A h \in H : sock2[h] = sock[h], sock2[k] = e.socket,
           NEW g, Matching(g, s, H, sock)
    PROVE  \E g2 : Matching(g2, Append(s, e), H \cup {k}, sock2)
<1> DEFINE t == Append(s, e)
<1>1. PICK n \in Nat : n = Len(s)
  OBVIOUS
<1>2. /\ Len(t) = n + 1 /\ t[n + 1] = e
      /\ \A i \in 1..n : t[i] = s[i]
  BY <1>1
<1> HIDE DEF t
<1> DEFINE g2 == [i \in 1..(n + 1) |-> IF i = n + 1 THEN k ELSE g[i]]
<1>3. \A i \in 1..n : i \in 1..(n + 1) /\ i # n + 1 /\ g2[i] = g[i] /\ g[i] \in H
  BY <1>1 DEF Matching
<1>4. n + 1 \in 1..(n + 1) /\ g2[n + 1] = k /\ \A i \in 1..(n + 1) : i = n + 1 \/ i \in 1..n
  OBVIOUS
<1> HIDE DEF g2
<1>5. g2 \in [1..(n + 1) -> H \cup {k}]
  BY <1>3, <1>4 DEF g2
<1>6. \A i, j \in 1..(n + 1) : g2[i] = g2[j] => i = j
  BY <1>1, <1>3, <1>4 DEF Matching
<1>7. \A h \in H \cup {k} : \E i \in 1..(n + 1) : g2[i] = h
  BY <1>1, <1>3, <1>4 DEF Matching
<1>8. \A i \in 1..(n + 1) : t[i].socket = sock2[g2[i]]
  <2>1. \A i \in 1..n : t[i].socket = sock2[g2[i]]
    BY <1>1, <1>2, <1>3 DEF Matching
  <2> QED BY <1>2, <1>4, <2>1
<1>9. Matching(g2, t, H \cup {k}, sock2)
  BY <1>2, <1>5, <1>6, <1>7, <1>8 DEF Matching
<1> QED BY <1>9 DEF t

\* Thread k takes the first entry with its number: the thread that was matched
\* with that entry is now matched with the one k had, which has the same number.
LEMMA Reduced ==
    ASSUME NEW S, NEW s \in Seq(S), NEW H, NEW k \in H, NEW j \in 1..Len(s),
           NEW sock, NEW sock2, \A h \in H \ {k} : sock2[h] = sock[h], s[j].socket = sock[k],
           NEW g, Matching(g, s, H, sock)
    PROVE  \E g2 : Matching(g2, RemoveAt(s, j), H \ {k}, sock2)
<1> DEFINE t == RemoveAt(s, j)
           at(i) == IF i < j THEN i ELSE i + 1
<1>1. PICK n \in Nat : n = Len(s) /\ j \in 1..n
  OBVIOUS
<1>2. Len(t) = n - 1 /\ \A i \in 1..(n - 1) : t[i] = s[at(i)]
  BY <1>1, Removed
<1> HIDE DEF t
<1>3. /\ \A i \in 1..(n - 1) : at(i) \in 1..n /\ at(i) # j
      /\ \A i1, i2 \in 1..(n - 1) : at(i1) = at(i2) => i1 = i2
      /\ \A m \in 1..n : m # j => \E i \in 1..(n - 1) : at(i) = m
  <2>1. ASSUME NEW m \in 1..n, m # j PROVE \E i \in 1..(n - 1) : at(i) = m
    <3>1. CASE m < j
      <4>1. m \in 1..(n - 1) /\ at(m) = m
        BY <1>1, <3>1
      <4> QED BY <4>1
    <3>2. CASE ~(m < j)
      <4>1. m - 1 \in 1..(n - 1) /\ at(m - 1) = m
        BY <1>1, <2>1, <3>2
      <4> QED BY <4>1
    <3> QED BY <3>1, <3>2
  <2> QED BY <1>1, <2>1
<1> HIDE DEF at
<1>4. PICK i0 \in 1..n : g[i0] = k
  BY <1>1 DEF Matching
<1> DEFINE old(i) == IF at(i) = i0 THEN j ELSE at(i)
           g2 == [i \in 1..(n - 1) |-> g[old(i)]]
<1>5. /\ \A i \in 1..(n - 1) : old(i) \in 1..n /\ old(i) # i0
      /\ \A i1, i2 \in 1..(n - 1) : old(i1) = old(i2) => i1 = i2
      /\ \A m \in 1..n : m # i0 => \E i \in 1..(n - 1) : old(i) = m
  BY <1>1, <1>3, <1>4
<1>6. \A i \in 1..(n - 1) : s[old(i)].socket = s[at(i)].socket
  BY <1>1, <1>3, <1>4 DEF Matching
<1> HIDE DEF old
<1>7. \A i \in 1..(n - 1) : g2[i] = g[old(i)] /\ g[old(i)] \in H \ {k}
  BY <1>1, <1>4, <1>5 DEF Matching
<1>8. g2 \in [1..(n - 1) -> H \ {k}]
  BY <1>7
<1> HIDE DEF g2
<1>9. \A i1, i2 \in 1..(n - 1) : g2[i1] = g2[i2] => i1 = i2
  BY <1>1, <1>5, <1>7 DEF Matching
<1>10. \A h \in H \ {k} : \E i \in 1..(n - 1) : g2[i] = h
  <2>1. ASSUME NEW h \in H \ {k} PROVE \E i \in 1..(n - 1) : g2[i] = h
    <3>1. PICK m \in 1..n : g[m] = h
      BY <1>1 DEF Matching
    <3>2. PICK i \in 1..(n - 1) : old(i) = m
      BY <1>4, <1>5, <3>1
    <3> QED BY <1>7, <3>1, <3>2
  <2> QED BY <2>1
<1>11. ASSUME NEW i \in 1..(n - 1) PROVE t[i].socket = sock2[g2[i]]
  <2>1. sock2[g2[i]] = sock[g[old(i)]]
    BY <1>7
  <2>2. s[old(i)].socket = sock[g[old(i)]]
    BY <1>1, <1>5 DEF Matching
  <2> QED BY <1>2, <1>6, <2>1, <2>2
<1>12. Matching(g2, t, H \ {k}, sock2)
  BY <1>2, <1>8, <1>9, <1>10, <1>11 DEF Matching
<1> QED BY <1>12 DEF t

\* Matched threads are as many as entries.
LEMMA Counted ==
    ASSUME NEW S, NEW s \in Seq(S), NEW H, NEW sock, NEW g, Matching(g, s, H, sock)
    PROVE  IsFiniteSet(H) /\ Cardinality(H) = Len(s)
<1>1. Len(s) \in Nat
  OBVIOUS
<1>2. g \in Bijection(1..Len(s), H)
  BY DEF Matching, Bijection, Injection, IsInjective, Surjection
<1>3. ExistsBijection(1..Len(s), H)
  BY <1>2 DEF ExistsBijection
<1>4. IsFiniteSet(1..Len(s))
  BY <1>1, FS_Interval
<1> QED BY <1>1, <1>3, <1>4, FS_CountingElements, FS_Bijection
-----------------------------------------------------------------------------
(* Steps *)

\* A step starts no thread and ends none.
Keeps ==
    /\ tunnel_list' = tunnel_list
    /\ Holders' = Holders
    /\ \A k \in Holders : socket'[k] = socket[k]

\* Thread k starts, and lists its tunnel.
Adds(k) ==
    /\ k \in Ids \ Holders
    /\ tunnel_list' = Append(tunnel_list, Tunnel(socket'[k], k))
    /\ Holders' = Holders \cup {k}
    /\ \A h \in Holders : socket'[h] = socket[h]

\* Thread k ends, and removes an entry with its number.
Removes(k) ==
    /\ k \in Holders
    /\ tun_del(socket[k])
    /\ Holders' = Holders \ {k}
    /\ \A h \in Holders \ {k} : socket'[h] = socket[h]

ListStep == Keeps \/ \E k \in Ids : Adds(k) \/ Removes(k)

LEMMA MatchedStep ==
    ASSUME NEW S, tunnel_list \in Seq(S), Matched, ListStep
    PROVE  Matched' /\ \E T : tunnel_list' \in Seq(T)
<1>1. PICK g : Matching(g, tunnel_list, Holders, socket)
  BY DEF Matched
<1>2. CASE Keeps
  <2>1. Matching(g, tunnel_list', Holders', socket')
    BY <1>1, <1>2 DEF Keeps, Matching
  <2> QED BY <1>2, <2>1 DEF Keeps, Matched
<1>3. ASSUME NEW k \in Ids, Adds(k) PROVE Matched' /\ \E T : tunnel_list' \in Seq(T)
  <2> DEFINE e == Tunnel(socket'[k], k)
  <2>1. tunnel_list' = Append(tunnel_list, e)
    BY <1>3 DEF Adds
  <2>2. k \notin Holders /\ socket'[k] = e.socket /\ \A h \in Holders : socket'[h] = socket[h]
    BY <1>3 DEF Adds, Tunnel
  <2> HIDE DEF e
  <2>3. \E g2 : Matching(g2, Append(tunnel_list, e), Holders \cup {k}, socket')
    BY <1>1, <2>2, Extended
  <2>4. Matched'
    BY <1>3, <2>1, <2>3 DEF Matched, Adds
  <2>5. tunnel_list' \in Seq(S \cup {e})
    <3>1. tunnel_list \in Seq(S \cup {e})
      BY SeqMonotonic
    <3> QED BY <2>1, <3>1
  <2> QED BY <2>4, <2>5
<1>4. ASSUME NEW k \in Ids, Removes(k) PROVE Matched' /\ \E T : tunnel_list' \in Seq(T)
  <2> DEFINE n == socket[k]
  <2>1. \E i \in 1..Len(tunnel_list) : tunnel_list[i].socket = n
    BY <1>1, <1>4 DEF Matching, Removes
  <2>2. PICK j \in 1..Len(tunnel_list) :
          /\ SelectInSeq(tunnel_list, LAMBDA t : t.socket = n) = j
          /\ tunnel_list[j].socket = n
          /\ \A i \in 1..Len(tunnel_list) : tunnel_list[i].socket = n => j <= i
    <3> HIDE DEF n
    <3> QED BY <2>1, FirstWith
  <2>3. tunnel_list' = RemoveAt(tunnel_list, j)
    BY <1>4, <2>1, <2>2 DEF Removes, tun_del
  <2>4. \E g2 : Matching(g2, RemoveAt(tunnel_list, j), Holders \ {k}, socket')
    BY <1>1, <1>4, <2>2, Reduced DEF Removes
  <2>5. Matched'
    BY <1>4, <2>3, <2>4 DEF Matched, Removes
  <2>6. tunnel_list' \in Seq(S)
    BY <2>2, <2>3, Removed
  <2> QED BY <2>5, <2>6
<1> QED BY <1>2, <1>3, <1>4 DEF ListStep

LEMMA KeepsBy ==
    ASSUME tunnel_list' = tunnel_list,
           \A c \in Conns : w'[c].sock = w[c].sock /\ (Running(c)' <=> Running(c)),
           lis'["local"].sock = lis["local"].sock, Holds(None)' <=> Holds(None)
    PROVE  ListStep
<1>1. None \notin Conns
  BY Distinct
<1>2. \A k \in Ids : Holds(k)' <=> Holds(k)
  BY <1>1 DEF Ids, Holds
<1>3. \A k \in Ids : socket'[k] = socket[k]
  BY <1>1 DEF Ids, socket
<1> QED BY <1>2, <1>3 DEF ListStep, Keeps, Holders

\* The clients of a step: some have ended, the others are as they were.
Clients ==
    /\ CForm'
    /\ \A k \in Conns : client'[k].state \in {client[k].state, "shut", "closed"}

\* Worker c goes on.
GoesOn(c) ==
    /\ WForm'
    /\ w'[c].pc \notin {"none", "gone"} /\ w'[c].sock = w[c].sock
    /\ \A k \in Conns \ {c} : w'[k] = w[k]

LEMMA WorkerGoesOn ==
    ASSUME Shape, Fresh, NEW c \in Conns, Running(c), UNCHANGED <<tunnel_list, lis>>, Clients, GoesOn(c)
    PROVE  Shape' /\ Fresh' /\ ListStep
<1>1. Shape'
  BY DEF Shape, LForm, Clients, GoesOn
<1>2. Fresh'
  BY DEF Fresh, Running, Clients, GoesOn
<1>3. ListStep
  BY KeepsBy DEF Running, Holds, GoesOn
<1> QED BY <1>1, <1>2, <1>3

\* Parts of a worker's record are set.
LEMMA SetParts ==
    ASSUME WForm, NEW c \in Conns, Running(c),
           NEW pc, pc \notin {"none", "gone"}, NEW isset, NEW buff,
           \/ w' = [w EXCEPT ![c].pc = pc]
           \/ w' = [w EXCEPT ![c].pc = pc, ![c].isset = isset]
           \/ w' = [w EXCEPT ![c].pc = pc, ![c].buff = buff]
           \/ w' = [w EXCEPT ![c] = [@ EXCEPT !.buff = buff]]
           \/ w' = [w EXCEPT ![c] = [@ EXCEPT !.buff = buff, !.isset = isset, !.pc = pc]]
           \/ w' = [w EXCEPT ![c] = [@ EXCEPT !.isset = isset, !.buff = buff, !.pc = pc]]
           \/ w' = [w EXCEPT ![c] = [@ EXCEPT !.pc = pc, !.isset = isset, !.buff = buff]]
    PROVE  GoesOn(c)
<1>1. PICK U : w \in [Conns -> [pc : U, sock : U, isset : U, buff : U]]
  BY DEF WForm
<1> DEFINE V == U \cup {pc, isset, buff}
           R == [pc : V, sock : V, isset : V, buff : V]
           Good(r) == r \in R /\ r.pc \in {pc, w[c].pc} /\ r.sock = w[c].sock
<1>2. [pc : U, sock : U, isset : U, buff : U] \subseteq R
  OBVIOUS
<1>3. w[c] \in [pc : U, sock : U, isset : U, buff : U]
  BY <1>1
<1>4. /\ Good([w[c] EXCEPT !.pc = pc])
      /\ Good([w[c] EXCEPT !.pc = pc, !.isset = isset])
      /\ Good([w[c] EXCEPT !.pc = pc, !.buff = buff])
      /\ Good([w[c] EXCEPT !.buff = buff])
      /\ Good([w[c] EXCEPT !.buff = buff, !.isset = isset, !.pc = pc])
      /\ Good([w[c] EXCEPT !.isset = isset, !.buff = buff, !.pc = pc])
      /\ Good([w[c] EXCEPT !.pc = pc, !.isset = isset, !.buff = buff])
  <2>1. Good([w[c] EXCEPT !.pc = pc])
    BY <1>3
  <2>2. Good([w[c] EXCEPT !.pc = pc, !.isset = isset])
    BY <1>3
  <2>3. Good([w[c] EXCEPT !.pc = pc, !.buff = buff])
    BY <1>3
  <2>4. Good([w[c] EXCEPT !.buff = buff])
    BY <1>3
  <2>5. Good([w[c] EXCEPT !.buff = buff, !.isset = isset, !.pc = pc])
    BY <1>3
  <2>6. Good([w[c] EXCEPT !.isset = isset, !.buff = buff, !.pc = pc])
    BY <1>3
  <2>7. Good([w[c] EXCEPT !.pc = pc, !.isset = isset, !.buff = buff])
    BY <1>3
  <2> QED BY <2>1, <2>2, <2>3, <2>4, <2>5, <2>6, <2>7
<1> HIDE DEF Good
<1>5. \E r : Good(r) /\ w' = [w EXCEPT ![c] = r]
  <2>1. CASE w' = [w EXCEPT ![c].pc = pc]
    <3>1. w' = [w EXCEPT ![c] = [w[c] EXCEPT !.pc = pc]]
      BY <1>1, <2>1, Zenon
    <3> QED BY <1>4, <3>1, Zenon
  <2>2. CASE w' = [w EXCEPT ![c].pc = pc, ![c].isset = isset]
    <3>1. w' = [w EXCEPT ![c] = [w[c] EXCEPT !.pc = pc, !.isset = isset]]
      BY <1>1, <2>2, Zenon
    <3> QED BY <1>4, <3>1, Zenon
  <2>3. CASE w' = [w EXCEPT ![c].pc = pc, ![c].buff = buff]
    <3>1. w' = [w EXCEPT ![c] = [w[c] EXCEPT !.pc = pc, !.buff = buff]]
      BY <1>1, <2>3, Zenon
    <3> QED BY <1>4, <3>1, Zenon
  <2>4. CASE w' = [w EXCEPT ![c] = [@ EXCEPT !.buff = buff]]
    <3>1. w' = [w EXCEPT ![c] = [w[c] EXCEPT !.buff = buff]]
      BY <1>1, <2>4, Zenon
    <3> QED BY <1>4, <3>1, Zenon
  <2>5. CASE w' = [w EXCEPT ![c] = [@ EXCEPT !.buff = buff, !.isset = isset, !.pc = pc]]
    <3>1. w' = [w EXCEPT ![c] = [w[c] EXCEPT !.buff = buff, !.isset = isset, !.pc = pc]]
      BY <1>1, <2>5, Zenon
    <3> QED BY <1>4, <3>1, Zenon
  <2>6. CASE w' = [w EXCEPT ![c] = [@ EXCEPT !.isset = isset, !.buff = buff, !.pc = pc]]
    <3>1. w' = [w EXCEPT ![c] = [w[c] EXCEPT !.isset = isset, !.buff = buff, !.pc = pc]]
      BY <1>1, <2>6, Zenon
    <3> QED BY <1>4, <3>1, Zenon
  <2>7. CASE w' = [w EXCEPT ![c] = [@ EXCEPT !.pc = pc, !.isset = isset, !.buff = buff]]
    <3>1. w' = [w EXCEPT ![c] = [w[c] EXCEPT !.pc = pc, !.isset = isset, !.buff = buff]]
      BY <1>1, <2>7, Zenon
    <3> QED BY <1>4, <3>1, Zenon
  <2> QED BY <2>1, <2>2, <2>3, <2>4, <2>5, <2>6, <2>7
<1>6. PICK r : Good(r) /\ w' = [w EXCEPT ![c] = r]
  BY <1>5
<1> HIDE DEF R
<1>7. w' \in [Conns -> R] /\ w'[c] = r /\ \A k \in Conns \ {c} : w'[k] = w[k]
  BY <1>1, <1>2, <1>6 DEF Good
<1> QED BY <1>6, <1>7 DEF WForm, R, Good, GoesOn, Running

\* A client's socket is closed, or read, or written to.
LEMMA SetClient ==
    ASSUME CForm, NEW k \in Conns, NEW x, NEW y, NEW z \in {"shut", "closed"},
           \/ UNCHANGED client
           \/ client' = [client EXCEPT ![k].state = z, ![k].pending = x]
           \/ client' = [client EXCEPT ![k].sent = y, ![k].pending = x]
           \/ client' = [client EXCEPT ![k].pending = x]
           \/ client' = [client EXCEPT ![k].got = x]
    PROVE  Clients
<1>1. PICK U : client \in [Conns -> [state : U, sent : U, pending : U, got : U]]
  BY DEF CForm
<1> DEFINE V == U \cup {x, y, z}
           R == [state : V, sent : V, pending : V, got : V]
           Good(r) == r \in R /\ r.state \in {client[k].state, "shut", "closed"}
<1>2. [state : U, sent : U, pending : U, got : U] \subseteq R
  OBVIOUS
<1>3. client[k] \in [state : U, sent : U, pending : U, got : U]
  BY <1>1
<1>4. /\ Good([client[k] EXCEPT !.state = z, !.pending = x])
      /\ Good([client[k] EXCEPT !.sent = y, !.pending = x])
      /\ Good([client[k] EXCEPT !.pending = x])
      /\ Good([client[k] EXCEPT !.got = x])
  <2>1. Good([client[k] EXCEPT !.state = z, !.pending = x])
    BY <1>3
  <2>2. Good([client[k] EXCEPT !.sent = y, !.pending = x])
    BY <1>3
  <2>3. Good([client[k] EXCEPT !.pending = x])
    BY <1>3
  <2>4. Good([client[k] EXCEPT !.got = x])
    BY <1>3
  <2> QED BY <2>1, <2>2, <2>3, <2>4
<1> HIDE DEF Good
<1>5. UNCHANGED client \/ \E r : Good(r) /\ client' = [client EXCEPT ![k] = r]
  <2>1. CASE client' = [client EXCEPT ![k].state = z, ![k].pending = x]
    <3>1. client' = [client EXCEPT ![k] = [client[k] EXCEPT !.state = z, !.pending = x]]
      BY <1>1, <2>1, Zenon
    <3> QED BY <1>4, <3>1, Zenon
  <2>2. CASE client' = [client EXCEPT ![k].sent = y, ![k].pending = x]
    <3>1. client' = [client EXCEPT ![k] = [client[k] EXCEPT !.sent = y, !.pending = x]]
      BY <1>1, <2>2, Zenon
    <3> QED BY <1>4, <3>1, Zenon
  <2>3. CASE client' = [client EXCEPT ![k].pending = x]
    <3>1. client' = [client EXCEPT ![k] = [client[k] EXCEPT !.pending = x]]
      BY <1>1, <2>3, Zenon
    <3> QED BY <1>4, <3>1, Zenon
  <2>4. CASE client' = [client EXCEPT ![k].got = x]
    <3>1. client' = [client EXCEPT ![k] = [client[k] EXCEPT !.got = x]]
      BY <1>1, <2>4, Zenon
    <3> QED BY <1>4, <3>1, Zenon
  <2> QED BY <2>1, <2>2, <2>3, <2>4
<1>6. CASE UNCHANGED client
  BY <1>6 DEF Clients, CForm
<1>7. ASSUME NEW r, Good(r), client' = [client EXCEPT ![k] = r] PROVE Clients
  <2> HIDE DEF R
  <2>1. client' \in [Conns -> R] /\ client'[k] = r /\ \A h \in Conns \ {k} : client'[h] = client[h]
    BY <1>1, <1>2, <1>7 DEF Good
  <2> QED BY <1>7, <2>1 DEF Clients, CForm, R, Good
<1> QED BY <1>5, <1>6, <1>7

\* A client ends its stream, or closes.
Finishes(c, z) ==
    /\ Receives(c) /\ z \in {"shut", "closed"}
    /\ client' = [client EXCEPT ![c].state = z,
                                ![c].pending = IF Finished(c) THEN client[c].pending
                                               ELSE Append(client[c].pending, Eof(c))]

LEMMA Ending ==
    ASSUME NEW c \in Conns, ClientShuts(c) \/ ClientCloses(c)
    PROVE  /\ \E z \in {"shut", "closed"} : Finishes(c, z)
           /\ \E x, z : z \in {"shut", "closed"} /\ client' = [client EXCEPT ![c].state = z, ![c].pending = x]
<1>1. CASE ClientShuts(c)
  <2>1. Receives(c) /\ ~Finished(c)
    BY <1>1 DEF ClientShuts, Receives, Finished
  <2>2. client' = [client EXCEPT ![c].state = "shut", ![c].pending = Append(client[c].pending, Eof(c))]
    BY <1>1 DEF ClientShuts
  <2> QED BY <2>1, <2>2 DEF Finishes
<1>2. CASE ClientCloses(c)
  BY <1>2 DEF ClientCloses, Finishes
<1> QED BY <1>1, <1>2

LEMMA SameClients ==
    ASSUME CForm, UNCHANGED client
    PROVE  Clients
BY DEF Clients, CForm

LEMMA Closes ==
    ASSUME CForm, NEW n, closesocket(n)
    PROVE  Clients
<1>1. CASE file[n] \in Conns
  BY <1>1, SetClient DEF closesocket
<1>2. CASE file[n] \notin Conns
  BY <1>2, SameClients DEF closesocket
<1> QED BY <1>1, <1>2

\* What a worker does until it leaves the list.
LEMMA WorkerTurn ==
    ASSUME Shape, NEW c \in Conns,
           Select(c) \/ Recv(c) \/ Write(c) \/ Read(c) \/ Send(c) \/ Close(c)
    PROVE  Running(c) /\ UNCHANGED <<tunnel_list, lis>> /\ Clients /\ GoesOn(c)
<1>1. CASE Select(c)
  <2>1. GoesOn(c)
    <3>1. CASE WGo(c, "close")
      BY <3>1, <1>1, SetParts DEF WGo, Shape, Select, Running
    <3>2. CASE w' = [w EXCEPT ![c].pc = IF Woken(c) THEN "recv" ELSE "read",
                              ![c].isset = SockReady(c)]
      <4> DEFINE pc == IF Woken(c) THEN "recv" ELSE "read"
      <4>1. pc \notin {"none", "gone"} /\ w' = [w EXCEPT ![c].pc = pc, ![c].isset = SockReady(c)]
        BY <3>2
      <4>2. Running(c) /\ WForm
        BY <1>1 DEF Shape, Select, Running
      <4> HIDE DEF pc
      <4> QED BY <4>1, <4>2, SetParts
    <3> QED BY <1>1, <3>1, <3>2 DEF Select
  <2> QED BY <1>1, <2>1, SameClients DEF Select, Running, ends, Shape
<1>2. CASE Recv(c)
  <2>1. Clients
    <3>1. CASE UNCHANGED client
      BY <3>1, SameClients DEF Shape
    <3>2. CASE Readable(c) /\ client' = [client EXCEPT ![d(c)].pending = Rest(client[d(c)].pending)]
      BY <3>2, SetClient DEF Shape, Readable
    <3> QED BY <1>2, <3>1, <3>2 DEF Recv
  <2>2. GoesOn(c)
    <3>1. CASE WGo(c, "close")
      BY <3>1, <1>2, SetParts DEF WGo, Shape, Recv, Running
    <3>2. CASE w' = [w EXCEPT ![c].pc = "write", ![c].buff = Data(client[d(c)].pending)]
      <4>1. Running(c) /\ WForm
        BY <1>2 DEF Shape, Recv, Running
      <4> QED BY <3>2, <4>1, SetParts
    <3> QED BY <1>2, <3>1, <3>2 DEF Recv
  <2> QED BY <1>2, <2>1, <2>2 DEF Recv, Running
<1>3. CASE Write(c)
  <2>1. ASSUME NEW rest, WroteRest(c, rest) PROVE GoesOn(c)
    <3>1. CASE rest # <<>>
      BY <1>3, <2>1, <3>1, SetParts DEF WroteRest, Write, Shape, Running
    <3>2. CASE rest = <<>>
      BY <1>3, <2>1, <3>2, SetParts DEF WroteRest, Write, Shape, Running
    <3> QED BY <3>1, <3>2
  <2>2. ASSUME w' = [w EXCEPT ![c].pc = "close", ![c].buff = <<>>] PROVE GoesOn(c)
    <3>1. Running(c) /\ WForm
      BY <1>3 DEF Shape, Write, Running
    <3> QED BY <2>2, <3>1, SetParts
  <2>3. GoesOn(c)
    BY <1>3, <2>1, <2>2 DEF Write
  <2>4. Running(c) /\ UNCHANGED <<tunnel_list, lis, client>>
    BY <1>3 DEF Write, Running
  <2> QED BY <2>3, <2>4, SameClients DEF Shape
<1>4. CASE Read(c)
  <2> DEFINE data == Data(Sorted[c])
             pc == IF data # <<>> THEN "send" ELSE IF Sorted[c] # <<>> THEN "close" ELSE "select"
  <2>1. w' = [w EXCEPT ![c] = [@ EXCEPT !.isset = FALSE, !.buff = data, !.pc = pc]]
    BY <1>4 DEF Read
  <2>2. pc \notin {"none", "gone"}
    OBVIOUS
  <2> HIDE DEF data, pc
  <2>3. GoesOn(c)
    <3>1. Running(c) /\ WForm
      BY <1>4 DEF Shape, Read, Running
    <3> QED BY <2>1, <2>2, <3>1, SetParts
  <2> QED BY <1>4, <2>3, SameClients DEF Read, Running, Shape
<1>5. CASE Send(c)
  <2>1. Clients
    <3>1. CASE UNCHANGED client
      BY <3>1, SameClients DEF Shape
    <3>2. CASE d(c) \in Conns /\ client' = [client EXCEPT ![d(c)].got = @ \o w[c].buff]
      BY <3>2, SetClient DEF Shape
    <3> QED BY <1>5, <3>1, <3>2 DEF Send
  <2>2. GoesOn(c)
    BY <1>5, SetParts DEF Send, Shape, Running
  <2> QED BY <1>5, <2>1, <2>2 DEF Send, Running
<1>6. CASE Close(c)
  <2>1. Clients
    BY <1>6, Closes DEF Close, Shape
  <2>2. GoesOn(c)
    BY <1>6, SetParts DEF Close, Shape, Running
  <2> QED BY <1>6, <2>1, <2>2 DEF Close, Running
<1> QED BY <1>1, <1>2, <1>3, <1>4, <1>5, <1>6

LEMMA WorkerStep ==
    ASSUME Shape, Fresh, NEW c \in Conns,
           Select(c) \/ Recv(c) \/ Write(c) \/ Read(c) \/ Send(c) \/ Close(c)
    PROVE  Shape' /\ Fresh' /\ ListStep
BY WorkerTurn, WorkerGoesOn

-----------------------------------------------------------------------------
(* The ends of a connection, and the listeners *)

LEMMA Replaced ==
    ASSUME NEW D, NEW A, NEW R, A \subseteq R, NEW f \in [D -> A], NEW k \in D, NEW r \in R
    PROVE  /\ [f EXCEPT ![k] = r] \in [D -> R]
           /\ [f EXCEPT ![k] = r][k] = r
           /\ \A h \in D \ {k} : [f EXCEPT ![k] = r][h] = f[h]
OBVIOUS

\* A listener goes on.
LEMMA SetListener ==
    ASSUME LForm, NEW l \in Listeners, NEW pc, LisGo(l, pc)
    PROVE  /\ LForm' /\ \A k \in Listeners \ {l} : lis'[k] = lis[k]
           /\ lis'[l].pc = pc /\ lis'[l].sock = lis[l].sock
<1>1. PICK U : lis \in [Listeners -> [pc : U, sock : U, tun : U, conn : U]]
  BY DEF LForm
<1> DEFINE V == U \cup {pc}
           A == [pc : U, sock : U, tun : U, conn : U]
           R == [pc : V, sock : V, tun : V, conn : V]
           r == [lis[l] EXCEPT !.pc = pc]
<1>2. lis[l] \in A /\ A \subseteq R
  BY <1>1
<1>3. r \in R /\ r.pc = pc /\ r.sock = lis[l].sock
  BY <1>2
<1>4. lis \in [Listeners -> A] /\ lis' = [lis EXCEPT ![l] = r]
  BY <1>1 DEF LisGo
<1>5. lis' \in [Listeners -> R] => LForm'
  BY DEF LForm
<1> HIDE DEF A, R, r
<1> QED BY <1>2, <1>3, <1>4, <1>5, Replaced

\* tun_local has its own socket.
LEMMA SetSocket ==
    ASSUME LForm, NEW pc, NEW sock,
           lis' = [lis EXCEPT !["local"] = [@ EXCEPT !.pc = pc, !.sock = sock]]
    PROVE  LForm' /\ lis'["local"].pc = pc /\ lis'["local"].sock = sock
<1>1. PICK U : lis \in [Listeners -> [pc : U, sock : U, tun : U, conn : U]]
  BY DEF LForm
<1> DEFINE V == U \cup {pc, sock}
           A == [pc : U, sock : U, tun : U, conn : U]
           R == [pc : V, sock : V, tun : V, conn : V]
           r == [lis["local"] EXCEPT !.pc = pc, !.sock = sock]
<1>2. "local" \in Listeners /\ lis["local"] \in A /\ A \subseteq R
  BY <1>1 DEF Listeners
<1>3. r \in R /\ r.pc = pc /\ r.sock = sock
  BY <1>2
<1>4. lis \in [Listeners -> A] /\ lis' = [lis EXCEPT !["local"] = r]
  BY <1>1
<1>5. lis' \in [Listeners -> R] => LForm'
  BY DEF LForm
<1> HIDE DEF A, R, r
<1> QED BY <1>2, <1>3, <1>4, <1>5, Replaced

\* tun_local has a connection for a tunnel, or is done with it.
LEMMA SetTunnel ==
    ASSUME LForm, NEW pc, NEW tun1, NEW conn,
           lis' = [lis EXCEPT !["local"] = [@ EXCEPT !.pc = pc, !.tun = tun1, !.conn = conn]]
    PROVE  LForm' /\ lis'["local"].pc = pc /\ lis'["local"].sock = lis["local"].sock
           /\ lis'["local"].tun = tun1 /\ lis'["local"].conn = conn
<1>1. PICK U : lis \in [Listeners -> [pc : U, sock : U, tun : U, conn : U]]
  BY DEF LForm
<1> DEFINE V == U \cup {pc, tun1, conn}
           A == [pc : U, sock : U, tun : U, conn : U]
           R == [pc : V, sock : V, tun : V, conn : V]
           r == [lis["local"] EXCEPT !.pc = pc, !.tun = tun1, !.conn = conn]
<1>2. "local" \in Listeners /\ lis["local"] \in A /\ A \subseteq R
  BY <1>1 DEF Listeners
<1>3. r \in R /\ r.pc = pc /\ r.sock = lis["local"].sock /\ r.tun = tun1 /\ r.conn = conn
  BY <1>2
<1>4. lis \in [Listeners -> A] /\ lis' = [lis EXCEPT !["local"] = r]
  BY <1>1
<1>5. lis' \in [Listeners -> R] => LForm'
  BY DEF LForm
<1> HIDE DEF A, R, r
<1> QED BY <1>2, <1>3, <1>4, <1>5, Replaced

\* A worker starts or ends.
LEMMA SetWorker ==
    ASSUME WForm, NEW c \in Conns, NEW pc, NEW sock,
           w' = [w EXCEPT ![c] = [@ EXCEPT !.pc = pc, !.sock = sock]]
    PROVE  /\ WForm' /\ w'[c].pc = pc /\ w'[c].sock = sock
           /\ \A k \in Conns \ {c} : w'[k] = w[k]
<1>1. PICK U : w \in [Conns -> [pc : U, sock : U, isset : U, buff : U]]
  BY DEF WForm
<1> DEFINE V == U \cup {pc, sock}
           A == [pc : U, sock : U, isset : U, buff : U]
           R == [pc : V, sock : V, isset : V, buff : V]
           r == [w[c] EXCEPT !.pc = pc, !.sock = sock]
<1>2. A \subseteq R /\ w[c] \in A
  BY <1>1
<1>3. r \in R /\ r.pc = pc /\ r.sock = sock
  BY <1>2
<1>4. w \in [Conns -> A] /\ w' = [w EXCEPT ![c] = r]
  BY <1>1
<1>5. w' \in [Conns -> R] => WForm'
  BY DEF WForm
<1> HIDE DEF A, R, r
<1> QED BY <1>2, <1>3, <1>4, <1>5, Replaced

\* A client connects, or its connection is accepted.
LEMMA SetState ==
    ASSUME CForm, NEW c \in Conns, NEW x, client' = [client EXCEPT ![c].state = x]
    PROVE  CForm' /\ client'[c].state = x /\ \A k \in Conns \ {c} : client'[k] = client[k]
<1>1. PICK U : client \in [Conns -> [state : U, sent : U, pending : U, got : U]]
  BY DEF CForm
<1> DEFINE V == U \cup {x}
           A == [state : U, sent : U, pending : U, got : U]
           R == [state : V, sent : V, pending : V, got : V]
           r == [client[c] EXCEPT !.state = x]
<1>2. A \subseteq R /\ client[c] \in A
  BY <1>1
<1>3. r \in R /\ r.state = x
  BY <1>2
<1>4. client \in [Conns -> A] /\ client' = [client EXCEPT ![c] = r]
  BY <1>1
<1>5. client' \in [Conns -> R] => CForm'
  BY DEF CForm
<1> HIDE DEF A, R, r
<1> QED BY <1>2, <1>3, <1>4, <1>5, Replaced

\* A step of the ends alone.
LEMMA OnlyEnds ==
    ASSUME Shape, Fresh, UNCHANGED <<tunnel_list, lis, w>>, Clients
    PROVE  Shape' /\ Fresh' /\ ListStep
<1>1. Shape'
  BY DEF Shape, WForm, LForm, Clients
<1>2. Fresh'
  BY DEF Fresh, Clients
<1>3. ListStep
  BY KeepsBy DEF Running, Holds
<1> QED BY <1>1, <1>2, <1>3

\* A worker is started for a connection that has none.
LEMMA Starts ==
    ASSUME WForm, NEW n, NEW c \in Conns, StartWorker(n, c), w[c].pc = "none",
           lis'["local"].sock = lis["local"].sock, Holds(None)' <=> Holds(None)
    PROVE  /\ WForm' /\ ListStep
           /\ w'[c].pc = "select" /\ w'[c].sock = n
           /\ \A k \in Conns \ {c} : w'[k] = w[k]
<1>1. /\ WForm' /\ w'[c].pc = "select" /\ w'[c].sock = n
      /\ \A k \in Conns \ {c} : w'[k] = w[k]
  BY SetWorker DEF StartWorker
<1>2. None \notin Conns
  BY Distinct
<1>3. c \in Ids \ Holders
  BY <1>2 DEF Ids, Holders, Holds, Running
<1>4. \A k \in Ids : Holds(k)' <=> Holds(k) \/ k = c
  BY <1>1, <1>2 DEF Ids, Holds, Running
<1>5. Holders' = Holders \cup {c}
  BY <1>3, <1>4 DEF Holders
<1>6. \A k \in Ids \ {c} : socket'[k] = socket[k]
  BY <1>1, <1>2 DEF Ids, socket
<1>7. socket'[c] = n
  BY <1>1, <1>2 DEF Ids, socket
<1>8. Adds(c)
  BY <1>3, <1>5, <1>6, <1>7 DEF Adds, StartWorker, tun_add, Tunnel, Holders
<1> QED BY <1>1, <1>3, <1>8 DEF ListStep

LEMMA Step ==
    ASSUME IInv, Next
    PROVE  Shape' /\ Fresh' /\ ListStep
<1> USE DEF IInv
<1>0. None \notin Conns /\ None \in Ids
  BY Distinct
<1>1. CASE Listen
  <2>1. LForm' /\ lis'["local"].pc = "accept" /\ lis'["local"].sock = FreeNumber
    BY <1>1, SetSocket DEF Listen, Shape
  <2>2. Shape' /\ Fresh'
    BY <1>1, <2>1 DEF Listen, Shape, Fresh, WForm, CForm, ends
  <2>3. None \in Ids \ Holders
    BY <1>0, <1>1 DEF Listen, Holders, Holds
  <2>4. \A k \in Ids : Holds(k)' <=> Holds(k) \/ k = None
    BY <1>1, <2>1 DEF Listen, Holds, Running
  <2>5. Holders' = Holders \cup {None}
    BY <2>3, <2>4 DEF Holders
  <2>6. /\ \A k \in Ids \ {None} : socket'[k] = socket[k]
        /\ socket'[None] = FreeNumber
    BY <1>0, <1>1, <2>1 DEF Listen, socket
  <2>7. Adds(None)
    BY <1>1, <2>3, <2>5, <2>6 DEF Listen, tun_add, Adds, Tunnel, Holders
  <2> QED BY <1>0, <2>2, <2>7 DEF ListStep
<1>2. CASE ForwardListen
  <2>1. LForm' /\ lis'["local"] = lis["local"]
    BY <1>2, SetListener DEF Listeners, ForwardListen, Shape
  <2>2. Shape' /\ Fresh'
    BY <1>2, <2>1 DEF ForwardListen, Shape, Fresh, WForm, CForm, ends
  <2>3. ListStep
    BY <1>2, <2>1, KeepsBy DEF ForwardListen, Running, Holds
  <2> QED BY <2>2, <2>3
<1>3. CASE Accept
  <2>1. PICK c \in Conns :
          /\ client[c].state = "queued" /\ client' = [client EXCEPT ![c].state = "open"]
          /\ lis' = [lis EXCEPT !["local"] = [@ EXCEPT !.pc = "channel", !.tun = FreeNumber, !.conn = c]]
    BY <1>3 DEF Accept
  <2>2. /\ LForm' /\ lis'["local"].pc = "channel" /\ lis'["local"].sock = lis["local"].sock
        /\ lis'["local"].conn = c
    <3>1. LForm
      BY DEF Shape
    <3> QED BY <2>1, <3>1, SetTunnel
  <2>3. CForm' /\ client'[c].state = "open" /\ \A k \in Conns \ {c} : client'[k] = client[k]
    BY <2>1, SetState DEF Shape
  <2>4. Shape' /\ Fresh'
    <3>1. UNCHANGED w
      BY <1>3 DEF Accept
    <3>2. Shape'
      BY <2>2, <2>3, <3>1 DEF Shape, WForm
    <3>3. Fresh'
      BY <2>1, <2>2, <2>3, <3>1 DEF Fresh
    <3> QED BY <3>2, <3>3
  <2>5. ListStep
    BY <1>3, <2>2, KeepsBy DEF Accept, Running, Holds
  <2> QED BY <2>4, <2>5
<1>4. CASE AcceptFails
  <2>1. LForm' /\ lis'["local"].pc = "shutdown" /\ lis'["local"].sock = lis["local"].sock
    BY <1>4, SetListener DEF Listeners, AcceptFails, Shape
  <2>2. Shape' /\ Fresh'
    BY <1>4, <2>1 DEF AcceptFails, Shape, WForm, CForm, Fresh, ends
  <2>3. ListStep
    BY <1>4, <2>1, KeepsBy DEF AcceptFails, Running, Holds
  <2> QED BY <2>2, <2>3
<1>5. CASE OpenChannel
  <2> DEFINE l == lis["local"]
  <2>1. l.conn \in Conns /\ w[l.conn].pc = "none" /\ client[l.conn].state \notin {"none", "queued"}
    BY <1>5 DEF OpenChannel, Fresh
  <2>2. CASE /\ StartWorker(l.tun, l.conn) /\ UNCHANGED client
             /\ lis' = [lis EXCEPT !["local"] = [@ EXCEPT !.pc = "accept", !.tun = None, !.conn = None]]
    <3>1. LForm' /\ lis'["local"].pc = "accept" /\ lis'["local"].sock = lis["local"].sock
      BY <2>2, SetTunnel DEF Shape
    <3>2. Holds(None)' <=> Holds(None)
      BY <1>5, <3>1 DEF OpenChannel, Holds
    <3>3. WForm' /\ ListStep /\ \A k \in Conns \ {l.conn} : w'[k] = w[k]
      BY <2>1, <2>2, <3>1, <3>2, Starts DEF Shape
    <3>4. Shape' /\ Fresh'
      BY <2>1, <2>2, <3>1, <3>3 DEF Shape, CForm, Fresh
    <3> QED BY <3>3, <3>4
  <2>3. CASE /\ closesocket(l.tun) /\ UNCHANGED <<tunnel_list, w>>
             /\ lis' = [lis EXCEPT !["local"] = [@ EXCEPT !.pc = "shutdown", !.tun = None, !.conn = None]]
    <3>1. LForm' /\ lis'["local"].pc = "shutdown" /\ lis'["local"].sock = lis["local"].sock
      BY <2>3, SetTunnel DEF Shape
    <3>2. Clients
      BY <2>3, Closes DEF Shape
    <3>3. Shape' /\ Fresh'
      BY <2>3, <3>1, <3>2 DEF Shape, WForm, Fresh, Clients
    <3>4. ListStep
      BY <1>5, <2>3, <3>1, KeepsBy DEF OpenChannel, Running, Holds
    <3> QED BY <3>3, <3>4
  <2> QED BY <1>5, <2>2, <2>3 DEF OpenChannel
<1>6. CASE ForwardAccept
  <2>1. PICK c \in Remote :
          /\ client[c].state = "none"
          /\ \/ /\ client' = [client EXCEPT ![c].state = "open"]
                /\ StartWorker(FreeNumber, c)
                /\ UNCHANGED lis
             \/ LisGo("remote", "gone") /\ UNCHANGED <<file, client, tunnel_list, w>>
    BY <1>6 DEF ForwardAccept
  <2>2. c \in Conns /\ w[c].pc = "none"
    BY <2>1, TunnelsAssumption DEF Fresh
  <2>3. CASE /\ client' = [client EXCEPT ![c].state = "open"]
             /\ StartWorker(FreeNumber, c) /\ UNCHANGED lis
    <3>1. CForm' /\ client'[c].state = "open" /\ \A k \in Conns \ {c} : client'[k] = client[k]
      BY <2>2, <2>3, SetState DEF Shape
    <3>2. WForm' /\ ListStep /\ \A k \in Conns \ {c} : w'[k] = w[k]
      BY <2>2, <2>3, Starts DEF Shape, Holds
    <3>3. Shape'
      BY <2>3, <3>1, <3>2 DEF Shape, LForm
    <3>4. lis["local"].pc = "channel" => lis["local"].conn \in Conns \ {c}
      BY <2>1 DEF Fresh
    <3>5. Fresh'
      BY <2>3, <3>1, <3>2, <3>4 DEF Fresh
    <3> QED BY <3>2, <3>3, <3>5
  <2>4. CASE LisGo("remote", "gone") /\ UNCHANGED <<file, client, tunnel_list, w>>
    <3>1. LForm' /\ lis'["local"] = lis["local"]
      BY <2>4, SetListener DEF Listeners, Shape
    <3>2. Shape' /\ Fresh'
      BY <2>4, <3>1 DEF Shape, Fresh, WForm, CForm
    <3>3. ListStep
      BY <2>4, <3>1, KeepsBy DEF Running, Holds
    <3> QED BY <3>2, <3>3
  <2> QED BY <2>1, <2>3, <2>4
<1>7. CASE ListenerCloses
  <2>1. LForm' /\ lis'["local"].pc = "del" /\ lis'["local"].sock = lis["local"].sock
    BY <1>7, SetListener DEF Listeners, ListenerCloses, Shape
  <2>2. Clients
    BY <1>7, Closes DEF ListenerCloses, Shape
  <2>3. Shape' /\ Fresh'
    BY <1>7, <2>1, <2>2 DEF ListenerCloses, Shape, WForm, Fresh, Clients
  <2>4. ListStep
    BY <1>7, <2>1, KeepsBy DEF ListenerCloses, Running, Holds
  <2> QED BY <2>3, <2>4
<1>8. CASE ListenerDel
  <2>1. LForm' /\ lis'["local"].pc = "gone"
    BY <1>8, SetListener DEF Listeners, ListenerDel, Shape
  <2>2. Shape' /\ Fresh'
    BY <1>8, <2>1 DEF ListenerDel, Shape, WForm, CForm, Fresh, ends
  <2>3. None \in Holders /\ socket[None] = lis["local"].sock
    BY <1>0, <1>8 DEF ListenerDel, Holders, Holds, socket
  <2>4. \A k \in Ids : Holds(k)' <=> Holds(k) /\ k # None
    BY <1>8, <2>1 DEF ListenerDel, Holds, Running
  <2>5. Holders' = Holders \ {None}
    BY <2>4 DEF Holders
  <2>6. \A k \in Ids \ {None} : socket'[k] = socket[k]
    BY <1>8 DEF ListenerDel, socket
  <2>7. Removes(None)
    BY <1>8, <2>3, <2>5, <2>6 DEF ListenerDel, Removes, Holders
  <2> QED BY <1>0, <2>2, <2>7 DEF ListStep
<1>9. CASE MainReads
  BY <1>9, SameClients, OnlyEnds DEF MainReads, Shape
<1>10. CASE tun
  BY <1>10, Closes, OnlyEnds DEF tun, Shape
<1>17. CASE tunAgain
  BY <1>17, Closes, OnlyEnds DEF tunAgain, Shape
<1>11. ASSUME NEW c \in Conns, ClientConnects(c) PROVE Shape' /\ Fresh' /\ ListStep
  <2>1. CForm' /\ client'[c].state = "queued" /\ \A k \in Conns \ {c} : client'[k] = client[k]
    BY <1>11, SetState DEF ClientConnects, Shape
  <2>2. Shape' /\ Fresh'
    BY <1>11, <2>1 DEF ClientConnects, Shape, WForm, LForm, Fresh
  <2>3. ListStep
    BY <1>11, KeepsBy DEF ClientConnects, Running, Holds
  <2> QED BY <2>2, <2>3
<1>12. ASSUME NEW c \in Conns, ClientSends(c) PROVE Shape' /\ Fresh' /\ ListStep
  <2>1. Clients
    BY <1>12, SetClient DEF ClientSends, Shape
  <2> QED BY <1>12, <2>1, OnlyEnds DEF ClientSends
<1>13. ASSUME NEW c \in Conns, ClientShuts(c) \/ ClientCloses(c) PROVE Shape' /\ Fresh' /\ ListStep
  <2>1. Clients
    BY <1>13, Ending, SetClient DEF Shape
  <2> QED BY <1>13, <2>1, OnlyEnds DEF ClientShuts, ClientCloses
<1>14. ASSUME NEW c \in Conns, ServerSends(c) \/ ServerCloses(c) PROVE Shape' /\ Fresh' /\ ListStep
  BY <1>14, SameClients, OnlyEnds DEF ServerSends, ServerCloses, Shape
<1>15. ASSUME NEW c \in Conns, Del(c) PROVE Shape' /\ Fresh' /\ ListStep
  <2>1. /\ WForm' /\ w'[c].pc = "gone"
        /\ \A k \in Conns \ {c} : w'[k] = w[k]
    BY <1>15, SetWorker DEF Del, Shape
  <2>2. Shape' /\ Fresh'
    BY <1>15, <2>1 DEF Del, Shape, LForm, CForm, Fresh, ends
  <2>3. c \in Holders /\ socket[c] = w[c].sock
    BY <1>0, <1>15 DEF Del, Holders, Holds, Running, socket, Ids
  <2>4. \A k \in Ids : Holds(k)' <=> Holds(k) /\ k # c
    BY <1>0, <1>15, <2>1 DEF Del, Holds, Running, Ids
  <2>5. Holders' = Holders \ {c}
    BY <2>4 DEF Holders
  <2>6. \A k \in Ids \ {c} : socket'[k] = socket[k]
    BY <1>15, <2>1 DEF Del, socket, Ids
  <2>7. Removes(c)
    BY <1>15, <2>3, <2>5, <2>6 DEF Del, Removes, Holders
  <2> QED BY <2>2, <2>3, <2>7 DEF ListStep, Holders
<1>16. ASSUME NEW c \in Conns, Worker(c) PROVE Shape' /\ Fresh' /\ ListStep
  BY <1>15, <1>16, WorkerStep DEF Worker
<1> QED BY <1>1, <1>2, <1>3, <1>4, <1>5, <1>6, <1>7, <1>8, <1>9, <1>10, <1>11, <1>12,
           <1>13, <1>14, <1>16, <1>17 DEF Next, Listener

-----------------------------------------------------------------------------

\* Entries and threads stay matched, whatever numbers are used again.
THEOREM ListMatches == Spec => []IInv
<1>1. Init => IInv
  <2> SUFFICES ASSUME Init PROVE IInv
    OBVIOUS
  <2>1. tunnel_list \in Seq({})
    BY DEF Init
  <2> DEFINE U == {"none", 0, None, FALSE, <<>>}
  <2>2. WForm
    <3>1. w \in [Conns -> [pc : U, sock : U, isset : U, buff : U]]
      BY DEF Init
    <3> QED BY <3>1 DEF WForm
  <2>3. LForm
    <3>1. lis \in [Listeners -> [pc : U, sock : U, tun : U, conn : U]]
      BY DEF Init
    <3> QED BY <3>1 DEF LForm
  <2>4. CForm
    <3>1. client \in [Conns -> [state : U, sent : U, pending : U, got : U]]
      BY DEF Init
    <3> QED BY <3>1 DEF CForm
  <2>5. Fresh
    BY DEF Init, Fresh, Listeners
  <2>6. Holders = {}
    BY DEF Init, Holders, Ids, Holds, Running, Listeners
  <2>7. Len(tunnel_list) = 0
    BY DEF Init
  <2>8. Matching(<<>>, tunnel_list, {}, socket)
    BY <2>7 DEF Matching
  <2> QED BY <2>1, <2>2, <2>3, <2>4, <2>5, <2>6, <2>8 DEF IInv, Shape, Matched
<1>2. IInv /\ [Next]_vars => IInv'
  <2>1. ASSUME IInv, Next PROVE IInv'
    <3>1. PICK S : tunnel_list \in Seq(S)
      BY <2>1 DEF IInv
    <3>2. Shape' /\ Fresh' /\ ListStep
      BY <2>1, Step
    <3>3. Matched' /\ \E T : tunnel_list' \in Seq(T)
      BY <2>1, <3>1, <3>2, MatchedStep DEF IInv
    <3> QED BY <3>2, <3>3 DEF IInv
  <2>2. ASSUME IInv, UNCHANGED vars PROVE IInv'
    <3>1. socket' = socket /\ Holders' = Holders
      BY <2>2 DEF vars, socket, Holders, Holds, Running
    <3> QED BY <2>2, <3>1 DEF IInv, Shape, WForm, LForm, CForm, Fresh, Matched, vars, ends
  <2> QED BY <2>1, <2>2
<1> QED BY <1>1, <1>2, PTL DEF Spec

\* The list has one entry for each thread that is yet to remove one: no entry
\* stays behind and no thread misses its own, whatever the user closes (793-827).
THEOREM NothingStaysBehind == Spec => []NothingStays
<1>1. ASSUME IInv PROVE NothingStays
  <2>1. PICK S : tunnel_list \in Seq(S)
    BY <1>1 DEF IInv
  <2>2. PICK g : Matching(g, tunnel_list, Holders, socket)
    BY <1>1 DEF IInv, Matched
  <2>3. Listed = {Tunnel(socket[k], k) : k \in Holders}
    BY ListedAre
  <2> DEFINE h == [i \in 1..Len(tunnel_list) |-> Tunnel(socket[g[i]], g[i])]
             sock == [t \in Listed |-> t.socket]
  <2>4. \A k1, k2 : Tunnel(socket[k1], k1) = Tunnel(socket[k2], k2) => k1 = k2
    BY DEF Tunnel
  <2>5. \A k : Tunnel(socket[k], k).socket = socket[k]
    BY DEF Tunnel
  <2>6. Matching(h, tunnel_list, Listed, sock)
    BY <2>2, <2>3, <2>4, <2>5 DEF Matching
  <2> HIDE DEF h, sock
  <2>7. Cardinality(Listed) = Len(tunnel_list)
    BY <2>1, <2>6, Counted
  <2> QED BY <2>7 DEF NothingStays
<1> QED BY <1>1, ListMatches, PTL

-----------------------------------------------------------------------------
(* Which entry names what is open *)

Thing(k) == IF k = None THEN Listening ELSE k
IsOpen(k) == file[socket[k]] = Thing(k)

\* The system's part: a number is open on one thing, and a thing has one number.
Files ==
    /\ file \in [Numbers -> Conns \cup {None, Listening}]
    /\ \A m, n \in Numbers : file[m] = file[n] /\ file[m] # None => m = n
    /\ \A n \in Numbers : file[n] \in Conns => client[file[n]].state \notin {"none", "queued"}
    /\ \A n \in Numbers : file[n] = Listening => lis["local"].pc # "none"

Socks ==
    /\ \A c \in Conns : Running(c) => w[c].sock \in Numbers
    /\ lis["local"].pc \notin {"none", "gone"} => lis["local"].sock \in Numbers
    /\ lis["local"].pc = "channel" => lis["local"].tun \in Numbers

\* Until the user closes a tunnel, a thread's number is open on its own connection
\* from its first step to its own closesocket().
Own ==
    ~closed =>
        /\ \A c \in Conns : Running(c) /\ w[c].pc # "del" => file[w[c].sock] = c
        /\ lis["local"].pc \in {"accept", "channel", "shutdown"} => file[lis["local"].sock] = Listening
        /\ lis["local"].pc = "channel" => file[lis["local"].tun] = lis["local"].conn

\* The entry of what is open is the latest one with that number: the first one,
\* which tun_del() takes, is that of a thread on its way out.
LatestWith(s, n, i) ==
    /\ i \in 1..Len(s)
    /\ \A j \in 1..Len(s) : s[j].socket = n => j <= i
Found(s, n, k) == \E i : LatestWith(s, n, i) /\ s[i] = Tunnel(n, k)
Latest == ~closed => \A k \in Holders : IsOpen(k) => Found(tunnel_list, socket[k], k)

\* The second close of "!tun n" comes after the first.
Once == again # <<>> => closed

JInv == Files /\ Socks /\ Own /\ Latest /\ Once

\* There is a free number for one more connection, or for the listener.
LEMMA Free ==
    ASSUME Files, NEW x \in Conns \cup {Listening}, \A n \in Numbers : file[n] # x
    PROVE  FreeNumber \in Numbers /\ file[FreeNumber] = None
<1> DEFINE N == Cardinality(Conns)
           T == (Conns \cup {Listening}) \ {x}
           I == {n \in Numbers : file[n] = None}
<1>1. N \in Nat
  BY TunnelsAssumption, FS_CardinalityType
<1>2. IsFiniteSet(Numbers) /\ Cardinality(Numbers) = N + 1
  BY <1>1, FS_Interval DEF Numbers
<1>3. IsFiniteSet(T) /\ Cardinality(T) = N
  <2> DEFINE A == Conns \cup {Listening}
  <2>1. IsFiniteSet(A) /\ Cardinality(A) = N + 1
    BY TunnelsAssumption, Distinct, FS_AddElement
  <2>2. x \in A
    OBVIOUS
  <2> HIDE DEF A
  <2>3. IsFiniteSet(A \ {x}) /\ Cardinality(A \ {x}) = (N + 1) - 1
    BY <2>1, <2>2, FS_RemoveElement
  <2>4. T = A \ {x}
    BY DEF A
  <2> QED BY <1>1, <2>3, <2>4
<1>4. I # {}
  <2>1. SUFFICES ASSUME I = {} PROVE FALSE
    OBVIOUS
  <2>2. file \in [Numbers -> T]
    BY <2>1 DEF Files
  <2>3. Cardinality(T) < Cardinality(Numbers)
    BY <1>1, <1>2, <1>3
  <2> HIDE DEF T
  <2>4. \E m, n \in Numbers : m # n /\ file[m] = file[n]
    BY <1>2, <1>3, <2>2, <2>3, FS_PigeonHole
  <2> QED BY <2>1, <2>4 DEF Files
<1>5. PICK m \in I : \A i \in I : m <= i
  <2>1. I \subseteq Nat
    BY DEF Numbers
  <2> HIDE DEF I
  <2> QED BY <1>4, <2>1, Least
<1>6. m \in Numbers /\ file[m] = None /\ \A k \in 1..(m - 1) : file[k] # None
  <2>1. ASSUME NEW k \in 1..(m - 1) PROVE file[k] # None
    <3>1. k \in Numbers /\ ~(m <= k)
      BY <1>1 DEF Numbers
    <3> QED BY <1>5, <3>1
  <2> QED BY <2>1
<1> QED BY <1>6 DEF FreeNumber

\* Where the latest entry with a number is when an earlier one, or one with
\* another number, is removed.
LEMMA LatestStays ==
    ASSUME NEW S, NEW s \in Seq(S), NEW j \in 1..Len(s), NEW n, NEW i, LatestWith(s, n, i), i # j
    PROVE  \E i2 : LatestWith(RemoveAt(s, j), n, i2) /\ RemoveAt(s, j)[i2] = s[i]
<1> DEFINE t == RemoveAt(s, j)
           i2 == IF i < j THEN i ELSE i - 1
<1>1. Len(t) = Len(s) - 1 /\ \A m \in 1..(Len(s) - 1) : t[m] = s[IF m < j THEN m ELSE m + 1]
  BY Removed
<1>2. Len(s) \in Nat /\ i \in 1..Len(s)
  BY DEF LatestWith
<1> HIDE DEF t
<1>3. i2 \in 1..Len(t) /\ t[i2] = s[i]
  BY <1>1, <1>2
<1>4. ASSUME NEW m \in 1..Len(t), t[m].socket = n PROVE m <= i2
  <2>1. (IF m < j THEN m ELSE m + 1) \in 1..Len(s)
    BY <1>1, <1>2
  <2>2. (IF m < j THEN m ELSE m + 1) <= i
    BY <1>1, <1>4, <2>1 DEF LatestWith
  <2> QED BY <1>2, <2>2
<1> HIDE DEF i2
<1>5. LatestWith(t, n, i2) /\ t[i2] = s[i]
  BY <1>3, <1>4 DEF LatestWith
<1> QED BY <1>5 DEF t

LEMMA LatestStep ==
    ASSUME NEW S, tunnel_list \in Seq(S), Matched, Latest, ListStep, ~closed,
           \A h \in Holders \cap Holders' : IsOpen(h)' => IsOpen(h),
           \A k \in Holders' \ Holders : IsOpen(k)'
    PROVE  Latest'
<1>0. Len(tunnel_list) \in Nat
  OBVIOUS
<1>1. \A h \in Holders : IsOpen(h) => Found(tunnel_list, socket[h], h)
  BY DEF Latest
<1>2. SUFFICES ASSUME NEW h \in Holders', IsOpen(h)' PROVE Found(tunnel_list', socket'[h], h)
  BY DEF Latest
<1>3. CASE Keeps
  BY <1>1, <1>2, <1>3 DEF Keeps
<1>4. ASSUME NEW k \in Ids, Adds(k) PROVE Found(tunnel_list', socket'[h], h)
  <2> DEFINE n == Len(tunnel_list)
             t == Append(tunnel_list, Tunnel(socket'[k], k))
  <2>1. Len(t) = n + 1 /\ t[n + 1] = Tunnel(socket'[k], k) /\ \A m \in 1..n : t[m] = tunnel_list[m]
    OBVIOUS
  <2>2. tunnel_list' = t
    BY <1>4 DEF Adds
  <2> HIDE DEF t
  <2>3. CASE h = k
    <3>1. n + 1 \in 1..Len(t) /\ \A j \in 1..Len(t) : j <= n + 1
      BY <1>0, <2>1
    <3> QED BY <2>1, <2>2, <2>3, <3>1 DEF Found, LatestWith
  <2>4. CASE h # k
    <3>1. h \in Holders /\ socket'[h] = socket[h] /\ IsOpen(h)
      BY <1>2, <1>4, <2>4 DEF Adds
    <3>2. PICK i \in 1..n : /\ tunnel_list[i] = Tunnel(socket[h], h)
                            /\ \A j \in 1..n : tunnel_list[j].socket = socket[h] => j <= i
      BY <1>1, <3>1 DEF Found, LatestWith
    <3>3. k \in Holders' \ Holders /\ k \in Ids /\ h \in Ids
      BY <1>4, <3>1 DEF Adds, Holders
    <3>4. socket'[k] # socket'[h]
      <4>1. Thing(k) # Thing(h)
        BY <2>4, <3>3, Distinct DEF Thing, Ids
      <4>2. file'[socket'[k]] = Thing(k) /\ file'[socket'[h]] = Thing(h)
        BY <1>2, <3>3 DEF IsOpen, Thing
      <4> QED BY <4>1, <4>2
    <3>5. t[n + 1].socket # socket[h]
      BY <2>1, <3>1, <3>4 DEF Tunnel
    <3>6. \A j \in 1..Len(t) : t[j].socket = socket[h] => j <= i
      <4>1. \A j \in 1..Len(t) : j \in 1..n \/ j = n + 1
        BY <1>0, <2>1
      <4> QED BY <2>1, <3>2, <3>5, <4>1
    <3>7. i \in 1..Len(t) /\ t[i] = Tunnel(socket[h], h)
      BY <1>0, <2>1, <3>2
    <3> QED BY <2>2, <3>1, <3>6, <3>7 DEF Found, LatestWith
  <2> QED BY <2>3, <2>4
<1>5. ASSUME NEW k \in Ids, Removes(k) PROVE Found(tunnel_list', socket'[h], h)
  <2>1. h \in Holders /\ h # k /\ socket'[h] = socket[h] /\ IsOpen(h)
    BY <1>2, <1>5 DEF Removes
  <2>2. PICK i : LatestWith(tunnel_list, socket[h], i) /\ tunnel_list[i] = Tunnel(socket[h], h)
    BY <1>1, <2>1 DEF Found
  <2>3. PICK g : Matching(g, tunnel_list, Holders, socket)
    BY DEF Matched
  <2>4. PICK ih \in 1..Len(tunnel_list) : g[ih] = h
    BY <2>1, <2>3 DEF Matching
  <2>5. PICK ik \in 1..Len(tunnel_list) : g[ik] = k
    BY <1>5, <2>3 DEF Matching, Removes
  <2>6. ih # ik /\ tunnel_list[ih].socket = socket[h] /\ tunnel_list[ik].socket = socket[k]
    BY <2>1, <2>3, <2>4, <2>5 DEF Matching
  <2> DEFINE n == socket[k]
  <2>7. PICK j \in 1..Len(tunnel_list) :
          /\ SelectInSeq(tunnel_list, LAMBDA t : t.socket = n) = j
          /\ tunnel_list[j].socket = n
          /\ \A m \in 1..Len(tunnel_list) : tunnel_list[m].socket = n => j <= m
    <3>1. \E m \in 1..Len(tunnel_list) : tunnel_list[m].socket = n
      BY <2>6
    <3> HIDE DEF n
    <3> QED BY <3>1, FirstWith
  <2>8. tunnel_list' = RemoveAt(tunnel_list, j)
    BY <1>5, <2>7 DEF Removes, tun_del
  <2>9. i # j
    <3>1. CASE socket[h] = socket[k]
      <4>1. j <= ih /\ j <= ik /\ ih <= i /\ ik <= i
        BY <2>2, <2>6, <2>7, <3>1 DEF LatestWith
      <4>2. i \in 1..Len(tunnel_list)
        BY <2>2 DEF LatestWith
      <4> QED BY <1>0, <2>6, <4>1, <4>2
    <3>2. CASE socket[h] # socket[k]
      BY <2>2, <2>7, <3>2 DEF Tunnel
    <3> QED BY <3>1, <3>2
  <2>10. \E i2 : /\ LatestWith(RemoveAt(tunnel_list, j), socket[h], i2)
                 /\ RemoveAt(tunnel_list, j)[i2] = tunnel_list[i]
    BY <2>2, <2>9, LatestStays
  <2> QED BY <2>1, <2>2, <2>8, <2>10 DEF Found
<1> QED BY <1>3, <1>4, <1>5 DEF ListStep

\* Nothing is opened on a number that a thread holds already; a new thread's is open.
Opens ==
    ~closed' =>
        /\ ~closed
        /\ \A c \in Conns :
              /\ Running(c) /\ Running(c)' =>
                    w'[c].sock = w[c].sock /\ (file'[w[c].sock] = c => file[w[c].sock] = c)
              /\ ~Running(c) /\ Running(c)' => file'[w'[c].sock] = c
        /\ Holds(None) /\ Holds(None)' =>
              /\ lis'["local"].sock = lis["local"].sock
              /\ file'[lis["local"].sock] = Listening => file[lis["local"].sock] = Listening
        /\ ~Holds(None) /\ Holds(None)' => file'[lis'["local"].sock] = Listening

\* A number is closed, or nothing is.
LEMMA FilesClosed ==
    ASSUME Files, NEW n, UNCHANGED file \/ file' = [file EXCEPT ![n] = None],
           \A k \in Conns : client'[k].state \in {client[k].state, "shut", "closed"},
           lis'["local"].pc = "none" => lis["local"].pc = "none"
    PROVE  Files' /\ \A m \in Numbers : file'[m] = file[m] \/ (m = n /\ file'[m] = None)
<1>1. /\ file' \in [Numbers -> Conns \cup {None, Listening}]
      /\ \A m \in Numbers : file'[m] = file[m] \/ (m = n /\ file'[m] = None)
  BY DEF Files
<1>2. \A m \in Numbers : file'[m] # None => file'[m] = file[m]
  BY <1>1
<1>3. \A m1, m2 \in Numbers : file'[m1] = file'[m2] /\ file'[m1] # None => m1 = m2
  BY <1>2 DEF Files
<1>4. \A m \in Numbers : file'[m] \in Conns => client'[file'[m]].state \notin {"none", "queued"}
  BY <1>2, Distinct DEF Files
<1>5. \A m \in Numbers : file'[m] = Listening => lis'["local"].pc # "none"
  BY <1>2, Distinct DEF Files
<1> QED BY <1>1, <1>3, <1>4, <1>5 DEF Files

\* Something that has no number gets the free one.
LEMMA FilesOpened ==
    ASSUME Files, NEW x \in Conns \cup {Listening}, \A n \in Numbers : file[n] # x,
           file' = [file EXCEPT ![FreeNumber] = x],
           \A k \in Conns \ {x} : client'[k].state = client[k].state,
           x \in Conns => client'[x].state \notin {"none", "queued"},
           x = Listening => lis'["local"].pc # "none",
           lis'["local"].pc = "none" => lis["local"].pc = "none"
    PROVE  /\ Files' /\ FreeNumber \in Numbers /\ file[FreeNumber] = None /\ file'[FreeNumber] = x
           /\ \A m \in Numbers : m # FreeNumber => file'[m] = file[m]
<1> DEFINE n == FreeNumber
<1>1. n \in Numbers /\ file[n] = None
  BY Free
<1> HIDE DEF n
<1>2. /\ file' \in [Numbers -> Conns \cup {None, Listening}]
      /\ file'[n] = x /\ \A m \in Numbers : m # n => file'[m] = file[m]
  BY <1>1 DEF Files, n
<1>3. \A m1, m2 \in Numbers : file'[m1] = file'[m2] /\ file'[m1] # None => m1 = m2
  BY <1>2 DEF Files
<1>4. \A m \in Numbers : file'[m] \in Conns => client'[file'[m]].state \notin {"none", "queued"}
  BY <1>2 DEF Files
<1>5. \A m \in Numbers : file'[m] = Listening => lis'["local"].pc # "none"
  BY <1>2 DEF Files
<1> QED BY <1>1, <1>2, <1>3, <1>4, <1>5 DEF Files, n

LEMMA OnceStep ==
    ASSUME Once, Next
    PROVE  Once' /\ (closed => closed')
<1>1. CASE tun
  BY <1>1 DEF tun, Once
<1>2. CASE tunAgain
  BY <1>2 DEF tunAgain, Once
<1>3. CASE Listen \/ ForwardListen \/ Listener \/ MainReads
  BY <1>3 DEF Listen, ForwardListen, Listener, Accept, AcceptFails, OpenChannel,
              ForwardAccept, ListenerCloses, ListenerDel, MainReads, Once
<1>4. ASSUME NEW c \in Conns,
             \/ ClientConnects(c) \/ ClientSends(c) \/ ClientShuts(c) \/ ClientCloses(c)
             \/ ServerSends(c) \/ ServerCloses(c)
      PROVE  Once' /\ (closed => closed')
  BY <1>4 DEF ClientConnects, ClientSends, ClientShuts, ClientCloses, ServerSends, ServerCloses, Once
<1>5. ASSUME NEW c \in Conns, Worker(c) PROVE Once' /\ (closed => closed')
  BY <1>5 DEF Worker, Select, Recv, Write, Read, Send, Close, Del, Once
<1> QED BY <1>1, <1>2, <1>3, <1>4, <1>5 DEF Next

LEMMA FileStep ==
    ASSUME IInv, Files, Socks, Own, Once, Next
    PROVE  Files' /\ Socks' /\ Own' /\ Opens
<1> USE DEF IInv
<1>0. None # Listening /\ \A c \in Conns : c # None /\ c # Listening
  BY Distinct
<1>1. CASE Listen
  <2>1. LForm' /\ lis'["local"].pc = "accept" /\ lis'["local"].sock = FreeNumber
    BY <1>1, SetSocket DEF Listen, Shape
  <2>2. /\ lis["local"].pc = "none" /\ file' = [file EXCEPT ![FreeNumber] = Listening]
        /\ UNCHANGED <<w, client, closed>>
    BY <1>1 DEF Listen, ends
  <2>3. /\ Files' /\ FreeNumber \in Numbers /\ file[FreeNumber] = None /\ file'[FreeNumber] = Listening
        /\ \A m \in Numbers : m # FreeNumber => file'[m] = file[m]
    <3>1. \A n \in Numbers : file[n] # Listening
      BY <2>2 DEF Files
    <3> QED BY <1>0, <2>1, <2>2, <3>1, FilesOpened
  <2>4. Socks'
    BY <2>1, <2>2, <2>3 DEF Socks, Running
  <2>5. Own'
    BY <1>0, <2>1, <2>2, <2>3 DEF Own, Socks, Running
  <2>6. Opens
    BY <1>0, <2>1, <2>2, <2>3 DEF Opens, Socks, Running, Holds
  <2> QED BY <2>3, <2>4, <2>5, <2>6
<1>2. CASE ForwardListen
  <2>1. lis'["local"] = lis["local"]
    BY <1>2, SetListener DEF Listeners, ForwardListen, Shape
  <2>2. UNCHANGED <<file, w, client, closed>>
    BY <1>2 DEF ForwardListen, ends
  <2> QED BY <2>1, <2>2 DEF Files, Socks, Own, Opens, Running, Holds
<1>3. CASE Accept
  <2>1. PICK c \in Conns :
          /\ client[c].state = "queued" /\ client' = [client EXCEPT ![c].state = "open"]
          /\ file' = [file EXCEPT ![FreeNumber] = c]
          /\ lis' = [lis EXCEPT !["local"] = [@ EXCEPT !.pc = "channel", !.tun = FreeNumber, !.conn = c]]
    BY <1>3 DEF Accept
  <2>2. lis["local"].pc = "accept" /\ UNCHANGED <<w, closed>>
    BY <1>3 DEF Accept
  <2>3. /\ lis'["local"].pc = "channel" /\ lis'["local"].sock = lis["local"].sock
        /\ lis'["local"].tun = FreeNumber /\ lis'["local"].conn = c
    <3>1. LForm
      BY DEF Shape
    <3> QED BY <2>1, <3>1, SetTunnel
  <2>4. CForm' /\ client'[c].state = "open" /\ \A k \in Conns \ {c} : client'[k] = client[k]
    BY <2>1, SetState DEF Shape
  <2>5. /\ Files' /\ FreeNumber \in Numbers /\ file[FreeNumber] = None /\ file'[FreeNumber] = c
        /\ \A m \in Numbers : m # FreeNumber => file'[m] = file[m]
    <3>1. \A n \in Numbers : file[n] # c
      BY <2>1 DEF Files
    <3> QED BY <1>0, <2>1, <2>3, <2>4, <3>1, FilesOpened
  <2>6. w[c].pc = "none"
    BY <2>1 DEF Fresh
  <2>7. Socks'
    BY <2>2, <2>3, <2>5 DEF Socks, Running
  <2>8. Own'
    BY <1>0, <2>2, <2>3, <2>5, <2>6 DEF Own, Socks, Running
  <2>9. Opens
    BY <1>0, <2>2, <2>3, <2>5, <2>6 DEF Opens, Socks, Running, Holds
  <2> QED BY <2>5, <2>7, <2>8, <2>9
<1>4. CASE AcceptFails
  <2>1. lis'["local"].pc = "shutdown" /\ lis'["local"].sock = lis["local"].sock
    BY <1>4, SetListener DEF Listeners, AcceptFails, Shape
  <2>2. /\ lis["local"].pc = "accept" /\ file[lis["local"].sock] # Listening
        /\ UNCHANGED <<file, w, client, closed>>
    BY <1>4 DEF AcceptFails, ends
  <2> QED BY <2>1, <2>2 DEF Files, Socks, Own, Opens, Running, Holds
<1>5. CASE OpenChannel
  <2> DEFINE l == lis["local"]
  <2>1. l.conn \in Conns /\ w[l.conn].pc = "none" /\ l.pc = "channel" /\ UNCHANGED closed
    BY <1>5 DEF OpenChannel, Fresh
  <2>2. CASE /\ StartWorker(l.tun, l.conn) /\ UNCHANGED <<file, client>>
             /\ lis' = [lis EXCEPT !["local"] = [@ EXCEPT !.pc = "accept", !.tun = None, !.conn = None]]
    <3>1. lis'["local"].pc = "accept" /\ lis'["local"].sock = lis["local"].sock
      BY <2>2, SetTunnel DEF Shape
    <3>2. Holds(None)' <=> Holds(None)
      BY <2>1, <3>1 DEF Holds
    <3>3. /\ w'[l.conn].pc = "select" /\ w'[l.conn].sock = l.tun
          /\ \A k \in Conns \ {l.conn} : w'[k] = w[k]
      BY <2>1, <2>2, <3>1, <3>2, Starts DEF Shape
    <3>4. Files' /\ Socks'
      BY <2>1, <2>2, <3>1, <3>3 DEF Files, Socks, Running
    <3>5. Own' /\ Opens
      BY <2>1, <2>2, <3>1, <3>2, <3>3 DEF Own, Opens, Running, Holds
    <3> QED BY <3>4, <3>5
  <2>3. CASE /\ closesocket(l.tun) /\ UNCHANGED <<tunnel_list, w>>
             /\ lis' = [lis EXCEPT !["local"] = [@ EXCEPT !.pc = "shutdown", !.tun = None, !.conn = None]]
    <3>1. lis'["local"].pc = "shutdown" /\ lis'["local"].sock = lis["local"].sock
      BY <2>3, SetTunnel DEF Shape
    <3>2. Clients
      BY <2>3, Closes DEF Shape
    <3>3. l.tun \in Numbers
      BY <2>1 DEF Socks
    <3>4. /\ Files'
          /\ \A m \in Numbers : file'[m] = file[m] \/ (m = l.tun /\ file'[m] = None)
      BY <2>1, <2>3, <3>1, <3>2, <3>3, FilesClosed DEF closesocket, Clients
    <3>5. Socks'
      BY <2>1, <2>3, <3>1 DEF Socks, Running
    <3>6. Own'
      BY <1>0, <2>1, <2>3, <3>1, <3>4 DEF Own, Socks, Running
    <3>7. Opens
      BY <1>0, <2>1, <2>3, <3>1, <3>4 DEF Opens, Socks, Running, Holds
    <3> QED BY <3>4, <3>5, <3>6, <3>7
  <2> QED BY <1>5, <2>2, <2>3 DEF OpenChannel
<1>6. CASE ForwardAccept
  <2>1. PICK c \in Remote :
          /\ client[c].state = "none"
          /\ \/ /\ file' = [file EXCEPT ![FreeNumber] = c]
                /\ client' = [client EXCEPT ![c].state = "open"]
                /\ StartWorker(FreeNumber, c)
                /\ UNCHANGED lis
             \/ LisGo("remote", "gone") /\ UNCHANGED <<file, client, tunnel_list, w>>
    BY <1>6 DEF ForwardAccept
  <2>2. c \in Conns /\ w[c].pc = "none" /\ UNCHANGED closed
    BY <1>6, <2>1, TunnelsAssumption DEF Fresh, ForwardAccept
  <2>3. CASE /\ file' = [file EXCEPT ![FreeNumber] = c]
             /\ client' = [client EXCEPT ![c].state = "open"]
             /\ StartWorker(FreeNumber, c) /\ UNCHANGED lis
    <3>1. client'[c].state = "open" /\ \A k \in Conns \ {c} : client'[k] = client[k]
      BY <2>2, <2>3, SetState DEF Shape
    <3>2. /\ w'[c].pc = "select" /\ w'[c].sock = FreeNumber
          /\ \A k \in Conns \ {c} : w'[k] = w[k]
      BY <2>2, <2>3, Starts DEF Shape, Holds
    <3>3. /\ Files' /\ FreeNumber \in Numbers /\ file[FreeNumber] = None /\ file'[FreeNumber] = c
          /\ \A m \in Numbers : m # FreeNumber => file'[m] = file[m]
      <4>1. \A n \in Numbers : file[n] # c
        BY <2>1, <2>2 DEF Files
      <4> QED BY <1>0, <2>2, <2>3, <3>1, <4>1, FilesOpened
    <3>4. lis["local"].pc = "channel" => lis["local"].conn \in Conns \ {c}
      BY <2>1 DEF Fresh
    <3>5. Socks'
      BY <2>2, <2>3, <3>2, <3>3 DEF Socks, Running
    <3>6. Own'
      BY <1>0, <2>2, <2>3, <3>2, <3>3, <3>4 DEF Own, Socks, Running
    <3>7. Opens
      BY <1>0, <2>2, <2>3, <3>2, <3>3 DEF Opens, Socks, Running, Holds
    <3> QED BY <3>3, <3>5, <3>6, <3>7
  <2>4. CASE LisGo("remote", "gone") /\ UNCHANGED <<file, client, tunnel_list, w>>
    <3>1. lis'["local"] = lis["local"]
      BY <2>4, SetListener DEF Listeners, Shape
    <3> QED BY <2>2, <2>4, <3>1 DEF Files, Socks, Own, Opens, Running, Holds
  <2> QED BY <2>1, <2>3, <2>4
<1>7. CASE ListenerCloses
  <2>1. lis'["local"].pc = "del" /\ lis'["local"].sock = lis["local"].sock
    BY <1>7, SetListener DEF Listeners, ListenerCloses, Shape
  <2>2. Clients
    BY <1>7, Closes DEF ListenerCloses, Shape
  <2>3. /\ lis["local"].pc = "shutdown" /\ lis["local"].sock \in Numbers
        /\ closesocket(lis["local"].sock) /\ UNCHANGED <<w, closed>>
    BY <1>7 DEF ListenerCloses, Socks
  <2>4. /\ Files'
        /\ \A m \in Numbers : file'[m] = file[m] \/ (m = lis["local"].sock /\ file'[m] = None)
    BY <2>1, <2>2, <2>3, FilesClosed DEF closesocket, Clients
  <2>5. Socks'
    BY <2>1, <2>3 DEF Socks, Running
  <2>6. Own'
    BY <1>0, <2>1, <2>3, <2>4 DEF Own, Socks, Running
  <2>7. Opens
    BY <1>0, <2>1, <2>3, <2>4, Distinct DEF Opens, Socks, Running, Holds
  <2> QED BY <2>4, <2>5, <2>6, <2>7
<1>8. CASE ListenerDel
  <2>1. lis'["local"].pc = "gone"
    BY <1>8, SetListener DEF Listeners, ListenerDel, Shape
  <2>2. UNCHANGED <<file, w, client, closed>>
    BY <1>8 DEF ListenerDel, ends
  <2> QED BY <2>1, <2>2 DEF Files, Socks, Own, Opens, Running, Holds
<1>9. CASE MainReads
  BY <1>9 DEF MainReads, Files, Socks, Own, Opens, Running, Holds
<1>10. CASE tun \/ tunAgain
  <2>1. PICK n : closesocket(n)
    BY <1>10 DEF tun, tunAgain
  <2>2. Clients
    BY <2>1, Closes DEF Shape
  <2>3. closed' /\ UNCHANGED <<lis, w>>
    BY <1>10 DEF tun, tunAgain, Once
  <2>4. Files'
    BY <2>1, <2>2, <2>3, FilesClosed DEF closesocket, Clients
  <2> QED BY <2>3, <2>4 DEF Socks, Own, Opens, Running
<1>11. ASSUME NEW c \in Conns, ClientConnects(c) PROVE Files' /\ Socks' /\ Own' /\ Opens
  <2>1. client[c].state = "none" /\ client'[c].state = "queued" /\ \A k \in Conns \ {c} : client'[k] = client[k]
    BY <1>11, SetState DEF ClientConnects, Shape
  <2>2. UNCHANGED <<file, lis, w, closed>>
    BY <1>11 DEF ClientConnects
  <2>3. Files'
    BY <2>1, <2>2 DEF Files
  <2> QED BY <2>2, <2>3 DEF Socks, Own, Opens, Running, Holds
<1>12. ASSUME NEW c \in Conns, ClientSends(c) \/ ClientShuts(c) \/ ClientCloses(c)
       PROVE  Files' /\ Socks' /\ Own' /\ Opens
  <2>1. Clients
    BY <1>12, Ending, SetClient DEF ClientSends, Shape
  <2>2. UNCHANGED <<file, lis, w, closed>>
    BY <1>12 DEF ClientSends, ClientShuts, ClientCloses
  <2>3. Files'
    BY <2>1, <2>2 DEF Files, Clients
  <2> QED BY <2>2, <2>3 DEF Socks, Own, Opens, Running, Holds
<1>13. ASSUME NEW c \in Conns, ServerSends(c) \/ ServerCloses(c)
       PROVE  Files' /\ Socks' /\ Own' /\ Opens
  BY <1>13 DEF ServerSends, ServerCloses, Files, Socks, Own, Opens, Running, Holds
<1>14. ASSUME NEW c \in Conns, Select(c) \/ Recv(c) \/ Write(c) \/ Read(c) \/ Send(c)
       PROVE  Files' /\ Socks' /\ Own' /\ Opens
  <2>1. Running(c) /\ UNCHANGED lis /\ Clients /\ GoesOn(c)
    BY <1>14, WorkerTurn DEF Shape
  <2>2. UNCHANGED <<file, closed>> /\ w[c].pc # "del"
    BY <1>14 DEF Select, Recv, Write, Read, Send
  <2>3. Files'
    BY <2>1, <2>2 DEF Files, Clients
  <2>4. Socks'
    BY <2>1, <2>2 DEF Socks, GoesOn, Running
  <2>5. Own'
    BY <2>1, <2>2 DEF Own, GoesOn, Running
  <2>6. Opens
    BY <2>1, <2>2 DEF Opens, GoesOn, Running, Holds
  <2> QED BY <2>3, <2>4, <2>5, <2>6
<1>15. ASSUME NEW c \in Conns, Close(c) PROVE Files' /\ Socks' /\ Own' /\ Opens
  <2>1. Running(c) /\ UNCHANGED lis /\ Clients /\ GoesOn(c)
    BY <1>15, WorkerTurn DEF Shape
  <2>2. w[c].pc = "close" /\ UNCHANGED closed /\ closesocket(w[c].sock) /\ w[c].sock \in Numbers
    BY <1>15 DEF Close, Socks, Running
  <2>3. w'[c].pc = "del"
    <3>1. PICK U : w \in [Conns -> [pc : U, sock : U, isset : U, buff : U]]
      BY DEF Shape, WForm
    <3> QED BY <1>15, <3>1 DEF Close
  <2>4. /\ Files'
        /\ \A m \in Numbers : file'[m] = file[m] \/ (m = w[c].sock /\ file'[m] = None)
    BY <2>1, <2>2, FilesClosed DEF closesocket, Clients
  <2>5. Socks'
    BY <2>1, <2>2 DEF Socks, GoesOn, Running
  <2>6. Own'
    BY <1>0, <2>1, <2>2, <2>3, <2>4 DEF Own, Socks, GoesOn, Running, Fresh
  <2>7. Opens
    BY <1>0, <2>1, <2>2, <2>4, Distinct DEF Opens, Socks, GoesOn, Running, Holds
  <2> QED BY <2>4, <2>5, <2>6, <2>7
<1>16. ASSUME NEW c \in Conns, Del(c) PROVE Files' /\ Socks' /\ Own' /\ Opens
  <2>1. w'[c].pc = "gone" /\ \A k \in Conns \ {c} : w'[k] = w[k]
    BY <1>16, SetWorker DEF Del, Shape
  <2>2. UNCHANGED <<file, lis, client, closed>>
    BY <1>16 DEF Del, ends
  <2> QED BY <2>1, <2>2 DEF Files, Socks, Own, Opens, Running, Holds
<1> QED BY <1>1, <1>2, <1>3, <1>4, <1>5, <1>6, <1>7, <1>8, <1>9, <1>10, <1>11, <1>12,
           <1>13, <1>14, <1>15, <1>16 DEF Next, Listener, Worker

LEMMA LatestAfter ==
    ASSUME IInv, Latest, ListStep, Opens
    PROVE  Latest'
<1>1. PICK S : tunnel_list \in Seq(S)
  BY DEF IInv
<1>2. SUFFICES ASSUME ~closed' PROVE Latest'
  BY DEF Latest
<1>3. ASSUME NEW h \in Holders \cap Holders', IsOpen(h)' PROVE IsOpen(h)
  <2>1. CASE h = None
    BY <1>2, <1>3, <2>1, Distinct DEF Holders, Opens, IsOpen, Thing, socket
  <2>2. CASE h # None
    <3>1. h \in Conns /\ Running(h) /\ Running(h)'
      BY <1>3, <2>2 DEF Holders, Holds, Ids
    <3> QED BY <1>2, <1>3, <2>2, <3>1, Distinct DEF Opens, IsOpen, Thing, socket
  <2> QED BY <2>1, <2>2
<1>4. ASSUME NEW k \in Holders' \ Holders PROVE IsOpen(k)'
  <2>1. CASE k = None
    BY <1>2, <1>4, <2>1, Distinct DEF Holders, Opens, IsOpen, Thing, socket
  <2>2. CASE k # None
    <3>1. k \in Conns /\ ~Running(k) /\ Running(k)'
      BY <1>4, <2>2 DEF Holders, Holds, Ids
    <3> QED BY <1>2, <2>2, <3>1, Distinct DEF Opens, IsOpen, Thing, socket
  <2> QED BY <2>1, <2>2
<1> QED BY <1>1, <1>2, <1>3, <1>4, LatestStep DEF IInv, Opens

\* Until the user closes a tunnel, the entry of what is open is the latest with its
\* number, although a number is used again before its last owner's entry is gone.
THEOREM LatestIsOpen == Spec => []JInv
<1>1. Init => JInv
  <2> SUFFICES ASSUME Init PROVE JInv
    OBVIOUS
  <2>1. \A n \in Numbers : file[n] = None
    BY DEF Init
  <2>2. Files
    BY <2>1, Distinct DEF Init, Files
  <2>3. /\ \A c \in Conns : ~Running(c)
        /\ lis["local"].pc = "none"
    BY DEF Init, Running, Listeners
  <2>4. Socks /\ Own
    BY <2>3 DEF Socks, Own
  <2>5. Holders = {}
    BY <2>3 DEF Holders, Holds, Ids
  <2> QED BY <2>2, <2>4, <2>5 DEF JInv, Latest, Once, Init
<1>2. IInv /\ JInv /\ [Next]_vars => JInv'
  <2>1. ASSUME IInv, JInv, Next PROVE JInv'
    <3>1. Files' /\ Socks' /\ Own' /\ Opens /\ Once'
      BY <2>1, FileStep, OnceStep DEF JInv
    <3>2. Latest'
      BY <2>1, <3>1, Step, LatestAfter DEF JInv
    <3> QED BY <3>1, <3>2 DEF JInv
  <2>2. ASSUME JInv, UNCHANGED vars PROVE JInv'
    <3>1. socket' = socket /\ Holders' = Holders
      BY <2>2 DEF vars, socket, Holders, Holds, Running
    <3> QED BY <2>2, <3>1 DEF JInv, Files, Socks, Own, Latest, Once, IsOpen, Running, vars, ends
  <2> QED BY <2>1, <2>2
<1> QED BY <1>1, <1>2, ListMatches, PTL DEF Spec

\* A tunnel that is open can be seen and closed by its number: it is in the list,
\* unless the user closed a tunnel (793-827, 875-876).
THEOREM OpenTunnelListed == Spec => []OpenIsListed
<1>1. ASSUME IInv, JInv PROVE OpenIsListed
  <2>1. SUFFICES ASSUME ~closed, NEW t \in Listed,
                        file[t.socket] = (IF t.channel = None THEN Listening ELSE t.channel)
                 PROVE  t \in ToSet(tunnel_list)
    BY DEF OpenIsListed
  <2>2. PICK k \in Holders : t = Tunnel(socket[k], k)
    BY <2>1, ListedAre
  <2>3. IsOpen(k)
    BY <2>1, <2>2 DEF IsOpen, Thing, Tunnel
  <2>4. PICK i : LatestWith(tunnel_list, socket[k], i) /\ tunnel_list[i] = Tunnel(socket[k], k)
    BY <1>1, <2>1, <2>3 DEF JInv, Latest, Found
  <2>5. PICK S : tunnel_list \in Seq(S)
    BY <1>1 DEF IInv
  <2> QED BY <2>2, <2>4, <2>5 DEF LatestWith, ToSet
<1> QED BY <1>1, ListMatches, LatestIsOpen, PTL

-----------------------------------------------------------------------------
(* Streams *)

Bytes == [of : Conns, n : Nat]

\* What s holds of the stream of c: the items behind k, all of them up to m, or
\* the same with the end of the stream.
Run(s, c, k) == \A i \in 1..Len(s) : s[i] = Item(c, k + i)
Stream(s, c, k, m) == m = k + Len(s) /\ Run(s, c, k)
Ended(s, c, k, m) ==
    /\ m \in Nat /\ k <= m /\ Len(s) = m - k + 1
    /\ \A i \in 1..(m - k) : s[i] = Item(c, k + i)
    /\ s[m - k + 1] = Eof(c)

LEMMA EmptyRun ==
    ASSUME NEW c \in Conns, NEW k \in Nat
    PROVE  <<>> \in Seq(Bytes) /\ Len(<<>>) = 0 /\ Run(<<>>, c, k) /\ Stream(<<>>, c, k, k)
<1>1. <<>> \in Seq(Bytes) /\ Len(<<>>) = 0
  BY EmptySeq
<1>2. 1..Len(<<>>) = {}
  BY <1>1
<1> QED BY <1>1, <1>2 DEF Run, Stream

\* Bytes that follow one another.
LEMMA RunConcat ==
    ASSUME NEW s \in Seq(Bytes), NEW t \in Seq(Bytes), NEW c, NEW k \in Nat,
           Run(s, c, k), Run(t, c, k + Len(s))
    PROVE  s \o t \in Seq(Bytes) /\ Len(s \o t) = Len(s) + Len(t) /\ Run(s \o t, c, k)
<1>1. /\ s \o t \in Seq(Bytes) /\ Len(s \o t) = Len(s) + Len(t)
      /\ Len(s) \in Nat /\ Len(t) \in Nat
      /\ \A i \in 1..(Len(s) + Len(t)) : (s \o t)[i] = IF i <= Len(s) THEN s[i] ELSE t[i - Len(s)]
  BY ConcatProperties, LenProperties
<1>2. ASSUME NEW i \in 1..Len(s \o t) PROVE (s \o t)[i] = Item(c, k + i)
  <2>1. CASE i <= Len(s)
    BY <1>1, <1>2, <2>1 DEF Run
  <2>2. CASE ~(i <= Len(s))
    <3>1. i - Len(s) \in 1..Len(t) /\ (k + Len(s)) + (i - Len(s)) = k + i
      BY <1>1, <1>2, <2>2
    <3> QED BY <1>1, <1>2, <2>2, <3>1 DEF Run
  <2> QED BY <2>1, <2>2
<1> QED BY <1>1, <1>2 DEF Run

\* A part is written, and the rest left.
LEMMA RunSplit ==
    ASSUME NEW s \in Seq(Bytes), NEW c, NEW k \in Nat, Run(s, c, k), NEW n \in 1..Len(s)
    PROVE  LET a == SubSeq(s, 1, n)
               b == SubSeq(s, n + 1, Len(s))
           IN  /\ a \in Seq(Bytes) /\ Len(a) = n /\ Run(a, c, k)
               /\ b \in Seq(Bytes) /\ Len(b) = Len(s) - n /\ Run(b, c, k + n)
<1> DEFINE a == SubSeq(s, 1, n)
           b == SubSeq(s, n + 1, Len(s))
<1>1. PICK l \in Nat : l = Len(s) /\ n \in 1..l
  BY LenProperties
<1>2. \A i \in 1..l : s[i] \in Bytes /\ s[i] = Item(c, k + i)
  BY <1>1, ElementOfSeq DEF Run
<1>3. a \in Seq(Bytes) /\ Len(a) = n /\ \A i \in 1..n : a[i] = s[i]
  BY <1>1, <1>2
<1>4. b \in Seq(Bytes) /\ Len(b) = l - n /\ \A i \in 1..(l - n) : b[i] = s[n + i]
  BY <1>1, <1>2
<1> HIDE DEF a, b
<1>5. Run(a, c, k)
  BY <1>1, <1>2, <1>3 DEF Run
<1>6. ASSUME NEW i \in 1..(l - n) PROVE b[i] = Item(c, (k + n) + i)
  <2>1. n + i \in 1..l /\ k + (n + i) = (k + n) + i
    BY <1>1, <1>6
  <2> QED BY <1>2, <1>4, <2>1
<1>7. Run(b, c, k + n)
  BY <1>4, <1>6 DEF Run
<1> QED BY <1>1, <1>3, <1>4, <1>5, <1>7 DEF a, b

\* An end of a connection sends another item, or closes.
LEMMA StreamAppend ==
    ASSUME NEW s \in Seq(Bytes), NEW c \in Conns, NEW k \in Nat, NEW m \in Nat, Stream(s, c, k, m)
    PROVE  /\ Append(s, Item(c, m + 1)) \in Seq(Bytes)
           /\ Stream(Append(s, Item(c, m + 1)), c, k, m + 1)
           /\ Append(s, Eof(c)) \in Seq(Bytes)
           /\ Ended(Append(s, Eof(c)), c, k, m)
<1>1. PICK l \in Nat : l = Len(s) /\ m = k + l
  BY LenProperties DEF Stream
<1>2. \A i \in 1..l : s[i] = Item(c, k + i)
  BY <1>1 DEF Stream, Run
<1>3. Item(c, m + 1) \in Bytes /\ Eof(c) \in Bytes
  BY DEF Bytes, Item, Eof
<1>4. ASSUME NEW e \in Bytes
      PROVE  /\ Append(s, e) \in Seq(Bytes) /\ Len(Append(s, e)) = l + 1
             /\ \A i \in 1..l : Append(s, e)[i] = Item(c, k + i)
             /\ Append(s, e)[l + 1] = e
  BY <1>1, <1>2, AppendProperties
<1> HIDE DEF Item, Eof
<1>5. Stream(Append(s, Item(c, m + 1)), c, k, m + 1)
  <2> DEFINE e == Item(c, m + 1)
             t == Append(s, e)
  <2>1. Len(t) = l + 1 /\ t[l + 1] = e /\ \A i \in 1..l : t[i] = Item(c, k + i)
    BY <1>3, <1>4
  <2>2. e = Item(c, k + (l + 1))
    BY <1>1
  <2> HIDE DEF t, e
  <2>3. \A i \in 1..(l + 1) : t[i] = Item(c, k + i)
    BY <2>1, <2>2
  <2>4. Stream(t, c, k, m + 1)
    BY <1>1, <2>1, <2>3 DEF Stream, Run
  <2> QED BY <2>4 DEF t, e
<1>6. Ended(Append(s, Eof(c)), c, k, m)
  <2> DEFINE t == Append(s, Eof(c))
  <2>1. Len(t) = l + 1 /\ t[l + 1] = Eof(c) /\ \A i \in 1..l : t[i] = Item(c, k + i)
    BY <1>3, <1>4
  <2> HIDE DEF t
  <2>2. m - k = l /\ k <= m
    BY <1>1
  <2>3. Ended(t, c, k, m)
    BY <2>1, <2>2 DEF Ended
  <2> QED BY <2>3 DEF t
<1> QED BY <1>3, <1>4, <1>5, <1>6

\* Data() takes the bytes and Rest() leaves the end of the stream.
LEMMA DataOfStream ==
    ASSUME NEW s \in Seq(Bytes), NEW c \in Conns, NEW k \in Nat, NEW m \in Nat, Stream(s, c, k, m)
    PROVE  Data(s) = s /\ Rest(s) = <<>>
<1>1. PICK l \in Nat : l = Len(s) /\ m = k + l
  BY LenProperties DEF Stream
<1>2. CASE s = <<>>
  BY <1>2 DEF Data, Rest, Ends
<1>3. CASE s # <<>>
  <2>1. l \in 1..l
    BY <1>1, <1>3, EmptySeq
  <2>2. s[l] = Item(c, k + l) /\ k + l # 0
    BY <1>1, <2>1 DEF Stream, Run
  <2>3. Last(s).n # 0
    BY <1>1, <2>2 DEF Last, Item
  <2> QED BY <2>3 DEF Data, Rest, Ends
<1> QED BY <1>2, <1>3

LEMMA DataOfEnded ==
    ASSUME NEW s \in Seq(Bytes), NEW c \in Conns, NEW k \in Nat, NEW m \in Nat, Ended(s, c, k, m)
    PROVE  /\ Data(s) \in Seq(Bytes) /\ Stream(Data(s), c, k, m)
           /\ Rest(s) \in Seq(Bytes) /\ Ended(Rest(s), c, m, m)
<1>1. PICK l \in Nat : l = m - k /\ Len(s) = l + 1 /\ m = k + l
  BY DEF Ended
<1>2. s[l + 1] = Eof(c) /\ \A i \in 1..l : s[i] = Item(c, k + i) /\ s[i] \in Bytes
  BY <1>1, ElementOfSeq DEF Ended
<1>3. s # <<>> /\ Last(s) = Eof(c) /\ Eof(c).n = 0 /\ Eof(c) \in Bytes
  BY <1>1, <1>2, EmptySeq DEF Last, Eof, Item, Bytes
<1>4. Data(s) = SubSeq(s, 1, l) /\ Rest(s) = <<Eof(c)>>
  BY <1>1, <1>3 DEF Data, Rest, Ends, Front
<1> DEFINE a == SubSeq(s, 1, l)
           b == <<Eof(c)>>
<1>5. a \in Seq(Bytes) /\ Len(a) = l /\ \A i \in 1..l : a[i] = s[i]
  <2>1. \A i \in 1..l : s[i] \in Bytes
    BY <1>2
  <2>2. l \in Nat /\ Len(s) = l + 1
    BY <1>1
  <2> QED BY ONLY <2>1, <2>2, s \in Seq(Bytes)
<1>6. b \in Seq(Bytes) /\ Len(b) = 1 /\ b[1] = Eof(c)
  BY <1>3
<1> HIDE DEF a, b
<1>7. Stream(a, c, k, m)
  BY <1>1, <1>2, <1>5 DEF Stream, Run
<1>8. Ended(b, c, m, m)
  BY <1>6 DEF Ended
<1> QED BY <1>4, <1>5, <1>6, <1>7, <1>8 DEF a, b

-----------------------------------------------------------------------------
(* What is on its way *)

Connected(c) == \E n \in Numbers : file[n] = c

\* The parts of the state that hold bytes.
Typed(c) ==
    /\ w[c].buff \in Seq(Bytes)
    /\ client[c].state \in {"none", "queued", "open", "shut", "closed"}
    /\ client[c].sent \in Nat /\ client[c].pending \in Seq(Bytes) /\ client[c].got \in Seq(Bytes)
SForm == server \in [Conns -> [sent : Nat, closed : BOOLEAN, got : Seq(Bytes)]]
DForm == down \in [Conns -> Seq(Bytes)] /\ wire \in [Conns -> Seq(Bytes)]

\* From the client: got by the server, taken by the worker, waiting in the socket.
Taken(c) == Len(server[c].got) + (IF w[c].pc = "write" THEN Len(w[c].buff) ELSE 0)
Waiting(c) ==
    /\ Finished(c) => Ended(client[c].pending, c, Taken(c), client[c].sent)
    /\ ~Finished(c) => Stream(client[c].pending, c, Taken(c), client[c].sent)

Up(c) ==
    /\ Run(server[c].got, c, 0)
    /\ w[c].pc = "none" => server[c].got = <<>>
    /\ client[c].state \in {"none", "queued"} => client[c].sent = 0 /\ client[c].pending = <<>>
    /\ w[c].pc = "write" => Run(w[c].buff, c, Len(server[c].got)) /\ w[c].buff # <<>>
    /\ Connected(c) /\ w[c].pc # "close" => Waiting(c)
    /\ w[c].pc \in {"close", "del"} =>
          server[c].closed \/ (Finished(c) /\ Len(server[c].got) = client[c].sent)
    /\ w[c].pc \in {"del", "gone"} => client[c].state = "closed"

\* From the server: got by the client, taken by the worker, and what libssh2 holds
\* and what the session's socket does.
Held(c) == down[c] \o wire[c]
HeldFrom(c, k) ==
    /\ server[c].closed => Ended(Held(c), c, k, server[c].sent)
    /\ ~server[c].closed => Stream(Held(c), c, k, server[c].sent)
Passed(c) == Len(client[c].got) + (IF w[c].pc = "send" THEN Len(w[c].buff) ELSE 0)

\* A worker that is to close leaves nothing behind for its client, unless the client
\* ended its stream or the server did not take all of it.
Whole(c) ==
    \/ server[c].closed /\ Len(client[c].got) = server[c].sent
    \/ Finished(c)
    \/ Len(server[c].got) < client[c].sent

Down(c) ==
    /\ Run(client[c].got, c, 0)
    /\ w[c].pc = "none" =>
          client[c].got = <<>> /\ Held(c) = <<>> /\ server[c].sent = 0 /\ ~server[c].closed
    /\ w[c].pc = "close" => Whole(c)
    /\ Receives(c) =>
          /\ HeldFrom(c, Passed(c))
          /\ w[c].pc = "send" => Run(w[c].buff, c, Len(client[c].got))
    /\ w[c].pc \notin {"del", "gone"} => \E k \in Nat : HeldFrom(c, k)

Flow(c) == Typed(c) /\ Up(c) /\ Down(c)

\* A step that moves nothing from c's client to its server.
UpSame(c) ==
    /\ \/ w'[c].pc = w[c].pc /\ w'[c].buff = w[c].buff
       \/ /\ w[c].pc \in {"none", "select", "recv", "read", "send"}
          /\ w'[c].pc \in {"select", "recv", "read", "send"}
    /\ server'[c].got = server[c].got /\ (server[c].closed => server'[c].closed)
    /\ client'[c].state = client[c].state
    /\ client'[c].sent = client[c].sent /\ client'[c].pending = client[c].pending
    /\ Connected(c)' => Connected(c)

LEMMA UpKept ==
    ASSUME NEW c \in Conns, Up(c), UpSame(c)
    PROVE  Up(c)'
<1>1. Waiting(c) /\ w[c].pc # "close" => Waiting(c)'
  <2>1. w[c].pc # "close" => Taken(c)' = Taken(c)
    BY DEF UpSame, Taken
  <2> QED BY <2>1 DEF UpSame, Waiting, Finished
<1>2. w'[c].pc = "write" => w[c].pc = "write" /\ w'[c].buff = w[c].buff
  BY DEF UpSame
<1>3. /\ w'[c].pc = "none" => w[c].pc = "none"
      /\ w'[c].pc \in {"del", "gone"} => w[c].pc \in {"del", "gone"}
      /\ w'[c].pc \in {"close", "del"} => w[c].pc \in {"close", "del"}
      /\ w'[c].pc # "close" => w[c].pc # "close"
  BY DEF UpSame
<1>4. Connected(c)' /\ w'[c].pc # "close" => Waiting(c)'
  BY <1>1, <1>3 DEF UpSame, Up
<1> QED BY <1>2, <1>3, <1>4 DEF UpSame, Up, Finished

\* A step that moves nothing from c's server to its client, which is not opened.
DownSame(c) ==
    /\ \/ w'[c].pc = w[c].pc /\ w'[c].buff = w[c].buff
       \/ /\ w[c].pc \in {"none", "select", "recv", "read", "write", "close", "del"}
          /\ w'[c].pc \in {"select", "recv", "read", "write", "close", "del", "gone"}
          /\ w[c].pc = "del" => w'[c].pc = "gone"
    /\ server'[c].sent = server[c].sent /\ server'[c].closed = server[c].closed
    /\ client'[c].got = client[c].got
    /\ Receives(c)' => Receives(c)
    /\ w'[c].pc = "close" => Whole(c)' \/ (w[c].pc = "close" /\ (Whole(c) => Whole(c)'))
    /\ w'[c].pc \notin {"del", "gone"} \/ Receives(c)' => Held(c)' = Held(c)

LEMMA DownKept ==
    ASSUME NEW c \in Conns, Down(c), DownSame(c)
    PROVE  Down(c)'
<1>1. w'[c].pc = "none" => w[c].pc = "none"
  BY DEF DownSame
<1>2. w'[c].pc = "send" => w[c].pc = "send" /\ w'[c].buff = w[c].buff
  BY DEF DownSame
<1>3. w'[c].pc \notin {"del", "gone"} => w[c].pc \notin {"del", "gone"}
  BY DEF DownSame
<1>4. ASSUME NEW k, HeldFrom(c, k), Held(c)' = Held(c) PROVE HeldFrom(c, k)'
  BY <1>4 DEF DownSame, HeldFrom
<1>5. w'[c].pc \notin {"del", "gone"} => \E k \in Nat : HeldFrom(c, k)'
  BY <1>3, <1>4 DEF DownSame, Down
<1>6. Passed(c)' = Passed(c)
  BY DEF DownSame, Passed
<1>7. Receives(c)' => HeldFrom(c, Passed(c))'
  BY <1>4, <1>6 DEF DownSame, Down
<1> QED BY <1>1, <1>2, <1>5, <1>7 DEF DownSame, Down

-----------------------------------------------------------------------------
(* Values *)

\* Parts of a worker's record are set: the values.
LEMMA WorkerPc ==
    ASSUME WForm, NEW c \in Conns, NEW pc, NEW isset,
           w' = [w EXCEPT ![c].pc = pc] \/ w' = [w EXCEPT ![c].pc = pc, ![c].isset = isset]
    PROVE  w'[c].pc = pc /\ w'[c].buff = w[c].buff /\ \A k \in Conns \ {c} : w'[k] = w[k]
<1>1. PICK U : w \in [Conns -> [pc : U, sock : U, isset : U, buff : U]]
  BY DEF WForm
<1> QED BY <1>1

LEMMA WorkerBuff ==
    ASSUME WForm, NEW c \in Conns, NEW pc, NEW isset, NEW buff,
           \/ w' = [w EXCEPT ![c].pc = pc, ![c].buff = buff]
           \/ w' = [w EXCEPT ![c] = [@ EXCEPT !.buff = buff, !.isset = isset, !.pc = pc]]
           \/ w' = [w EXCEPT ![c] = [@ EXCEPT !.isset = isset, !.buff = buff, !.pc = pc]]
           \/ w' = [w EXCEPT ![c] = [@ EXCEPT !.pc = pc, !.isset = isset, !.buff = buff]]
    PROVE  w'[c].pc = pc /\ w'[c].buff = buff /\ \A k \in Conns \ {c} : w'[k] = w[k]
<1>1. PICK U : w \in [Conns -> [pc : U, sock : U, isset : U, buff : U]]
  BY DEF WForm
<1> QED BY <1>1

LEMMA WorkerRest ==
    ASSUME WForm, NEW c \in Conns, NEW buff, w' = [w EXCEPT ![c] = [@ EXCEPT !.buff = buff]]
    PROVE  w'[c].pc = w[c].pc /\ w'[c].buff = buff /\ \A k \in Conns \ {c} : w'[k] = w[k]
<1>1. PICK U : w \in [Conns -> [pc : U, sock : U, isset : U, buff : U]]
  BY DEF WForm
<1> QED BY <1>1

LEMMA WorkerStarts ==
    ASSUME WForm, NEW c \in Conns, NEW pc, NEW sock,
           w' = [w EXCEPT ![c] = [@ EXCEPT !.pc = pc, !.sock = sock]]
    PROVE  w'[c].pc = pc /\ w'[c].buff = w[c].buff /\ \A k \in Conns \ {c} : w'[k] = w[k]
<1>1. PICK U : w \in [Conns -> [pc : U, sock : U, isset : U, buff : U]]
  BY DEF WForm
<1> QED BY <1>1

\* A client's record: the values.
LEMMA ClientState ==
    ASSUME CForm, NEW c \in Conns, NEW x, client' = [client EXCEPT ![c].state = x]
    PROVE  /\ client'[c].state = x /\ client'[c].sent = client[c].sent
           /\ client'[c].pending = client[c].pending /\ client'[c].got = client[c].got
           /\ \A k \in Conns \ {c} : client'[k] = client[k]
<1>1. PICK U : client \in [Conns -> [state : U, sent : U, pending : U, got : U]]
  BY DEF CForm
<1> QED BY <1>1

LEMMA ClientClosed ==
    ASSUME CForm, NEW c \in Conns, NEW x, NEW z, client' = [client EXCEPT ![c].state = z, ![c].pending = x]
    PROVE  /\ client'[c].state = z /\ client'[c].sent = client[c].sent
           /\ client'[c].pending = x /\ client'[c].got = client[c].got
           /\ \A k \in Conns \ {c} : client'[k] = client[k]
<1>1. PICK U : client \in [Conns -> [state : U, sent : U, pending : U, got : U]]
  BY DEF CForm
<1> QED BY <1>1

LEMMA ClientSent ==
    ASSUME CForm, NEW c \in Conns, NEW x, NEW y, client' = [client EXCEPT ![c].sent = y, ![c].pending = x]
    PROVE  /\ client'[c].state = client[c].state /\ client'[c].sent = y
           /\ client'[c].pending = x /\ client'[c].got = client[c].got
           /\ \A k \in Conns \ {c} : client'[k] = client[k]
<1>1. PICK U : client \in [Conns -> [state : U, sent : U, pending : U, got : U]]
  BY DEF CForm
<1> QED BY <1>1

LEMMA ClientPending ==
    ASSUME CForm, NEW c \in Conns, NEW x, client' = [client EXCEPT ![c].pending = x]
    PROVE  /\ client'[c].state = client[c].state /\ client'[c].sent = client[c].sent
           /\ client'[c].pending = x /\ client'[c].got = client[c].got
           /\ \A k \in Conns \ {c} : client'[k] = client[k]
<1>1. PICK U : client \in [Conns -> [state : U, sent : U, pending : U, got : U]]
  BY DEF CForm
<1> QED BY <1>1

LEMMA ClientGot ==
    ASSUME CForm, NEW c \in Conns, NEW x, client' = [client EXCEPT ![c].got = x]
    PROVE  /\ client'[c].state = client[c].state /\ client'[c].sent = client[c].sent
           /\ client'[c].pending = client[c].pending /\ client'[c].got = x
           /\ \A k \in Conns \ {c} : client'[k] = client[k]
<1>1. PICK U : client \in [Conns -> [state : U, sent : U, pending : U, got : U]]
  BY DEF CForm
<1> QED BY <1>1

\* A connection has a number only when one was given to it.
LEMMA OnlyConnected ==
    ASSUME Files, NEW n, NEW x, UNCHANGED file \/ file' = [file EXCEPT ![n] = x], NEW k \in Conns, k # x
    PROVE  Connected(k)' => Connected(k)
<1>1. \A m \in Numbers : file'[m] = file[m] \/ file'[m] = x
  BY DEF Files
<1> QED BY <1>1 DEF Connected, Numbers

LEMMA Disconnected ==
    ASSUME Files, NEW n \in Numbers, NEW k \in Conns, file[n] = k, file' = [file EXCEPT ![n] = None]
    PROVE  ~Connected(k)'
<1>1. \A m \in Numbers : file'[m] = (IF m = n THEN None ELSE file[m])
  BY DEF Files
<1>2. \A m \in Numbers : file[m] = k => m = n
  BY Distinct DEF Files
<1>3. \A m \in Numbers : file'[m] # k
  BY <1>1, <1>2, Distinct
<1> QED BY <1>3 DEF Connected, Numbers

\* A step that has nothing to do with c.
Same(c) ==
    /\ w'[c] = w[c] /\ client'[c] = client[c] /\ server'[c] = server[c]
    /\ Held(c)' = Held(c)
    /\ Connected(c)' => Connected(c)

LEMMA SameKept ==
    ASSUME NEW c \in Conns, Flow(c), Same(c)
    PROVE  Flow(c)'
<1>1. UpSame(c) /\ DownSame(c)
  BY DEF Same, UpSame, DownSame, Receives, Whole, Finished
<1>2. Typed(c)'
  BY DEF Same, Flow, Typed
<1> QED BY <1>1, <1>2, UpKept, DownKept DEF Flow

Flows == SForm /\ DForm /\ \A c \in Conns : Flow(c)
FInv == ~closed => Flows

LEMMA SameHeld ==
    ASSUME UNCHANGED <<down, wire>>
    PROVE  \A c \in Conns : Held(c)' = Held(c)
BY DEF Held

\* Steps of the listeners that no connection notices.
LEMMA QuietStep ==
    ASSUME Flows, UNCHANGED <<w, ends>>, \A c \in Conns : Connected(c)' => Connected(c)
    PROVE  Flows'
<1>1. UNCHANGED <<client, server, down, wire>>
  BY DEF ends
<1>2. \A c \in Conns : Same(c)
  BY <1>1, SameHeld DEF Same
<1>3. \A c \in Conns : Flow(c)'
  BY <1>2, SameKept DEF Flows
<1>4. SForm' /\ DForm'
  BY <1>1 DEF Flows, SForm, DForm
<1> QED BY <1>3, <1>4 DEF Flows

\* Whoever reads sorts all that has come; nothing comes for a worker that is gone.
LEMMA SortedIs ==
    ASSUME DForm
    PROVE  /\ Sorted \in [Conns -> Seq(Bytes)] /\ Nothing \in [Conns -> Seq(Bytes)]
           /\ \A c \in Conns : /\ Held(c) \in Seq(Bytes)
                               /\ Sorted[c] = IF Running(c) THEN Held(c) ELSE <<>>
                               /\ Nothing[c] = <<>>
<1>1. <<>> \in Seq(Bytes)
  BY EmptySeq
<1>2. \A c \in Conns : Held(c) \in Seq(Bytes)
  BY ConcatProperties DEF Held, DForm
<1>3. Sorted = [c \in Conns |-> IF Running(c) THEN Held(c) ELSE <<>>]
  BY DEF Sorted, Held
<1> HIDE DEF Sorted
<1> QED BY <1>1, <1>2, <1>3 DEF Nothing

\* A connection that another thread's read does not concern.
LEMMA SortedKept ==
    ASSUME Flows, NEW c \in Conns, w'[c] = w[c], client'[c] = client[c], server'[c] = server[c],
           UNCHANGED file, down'[c] = Sorted[c], wire'[c] = <<>>
    PROVE  Flow(c)'
<1>1. Flow(c) /\ DForm
  BY DEF Flows
<1>2. Held(c)' = IF Running(c) THEN Held(c) ELSE <<>>
  <2>1. Sorted[c] \in Seq(Bytes) /\ Sorted[c] = IF Running(c) THEN Held(c) ELSE <<>>
    BY <1>1, SortedIs
  <2>2. Sorted[c] \o <<>> = Sorted[c]
    BY <2>1, ConcatEmptySeq
  <2> QED BY <2>1, <2>2 DEF Held
<1>3. Running(c) \/ w[c].pc = "none" => Held(c)' = Held(c)
  BY <1>1, <1>2 DEF Flow, Down, Running
<1>4. w[c].pc = "gone" => client[c].state = "closed"
  BY <1>1 DEF Flow, Up
<1>5. Up(c)'
  <2>1. UpSame(c)
    BY DEF UpSame, Connected
  <2> QED BY <1>1, <2>1, UpKept DEF Flow
<1>6. Down(c)'
  <2>1. DownSame(c)
    BY <1>3, <1>4 DEF DownSame, Running, Receives, Whole, Finished
  <2> QED BY <1>1, <2>1, DownKept DEF Flow
<1>7. Typed(c)'
  BY <1>1 DEF Flow, Typed
<1> QED BY <1>5, <1>6, <1>7 DEF Flow

LEMMA MainStep ==
    ASSUME Flows, MainReads
    PROVE  Flows'
<1>1. /\ wire' = Nothing /\ down' = Sorted
      /\ UNCHANGED <<file, w, client, server>>
  BY DEF MainReads
<1>2. SForm' /\ DForm'
  BY <1>1, SortedIs DEF Flows, SForm, DForm
<1>3. ASSUME NEW c \in Conns PROVE Flow(c)'
  <2>1. down'[c] = Sorted[c] /\ wire'[c] = <<>>
    BY <1>1 DEF Nothing
  <2> QED BY <1>1, <2>1, SortedKept
<1> QED BY <1>2, <1>3 DEF Flows

-----------------------------------------------------------------------------
(* Steps of the ends *)

LEMMA Counts ==
    ASSUME Flows, NEW c \in Conns
    PROVE  /\ Taken(c) \in Nat /\ Passed(c) \in Nat
           /\ server[c].got \in Seq(Bytes) /\ Len(server[c].got) \in Nat
           /\ client[c].got \in Seq(Bytes) /\ Len(client[c].got) \in Nat
           /\ client[c].pending \in Seq(Bytes) /\ client[c].sent \in Nat
           /\ w[c].buff \in Seq(Bytes) /\ Len(w[c].buff) \in Nat
           /\ server[c].sent \in Nat /\ Held(c) \in Seq(Bytes)
<1>1. /\ server[c].got \in Seq(Bytes) /\ client[c].got \in Seq(Bytes)
      /\ w[c].buff \in Seq(Bytes) /\ client[c].pending \in Seq(Bytes)
      /\ server[c].sent \in Nat /\ client[c].sent \in Nat
  BY DEF Flows, Flow, Typed, SForm
<1>2. Len(server[c].got) \in Nat /\ Len(client[c].got) \in Nat /\ Len(w[c].buff) \in Nat
  BY <1>1, LenProperties
<1>3. Taken(c) \in Nat /\ Passed(c) \in Nat
  <2>1. PICK i \in Nat, j \in Nat, n \in Nat :
          i = Len(server[c].got) /\ j = Len(client[c].got) /\ n = Len(w[c].buff)
    BY <1>2
  <2>2. Taken(c) = i + n \/ Taken(c) = i + 0
    BY <2>1 DEF Taken
  <2>3. Passed(c) = j + n \/ Passed(c) = j + 0
    BY <2>1 DEF Passed
  <2> QED BY <2>2, <2>3
<1>4. Held(c) \in Seq(Bytes)
  BY SortedIs DEF Flows
<1> QED BY <1>1, <1>2, <1>3, <1>4

\* A client connects, or is accepted: it has sent nothing before.
LEMMA ClientConnectsStep ==
    ASSUME Shape, Flows, NEW c \in Conns, ClientConnects(c)
    PROVE  Flows'
<1>1. /\ client[c].state = "none" /\ client' = [client EXCEPT ![c].state = "queued"]
      /\ UNCHANGED <<file, w, server, down, wire>>
  BY DEF ClientConnects
<1>2. /\ client'[c].state = "queued" /\ client'[c].sent = client[c].sent
      /\ client'[c].pending = client[c].pending /\ client'[c].got = client[c].got
      /\ \A k \in Conns \ {c} : client'[k] = client[k]
  BY <1>1, ClientState DEF Shape
<1>3. \A k \in Conns : Held(k)' = Held(k) /\ (Connected(k)' <=> Connected(k))
  BY <1>1, SameHeld DEF Connected
<1>4. ASSUME NEW k \in Conns PROVE Flow(k)'
  <2>1. Flow(k)
    BY DEF Flows
  <2>2. CASE k # c
    <3>1. Same(k)
      BY <1>1, <1>2, <1>3, <2>2 DEF Same
    <3> QED BY <2>1, <3>1, SameKept
  <2>3. CASE k = c
    <3>1. Typed(c)'
      BY <1>1, <1>2, <2>1, <2>3 DEF Flow, Typed
    <3>2. Up(c)'
      <4>1. Waiting(c) => Waiting(c)'
        BY <1>1, <1>2 DEF Waiting, Taken, Finished
      <4> QED BY <1>1, <1>2, <1>3, <2>1, <2>3, <4>1 DEF Flow, Up, Finished
    <3>3. Down(c)'
      <4>1. DownSame(c)
        BY <1>1, <1>2, <1>3 DEF DownSame, Receives, Whole, Finished
      <4> QED BY <2>1, <2>3, <4>1, DownKept DEF Flow
    <3> QED BY <2>3, <3>1, <3>2, <3>3 DEF Flow
  <2> QED BY <2>2, <2>3
<1>5. SForm' /\ DForm'
  BY <1>1 DEF Flows, SForm, DForm
<1> QED BY <1>4, <1>5 DEF Flows

LEMMA ClientSendsStep ==
    ASSUME Shape, Flows, NEW c \in Conns, ClientSends(c)
    PROVE  Flows'
<1> DEFINE y == client[c].sent + 1
           x == Append(client[c].pending, Item(c, client[c].sent + 1))
<1>1. /\ client[c].state = "open" /\ UNCHANGED <<file, w, server, down, wire>>
      /\ client' = [client EXCEPT ![c].sent = y, ![c].pending = x]
  BY DEF ClientSends
<1> HIDE DEF x, y
<1>2. /\ client'[c].state = client[c].state /\ client'[c].sent = y
      /\ client'[c].pending = x /\ client'[c].got = client[c].got
      /\ \A k \in Conns \ {c} : client'[k] = client[k]
  BY <1>1, ClientSent DEF Shape
<1>3. \A k \in Conns : Held(k)' = Held(k) /\ (Connected(k)' <=> Connected(k))
  BY <1>1, SameHeld DEF Connected
<1>4. ASSUME NEW k \in Conns PROVE Flow(k)'
  <2>1. Flow(k)
    BY DEF Flows
  <2>2. CASE k # c
    <3>1. Same(k)
      BY <1>1, <1>2, <1>3, <2>2 DEF Same
    <3> QED BY <2>1, <3>1, SameKept
  <2>3. CASE k = c
    <3>1. /\ client[c].pending \in Seq(Bytes) /\ client[c].sent \in Nat
          /\ w[c].buff \in Seq(Bytes) /\ server[c].got \in Seq(Bytes)
      BY Counts
    <3>2. x \in Seq(Bytes) /\ y \in Nat
      BY <3>1 DEF Bytes, Item, x, y
    <3>3. Typed(c)'
      BY <1>1, <1>2, <2>1, <2>3, <3>2 DEF Flow, Typed
    <3>4. Up(c)'
      <4>1. Waiting(c) => Waiting(c)'
        <5>1. Taken(c) \in Nat /\ Taken(c)' = Taken(c)
          <6>1. Taken(c)' = Taken(c)
            BY <1>1 DEF Taken
          <6> QED BY <6>1, Counts
        <5>2. Stream(client[c].pending, c, Taken(c), client[c].sent) => Stream(x, c, Taken(c), y)
          BY <3>1, <5>1, StreamAppend DEF x, y
        <5> QED BY <1>1, <1>2, <5>1, <5>2 DEF Waiting, Finished
      <4> QED BY <1>1, <1>2, <1>3, <2>1, <2>3, <4>1 DEF Flow, Up, Finished
    <3>5. Down(c)'
      <4>1. DownSame(c)
        <5>1. PICK g \in Nat, m \in Nat : g = Len(server[c].got) /\ m = client[c].sent
          BY Counts
        <5>2. Whole(c) => Whole(c)'
          BY <1>1, <1>2, <5>1 DEF Whole, Finished, y
        <5> QED BY <1>1, <1>2, <1>3, <5>2 DEF DownSame, Receives
      <4> QED BY <2>1, <2>3, <4>1, DownKept DEF Flow
    <3> QED BY <2>3, <3>3, <3>4, <3>5 DEF Flow
  <2> QED BY <2>2, <2>3
<1>5. SForm' /\ DForm'
  BY <1>1 DEF Flows, SForm, DForm
<1> QED BY <1>4, <1>5 DEF Flows

LEMMA ClientClosesStep ==
    ASSUME Shape, Flows, NEW c \in Conns, ClientShuts(c) \/ ClientCloses(c)
    PROVE  Flows'
<1> DEFINE x == IF Finished(c) THEN client[c].pending ELSE Append(client[c].pending, Eof(c))
<1>0. PICK z \in {"shut", "closed"} : Finishes(c, z)
  BY Ending
<1>1. /\ Receives(c) /\ UNCHANGED <<file, w, server, down, wire>>
      /\ client' = [client EXCEPT ![c].state = z, ![c].pending = x]
  BY <1>0 DEF ClientShuts, ClientCloses, Finishes
<1> HIDE DEF x
<1>2. /\ client'[c].state = z /\ client'[c].sent = client[c].sent
      /\ client'[c].pending = x /\ client'[c].got = client[c].got
      /\ \A k \in Conns \ {c} : client'[k] = client[k]
  BY <1>1, ClientClosed DEF Shape
<1>3. \A k \in Conns : Held(k)' = Held(k) /\ (Connected(k)' <=> Connected(k))
  BY <1>1, SameHeld DEF Connected
<1>4. ASSUME NEW k \in Conns PROVE Flow(k)'
  <2>1. Flow(k)
    BY DEF Flows
  <2>2. CASE k # c
    <3>1. Same(k)
      BY <1>1, <1>2, <1>3, <2>2 DEF Same
    <3> QED BY <2>1, <3>1, SameKept
  <2>3. CASE k = c
    <3>1. /\ client[c].pending \in Seq(Bytes) /\ client[c].sent \in Nat
          /\ w[c].buff \in Seq(Bytes) /\ server[c].got \in Seq(Bytes)
      BY Counts
    <3>2. x \in Seq(Bytes)
      <4>1. Eof(c) \in Bytes
        BY DEF Bytes, Item, Eof
      <4>2. Append(client[c].pending, Eof(c)) \in Seq(Bytes)
        BY <3>1, <4>1
      <4> QED BY <3>1, <4>2 DEF x
    <3>3. Typed(c)'
      BY <1>1, <1>2, <2>1, <2>3, <3>2 DEF Flow, Typed
    <3>4. Up(c)'
      <4>0. Finished(c)'
        BY <1>2 DEF Finished
      <4>1. Waiting(c) => Waiting(c)'
        <5>1. Taken(c) \in Nat /\ Taken(c)' = Taken(c)
          <6>1. Taken(c)' = Taken(c)
            BY <1>1 DEF Taken
          <6> QED BY <6>1, Counts
        <5>2. Waiting(c) => Ended(x, c, Taken(c), client[c].sent)
          BY <3>1, <5>1, StreamAppend DEF x, Waiting
        <5> QED BY <1>1, <1>2, <4>0, <5>1, <5>2 DEF Waiting
      <4> QED BY <1>1, <1>2, <1>3, <2>1, <2>3, <4>0, <4>1 DEF Flow, Up, Finished, Receives
    <3>5. Down(c)'
      <4>1. DownSame(c)
        BY <1>1, <1>2, <1>3 DEF DownSame, Whole, Finished
      <4> QED BY <2>1, <2>3, <4>1, DownKept DEF Flow
    <3> QED BY <2>3, <3>3, <3>4, <3>5 DEF Flow
  <2> QED BY <2>2, <2>3
<1>5. SForm' /\ DForm'
  BY <1>1 DEF Flows, SForm, DForm
<1> QED BY <1>4, <1>5 DEF Flows

\* Append and concatenation, so that what comes is behind what libssh2 holds.
LEMMA Arrives ==
    ASSUME NEW a \in Seq(Bytes), NEW b \in Seq(Bytes), NEW e \in Bytes
    PROVE  a \o Append(b, e) = Append(a \o b, e)
<1>1. <<e>> \in Seq(Bytes) /\ a \o b \in Seq(Bytes)
  BY ConcatProperties
<1>2. Append(b, e) = b \o <<e>> /\ Append(a \o b, e) = (a \o b) \o <<e>>
  BY <1>1, AppendIsConcat
<1> QED BY <1>1, <1>2, ConcatAssociative

LEMMA ServerSendsStep ==
    ASSUME Shape, Flows, NEW c \in Conns, ServerSends(c)
    PROVE  Flows'
<1> DEFINE y == server[c].sent + 1
           e == Item(c, server[c].sent + 1)
<1>1. /\ Running(c) /\ ~server[c].closed /\ UNCHANGED <<file, w, client, down>>
      /\ server' = [server EXCEPT ![c].sent = y]
      /\ wire' = [wire EXCEPT ![c] = Append(@, e)]
  BY DEF ServerSends
<1>2. y \in Nat /\ e \in Bytes
  BY Counts DEF Bytes, Item
<1> HIDE DEF y, e
<1>3. SForm /\ DForm
  BY DEF Flows
<1>4. /\ SForm'
      /\ server'[c].sent = y /\ server'[c].closed = server[c].closed /\ server'[c].got = server[c].got
      /\ \A k \in Conns \ {c} : server'[k] = server[k]
  BY <1>1, <1>2, <1>3 DEF SForm
<1>5. /\ DForm' /\ wire'[c] = Append(wire[c], e)
      /\ \A k \in Conns \ {c} : wire'[k] = wire[k]
  <2>1. Append(wire[c], e) \in Seq(Bytes)
    BY <1>2, <1>3 DEF DForm
  <2> QED BY <1>1, <1>3, <2>1 DEF DForm
<1>6. ASSUME NEW k \in Conns PROVE Flow(k)'
  <2>1. Flow(k)
    BY DEF Flows
  <2>2. CASE k # c
    <3>1. Held(k)' = Held(k)
      BY <1>1, <1>5, <2>2 DEF Held
    <3>2. Same(k)
      BY <1>1, <1>4, <2>2, <3>1 DEF Same, Connected
    <3> QED BY <2>1, <3>2, SameKept
  <2>3. CASE k = c
    <3>1. Typed(c)'
      BY <1>1, <2>1, <2>3 DEF Flow, Typed
    <3>2. Up(c)'
      <4>1. UpSame(c)
        BY <1>1, <1>4 DEF UpSame, Connected
      <4> QED BY <2>1, <2>3, <4>1, UpKept DEF Flow
    <3>3. Held(c)' = Append(Held(c), e)
      <4>1. Held(c)' = down[c] \o Append(wire[c], e)
        BY <1>1, <1>5 DEF Held
      <4> QED BY <1>2, <1>3, <4>1, Arrives DEF Held, DForm
    <3>4. ASSUME NEW m \in Nat, HeldFrom(c, m) PROVE HeldFrom(c, m)'
      <4>1. Stream(Held(c), c, m, server[c].sent)
        BY <1>1, <3>4 DEF HeldFrom
      <4>2. Stream(Append(Held(c), e), c, m, y)
        BY <4>1, Counts, StreamAppend DEF y, e
      <4> QED BY <1>1, <1>4, <3>3, <4>2 DEF HeldFrom
    <3>5. Down(c)'
      <4>1. Passed(c)' = Passed(c) /\ Passed(c) \in Nat
        <5>1. Passed(c)' = Passed(c)
          BY <1>1 DEF Passed
        <5> QED BY <5>1, Counts
      <4>2. Receives(c)' => HeldFrom(c, Passed(c))'
        BY <1>1, <2>1, <2>3, <3>4, <4>1 DEF Flow, Down, Receives
      <4>3. w'[c].pc \notin {"del", "gone"} => \E m \in Nat : HeldFrom(c, m)'
        BY <1>1, <2>1, <2>3, <3>4 DEF Flow, Down
      <4>4. Whole(c) => Whole(c)'
        BY <1>1, <1>4 DEF Whole, Finished
      <4>5. Receives(c)' => Receives(c)
        BY <1>1 DEF Receives
      <4> QED BY <1>1, <2>1, <2>3, <4>2, <4>3, <4>4, <4>5 DEF Flow, Down, Running
    <3> QED BY <2>3, <3>1, <3>2, <3>5 DEF Flow
  <2> QED BY <2>2, <2>3
<1> QED BY <1>4, <1>5, <1>6 DEF Flows

LEMMA ServerClosesStep ==
    ASSUME Shape, Flows, NEW c \in Conns, ServerCloses(c)
    PROVE  Flows'
<1> DEFINE e == Eof(c)
<1>1. /\ Running(c) /\ ~server[c].closed /\ UNCHANGED <<file, w, client, down>>
      /\ server' = [server EXCEPT ![c].closed = TRUE]
      /\ wire' = [wire EXCEPT ![c] = Append(@, e)]
  BY DEF ServerCloses
<1>2. e \in Bytes
  BY DEF Bytes, Item, Eof
<1> HIDE DEF e
<1>3. SForm /\ DForm
  BY DEF Flows
<1>4. /\ SForm'
      /\ server'[c].sent = server[c].sent /\ server'[c].closed /\ server'[c].got = server[c].got
      /\ \A k \in Conns \ {c} : server'[k] = server[k]
  BY <1>1, <1>3 DEF SForm
<1>5. /\ DForm' /\ wire'[c] = Append(wire[c], e)
      /\ \A k \in Conns \ {c} : wire'[k] = wire[k]
  <2>1. Append(wire[c], e) \in Seq(Bytes)
    BY <1>2, <1>3 DEF DForm
  <2> QED BY <1>1, <1>3, <2>1 DEF DForm
<1>6. ASSUME NEW k \in Conns PROVE Flow(k)'
  <2>1. Flow(k)
    BY DEF Flows
  <2>2. CASE k # c
    <3>1. Held(k)' = Held(k)
      BY <1>1, <1>5, <2>2 DEF Held
    <3>2. Same(k)
      BY <1>1, <1>4, <2>2, <3>1 DEF Same, Connected
    <3> QED BY <2>1, <3>2, SameKept
  <2>3. CASE k = c
    <3>1. Typed(c)'
      BY <1>1, <2>1, <2>3 DEF Flow, Typed
    <3>2. Up(c)'
      <4>1. UpSame(c)
        BY <1>1, <1>4 DEF UpSame, Connected
      <4> QED BY <2>1, <2>3, <4>1, UpKept DEF Flow
    <3>3. Held(c)' = Append(Held(c), e)
      <4>1. Held(c)' = down[c] \o Append(wire[c], e)
        BY <1>1, <1>5 DEF Held
      <4> QED BY <1>2, <1>3, <4>1, Arrives DEF Held, DForm
    <3>4. ASSUME NEW m \in Nat, HeldFrom(c, m) PROVE HeldFrom(c, m)'
      <4>1. Stream(Held(c), c, m, server[c].sent)
        BY <1>1, <3>4 DEF HeldFrom
      <4>2. Ended(Append(Held(c), e), c, m, server[c].sent)
        BY <4>1, Counts, StreamAppend DEF e
      <4> QED BY <1>1, <1>4, <3>3, <4>2 DEF HeldFrom
    <3>5. Down(c)'
      <4>1. Passed(c)' = Passed(c) /\ Passed(c) \in Nat
        <5>1. Passed(c)' = Passed(c)
          BY <1>1 DEF Passed
        <5> QED BY <5>1, Counts
      <4>2. Receives(c)' => HeldFrom(c, Passed(c))'
        BY <1>1, <2>1, <2>3, <3>4, <4>1 DEF Flow, Down, Receives
      <4>3. w'[c].pc \notin {"del", "gone"} => \E m \in Nat : HeldFrom(c, m)'
        BY <1>1, <2>1, <2>3, <3>4 DEF Flow, Down
      <4>4. Whole(c) => Whole(c)'
        BY <1>1, <1>4 DEF Whole, Finished
      <4>5. Receives(c)' => Receives(c)
        BY <1>1 DEF Receives
      <4> QED BY <1>1, <2>1, <2>3, <4>2, <4>3, <4>4, <4>5 DEF Flow, Down, Running
    <3> QED BY <2>3, <3>1, <3>2, <3>5 DEF Flow
  <2> QED BY <2>2, <2>3
<1> QED BY <1>4, <1>5, <1>6 DEF Flows

-----------------------------------------------------------------------------
(* Steps of the listeners *)

\* A connection is opened: nothing was sent through it yet.
LEMMA OpensStep ==
    ASSUME Flows, NEW c \in Conns, client[c].state \in {"none", "queued"}, w[c].pc = "none",
           client' = [client EXCEPT ![c].state = "open"], CForm,
           w'[c].pc \in {"none", "select"}, w'[c].buff = w[c].buff,
           UNCHANGED <<server, down, wire>>,
           \A k \in Conns \ {c} : w'[k] = w[k] /\ (Connected(k)' => Connected(k))
    PROVE  Flows'
<1>1. /\ client'[c].state = "open" /\ client'[c].sent = client[c].sent
      /\ client'[c].pending = client[c].pending /\ client'[c].got = client[c].got
      /\ \A k \in Conns \ {c} : client'[k] = client[k]
  BY ClientState
<1>2. \A k \in Conns : Held(k)' = Held(k)
  BY SameHeld
<1>3. ASSUME NEW k \in Conns PROVE Flow(k)'
  <2>1. Flow(k)
    BY DEF Flows
  <2>2. CASE k # c
    <3>1. Same(k)
      BY <1>1, <1>2, <2>2 DEF Same
    <3> QED BY <2>1, <3>1, SameKept
  <2>3. CASE k = c
    <3>1. Typed(c)'
      BY <1>1, <2>1, <2>3 DEF Flow, Typed
    <3>2. /\ server[c].got = <<>> /\ client[c].got = <<>> /\ Held(c) = <<>>
          /\ client[c].sent = 0 /\ client[c].pending = <<>>
          /\ server[c].sent = 0 /\ ~server[c].closed
      BY <2>1, <2>3 DEF Flow, Up, Down
    <3>3. Len(<<>>) = 0 /\ Stream(<<>>, c, 0, 0)
      BY EmptyRun
    <3>4. Up(c)'
      <4>1. Taken(c)' = 0
        BY <3>2, <3>3 DEF Taken
      <4>2. Waiting(c)'
        BY <1>1, <3>2, <3>3, <4>1 DEF Waiting, Finished
      <4> QED BY <1>1, <2>1, <2>3, <3>2, <4>2 DEF Flow, Up, Finished
    <3>5. Down(c)'
      <4>1. Passed(c)' = 0
        <5>1. client'[c].got = <<>> /\ w'[c].pc # "send"
          BY <1>1, <3>2
        <5> QED BY <3>3, <5>1 DEF Passed
      <4>2. HeldFrom(c, 0)'
        BY <1>2, <3>2, <3>3 DEF HeldFrom
      <4> QED BY <1>1, <1>2, <2>1, <2>3, <3>2, <4>1, <4>2 DEF Flow, Down
    <3> QED BY <2>3, <3>1, <3>4, <3>5 DEF Flow
  <2> QED BY <2>2, <2>3
<1>4. SForm' /\ DForm'
  BY DEF Flows, SForm, DForm
<1> QED BY <1>3, <1>4 DEF Flows

\* A worker starts, or goes on, with nothing in its hands.
LEMMA TurnsStep ==
    ASSUME Flows, NEW c \in Conns, w[c].pc \in {"none", "select", "recv", "read"},
           w'[c].pc \in {"select", "recv", "read"}, w'[c].buff = w[c].buff,
           UNCHANGED <<file, client, server, down, wire>>,
           \A k \in Conns \ {c} : w'[k] = w[k]
    PROVE  Flows'
<1>1. \A k \in Conns : Held(k)' = Held(k) /\ (Connected(k)' => Connected(k))
  BY SameHeld DEF Connected
<1>2. ASSUME NEW k \in Conns PROVE Flow(k)'
  <2>1. Flow(k)
    BY DEF Flows
  <2>2. CASE k # c
    <3>1. Same(k)
      BY <1>1, <2>2 DEF Same
    <3> QED BY <2>1, <3>1, SameKept
  <2>3. CASE k = c
    <3>1. UpSame(c) /\ DownSame(c)
      BY <1>1 DEF UpSame, DownSame, Receives
    <3>2. Typed(c)'
      BY <2>1, <2>3 DEF Flow, Typed
    <3> QED BY <2>1, <2>3, <3>1, <3>2, UpKept, DownKept DEF Flow
  <2> QED BY <2>2, <2>3
<1>3. SForm' /\ DForm'
  BY DEF Flows, SForm, DForm
<1> QED BY <1>2, <1>3 DEF Flows

\* The channel is refused, and the connection closed before it has a worker.
LEMMA RefusedStep ==
    ASSUME Flows, Files, CForm, NEW n \in Numbers, NEW c \in Conns, file[n] = c,
           w[c].pc = "none", closesocket(n), UNCHANGED <<w, server, down, wire>>
    PROVE  Flows'
<1>1. /\ client'[c].state = "closed" /\ client'[c].sent = client[c].sent
      /\ client'[c].pending = <<>> /\ client'[c].got = client[c].got
      /\ \A k \in Conns \ {c} : client'[k] = client[k]
  BY ClientClosed DEF closesocket
<1>2. /\ ~Connected(c)'
      /\ \A k \in Conns : Held(k)' = Held(k) /\ (Connected(k)' => Connected(k))
  BY Disconnected, OnlyConnected, SameHeld, Distinct DEF closesocket
<1>3. ASSUME NEW k \in Conns PROVE Flow(k)'
  <2>1. Flow(k)
    BY DEF Flows
  <2>2. CASE k # c
    <3>1. Same(k)
      BY <1>1, <1>2, <2>2 DEF Same
    <3> QED BY <2>1, <3>1, SameKept
  <2>3. CASE k = c
    <3>1. Typed(c)'
      BY <1>1, <2>1, <2>3, EmptySeq DEF Flow, Typed
    <3>2. Up(c)'
      BY <1>1, <1>2, <2>1, <2>3 DEF Flow, Up, Finished
    <3>3. Down(c)'
      <4>1. DownSame(c)
        BY <1>1, <1>2 DEF DownSame, Receives, Whole, Finished
      <4> QED BY <2>1, <2>3, <4>1, DownKept DEF Flow
    <3> QED BY <2>3, <3>1, <3>2, <3>3 DEF Flow
  <2> QED BY <2>2, <2>3
<1>4. SForm' /\ DForm'
  BY DEF Flows, SForm, DForm
<1> QED BY <1>3, <1>4 DEF Flows

LEMMA ListenerStep ==
    ASSUME IInv, Files, Socks, Own, ~closed, Flows, Listen \/ ForwardListen \/ Listener
    PROVE  Flows'
<1> USE DEF IInv
<1>0. None \notin Conns /\ Listening \notin Conns
  BY Distinct
<1>1. CASE Listen
  <2>1. UNCHANGED <<w, ends>> /\ file' = [file EXCEPT ![FreeNumber] = Listening]
    BY <1>1 DEF Listen
  <2> QED BY <1>0, <2>1, OnlyConnected, QuietStep
<1>2. CASE ForwardListen \/ AcceptFails \/ ListenerDel
  <2>1. UNCHANGED <<w, ends, file>>
    BY <1>2 DEF ForwardListen, AcceptFails, ListenerDel
  <2> QED BY <2>1, QuietStep DEF Connected
<1>3. CASE Accept
  <2>1. PICK c \in Conns :
          /\ client[c].state = "queued" /\ client' = [client EXCEPT ![c].state = "open"]
          /\ file' = [file EXCEPT ![FreeNumber] = c]
    BY <1>3 DEF Accept
  <2>2. w[c].pc = "none" /\ UNCHANGED <<w, server, down, wire>>
    BY <1>3, <2>1 DEF Accept, Fresh
  <2>3. \A k \in Conns \ {c} : Connected(k)' => Connected(k)
    BY <2>1, OnlyConnected
  <2> QED BY <2>1, <2>2, <2>3, OpensStep DEF Shape
<1>4. CASE OpenChannel
  <2> DEFINE l == lis["local"]
  <2>1. /\ l.conn \in Conns /\ w[l.conn].pc = "none" /\ l.tun \in Numbers
        /\ file[l.tun] = l.conn /\ UNCHANGED <<server, down, wire>>
    BY <1>4 DEF OpenChannel, Fresh, Own, Socks
  <2>2. CASE StartWorker(l.tun, l.conn) /\ UNCHANGED <<file, client>>
    <3>1. /\ w'[l.conn].pc = "select" /\ w'[l.conn].buff = w[l.conn].buff
          /\ \A k \in Conns \ {l.conn} : w'[k] = w[k]
      BY <2>1, <2>2, WorkerStarts DEF StartWorker, Shape
    <3> QED BY <2>1, <2>2, <3>1, TurnsStep
  <2>3. CASE closesocket(l.tun) /\ UNCHANGED <<tunnel_list, w>>
    BY <2>1, <2>3, RefusedStep DEF Shape
  <2> QED BY <1>4, <2>2, <2>3 DEF OpenChannel
<1>5. CASE ForwardAccept
  <2>1. PICK c \in Remote :
          /\ client[c].state = "none"
          /\ \/ /\ file' = [file EXCEPT ![FreeNumber] = c]
                /\ client' = [client EXCEPT ![c].state = "open"]
                /\ StartWorker(FreeNumber, c)
             \/ UNCHANGED <<file, client, tunnel_list, w>>
    BY <1>5 DEF ForwardAccept
  <2>2. c \in Conns /\ w[c].pc = "none" /\ UNCHANGED <<server, down, wire>>
    BY <1>5, <2>1, TunnelsAssumption DEF Fresh, ForwardAccept
  <2>3. CASE /\ file' = [file EXCEPT ![FreeNumber] = c]
             /\ client' = [client EXCEPT ![c].state = "open"]
             /\ StartWorker(FreeNumber, c)
    <3>1. /\ w'[c].pc = "select" /\ w'[c].buff = w[c].buff
          /\ \A k \in Conns \ {c} : w'[k] = w[k]
      BY <2>2, <2>3, WorkerStarts DEF StartWorker, Shape
    <3>2. \A k \in Conns \ {c} : Connected(k)' => Connected(k)
      BY <2>3, OnlyConnected
    <3> QED BY <2>1, <2>2, <2>3, <3>1, <3>2, OpensStep DEF Shape
  <2>4. CASE UNCHANGED <<file, client, tunnel_list, w>>
    BY <2>2, <2>4, QuietStep DEF Connected, ends
  <2> QED BY <2>1, <2>3, <2>4
<1>6. CASE ListenerCloses
  <2>1. /\ file[lis["local"].sock] = Listening /\ closesocket(lis["local"].sock)
        /\ UNCHANGED <<w, server, down, wire>>
    BY <1>6 DEF ListenerCloses, Own
  <2>2. UNCHANGED client
    BY <1>0, <2>1 DEF closesocket
  <2>3. \A k \in Conns : Connected(k)' => Connected(k)
    BY <1>0, <2>1, OnlyConnected DEF closesocket
  <2> QED BY <2>1, <2>2, <2>3, QuietStep DEF ends
<1> QED BY <1>1, <1>2, <1>3, <1>4, <1>5, <1>6 DEF Listener

-----------------------------------------------------------------------------
(* Steps of the workers *)

\* Until the user closes a tunnel, a worker's number is open on its connection.
LEMMA OwnNumber ==
    ASSUME Own, ~closed, NEW c \in Conns, Running(c), w[c].pc # "del"
    PROVE  d(c) = c /\ d(c) # None
BY Distinct DEF Own, d

LEMMA SelectStep ==
    ASSUME IInv, Own, ~closed, Flows, NEW c \in Conns, Select(c)
    PROVE  Flows'
<1>1. w[c].pc = "select" /\ WForm /\ UNCHANGED <<file, client, server, down, wire>>
  BY DEF Select, ends, IInv, Shape
<1>2. d(c) # None
  BY <1>1, OwnNumber DEF Running
<1> DEFINE pc == IF Woken(c) THEN "recv" ELSE "read"
<1>3. w' = [w EXCEPT ![c].pc = pc, ![c].isset = SockReady(c)]
  BY <1>2 DEF Select
<1>4. pc \in {"recv", "read"}
  OBVIOUS
<1> HIDE DEF pc
<1>5. w'[c].pc = pc /\ w'[c].buff = w[c].buff /\ \A k \in Conns \ {c} : w'[k] = w[k]
  BY <1>1, <1>3, WorkerPc
<1> QED BY <1>1, <1>4, <1>5, TurnsStep

\* recv() sees the end of the stream when all before it was taken.
LEMMA EndIsLast ==
    ASSUME NEW s \in Seq(Bytes), NEW c \in Conns, NEW k \in Nat, NEW m \in Nat, s # <<>>, Head(s).n = 0
    PROVE  ~Stream(s, c, k, m) /\ (Ended(s, c, k, m) => m = k)
<1>1. PICK l \in Nat : l = Len(s)
  BY LenProperties
<1>2. l # 0
  BY <1>1, EmptySeq
<1>3. Head(s) = s[1] /\ 1 \in 1..l
  BY <1>1, <1>2
<1>4. ASSUME Stream(s, c, k, m) PROVE FALSE
  <2>1. s[1] = Item(c, k + 1) /\ k + 1 # 0
    BY <1>1, <1>3, <1>4 DEF Stream, Run
  <2> QED BY <1>3, <2>1 DEF Item
<1>5. ASSUME Ended(s, c, k, m), m # k PROVE FALSE
  <2>1. 1 \in 1..(m - k)
    BY <1>5 DEF Ended
  <2>2. s[1] = Item(c, k + 1) /\ k + 1 # 0
    BY <1>5, <2>1 DEF Ended
  <2> QED BY <1>3, <2>2 DEF Item
<1> QED BY <1>4, <1>5

\* recv() takes something when it does not see the end of the stream.
LEMMA TakenSome ==
    ASSUME NEW s \in Seq(Bytes), NEW c \in Conns, NEW k \in Nat, NEW m \in Nat,
           s # <<>>, Head(s).n # 0, Stream(s, c, k, m) \/ Ended(s, c, k, m)
    PROVE  Data(s) # <<>>
<1>1. CASE Stream(s, c, k, m)
  BY <1>1, DataOfStream
<1>2. CASE Ended(s, c, k, m)
  <2>1. Stream(Data(s), c, k, m) /\ Data(s) \in Seq(Bytes)
    BY <1>2, DataOfEnded
  <2>2. m # k
    <3>1. PICK l \in Nat : l = Len(s)
      BY LenProperties
    <3>2. l # 0 /\ Head(s) = s[1]
      BY <3>1, EmptySeq
    <3> SUFFICES ASSUME m = k PROVE FALSE
      OBVIOUS
    <3>3. s[1] = Eof(c)
      BY <1>2 DEF Ended
    <3> QED BY <3>2, <3>3 DEF Eof, Item
  <2>3. Len(Data(s)) # 0
    <3>1. PICK l \in Nat : l = Len(Data(s))
      BY <2>1, LenProperties
    <3> QED BY <2>1, <2>2, <3>1 DEF Stream
  <2> QED BY <2>3, EmptySeq
<1> QED BY <1>1, <1>2

\* recv() takes all that waits, or sees the end of it.
LEMMA RecvStep ==
    ASSUME IInv, Socks, Own, ~closed, Flows, NEW c \in Conns, Recv(c)
    PROVE  Flows'
<1>1. /\ w[c].pc = "recv" /\ WForm /\ CForm /\ UNCHANGED <<file, server, down, wire>>
      /\ d(c) = c
  <2>1. w[c].pc = "recv" /\ WForm /\ CForm /\ UNCHANGED <<file, server, down, wire>>
    BY DEF Recv, IInv, Shape
  <2> QED BY <2>1, OwnNumber DEF Running
<1>2. Waiting(c)
  <2>1. Connected(c)
    BY <1>1 DEF Connected, d, Socks, Running
  <2> QED BY <1>1, <2>1 DEF Flows, Flow, Up
<1> DEFINE s == client[c].pending
           k == Len(server[c].got)
           m == client[c].sent
<1>3. s \in Seq(Bytes) /\ k \in Nat /\ m \in Nat
  BY Counts
<1>4. Taken(c) = k
  BY <1>1, <1>3 DEF Taken
<1>5. \A h \in Conns : Held(h)' = Held(h) /\ (Connected(h)' <=> Connected(h))
  BY <1>1, SameHeld DEF Connected
<1>6. SForm' /\ DForm'
  BY <1>1 DEF Flows, SForm, DForm
<1>7. Flow(c)
  BY DEF Flows
<1>8. CASE s # <<>> /\ Head(s).n = 0 /\ WGo(c, "close") /\ UNCHANGED client
  <2>1. w'[c].pc = "close" /\ w'[c].buff = w[c].buff /\ \A h \in Conns \ {c} : w'[h] = w[h]
    BY <1>1, <1>8, WorkerPc DEF WGo
  <2>2. Finished(c) /\ k = m
    BY <1>2, <1>3, <1>4, <1>8, EndIsLast DEF Waiting
  <2>3. Up(c)'
    BY <1>1, <1>7, <1>8, <2>1, <2>2 DEF Flow, Up, Finished
  <2>4. DownSame(c)
    BY <1>1, <1>5, <1>8, <2>1, <2>2 DEF DownSame, Receives, Whole, Finished
  <2>5. Typed(c)'
    BY <1>7, <1>8, <2>1 DEF Flow, Typed
  <2>6. Flow(c)'
    BY <1>7, <2>3, <2>4, <2>5, DownKept DEF Flow
  <2>7. \A h \in Conns \ {c} : Flow(h)'
    <3>1. \A h \in Conns \ {c} : Same(h)
      BY <1>1, <1>5, <1>8, <2>1 DEF Same
    <3> QED BY <3>1, SameKept DEF Flows
  <2> QED BY <1>6, <2>6, <2>7 DEF Flows
<1>9. CASE /\ s # <<>> /\ Head(s).n # 0
           /\ w' = [w EXCEPT ![c].pc = "write", ![c].buff = Data(s)]
           /\ client' = [client EXCEPT ![c].pending = Rest(s)]
  <2> DEFINE a == Data(s)
             b == Rest(s)
  <2>1. /\ a \in Seq(Bytes) /\ b \in Seq(Bytes) /\ Stream(a, c, k, m)
        /\ Finished(c) => Ended(b, c, m, m)
        /\ ~Finished(c) => Stream(b, c, m, m)
    <3>1. CASE Finished(c)
      BY <1>2, <1>3, <1>4, <3>1, DataOfEnded DEF Waiting
    <3>2. CASE ~Finished(c)
      <4>1. Stream(s, c, k, m)
        BY <1>2, <1>4, <3>2 DEF Waiting
      <4>2. a = s /\ b = <<>>
        BY <1>3, <4>1, DataOfStream
      <4> QED BY <1>3, <3>2, <4>1, <4>2, EmptyRun
    <3> QED BY <3>1, <3>2
  <2>0. a # <<>>
    BY <1>2, <1>3, <1>4, <1>9, <2>1, TakenSome DEF Waiting
  <2>2. w' = [w EXCEPT ![c].pc = "write", ![c].buff = a] /\ client' = [client EXCEPT ![c].pending = b]
    BY <1>9
  <2> HIDE DEF a, b, s
  <2>3. w'[c].pc = "write" /\ w'[c].buff = a /\ \A h \in Conns \ {c} : w'[h] = w[h]
    BY <1>1, <2>2, WorkerBuff
  <2>4. /\ client'[c].state = client[c].state /\ client'[c].sent = client[c].sent
        /\ client'[c].pending = b /\ client'[c].got = client[c].got
        /\ \A h \in Conns \ {c} : client'[h] = client[h]
    BY <1>1, <2>2, ClientPending
  <2>5. Up(c)'
    <3>1. m = k + Len(a) /\ Run(a, c, k)
      BY <2>1 DEF Stream
    <3>2. Taken(c)' = m
      BY <1>1, <2>3, <3>1 DEF Taken
    <3>3. Waiting(c)'
      BY <2>1, <2>4, <3>2 DEF Waiting, Finished
    <3>4. client[c].state \notin {"none", "queued"}
      BY <1>1 DEF IInv, Fresh
    <3> QED BY <1>1, <1>7, <2>3, <2>4, <2>0, <3>1, <3>3, <3>4 DEF Flow, Up, Finished
  <2>6. DownSame(c)
    BY <1>1, <1>5, <2>3, <2>4 DEF DownSame, Receives
  <2>7. Typed(c)'
    BY <1>7, <2>1, <2>3, <2>4 DEF Flow, Typed
  <2>8. Flow(c)'
    BY <1>7, <2>5, <2>6, <2>7, DownKept DEF Flow
  <2>9. \A h \in Conns \ {c} : Flow(h)'
    <3>1. \A h \in Conns \ {c} : Same(h)
      BY <1>1, <1>5, <2>3, <2>4 DEF Same
    <3> QED BY <3>1, SameKept DEF Flows
  <2> QED BY <1>6, <2>8, <2>9 DEF Flows
<1> QED BY <1>1, <1>8, <1>9 DEF Recv, Readable

\* What a worker has in its hands has not all been taken.
LEMMA WriteFails ==
    ASSUME IInv, Socks, Own, ~closed, Flows, NEW c \in Conns, w[c].pc = "write"
    PROVE  Len(server[c].got) < client[c].sent
<1>1. Connected(c)
  <2>1. Running(c) /\ w[c].pc # "del"
    BY DEF Running
  <2> QED BY <2>1, OwnNumber DEF Connected, d, Socks
<1>2. Waiting(c) /\ w[c].buff # <<>>
  BY <1>1 DEF Flows, Flow, Up
<1>3. PICK k \in Nat, l \in Nat, m \in Nat :
        k = Len(server[c].got) /\ l = Len(w[c].buff) /\ m = client[c].sent
  BY Counts
<1>4. l # 0
  BY <1>2, <1>3, Counts, EmptySeq
<1>5. Taken(c) = k + l
  BY <1>3 DEF Taken
<1>6. PICK n \in Nat : n = Len(client[c].pending)
  BY Counts, LenProperties
<1>7. k + l <= m
  <2>1. CASE Finished(c)
    <3>1. k + l <= client[c].sent
      BY <1>2, <1>5, <2>1 DEF Waiting, Ended
    <3> QED BY <1>3, <3>1
  <2>2. CASE ~Finished(c)
    <3>1. client[c].sent = (k + l) + Len(client[c].pending)
      BY <1>2, <1>5, <2>2 DEF Waiting, Stream
    <3>2. m = (k + l) + n
      BY <1>3, <1>6, <3>1
    <3> QED BY ONLY <3>2, k \in Nat, l \in Nat, n \in Nat
  <2> QED BY <2>1, <2>2
<1>8. k < m
  BY ONLY <1>4, <1>7, k \in Nat, l \in Nat, m \in Nat
<1> QED BY <1>3, <1>8

\* A write takes a part of the buffer, or finds the channel closed.
LEMMA WriteStep ==
    ASSUME IInv, Socks, Own, ~closed, Flows, NEW c \in Conns, Write(c)
    PROVE  Flows'
<1>1. /\ w[c].pc = "write" /\ WForm /\ UNCHANGED <<file, client, down, wire>>
  BY DEF Write, IInv, Shape
<1> DEFINE buff == w[c].buff
           k == Len(server[c].got)
<1>2. buff \in Seq(Bytes) /\ k \in Nat /\ server[c].got \in Seq(Bytes) /\ Flow(c)
  BY Counts DEF Flows
<1>3. Run(server[c].got, c, 0) /\ Run(buff, c, k)
  BY <1>1, <1>2 DEF Flow, Up
<1>4. \A h \in Conns : Held(h)' = Held(h) /\ (Connected(h)' <=> Connected(h))
  BY <1>1, SameHeld DEF Connected
<1>5. DForm'
  BY <1>1 DEF Flows, DForm
<1>6. ASSUME NEW n \in 1..Len(buff),
             server' = [server EXCEPT ![c].got = @ \o SubSeq(buff, 1, n)],
             WroteRest(c, SubSeq(buff, n + 1, Len(buff)))
      PROVE  Flows'
  <2> DEFINE a == SubSeq(buff, 1, n)
             rest == SubSeq(buff, n + 1, Len(buff))
             got == server[c].got \o a
  <2>1. /\ a \in Seq(Bytes) /\ Len(a) = n /\ Run(a, c, k)
        /\ rest \in Seq(Bytes) /\ Len(rest) = Len(buff) - n /\ Run(rest, c, k + n)
    BY <1>2, <1>3, RunSplit
  <2>2. server' = [server EXCEPT ![c].got = got] /\ WroteRest(c, rest)
    BY <1>6
  <2> HIDE DEF rest, a
  <2>3. got \in Seq(Bytes) /\ Len(got) = k + n /\ Run(got, c, 0)
    <3>1. 0 + k = k
      BY <1>2
    <3>2. Run(a, c, 0 + k)
      BY <2>1, <3>1
    <3> QED BY <1>2, <1>3, <2>1, <3>2, RunConcat
  <2> HIDE DEF got
  <2>4. /\ SForm' /\ server'[c].got = got /\ server'[c].closed = server[c].closed
        /\ server'[c].sent = server[c].sent
        /\ \A h \in Conns \ {c} : server'[h] = server[h]
    BY <2>2, <2>3 DEF Flows, SForm
  <2>5. /\ w'[c].buff = rest /\ \A h \in Conns \ {c} : w'[h] = w[h]
        /\ w'[c].pc \in {"write", "read", "select"} /\ (w'[c].pc # "write" <=> rest = <<>>)
    <3>1. CASE rest # <<>>
      BY <1>1, <2>2, <3>1, WorkerRest DEF WroteRest
    <3>2. CASE rest = <<>>
      <4> DEFINE pc == IF w[c].isset THEN "read" ELSE "select"
      <4>1. w' = [w EXCEPT ![c] = [@ EXCEPT !.buff = rest, !.isset = FALSE, !.pc = pc]]
        BY <2>2, <3>2 DEF WroteRest
      <4>2. pc \in {"read", "select"}
        OBVIOUS
      <4> HIDE DEF pc
      <4>3. w'[c].pc = pc /\ w'[c].buff = rest /\ \A h \in Conns \ {c} : w'[h] = w[h]
        BY <1>1, <4>1, WorkerBuff
      <4> QED BY <3>2, <4>2, <4>3
    <3> QED BY <3>1, <3>2
  <2>6. Up(c)'
    <3>1. PICK l \in Nat : l = Len(buff) /\ n \in 1..l
      BY <1>2, <1>6, LenProperties
    <3>2. Taken(c)' = Taken(c)
      <4>1. Taken(c) = k + l
        BY <1>1, <3>1 DEF Taken
      <4>2. Taken(c)' = (k + n) + (l - n)
        <5>1. Len(rest) = l - n
          BY <2>1, <3>1
        <5>2. CASE w'[c].pc = "write"
          BY <2>3, <2>4, <2>5, <5>1, <5>2 DEF Taken
        <5>3. CASE w'[c].pc # "write"
          <6>1. Len(rest) = 0
            BY <2>5, <5>3, EmptySeq
          <6> QED BY <2>3, <2>4, <5>1, <5>3, <6>1 DEF Taken
        <5> QED BY <5>2, <5>3
      <4>3. (k + n) + (l - n) = k + l
        <5>1. k \in Nat /\ l \in Nat /\ n \in Nat
          BY <1>2, <3>1
        <5> HIDE DEF k, buff
        <5> QED BY ONLY <5>1
      <4> QED BY <4>1, <4>2, <4>3
    <3>3. Waiting(c) => Waiting(c)'
      BY <1>1, <3>2 DEF Waiting, Finished
    <3>4. w'[c].pc = "write" => Run(w'[c].buff, c, Len(server'[c].got)) /\ rest # <<>>
      BY <2>1, <2>3, <2>4, <2>5
    <3> QED BY <1>1, <1>2, <1>4, <2>3, <2>4, <2>5, <3>3, <3>4 DEF Flow, Up, Finished
  <2>7. DownSame(c)
    BY <1>1, <1>4, <2>4, <2>5 DEF DownSame, Receives
  <2>8. Typed(c)'
    BY <1>1, <1>2, <2>1, <2>5 DEF Flow, Typed
  <2>9. Flow(c)'
    BY <1>2, <2>6, <2>7, <2>8, DownKept DEF Flow
  <2>10. \A h \in Conns \ {c} : Flow(h)'
    <3>1. \A h \in Conns \ {c} : Same(h)
      BY <1>1, <1>4, <2>4, <2>5 DEF Same
    <3> QED BY <3>1, SameKept DEF Flows
  <2> QED BY <1>5, <2>4, <2>9, <2>10 DEF Flows
<1>7. CASE /\ server[c].closed /\ UNCHANGED server
           /\ w' = [w EXCEPT ![c].pc = "close", ![c].buff = <<>>]
  <2>1. w'[c].pc = "close" /\ w'[c].buff = <<>> /\ \A h \in Conns \ {c} : w'[h] = w[h]
    BY <1>1, <1>7, WorkerBuff
  <2>2. Up(c)'
    BY <1>1, <1>2, <1>7, <2>1 DEF Flow, Up, Finished
  <2>3. DownSame(c)
    <3>1. k < client[c].sent
      BY <1>1, <1>2, <1>7, WriteFails
    <3>2. Whole(c)'
      BY <1>1, <1>7, <3>1 DEF Whole
    <3> QED BY <1>1, <1>4, <1>7, <2>1, <3>2 DEF DownSame, Receives
  <2>4. Typed(c)'
    BY <1>1, <1>2, <2>1, EmptySeq DEF Flow, Typed
  <2>5. Flow(c)'
    BY <1>2, <2>2, <2>3, <2>4, DownKept DEF Flow
  <2>6. \A h \in Conns \ {c} : Flow(h)'
    <3>1. \A h \in Conns \ {c} : Same(h)
      BY <1>1, <1>4, <1>7, <2>1 DEF Same
    <3> QED BY <3>1, SameKept DEF Flows
  <2>7. SForm'
    BY <1>7 DEF Flows, SForm
  <2> QED BY <1>5, <2>5, <2>6, <2>7 DEF Flows
<1> QED BY <1>6, <1>7 DEF Write

\* A read takes what libssh2 holds for the channel, or sees its end.
LEMMA ReadStep ==
    ASSUME IInv, Flows, NEW c \in Conns, Read(c)
    PROVE  Flows'
<1> DEFINE s == Sorted[c]
           a == Data(s)
           b == Rest(s)
           pc == IF a # <<>> THEN "send" ELSE IF s # <<>> THEN "close" ELSE "select"
           m == server[c].sent
<1>1. /\ w[c].pc = "read" /\ WForm /\ UNCHANGED <<file, client, server>>
      /\ wire' = Nothing /\ down' = [Sorted EXCEPT ![c] = b]
      /\ w' = [w EXCEPT ![c] = [@ EXCEPT !.isset = FALSE, !.buff = a, !.pc = pc]]
  BY DEF Read, IInv, Shape
<1>2. Sorted \in [Conns -> Seq(Bytes)] /\ Nothing \in [Conns -> Seq(Bytes)]
      /\ s = Held(c) /\ s \in Seq(Bytes) /\ \A h \in Conns : Nothing[h] = <<>>
  BY <1>1, SortedIs DEF Flows, Running
<1>3. Flow(c) /\ m \in Nat /\ Passed(c) \in Nat
  BY Counts DEF Flows
<1>4. pc \in {"send", "close", "select"}
  OBVIOUS
<1> HIDE DEF s, pc
\* What was held from k on is in the worker's hands, and the end of it is left.
<1>5. ASSUME NEW k \in Nat, HeldFrom(c, k)
      PROVE  /\ a \in Seq(Bytes) /\ Stream(a, c, k, m) /\ b \in Seq(Bytes)
             /\ server[c].closed => Ended(b, c, m, m)
             /\ ~server[c].closed => Stream(b, c, m, m) /\ (a = <<>> => s = <<>>)
  <2>1. CASE server[c].closed
    <3>1. Ended(s, c, k, m)
      BY <1>2, <1>5, <2>1 DEF HeldFrom
    <3> QED BY <1>2, <1>3, <2>1, <3>1, DataOfEnded
  <2>2. CASE ~server[c].closed
    <3>1. Stream(s, c, k, m)
      BY <1>2, <1>5, <2>2 DEF HeldFrom
    <3>2. a = s /\ b = <<>>
      BY <1>2, <1>3, <3>1, DataOfStream
    <3> QED BY <1>2, <1>3, <2>2, <3>1, <3>2, EmptyRun
  <2> QED BY <2>1, <2>2
<1>6. PICK k0 \in Nat : HeldFrom(c, k0)
  BY <1>1, <1>3 DEF Flow, Down
<1>7. a \in Seq(Bytes) /\ b \in Seq(Bytes) /\ (pc = "close" => server[c].closed) /\ (pc = "send" <=> a # <<>>)
  BY <1>5, <1>6 DEF pc
<1> HIDE DEF a, b
<1>8. w'[c].pc = pc /\ w'[c].buff = a /\ \A h \in Conns \ {c} : w'[h] = w[h]
  BY <1>1, WorkerBuff
<1>9. /\ DForm' /\ down'[c] = b
      /\ \A h \in Conns \ {c} : down'[h] = Sorted[h] /\ wire'[h] = <<>>
  BY <1>1, <1>2, <1>7 DEF DForm
<1>10. Held(c)' = b
  <2>1. wire'[c] = <<>> /\ b \o <<>> = b
    BY <1>1, <1>2, <1>7, ConcatEmptySeq
  <2> QED BY <1>9, <2>1 DEF Held
<1>11. Up(c)'
  <2>1. CASE pc = "close"
    <3>1. client[c].state \in {"none", "queued"} => client[c].sent = 0 /\ client[c].pending = <<>>
      BY <1>3 DEF Flow, Up
    <3> QED BY <1>1, <1>3, <1>7, <1>8, <2>1, <3>1 DEF Flow, Up, Finished
  <2>2. CASE pc # "close"
    <3>1. UpSame(c)
      BY <1>1, <1>4, <1>8, <2>2 DEF UpSame, Connected
    <3> QED BY <1>3, <3>1, UpKept DEF Flow
  <2> QED BY <2>1, <2>2
<1>12. HeldFrom(c, m)'
  BY <1>1, <1>5, <1>6, <1>10 DEF HeldFrom
<1>13. Down(c)'
  <2>1. ASSUME Receives(c)
        PROVE  HeldFrom(c, Passed(c))' /\ (w'[c].pc = "send" => Run(w'[c].buff, c, Len(client'[c].got)))
    <3> DEFINE k == Len(client[c].got)
    <3>1. Passed(c) = k /\ k \in Nat
      BY <1>1, Counts DEF Passed
    <3>2. HeldFrom(c, k)
      BY <1>3, <2>1, <3>1 DEF Flow, Down
    <3>3. m = k + Len(a) /\ Run(a, c, k)
      BY <1>5, <3>1, <3>2 DEF Stream
    <3>4. Passed(c)' = m
      <4>1. CASE pc = "send"
        BY <1>1, <1>8, <3>3, <4>1 DEF Passed
      <4>2. CASE pc # "send"
        <5>1. Len(a) = 0
          BY <1>7, <4>2, EmptySeq
        <5> QED BY <1>1, <1>8, <3>1, <3>3, <4>2, <5>1 DEF Passed
      <4> QED BY <4>1, <4>2
    <3> QED BY <1>1, <1>8, <1>12, <3>3, <3>4
  <2>2. w'[c].pc # "none" /\ UNCHANGED client
    BY <1>1, <1>4, <1>8
  <2>3. Run(client[c].got, c, 0)
    BY <1>3 DEF Flow, Down
  <2>4. client'[c] = client[c] /\ \E k \in Nat : HeldFrom(c, k)'
    <3>1. PICK k \in Nat : k = m
      BY <1>3
    <3>2. HeldFrom(c, k)'
      BY <1>1, <1>5, <1>6, <1>10, <3>1 DEF HeldFrom
    <3> QED BY <2>2, <3>2
  <2>5. Receives(c)' =>
          HeldFrom(c, Passed(c))' /\ (w'[c].pc = "send" => Run(w'[c].buff, c, Len(client'[c].got)))
    BY <2>1, <2>2 DEF Receives
  <2>6. Run(client'[c].got, c, 0) /\ w'[c].pc # "none"
    BY <2>2, <2>3
  <2>7. w'[c].pc = "close" => Whole(c)'
    <3>1. SUFFICES ASSUME pc = "close" PROVE Whole(c)'
      BY <1>8
    <3>2. CASE Receives(c)
      <4> DEFINE k == Len(client[c].got)
      <4>1. Passed(c) = k /\ k \in Nat
        BY <1>1, Counts DEF Passed
      <4>2. HeldFrom(c, k)
        BY <1>3, <3>2, <4>1 DEF Flow, Down
      <4>3. m = k + Len(a)
        BY <1>5, <4>1, <4>2 DEF Stream
      <4>4. Len(a) = 0
        BY <1>7, <3>1, EmptySeq
      <4>5. server[c].closed /\ m = k
        BY <1>7, <3>1, <4>1, <4>3, <4>4
      <4> QED BY <1>1, <4>5 DEF Whole
    <3>3. CASE ~Receives(c)
      <4>1. client[c].state \notin {"none", "queued"}
        BY <1>1 DEF IInv, Fresh
      <4>2. Finished(c)
        BY <1>3, <3>3, <4>1 DEF Flow, Typed, Finished, Receives
      <4> QED BY <1>1, <4>2 DEF Whole, Finished
    <3> QED BY <3>2, <3>3
  <2> QED BY <2>4, <2>5, <2>6, <2>7 DEF Down
<1>14. Typed(c)'
  BY <1>1, <1>3, <1>7, <1>8 DEF Flow, Typed
<1>15. ASSUME NEW h \in Conns \ {c} PROVE Flow(h)'
  BY <1>1, <1>8, <1>9, SortedKept
<1>16. SForm'
  BY <1>1 DEF Flows, SForm
<1> QED BY <1>9, <1>11, <1>13, <1>14, <1>15, <1>16 DEF Flows, Flow

\* What is sent to a client that is there is what follows; what is sent to another
\* is lost.
LEMMA SendStep ==
    ASSUME IInv, Own, ~closed, Flows, NEW c \in Conns, Send(c)
    PROVE  Flows'
<1>1. /\ w[c].pc = "send" /\ WForm /\ CForm /\ UNCHANGED <<file, server, down, wire>>
      /\ w' = [w EXCEPT ![c].pc = "read", ![c].buff = <<>>]
      /\ d(c) = c
  <2>1. w[c].pc = "send"
    BY DEF Send
  <2>2. d(c) = c
    BY <2>1, OwnNumber DEF Running
  <2> QED BY <2>1, <2>2 DEF Send, IInv, Shape
<1>2. w'[c].pc = "read" /\ w'[c].buff = <<>> /\ \A h \in Conns \ {c} : w'[h] = w[h]
  BY <1>1, WorkerBuff
<1>3. \A h \in Conns : Held(h)' = Held(h) /\ (Connected(h)' <=> Connected(h))
  BY <1>1, SameHeld DEF Connected
<1>4. SForm' /\ DForm'
  BY <1>1 DEF Flows, SForm, DForm
<1> DEFINE k == Len(client[c].got)
           got == client[c].got \o w[c].buff
<1>5. /\ Flow(c) /\ k \in Nat /\ w[c].buff \in Seq(Bytes) /\ client[c].got \in Seq(Bytes)
      /\ Passed(c) \in Nat
  BY Counts DEF Flows
<1>6. PICK k0 \in Nat : HeldFrom(c, k0)
  BY <1>1, <1>5 DEF Flow, Down
<1>7. \A n \in Nat : HeldFrom(c, n) => HeldFrom(c, n)'
  BY <1>1, <1>3 DEF HeldFrom
<1>8. CASE Receives(c)
  <2>1. client' = [client EXCEPT ![c].got = got]
    BY <1>1, <1>8 DEF Send
  <2>2. Run(client[c].got, c, 0) /\ Run(w[c].buff, c, k) /\ HeldFrom(c, Passed(c))
    BY <1>1, <1>5, <1>8 DEF Flow, Down
  <2>3. got \in Seq(Bytes) /\ Len(got) = k + Len(w[c].buff) /\ Run(got, c, 0)
    <3>1. 0 + k = k
      BY <1>5
    <3>2. Run(w[c].buff, c, 0 + k)
      BY <2>2, <3>1
    <3> QED BY <1>5, <2>2, <3>2, RunConcat
  <2> HIDE DEF got
  <2>4. /\ client'[c].state = client[c].state /\ client'[c].sent = client[c].sent
        /\ client'[c].pending = client[c].pending /\ client'[c].got = got
        /\ \A h \in Conns \ {c} : client'[h] = client[h]
    BY <1>1, <2>1, ClientGot
  <2>5. Up(c)'
    <3>1. UpSame(c)
      BY <1>1, <1>2, <1>3, <2>4 DEF UpSame
    <3> QED BY <1>5, <3>1, UpKept DEF Flow
  <2>6. Passed(c)' = Passed(c)
    <3>1. Passed(c) = k + Len(w[c].buff)
      BY <1>1 DEF Passed
    <3>2. Passed(c)' = Len(got) + 0
      BY <1>2, <2>4 DEF Passed
    <3>3. Len(got) \in Nat
      BY <2>3, LenProperties
    <3> QED BY <2>3, <3>1, <3>2, <3>3
  <2>7. Down(c)'
    BY <1>2, <1>5, <1>6, <1>7, <2>2, <2>3, <2>4, <2>6 DEF Down, Receives
  <2>8. Typed(c)'
    BY <1>2, <1>5, <2>3, <2>4, EmptySeq DEF Flow, Typed
  <2>9. \A h \in Conns \ {c} : Same(h)
    BY <1>1, <1>2, <1>3, <2>4 DEF Same
  <2> QED BY <1>4, <2>5, <2>7, <2>8, <2>9, SameKept DEF Flows, Flow
<1>9. CASE ~Receives(c)
  <2>1. UNCHANGED client
    BY <1>1, <1>9 DEF Send
  <2>2. Up(c)'
    <3>1. UpSame(c)
      BY <1>1, <1>2, <1>3, <2>1 DEF UpSame
    <3> QED BY <1>5, <3>1, UpKept DEF Flow
  <2>3. Down(c)'
    BY <1>2, <1>5, <1>6, <1>7, <1>9, <2>1 DEF Flow, Down, Receives
  <2>4. Typed(c)'
    BY <1>2, <1>5, <2>1, EmptySeq DEF Flow, Typed
  <2>5. \A h \in Conns \ {c} : Same(h)
    BY <1>1, <1>2, <1>3, <2>1 DEF Same
  <2> QED BY <1>4, <2>2, <2>3, <2>4, <2>5, SameKept DEF Flows, Flow
<1> QED BY <1>8, <1>9

\* A worker that is to close has either sent all on or has no one to send to.
LEMMA CloseStep ==
    ASSUME IInv, Files, Socks, Own, ~closed, Flows, NEW c \in Conns, Close(c)
    PROVE  Flows'
<1> DEFINE n == w[c].sock
<1>1. /\ w[c].pc = "close" /\ WForm /\ CForm /\ n \in Numbers /\ file[n] = c
      /\ closesocket(n) /\ UNCHANGED server
      /\ w' = [w EXCEPT ![c] = [@ EXCEPT !.pc = "del", !.isset = FALSE, !.buff = <<>>]]
      /\ down' = [down EXCEPT ![c] = <<>>] /\ wire' = [wire EXCEPT ![c] = <<>>]
  <2>1. w[c].pc = "close"
    BY DEF Close
  <2>2. n \in Numbers /\ d(c) = c
    BY <2>1, OwnNumber DEF Running, Socks
  <2> QED BY <2>1, <2>2 DEF Close, IInv, Shape, d
<1> HIDE DEF n
<1>2. w'[c].pc = "del" /\ w'[c].buff = <<>> /\ \A h \in Conns \ {c} : w'[h] = w[h]
  <2>1. WForm /\ w' = [w EXCEPT ![c] = [@ EXCEPT !.pc = "del", !.isset = FALSE, !.buff = <<>>]]
    BY <1>1
  <2> QED BY <2>1, WorkerBuff
<1>3. /\ client'[c].state = "closed" /\ client'[c].sent = client[c].sent
      /\ client'[c].pending = <<>> /\ client'[c].got = client[c].got
      /\ \A h \in Conns \ {c} : client'[h] = client[h]
  BY <1>1, ClientClosed DEF closesocket
<1>4. /\ ~Connected(c)'
      /\ \A h \in Conns : Connected(h)' => Connected(h)
  BY <1>1, Disconnected, OnlyConnected, Distinct DEF closesocket
<1>5. /\ DForm' /\ \A h \in Conns \ {c} : down'[h] = down[h] /\ wire'[h] = wire[h]
  <2>1. <<>> \in Seq(Bytes)
    BY EmptySeq
  <2> QED BY <1>1, <2>1 DEF Flows, DForm
<1>6. SForm'
  BY <1>1 DEF Flows, SForm
<1>7. Flow(c)
  BY DEF Flows
<1>8. Typed(c)'
  BY <1>2, <1>3, <1>7, EmptySeq DEF Flow, Typed
<1>9. Up(c)'
  BY <1>1, <1>2, <1>3, <1>4, <1>7 DEF Flow, Up, Finished
<1>10. Down(c)'
  <2>1. DownSame(c)
    BY <1>1, <1>2, <1>3 DEF DownSame, Receives
  <2> QED BY <1>7, <2>1, DownKept DEF Flow
<1>11. \A h \in Conns \ {c} : Flow(h)'
  <2>1. \A h \in Conns \ {c} : Same(h)
    BY <1>1, <1>2, <1>3, <1>4, <1>5 DEF Same, Held
  <2> QED BY <2>1, SameKept DEF Flows
<1> QED BY <1>5, <1>6, <1>8, <1>9, <1>10, <1>11 DEF Flows, Flow

LEMMA DelStep ==
    ASSUME IInv, Flows, NEW c \in Conns, Del(c)
    PROVE  Flows'
<1>1. /\ w[c].pc = "del" /\ WForm /\ UNCHANGED <<file, client, server, down, wire>>
      /\ w' = [w EXCEPT ![c] = [@ EXCEPT !.pc = "gone", !.sock = None]]
  BY DEF Del, IInv, Shape, ends
<1>2. w'[c].pc = "gone" /\ w'[c].buff = w[c].buff /\ \A h \in Conns \ {c} : w'[h] = w[h]
  BY <1>1, WorkerStarts
<1>3. \A h \in Conns : Held(h)' = Held(h) /\ (Connected(h)' <=> Connected(h))
  BY <1>1, SameHeld DEF Connected
<1>4. SForm' /\ DForm'
  BY <1>1 DEF Flows, SForm, DForm
<1>5. Flow(c)
  BY DEF Flows
<1>6. Up(c)'
  <2>1. Taken(c)' = Taken(c)
    BY <1>1, <1>2 DEF Taken
  <2>2. Waiting(c) => Waiting(c)'
    BY <1>1, <2>1 DEF Waiting, Finished
  <2> QED BY <1>1, <1>2, <1>3, <1>5, <2>2 DEF Flow, Up, Finished
<1>7. Down(c)'
  <2>1. DownSame(c)
    BY <1>1, <1>2, <1>3 DEF DownSame, Receives
  <2> QED BY <1>5, <2>1, DownKept DEF Flow
<1>8. Typed(c)'
  BY <1>1, <1>2, <1>5 DEF Flow, Typed
<1>9. \A h \in Conns \ {c} : Flow(h)'
  <2>1. \A h \in Conns \ {c} : Same(h)
    BY <1>1, <1>2, <1>3 DEF Same
  <2> QED BY <2>1, SameKept DEF Flows
<1> QED BY <1>4, <1>6, <1>7, <1>8, <1>9 DEF Flows, Flow

-----------------------------------------------------------------------------
(* Streams are intact *)

LEMMA FlowStep ==
    ASSUME IInv, JInv, FInv, Next
    PROVE  FInv'
<1>1. SUFFICES ASSUME ~closed' PROVE Flows'
  BY DEF FInv
<1>2. Files /\ Socks /\ Own
  BY DEF JInv
<1>3. Shape
  BY DEF IInv
<1>4. CASE tun \/ tunAgain
  BY <1>1, <1>4 DEF tun, tunAgain, JInv, Once
<1>5. CASE Listen \/ ForwardListen \/ Listener
  <2>1. ~closed
    BY <1>1, <1>5 DEF Listen, ForwardListen, Listener, Accept, AcceptFails, OpenChannel,
                      ForwardAccept, ListenerCloses, ListenerDel
  <2> QED BY <1>2, <1>5, <2>1, ListenerStep DEF FInv
<1>6. CASE MainReads
  <2>1. ~closed
    BY <1>1, <1>6 DEF MainReads
  <2> QED BY <1>6, <2>1, MainStep DEF FInv
<1>7. ASSUME NEW c \in Conns,
             \/ ClientConnects(c) \/ ClientSends(c) \/ ClientShuts(c) \/ ClientCloses(c)
             \/ ServerSends(c) \/ ServerCloses(c)
      PROVE  Flows'
  <2>1. ~closed
    BY <1>1, <1>7 DEF ClientConnects, ClientSends, ClientShuts, ClientCloses, ServerSends, ServerCloses
  <2> QED BY <1>3, <1>7, <2>1, ClientConnectsStep, ClientSendsStep, ClientClosesStep,
             ServerSendsStep, ServerClosesStep DEF FInv
<1>8. ASSUME NEW c \in Conns, Worker(c) PROVE Flows'
  <2>1. ~closed
    BY <1>1, <1>8 DEF Worker, Select, Recv, Write, Read, Send, Close, Del
  <2> QED BY <1>2, <1>8, <2>1, SelectStep, RecvStep, WriteStep, ReadStep, SendStep,
             CloseStep, DelStep DEF FInv, Worker
<1> QED BY <1>4, <1>5, <1>6, <1>7, <1>8 DEF Next

\* What the ends of a connection sent is in order between them, with nothing of
\* another connection, until the user closes a tunnel.
THEOREM BytesInOrder == Spec => []FInv
<1>1. Init => FInv
  <2> SUFFICES ASSUME Init PROVE Flows
    BY DEF FInv
  <2>1. \A c \in Conns :
          /\ w[c].pc = "none" /\ w[c].buff = <<>>
          /\ client[c].state = "none" /\ client[c].sent = 0
          /\ client[c].pending = <<>> /\ client[c].got = <<>>
          /\ server[c].sent = 0 /\ ~server[c].closed /\ server[c].got = <<>>
    BY DEF Init
  <2>2. SForm /\ DForm
    BY EmptySeq DEF Init, SForm, DForm, Nothing
  <2>3. \A c \in Conns : Held(c) = <<>>
    <3>1. \A c \in Conns : down[c] = <<>> /\ wire[c] = <<>>
      BY DEF Init, Nothing
    <3>2. <<>> \in Seq(Bytes) /\ <<>> \o <<>> = <<>>
      BY EmptySeq, ConcatEmptySeq
    <3> QED BY <3>1, <3>2 DEF Held
  <2>4. ASSUME NEW c \in Conns PROVE Flow(c)
    <3>1. Typed(c)
      <4>1. <<>> \in Seq(Bytes) /\ 0 \in Nat
        BY EmptySeq
      <4> QED BY <2>1, <4>1 DEF Typed
    <3>2. Run(<<>>, c, 0) /\ Stream(<<>>, c, 0, 0)
      BY EmptyRun
    <3>3. ~Connected(c)
      BY Distinct DEF Init, Connected
    <3>4. Up(c)
      BY <2>1, <3>2, <3>3 DEF Up, Finished
    <3>5. HeldFrom(c, 0)
      BY <2>1, <2>3, <3>2 DEF HeldFrom
    <3>6. Down(c)
      BY <2>1, <2>3, <3>2, <3>5 DEF Down, Receives
    <3> QED BY <3>1, <3>4, <3>6 DEF Flow
  <2> QED BY <2>2, <2>4 DEF Flows
<1>2. FInv /\ UNCHANGED vars => FInv'
  <2> SUFFICES ASSUME FInv, UNCHANGED vars, ~closed' PROVE Flows'
    BY DEF FInv
  <2>1. ~closed /\ UNCHANGED <<w, ends, file>>
    BY DEF vars
  <2> QED BY <2>1, QuietStep DEF FInv, Connected
<1>3. IInv /\ JInv /\ FInv /\ [Next]_vars => FInv'
  BY <1>2, FlowStep
<1> QED BY <1>1, <1>3, ListMatches, LatestIsOpen, PTL DEF Spec

\* What comes out of a tunnel at either end is what went into it, in its order and
\* without anything of another tunnel, until the user closes one.  When a worker
\* leaves, the host has all the client sent, or had closed the channel; and the
\* client has all the host sent, unless the client had ended its own stream or the
\* host did not take all of it: only then is what the host sent dropped (839-877).
THEOREM NothingMixed == Spec => []StreamsIntact
<1>1. ASSUME FInv PROVE StreamsIntact
  <2>1. SUFFICES ASSUME ~closed, NEW c \in Conns
                 PROVE  /\ IsStream(c, server[c].got) /\ IsStream(c, client[c].got)
                        /\ w[c].pc = "del" =>
                              \/ Len(server[c].got) = client[c].sent
                              \/ server[c].closed
                        /\ w[c].pc = "close" =>
                              \/ Len(client[c].got) = server[c].sent
                              \/ Finished(c)
                              \/ Len(server[c].got) < client[c].sent
    BY DEF StreamsIntact
  <2>2. Flow(c) /\ Flows
    BY <1>1, <2>1 DEF FInv, Flows
  <2>3. ASSUME NEW s \in Seq(Bytes), Run(s, c, 0) PROVE IsStream(c, s)
    BY <2>3 DEF Run, IsStream
  <2>4. IsStream(c, server[c].got) /\ IsStream(c, client[c].got)
    BY <2>1, <2>2, <2>3, Counts DEF Flow, Up, Down
  <2> QED BY <2>2, <2>4 DEF Flow, Up, Down, Whole
<1> QED BY <1>1, BytesInOrder, PTL
=============================================================================
