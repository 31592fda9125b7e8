------------------------------ MODULE Tunnels ------------------------------
(***************************************************************************)
(* The ssh tunnels of an sshHost: a thread that listens for each tunnel,   *)
(* a worker for each connection through it, and the list they share with   *)
(* the "!tun" command.  A socket is known by its number, and the system    *)
(* gives the lowest free number to the next socket: a number in the list,  *)
(* or in a worker's hands, names whatever is open on it now.               *)
(*                                                                         *)
(* The session outlives its tunnels here.  The main reader and the workers *)
(* read one TCP stream, wire, and whoever reads sorts all of it by channel.*)
(***************************************************************************)
EXTENDS Integers, Sequences, SequencesExt, FiniteSets, FiniteSetsExt

CONSTANTS
    Conns,      \* the connections made through tunnels, numbers
    Remote,     \* those that come from the host, to a service here
    Halves,     \* those whose client may end its stream and go on receiving
    MaxItems,   \* bound: what the ends of all connections send together
    MaxClosed,  \* bound: the same where the user closes a tunnel
    Lower       \* the numbers below that of the session's socket

ASSUME TunnelsAssumption ==
    /\ Conns \subseteq Nat \ {0} /\ IsFiniteSet(Conns)
    /\ Remote \subseteq Conns /\ Halves \subseteq Conns
    /\ MaxItems \in Nat /\ MaxClosed \in 0..MaxItems

Listeners == {"local", "remote"}
Numbers == 1..(Cardinality(Conns) + 1)
None == 0
Listening == -1

VARIABLES
    file,           \* file[n]: the connection n is open on, None or Listening
    tunnel_list,
    lis,            \* tun_local and tun_remote
    w,              \* the workers
    client, server, \* the two ends of each connection
    down,           \* what libssh2 holds for each channel
    wire,           \* what the session's socket holds
    closed,         \* history: the user has closed a tunnel
    again           \* what "!tun n" is still to close, with tunnel_mtx held

ends == <<client, server, down, wire>>
vars == <<file, tunnel_list, lis, w, ends, closed, again>>

Item(c, n) == [of |-> c, n |-> n]
Eof(c) == Item(c, 0)
Items == [of: Conns, n: 0..MaxItems]
FreeNumber == CHOOSE n \in Numbers : file[n] = None /\ \A k \in 1..(n - 1) : file[k] # None

TypeOK ==
    /\ file \in [Numbers -> Conns \cup {None, Listening}]
    /\ tunnel_list \in Seq([socket: Numbers, channel: Conns \cup {None}])
    /\ lis \in [Listeners -> [pc: {"none", "accept", "channel", "shutdown", "del", "gone"},
                              sock: Numbers \cup {None}, tun: Numbers \cup {None},
                              conn: Conns \cup {None}]]
    /\ w \in [Conns -> [pc: {"none", "select", "recv", "write", "read", "send", "close", "del", "gone"},
                        sock: Numbers \cup {None}, isset: BOOLEAN, buff: Seq(Items)]]
    /\ client \in [Conns -> [state: {"none", "queued", "open", "shut", "closed"}, sent: 0..MaxItems,
                             pending: Seq(Items), got: Seq(Items)]]
    /\ server \in [Conns -> [sent: 0..MaxItems, closed: BOOLEAN, got: Seq(Items)]]
    /\ {down, wire} \subseteq [Conns -> Seq(Items)]
    /\ closed \in BOOLEAN /\ again \in Seq(Numbers)

Nothing == [c \in Conns |-> <<>>]

Init ==
    /\ file = [n \in Numbers |-> None]
    /\ tunnel_list = <<>>
    /\ lis = [l \in Listeners |-> [pc |-> "none", sock |-> None, tun |-> None, conn |-> None]]
    /\ w = [c \in Conns |-> [pc |-> "none", sock |-> None, isset |-> FALSE, buff |-> <<>>]]
    /\ client = [c \in Conns |-> [state |-> "none", sent |-> 0, pending |-> <<>>, got |-> <<>>]]
    /\ server = [c \in Conns |-> [sent |-> 0, closed |-> FALSE, got |-> <<>>]]
    /\ down = Nothing /\ wire = Nothing
    /\ closed = FALSE /\ again = <<>>

----------------------------------------------------------------------------
(* The ends of a connection, and the session's socket *)

Running(c) == w[c].pc \notin {"none", "gone"}
Receives(c) == client[c].state \in {"open", "shut"}
Finished(c) == client[c].state \in {"shut", "closed"}

Sent == MapThenSumSet(LAMBDA c : client[c].sent + server[c].sent, Conns)
MaySend == Sent < IF closed THEN MaxClosed ELSE MaxItems

ClientConnects(c) ==
    /\ c \notin Remote /\ client[c].state = "none"
    /\ \E n \in Numbers : file[n] = Listening
    /\ client' = [client EXCEPT ![c].state = "queued"]
    /\ UNCHANGED <<file, tunnel_list, lis, w, server, down, wire, closed, again>>

\* What a client sends or the end of its stream waits in the socket.
ClientSends(c) ==
    /\ client[c].state = "open" /\ MaySend
    /\ client' = [client EXCEPT ![c].sent = @ + 1,
                                ![c].pending = Append(@, Item(c, client[c].sent + 1))]
    /\ UNCHANGED <<file, tunnel_list, lis, w, server, down, wire, closed, again>>

\* A client that has sent all it had may end its stream and still receive, or close.
ClientShuts(c) ==
    /\ c \in Halves /\ client[c].state = "open"
    /\ client' = [client EXCEPT ![c].state = "shut", ![c].pending = Append(@, Eof(c))]
    /\ UNCHANGED <<file, tunnel_list, lis, w, server, down, wire, closed, again>>

ClientCloses(c) ==
    /\ Receives(c)
    /\ client' = [client EXCEPT ![c].state = "closed",
                                ![c].pending = IF Finished(c) THEN @ ELSE Append(@, Eof(c))]
    /\ UNCHANGED <<file, tunnel_list, lis, w, server, down, wire, closed, again>>

ServerSends(c) ==
    /\ Running(c) /\ ~server[c].closed /\ MaySend
    /\ server' = [server EXCEPT ![c].sent = @ + 1]
    /\ wire' = [wire EXCEPT ![c] = Append(@, Item(c, server[c].sent + 1))]
    /\ UNCHANGED <<file, tunnel_list, lis, w, client, down, closed, again>>

ServerCloses(c) ==
    /\ Running(c) /\ ~server[c].closed
    /\ server' = [server EXCEPT ![c].closed = TRUE]
    /\ wire' = [wire EXCEPT ![c] = Append(@, Eof(c))]
    /\ UNCHANGED <<file, tunnel_list, lis, w, client, down, closed, again>>

\* Any libssh2 read takes all that has come and sorts it by channel.
Sorted == [c \in Conns |-> IF Running(c) THEN down[c] \o wire[c] ELSE <<>>]

\* sshHost::read, in its loop.
MainReads ==
    /\ wire # Nothing
    /\ wire' = Nothing /\ down' = Sorted
    /\ UNCHANGED <<file, tunnel_list, lis, w, client, server, closed, again>>

----------------------------------------------------------------------------
(* The list, with tunnel_mtx *)

\* Slip: a new tunnel is listed first.
tun_add_AtFront(n, c) ==
    again = <<>> /\ tunnel_list' = <<[socket |-> n, channel |-> c]>> \o tunnel_list

tun_add(n, c) == again = <<>> /\ tunnel_list' = Append(tunnel_list, [socket |-> n, channel |-> c])

\* Slip: the loop over the list goes on after the number is found.
tun_del_All(n) == again = <<>> /\ tunnel_list' = SelectSeq(tunnel_list, LAMBDA t : t.socket # n)

\* The first tunnel with that number goes.
tun_del(n) ==
    /\ again = <<>>
    /\ tunnel_list' = IF \E i \in DOMAIN tunnel_list : tunnel_list[i].socket = n
                      THEN RemoveAt(tunnel_list, SelectInSeq(tunnel_list, LAMBDA t : t.socket = n))
                      ELSE tunnel_list

\* closesocket(): whatever is open on the number; the client sees its end.
closesocket(n) ==
    /\ file' = [file EXCEPT ![n] = None]
    /\ client' = IF file[n] \in Conns THEN [client EXCEPT ![file[n]].state = "closed", ![file[n]].pending = <<>>]
               ELSE client

----------------------------------------------------------------------------
(* tun_local and tun_remote *)

LisGo(l, pc) == lis' = [lis EXCEPT ![l].pc = pc]

\* socket, bind, listen and tun_add.
Listen ==
    /\ lis["local"].pc = "none"
    /\ file' = [file EXCEPT ![FreeNumber] = Listening]
    /\ tun_add(FreeNumber, None)
    /\ lis' = [lis EXCEPT !["local"] = [@ EXCEPT !.pc = "accept", !.sock = FreeNumber]]
    /\ UNCHANGED <<w, ends, closed, again>>

\* tun_remote has the host listen, which is not listed.
ForwardListen ==
    /\ lis["remote"].pc = "none" /\ Remote # {}
    /\ LisGo("remote", "accept")
    /\ UNCHANGED <<file, tunnel_list, w, ends, closed, again>>

Accept ==
    /\ lis["local"].pc = "accept" /\ file[lis["local"].sock] = Listening
    /\ \E c \in Conns :
          /\ client[c].state = "queued"
          /\ file' = [file EXCEPT ![FreeNumber] = c]
          /\ client' = [client EXCEPT ![c].state = "open"]
          /\ lis' = [lis EXCEPT !["local"] = [@ EXCEPT !.pc = "channel", !.tun = FreeNumber, !.conn = c]]
    /\ UNCHANGED <<tunnel_list, w, server, down, wire, closed, again>>

\* The number has been closed, and perhaps taken by a connection since.
AcceptFails ==
    /\ lis["local"].pc = "accept" /\ file[lis["local"].sock] # Listening
    /\ LisGo("local", "shutdown")
    /\ UNCHANGED <<file, tunnel_list, w, ends, closed, again>>

\* A tunnel is listed and its worker started.
StartWorker(n, c) ==
    /\ tun_add(n, c)
    /\ w' = [w EXCEPT ![c] = [@ EXCEPT !.pc = "select", !.sock = n]]

\* direct_tcpip: again while it would block; one refusal ends the listener.
OpenChannel ==
    /\ lis["local"].pc = "channel"
    /\ LET l == lis["local"]
       IN  \/ /\ StartWorker(l.tun, l.conn)
              /\ lis' = [lis EXCEPT !["local"] = [@ EXCEPT !.pc = "accept", !.tun = None, !.conn = None]]
              /\ UNCHANGED <<file, client>>
           \/ /\ closesocket(l.tun)
              /\ lis' = [lis EXCEPT !["local"] = [@ EXCEPT !.pc = "shutdown", !.tun = None, !.conn = None]]
              /\ UNCHANGED <<tunnel_list, w>>
    /\ UNCHANGED <<server, down, wire, closed, again>>

\* A channel comes from the host, and a socket is connected to the service; when
\* it cannot be, the thread ends and leaves the channel open.
ForwardAccept ==
    /\ lis["remote"].pc = "accept"
    /\ \E c \in Remote :
          /\ client[c].state = "none"
          /\ \/ /\ file' = [file EXCEPT ![FreeNumber] = c]
                /\ client' = [client EXCEPT ![c].state = "open"]
                /\ StartWorker(FreeNumber, c)
                /\ UNCHANGED lis
             \/ /\ LisGo("remote", "gone")
                /\ UNCHANGED <<file, client, tunnel_list, w>>
    /\ UNCHANGED <<server, down, wire, closed, again>>

ListenerCloses ==
    /\ lis["local"].pc = "shutdown"
    /\ closesocket(lis["local"].sock)
    /\ LisGo("local", "del")
    /\ UNCHANGED <<tunnel_list, w, server, down, wire, closed, again>>

ListenerDel ==
    /\ lis["local"].pc = "del"
    /\ tun_del(lis["local"].sock)
    /\ LisGo("local", "gone")
    /\ UNCHANGED <<file, w, ends, closed, again>>

Listener ==
    Accept \/ AcceptFails \/ OpenChannel \/ ForwardAccept \/ ListenerCloses \/ ListenerDel

----------------------------------------------------------------------------
(* tun_worker.  d is the connection its number is open on now. *)

\* The end of a stream comes last, and is seen when nothing is left before it.
Ends(s) == s # <<>> /\ Last(s).n = 0
Data(s) == IF Ends(s) THEN Front(s) ELSE s
Rest(s) == IF Ends(s) THEN <<Last(s)>> ELSE <<>>

WGo(c, pc) == w' = [w EXCEPT ![c].pc = pc]
d(c) == file[w[c].sock]
Readable(c) == d(c) \in Conns /\ client[d(c)].pending # <<>>

\* A listener's number, used again after the user closed it, is ready for accept().
Woken(c) == Readable(c) \/ (d(c) = Listening /\ \E k \in Conns : client[k].state = "queued")

\* select(tun_sock+1): the session's socket is watched where its number is below
\* tun_sock; on Windows, which ignores the argument, it always is (Lower is empty).
SockReady(c) == w[c].sock \notin Lower /\ wire # Nothing

\* select() on the socket and on the session's; EBADF when the number is closed.
Select(c) ==
    /\ w[c].pc = "select"
    /\ \/ d(c) = None /\ WGo(c, "close")
       \/ /\ d(c) # None /\ (Woken(c) \/ SockReady(c))
          /\ w' = [w EXCEPT ![c].pc = IF Woken(c) THEN "recv" ELSE "read",
                            ![c].isset = SockReady(c)]
    /\ UNCHANGED <<file, tunnel_list, lis, ends, closed, again>>

\* Slip: only an error ends a tunnel, not the end of the stream.
Recv_IgnoresEof(c) ==
    /\ w[c].pc = "recv"
    /\ \/ d(c) \notin Conns /\ WGo(c, "close") /\ UNCHANGED client
       \/ /\ Readable(c)
          /\ w' = [w EXCEPT ![c].pc = "write", ![c].buff = Data(client[d(c)].pending)]
          /\ client' = [client EXCEPT ![d(c)].pending = Rest(client[d(c)].pending)]
    /\ UNCHANGED <<file, tunnel_list, lis, server, down, wire, closed, again>>

\* recv() takes what has come, or sees the end of the stream.
Recv(c) ==
    /\ w[c].pc = "recv"
    /\ \/ d(c) \notin Conns /\ WGo(c, "close") /\ UNCHANGED client
       \/ /\ Readable(c) /\ Head(client[d(c)].pending).n = 0
          /\ WGo(c, "close") /\ UNCHANGED client
       \/ /\ Readable(c) /\ Head(client[d(c)].pending).n # 0
          /\ w' = [w EXCEPT ![c].pc = "write", ![c].buff = Data(client[d(c)].pending)]
          /\ client' = [client EXCEPT ![d(c)].pending = Rest(client[d(c)].pending)]
    /\ UNCHANGED <<file, tunnel_list, lis, server, down, wire, closed, again>>

\* After the last byte the session's socket is looked at, if it was ready.
WroteRest(c, rest) ==
    w' = [w EXCEPT ![c] =
            IF rest # <<>> THEN [@ EXCEPT !.buff = rest]
            ELSE [@ EXCEPT !.buff = <<>>, !.isset = FALSE, !.pc = IF w[c].isset THEN "read" ELSE "select"]]

\* Slip: what a write did not take is written from its start.
Write_FromStart(c) ==
    /\ w[c].pc = "write"
    /\ \/ \E n \in 1..Len(w[c].buff) :
             /\ server' = [server EXCEPT ![c].got = @ \o SubSeq(w[c].buff, 1, n)]
             /\ WroteRest(c, SubSeq(w[c].buff, 1, Len(w[c].buff) - n))
       \/ /\ server[c].closed /\ UNCHANGED server
          /\ w' = [w EXCEPT ![c].pc = "close", ![c].buff = <<>>]
    /\ UNCHANGED <<file, tunnel_list, lis, client, down, wire, closed, again>>

\* channel_write takes a part of the buffer, and is called again until it is empty;
\* it fails when the other end has closed the channel.
Write(c) ==
    /\ w[c].pc = "write"
    /\ \/ \E n \in 1..Len(w[c].buff) :
             /\ server' = [server EXCEPT ![c].got = @ \o SubSeq(w[c].buff, 1, n)]
             /\ WroteRest(c, SubSeq(w[c].buff, n + 1, Len(w[c].buff)))
       \/ /\ server[c].closed /\ UNCHANGED server
          /\ w' = [w EXCEPT ![c].pc = "close", ![c].buff = <<>>]
    /\ UNCHANGED <<file, tunnel_list, lis, client, down, wire, closed, again>>

\* channel_read: what libssh2 holds for the channel, EAGAIN, or the channel's end.
Read(c) ==
    /\ w[c].pc = "read"
    /\ wire' = Nothing
    /\ LET held == Sorted[c]
           data == Data(held)
       IN  /\ down' = [Sorted EXCEPT ![c] = Rest(held)]
           /\ w' = [w EXCEPT ![c] = [@ EXCEPT !.isset = FALSE, !.buff = data,
                      !.pc = IF data # <<>> THEN "send" ELSE IF held # <<>> THEN "close" ELSE "select"]]
    /\ UNCHANGED <<file, tunnel_list, lis, client, server, closed, again>>

\* send() to the number; when it fails the rest is dropped and the tunnel goes on.
Send(c) ==
    /\ w[c].pc = "send"
    /\ w' = [w EXCEPT ![c].pc = "read", ![c].buff = <<>>]
    /\ client' = IF d(c) \in Conns /\ Receives(d(c))
                 THEN [client EXCEPT ![d(c)].got = @ \o w[c].buff] ELSE client
    /\ UNCHANGED <<file, tunnel_list, lis, server, down, wire, closed, again>>

\* shutdown: the channel, which no other thread uses, and the number.
Close(c) ==
    /\ w[c].pc = "close"
    /\ closesocket(w[c].sock)
    /\ w' = [w EXCEPT ![c] = [@ EXCEPT !.pc = "del", !.isset = FALSE, !.buff = <<>>]]
    /\ down' = [down EXCEPT ![c] = <<>>] /\ wire' = [wire EXCEPT ![c] = <<>>]
    /\ UNCHANGED <<tunnel_list, lis, server, closed, again>>

Del(c) ==
    /\ w[c].pc = "del"
    /\ tun_del(w[c].sock)
    /\ w' = [w EXCEPT ![c] = [@ EXCEPT !.pc = "gone", !.sock = None]]
    /\ UNCHANGED <<file, lis, ends, closed, again>>

Worker(c) ==
    \/ Select(c) \/ Recv(c) \/ Write(c) \/ Read(c) \/ Send(c)
    \/ Close(c) \/ Del(c)

----------------------------------------------------------------------------
(* "!tun n" closes the number once for each entry that has it, with tunnel_mtx  *)
(* held; a thread finds out by itself.  A number that two entries have is free   *)
(* after the first close, and may be another's by the second.  Bound: once.      *)

tun ==
    /\ ~closed /\ Sent <= MaxClosed
    /\ \E n \in {t.socket : t \in ToSet(tunnel_list)} :
          /\ closesocket(n)
          /\ again' = Tail(SelectSeq([i \in DOMAIN tunnel_list |-> tunnel_list[i].socket],
                                    LAMBDA k : k = n))
    /\ closed' = TRUE
    /\ UNCHANGED <<tunnel_list, lis, w, server, down, wire>>

tunAgain ==
    /\ again # <<>>
    /\ closesocket(Head(again))
    /\ again' = Tail(again)
    /\ UNCHANGED <<tunnel_list, lis, w, server, down, wire, closed>>

Next ==
    \/ Listen \/ ForwardListen \/ Listener \/ MainReads \/ tun \/ tunAgain
    \/ \E c \in Conns :
          \/ ClientConnects(c) \/ ClientSends(c) \/ ClientShuts(c) \/ ClientCloses(c)
          \/ ServerSends(c) \/ ServerCloses(c) \/ Worker(c)

Spec == Init /\ [][Next]_vars

(* The workers' threads are scheduled, and the host takes what they write to it; *)
(* nothing is asked of the ends, the listeners or the main reader.               *)
FairSpec == Spec /\ \A c \in Conns : WF_vars(Worker(c))

----------------------------------------------------------------------------
(* Properties *)

IsStream(c, got) == \A i \in DOMAIN got : got[i] = Item(c, i)

\* What comes out of a tunnel at either end is what went into it, in its order and
\* without anything of another tunnel, as long as the user closes none.  When a
\* worker leaves, the host has all the client sent, or had closed the channel; and
\* the client has all the host sent, unless the client had ended its own stream or
\* the host did not take all of it: only then is what the host sent dropped (839-877).
StreamsIntact ==
    ~closed => \A c \in Conns :
        /\ IsStream(c, server[c].got) /\ IsStream(c, client[c].got)
        /\ w[c].pc = "del" =>
              \/ Len(server[c].got) = client[c].sent
              \/ server[c].closed
        /\ w[c].pc = "close" =>
              \/ Len(client[c].got) = server[c].sent
              \/ Finished(c)
              \/ Len(server[c].got) < client[c].sent

Tunnel(n, c) == [socket |-> n, channel |-> c]
Listed == {Tunnel(w[c].sock, c) : c \in {c \in Conns : Running(c)}}
          \cup {Tunnel(lis[l].sock, None) : l \in {l \in {"local"} : lis[l].pc \notin {"none", "gone"}}}

\* A tunnel that is open can be seen and closed by its number: it is in the list,
\* although numbers are used again before their last owner has left the list,
\* unless the user closed a tunnel (793-827, 875-876).
OpenIsListed ==
    ~closed => \A t \in Listed :
        file[t.socket] = (IF t.channel = None THEN Listening ELSE t.channel) =>
            t \in ToSet(tunnel_list)

\* Whatever the user closes, the list has one entry for each thread that is yet to
\* remove one: no entry stays behind, and no thread misses its own (793-827).
NothingStays == Len(tunnel_list) = Cardinality(Listed)

\* A tunnel whose client has closed, or ended its stream, is taken down, unless the
\* user closed a tunnel.  A worker that is gone does not come back, and so there is a
\* moment when all of them are.
TunnelsEnd ==
    (\E c \in Conns : Running(c) /\ Finished(c)) ~>
        closed \/ \A c \in Conns : Finished(c) => ~Running(c)

\* What a client that ends its stream and waits for the answer needs of a tunnel:
\* all that the host sends.  The code takes the tunnel down at recv() = 0 (848), so
\* this fails (Tunnels_Half.cfg).
AnswerArrives ==
    ~closed => \A c \in Conns :
        w[c].pc = "close" /\ Receives(c) => Len(client[c].got) = server[c].sent

\* What the documentation says of "!tun 3256", "close ssh2 tunnel number 3256":
\* the other tunnels are not touched by it.
OnlyThatTunnel ==
    \A c \in Conns : IsStream(c, server[c].got) /\ IsStream(c, client[c].got)
=============================================================================
