------------------------------ MODULE Sockets ------------------------------
(***************************************************************************)
(* Sockets and epoll (tcpip.c).  System calls run with interrupts masked;  *)
(* one that waits reads the table in a loop, and between its looks a       *)
(* segment may be handled (tcpip_handle_packet).  Nothing in the kernel    *)
(* calls that handler yet: segments are external, any peer may send any of *)
(* them; what this side sends is left out.  There is one program, and one  *)
(* epoll instance is used.                                                 *)
(*                                                                         *)
(* A segment goes to the first socket of its port whoever sent it, its     *)
(* bytes go to recv_len however far the reader is, and watches outlive     *)
(* their sockets.  Careful says that peers and program keep to what this   *)
(* allows: one peer for a port, which is silent while a part of what it    *)
(* sent waits to be read; one server at a time; ports of their own; and    *)
(* watches are made once and deleted before their socket is closed.        *)
(***************************************************************************)
EXTENDS Naturals, Integers, FiniteSets, Sequences, SequencesExt

CONSTANTS
    SOCKET_MAX,         \* sockets of the table (64)
    Types,              \* 1 is a stream, 2 is not
    Modes,              \* whether calls return at once, or may wait
    Ports,              \* ports alloc_port gives, in this order, round and round
    Bound,              \* ports programs bind to
    Peers,              \* ports of peers
    RECV,               \* bytes of a receive buffer (8192)
    EPOLL_MAX_WATCHES,  \* watches of an epoll instance (64)
    Masks,              \* sets of events that are asked for
    MaxBytes,           \* bound: bytes delivered to one socket
    Careful

SocketsAssumption ==
    /\ SOCKET_MAX \in Nat \ {0} /\ RECV \in Nat \ {0}
    /\ Types \subseteq {1, 2} /\ Modes \subseteq BOOLEAN
    /\ Len(Ports) > 0 /\ 0 \notin Peers
    /\ EPOLL_MAX_WATCHES \in Nat \ {0} /\ MaxBytes \in Nat
    /\ Masks \subseteq SUBSET {"in", "out", "hup"} /\ Careful \in BOOLEAN

VARIABLES
    socket_table,   \* the sockets
    next_port,      \* place in Ports of the port to give next
    watches,        \* the epoll instance
    wait,           \* the call that waits
    life,           \* history: which of its lives a socket is in, 0 or 1
    came,           \* history: bytes delivered to each socket in this life
    took,           \* history: bytes the program read from it
    asked,          \* history: what the program asked epoll to watch
    ready,          \* sockets the program was told to be readable
    own             \* history: all the program got was meant for it

socketVars == <<socket_table, next_port, watches, wait, life, came, took,
                asked, ready, own>>

-----------------------------------------------------------------------------
Fds == 0 .. SOCKET_MAX - 1
Least(S) == CHOOSE x \in S : \A y \in S : x <= y
Stale == [life |-> 2, no |-> 0]
Closed == [type |-> 0, state |-> "closed", local |-> 0, remote |-> 0,
           nonblock |-> FALSE, buf |-> [i \in 1 .. RECV |-> Stale],
           pos |-> 0, len |-> 0]
States == {"closed", "listen", "syn_sent", "syn_received", "established",
           "close_wait"}
NoCall == [call |-> "none", fd |-> 0, n |-> 0, want |-> {}]

SocketsTypeOK ==
    /\ \A fd \in Fds : LET s == socket_table[fd] IN
       /\ s.type \in 0 .. 2 /\ s.state \in States /\ s.nonblock \in BOOLEAN
       /\ s.local \in Range(Ports) \cup Bound \cup {0}
       /\ s.remote \in Peers \cup {0}
       /\ s.len \in 0 .. RECV /\ s.pos \in 0 .. RECV /\ Len(s.buf) = RECV
    /\ next_port \in 1 .. Len(Ports) /\ Len(watches) <= EPOLL_MAX_WATCHES
    /\ wait.call \in {"none", "connect", "accept", "recv", "epoll", "poll"}
    /\ life \in [Fds -> {0, 1}] /\ ready \subseteq Fds /\ own \in BOOLEAN

SocketsInit ==
    /\ socket_table = [fd \in Fds |-> Closed]
    /\ next_port = 1 /\ watches = <<>> /\ wait = NoCall
    /\ life = [fd \in Fds |-> 0]
    /\ came = [fd \in Fds |-> 0] /\ took = [fd \in Fds |-> 0]
    /\ asked = {} /\ ready = {} /\ own = TRUE

Idle == wait = NoCall
(* socket_get.                                                             *)
Known(fd) == socket_table[fd].type # 0
(* Not used yet: one that was reset is closed, and not used again.         *)
Fresh(fd) == socket_table[fd].state = "closed" /\ socket_table[fd].remote = 0
Connected(fd) ==
    socket_table[fd].state = "established" /\ socket_table[fd].remote # 0
OthersIdle(fd) ==
    \A o \in Fds \ {fd} : socket_table[o].state \in {"closed", "close_wait"}

-----------------------------------------------------------------------------
(* Calls on one socket.                                                    *)

(* socket_alloc, and the port alloc_port gives next, used or not.  The     *)
(* buffer keeps what was in it.                                            *)
Free == {fd \in Fds : ~Known(fd) /\ socket_table[fd].state = "closed"}
PortAfter == (next_port % Len(Ports)) + 1

sys_socket(type, nonblock) ==
    LET fd == Least(Free) IN
    /\ Idle /\ Free # {}
    /\ socket_table' = [socket_table EXCEPT
           ![fd].type = type, ![fd].nonblock = nonblock,
           ![fd].local = Ports[next_port]]
    /\ next_port' = PortAfter
    /\ life' = [life EXCEPT ![fd] = 1 - @]
    /\ came' = [came EXCEPT ![fd] = 0] /\ took' = [took EXCEPT ![fd] = 0]
    /\ UNCHANGED <<watches, wait, asked, ready, own>>

sys_bind(fd, port) ==
    /\ Idle /\ Known(fd) /\ socket_table[fd].type = 1
    /\ Careful => /\ Fresh(fd)
                  /\ \A o \in Fds : Known(o) => socket_table[o].local # port
    /\ socket_table' = [socket_table EXCEPT ![fd].local = port,
                                            ![fd].state = "listen"]
    /\ UNCHANGED <<next_port, watches, wait, life, came, took, asked, ready,
                   own>>

(* A socket that never got its answer stays in "syn_sent".                 *)
sys_connect(fd, peer) ==
    /\ Idle /\ Known(fd)
    /\ socket_table[fd].state \notin {"syn_sent", "established"}
    /\ Careful => Fresh(fd)
    /\ socket_table' = [socket_table EXCEPT ![fd].remote = peer,
                                            ![fd].state = "syn_sent"]
    /\ wait' = IF socket_table[fd].nonblock THEN NoCall
               ELSE [NoCall EXCEPT !.call = "connect", !.fd = fd]
    /\ ready' = ready \ {fd}
    /\ UNCHANGED <<next_port, watches, life, came, took, asked, own>>

(* It returns when it sees the end, or after its last look.                *)
ConnectReturns ==
    /\ wait.call = "connect" /\ wait' = NoCall
    /\ UNCHANGED <<socket_table, next_port, watches, life, came, took, asked,
                   ready, own>>

(* The first socket that is connected, whichever port it belongs to.       *)
Accepted(fd) ==
    \E got \in Fds :
        /\ Connected(got) /\ \A o \in Fds : o < got => ~Connected(o)
        /\ own' = (own /\ socket_table[got].local = socket_table[fd].local)

sys_accept(fd) ==
    /\ Idle /\ Known(fd) /\ socket_table[fd].state = "listen"
    /\ Careful => OthersIdle(fd)
    /\ \/ Accepted(fd) /\ wait' = wait
       \/ /\ \A o \in Fds : ~Connected(o)
          /\ ~socket_table[fd].nonblock
          /\ wait' = [NoCall EXCEPT !.call = "accept", !.fd = fd]
          /\ UNCHANGED own
    /\ UNCHANGED <<socket_table, next_port, watches, life, came, took, asked,
                   ready>>

AcceptReturns ==
    /\ wait.call = "accept" /\ wait' = NoCall
    /\ Accepted(wait.fd) \/ ((\A o \in Fds : ~Connected(o)) /\ UNCHANGED own)
    /\ UNCHANGED <<socket_table, next_port, watches, life, came, took, asked,
                   ready>>

-----------------------------------------------------------------------------
(* Reading.                                                                *)

Recv(fd, n) ==
    LET s == socket_table[fd]
        m == IF n > s.len THEN s.len ELSE n
        got == SubSeq(s.buf, s.pos + 1, s.pos + m) IN
    /\ socket_table' = [socket_table EXCEPT
           ![fd].len = @ - m, ![fd].pos = IF s.len = m THEN 0 ELSE @ + m]
    /\ own' = (own /\ got = [i \in 1 .. m |->
                                 [life |-> life[fd], no |-> took[fd] + i]])
    /\ took' = [took EXCEPT ![fd] = @ + m]
    /\ ready' = ready \ {fd}

sys_recv(fd, n) ==
    /\ Idle /\ Known(fd) /\ socket_table[fd].state = "established"
    /\ \/ socket_table[fd].len > 0 /\ Recv(fd, n) /\ UNCHANGED wait
       \/ /\ socket_table[fd].len = 0 /\ ~socket_table[fd].nonblock
          /\ wait' = [NoCall EXCEPT !.call = "recv", !.fd = fd, !.n = n]
          /\ UNCHANGED <<socket_table, own, took, ready>>
    /\ UNCHANGED <<next_port, watches, life, came, asked>>

RecvReturns ==
    /\ wait.call = "recv" /\ wait' = NoCall
    /\ \/ socket_table[wait.fd].len > 0 /\ Recv(wait.fd, wait.n)
       \/ /\ socket_table[wait.fd].len = 0
          /\ UNCHANGED <<socket_table, own, took, ready>>
    /\ UNCHANGED <<next_port, watches, life, came, asked>>

(* The peer's address goes, its port in the table stays; so do watches.    *)
sys_close_socket(fd) ==
    /\ Idle /\ Known(fd)
    /\ Careful => \A w \in asked : w.fd # fd
    /\ socket_table' = [socket_table EXCEPT
           ![fd].type = 0, ![fd].state = "closed", ![fd].remote = 0,
           ![fd].len = 0, ![fd].pos = 0]
    /\ ready' = ready \ {fd}
    /\ UNCHANGED <<next_port, watches, wait, life, came, took, asked, own>>

(* F_SETFL.                                                                *)
sys_fcntl(fd, nonblock) ==
    /\ Idle /\ Known(fd)
    /\ socket_table' = [socket_table EXCEPT ![fd].nonblock = nonblock]
    /\ UNCHANGED <<next_port, watches, wait, life, came, took, asked, ready,
                   own>>

-----------------------------------------------------------------------------
(* A segment: kind is what its flags are taken for, SYN before ACK before  *)
(* FIN before RST, and n the bytes it carries.  What does not fit is       *)
(* acknowledged all the same.                                              *)
Target(port) == {fd \in Fds : Known(fd) /\ socket_table[fd].local = port}

Shaken(s, kind, peer) ==
    CASE kind = "syn" /\ s.state = "listen" ->
             [s EXCEPT !.remote = peer, !.state = "syn_received"]
      [] kind = "ack" /\ s.state \in {"syn_sent", "syn_received"} ->
             [s EXCEPT !.state = "established"]
      [] kind = "fin" /\ s.state = "established" ->
             [s EXCEPT !.state = "close_wait"]
      [] kind = "rst" -> [s EXCEPT !.state = "closed"]
      [] OTHER -> s

Put(s, bytes) ==
    IF Len(bytes) <= RECV - s.len
    THEN [s EXCEPT !.len = @ + Len(bytes),
                   !.buf = [i \in 1 .. RECV |->
                                IF i - s.len \in DOMAIN bytes
                                THEN bytes[i - s.len] ELSE @[i]]]
    ELSE s

tcpip_handle_packet(port, peer, kind, n) ==
    \E fd \in Target(port) :
        LET s == socket_table[fd]
            data == kind = "ack" /\ s.state = "established"
            mine == s.remote = peer
            bytes == [i \in 1 .. n |->
                          [life |-> life[fd],
                           no |-> IF mine THEN came[fd] + i ELSE 0]] IN
        /\ \A o \in Target(port) : fd <= o
        /\ Careful => mine \/ s.remote = 0
        /\ n > 0 => data
        /\ data => /\ n > 0 /\ came[fd] + n <= MaxBytes
                   /\ Careful => (s.len > 0 => s.pos = 0) /\ n <= RECV - s.len
        /\ socket_table' = [socket_table EXCEPT
               ![fd] = IF data THEN Put(s, bytes) ELSE Shaken(s, kind, peer)]
        /\ came' = IF data /\ mine THEN [came EXCEPT ![fd] = @ + n] ELSE came
        /\ UNCHANGED <<next_port, watches, wait, life, took, asked, ready, own>>

-----------------------------------------------------------------------------
(* epoll, poll and select.                                                 *)

(* A number is not looked at: one that no socket has is watched for the    *)
(* socket that gets it next.                                               *)
Watch(fd, mask) == [fd |-> fd, mask |-> mask,
                    data |-> IF Known(fd) THEN life[fd] ELSE 1 - life[fd]]
First(fd) == Least({i \in DOMAIN watches : watches[i].fd = fd})
Watched(fd) == \E i \in DOMAIN watches : watches[i].fd = fd

EpollAdd(fd, mask) ==
    /\ Idle /\ Len(watches) < EPOLL_MAX_WATCHES
    /\ Careful => ~Watched(fd)
    /\ watches' = Append(watches, Watch(fd, mask))
    /\ asked' = asked \cup {Watch(fd, mask)}
    /\ UNCHANGED <<socket_table, next_port, wait, life, came, took, ready, own>>

EpollMod(fd, mask) ==
    /\ Idle /\ Watched(fd)
    /\ watches' = [watches EXCEPT ![First(fd)] = Watch(fd, mask)]
    /\ asked' = {w \in asked : w.fd # fd} \cup {Watch(fd, mask)}
    /\ UNCHANGED <<socket_table, next_port, wait, life, came, took, ready, own>>

(* The last watch takes the place of the one deleted.                      *)
(* Mutant: the last watch goes, the one deleted stays.                     *)
EpollDel_DropsLast(fd) ==
    /\ Idle /\ Watched(fd)
    /\ watches' = Front(watches)
    /\ asked' = {w \in asked : w.fd # fd}
    /\ UNCHANGED <<socket_table, next_port, wait, life, came, took, ready, own>>
EpollDel(fd) ==
    /\ Idle /\ Watched(fd)
    /\ watches' = Front([watches EXCEPT ![First(fd)] = Last(watches)])
    /\ asked' = {w \in asked : w.fd # fd}
    /\ UNCHANGED <<socket_table, next_port, wait, life, came, took, ready, own>>

epoll_check_fd(fd) ==
    LET s == socket_table[fd] IN
    IF ~Known(fd) THEN {}
    ELSE {e \in {"in", "out", "hup"} :
             \/ e = "in" /\ (s.len > 0 \/ s.state = "close_wait")
             \/ e = "out" /\ s.state = "established"
             \/ e = "hup" /\ s.state = "closed"}

(* One round over the watches: the first max of them that fire.            *)
Fired(max) ==
    LET all == SelectSeq(watches,
                         LAMBDA w : w.mask \cap epoll_check_fd(w.fd) # {})
    IN  SubSeq(all, 1, IF Len(all) < max THEN Len(all) ELSE max)

EpollTells(max) ==
    /\ Fired(max) # <<>>
    /\ LET f == Fired(max) IN
       /\ own' = (own /\ \A i \in DOMAIN f :
                             Known(f[i].fd) /\ f[i].data = life[f[i].fd])
       /\ ready' = ready \cup
              {f[i].fd : i \in {j \in DOMAIN f :
                   "in" \in f[j].mask \cap epoll_check_fd(f[j].fd)}}

sys_epoll_wait(max) ==
    /\ Idle
    /\ \/ EpollTells(max) /\ UNCHANGED wait
       \/ /\ Fired(max) = <<>>
          /\ wait' = [NoCall EXCEPT !.call = "epoll", !.n = max]
          /\ UNCHANGED <<ready, own>>
    /\ UNCHANGED <<socket_table, next_port, watches, life, came, took, asked>>

EpollReturns ==
    /\ wait.call = "epoll" /\ wait' = NoCall
    /\ EpollTells(wait.n) \/ (Fired(wait.n) = <<>> /\ UNCHANGED <<ready, own>>)
    /\ UNCHANGED <<socket_table, next_port, watches, life, came, took, asked>>

(* want are the sockets to be read; sys_select looks at the first of them. *)
Readable(want) == {fd \in want : "in" \in epoll_check_fd(fd)}

sys_poll(want) ==
    /\ Idle /\ want # {}
    /\ wait' = IF Readable(want) = {}
               THEN [NoCall EXCEPT !.call = "poll", !.want = want] ELSE NoCall
    /\ ready' = ready \cup Readable(want)
    /\ UNCHANGED <<socket_table, next_port, watches, life, came, took, asked,
                   own>>

sys_select(nfds, want) == sys_poll({fd \in want : fd < nfds})

PollReturns ==
    /\ wait.call = "poll" /\ wait' = NoCall
    /\ ready' = ready \cup Readable(wait.want)
    /\ UNCHANGED <<socket_table, next_port, watches, life, came, took, asked,
                   own>>

-----------------------------------------------------------------------------
SocketsNext ==
    \/ \E type \in Types, nonblock \in Modes : sys_socket(type, nonblock)
    \/ \E fd \in Fds :
           \/ \E port \in Bound : sys_bind(fd, port)
           \/ \E peer \in Peers : sys_connect(fd, peer)
           \/ \E n \in 1 .. RECV : sys_recv(fd, n)
           \/ \E mask \in Masks : EpollAdd(fd, mask) \/ EpollMod(fd, mask)
           \/ \E nonblock \in Modes : sys_fcntl(fd, nonblock)
           \/ sys_accept(fd) \/ sys_close_socket(fd) \/ EpollDel(fd)
    \/ ConnectReturns \/ AcceptReturns \/ RecvReturns
    \/ EpollReturns \/ PollReturns
    \/ \E max \in 1 .. EPOLL_MAX_WATCHES : sys_epoll_wait(max)
    \/ \E want \in SUBSET Fds :
           sys_poll(want) \/ \E nfds \in Fds : sys_select(nfds, want)
    \/ \E port \in Range(Ports) \cup Bound, peer \in Peers, n \in 0 .. RECV,
          kind \in {"syn", "ack", "fin", "rst"} :
           tcpip_handle_packet(port, peer, kind, n)

-----------------------------------------------------------------------------
(* The bytes read are those the peer sent, in order and each once, accept  *)
(* gives a connection of the port it was asked for, and an event names the *)
(* socket that was watched, or that got the number after it was            *)
(* (sys_recv, sys_accept, sys_epoll_ctl, sys_epoll_wait).                  *)
Own == own

(* The instance watches what it was asked to (sys_epoll_ctl).              *)
WatchesAsked ==
    /\ {watches[i] : i \in DOMAIN watches} = asked
    /\ Len(watches) = Cardinality(asked)

(* A socket the program was told to be readable can be read without        *)
(* waiting, until it is (epoll_check_fd, sys_recv).                        *)
ReadyHolds ==
    \A fd \in ready : Known(fd) /\ (socket_table[fd].len > 0 \/
                                    socket_table[fd].state # "established")
=============================================================================
