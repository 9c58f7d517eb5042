-------------------------------- MODULE Tcp ---------------------------------
(***************************************************************************)
(* The TCP connections of net.c and the three shell commands on top of     *)
(* them: serve (net_http_serve), netcat and wget (net_http_get).           *)
(*                                                                         *)
(* The table has TCP_MAX_CONNS slots and one queue of connections to be    *)
(* accepted.  Nothing here is interrupted: a packet is handled when the    *)
(* command that runs polls the card, and a command waits by polling; the   *)
(* address of the gateway is known from the start (net_start), so sending  *)
(* never polls.  The peers are external: each follows a script, a packet   *)
(* at a time.  A byte of the code is a unit of data here, named after who  *)
(* sent it to which port and its place in the stream.  Sequence and        *)
(* acknowledgement numbers are left out: handle_tcp stores and sends them  *)
(* and compares none.                                                      *)
(***************************************************************************)
EXTENDS Integers, Sequences, SequencesExt

CONSTANTS
    TCP_MAX_CONNS,    \* slots of tcp_conns (8)
    ACCEPT_QUEUE_SZ,  \* places of the accept queue (4)
    TCP_RX_BUF_SZ,    \* units of data a connection buffers (4096)
    Chunk,            \* units one net_tcp_recv asks for (512)
    Clients,          \* <<ip, port>> of the peers that connect to us
    Server,           \* <<ip, port>> of the server wget asks
    Units,            \* units of data each peer sends; the first of an
                      \* answer is its header
    MaxGets,          \* bound: how often wget is run
    MaxRead,          \* bound: units a command reads of one connection
    Faulty            \* packets may be lost, repeated and reordered

TcpAssumption ==
    /\ TCP_MAX_CONNS \in Nat \ {0} /\ ACCEPT_QUEUE_SZ \in Nat \ {0}
    /\ TCP_RX_BUF_SZ \in Nat \ {0} /\ Chunk \in Nat \ {0}
    /\ Units \in Nat \ {0} /\ MaxGets \in Nat /\ MaxRead \in Nat
    /\ Faulty \in BOOLEAN
    /\ Server \notin Clients

VARIABLES
    conns,      \* tcp_conns
    queue,      \* accept_queue from accept_head on, accept_count entries
    port,       \* next_ephemeral_port
    task,       \* the command that runs, and the connection it works on
    sent,       \* peers: packets of its script each conversation has sent
    heard,      \* peers: packets of it that arrived, unless Faulty
    told,       \* peers: what we sent that they wait for: 1 the SYN or
                \* SYN-ACK, 2 the request
    page        \* history: what the latest wget that was answered returned

tcpVars == <<conns, queue, port, task, sent, heard, told, page>>

-----------------------------------------------------------------------------
Conns == 1 .. TCP_MAX_CONNS
ListenPort == 80
FirstEphemeral == 49152
Ephemeral == FirstEphemeral .. FirstEphemeral + MaxGets

(* A conversation: the peer's address and the port of ours.                *)
Inbound == {[peer |-> c, lport |-> ListenPort] : c \in Clients}
Outbound == {[peer |-> Server, lport |-> p] : p \in Ephemeral}
Talks == Inbound \cup Outbound
Data == [talk: Talks, nth: 1 .. Units]
Stream(t, n) == [i \in 1 .. n |-> [talk |-> t, nth |-> i]]

TcpStates == {"CLOSED", "SYN_SENT", "ESTABLISHED", "CLOSE_WAIT", "LISTEN",
              "SYN_RCVD"}
NoPeer == <<>>
Peers == Clients \cup {Server, NoPeer}
TcpConn == [state: TcpStates, peer: Peers, lport: {0, ListenPort} \cup Ephemeral,
            rx: Seq(Data), fin: BOOLEAN]
Closed == [state |-> "CLOSED", peer |-> NoPeer, lport |-> 0, rx |-> <<>>,
           fin |-> FALSE]

(* at: where the command is; conn: 0 before it has a connection; read: what*)
(* it has read of it.                                                      *)
Task == [at: {"shell", "accept", "recv", "connect", "await"},
         cmd: {"none", "serve", "netcat", "wget"}, conn: {0} \cup Conns,
         read: Seq(Data)]
Idle == [at |-> "shell", cmd |-> "none", conn |-> 0, read |-> <<>>]
NoPage == [fin |-> FALSE, body |-> <<>>]

TcpTypeOK ==
    /\ conns \in [Conns -> TcpConn]
    /\ queue \in Seq(Conns) /\ Len(queue) <= ACCEPT_QUEUE_SZ
    /\ port \in Ephemeral
    /\ task \in Task
    /\ sent \in [Talks -> Nat] /\ heard \in [Talks -> Nat]
    /\ told \in [Talks -> 0 .. 2]
    /\ page \in [fin: BOOLEAN, body: Seq(Data)]

TcpInit ==
    /\ conns = [i \in Conns |-> Closed]
    /\ queue = <<>>
    /\ port = FirstEphemeral
    /\ task = Idle
    /\ sent = [t \in Talks |-> 0]
    /\ heard = [t \in Talks |-> 0]
    /\ told = [t \in Talks |-> 0]
    /\ page = NoPage

-----------------------------------------------------------------------------
(* Every scan of the table takes the first slot that fits.                 *)
First(S) == CHOOSE i \in S : \A j \in S : i <= j
Free == {i \in Conns : conns[i].state = "CLOSED"}
tcp_alloc == First(Free)

Listeners(p) == {i \in Conns : conns[i].state = "LISTEN" /\ conns[i].lport = p}

(* Mutant: the port of the peer is not compared.                           *)
tcp_find_AnyPort(t) ==
    {i \in Conns :
        /\ conns[i].state \notin {"CLOSED", "LISTEN"}
        /\ conns[i].peer[1] = t.peer[1] /\ conns[i].lport = t.lport}
tcp_find(t) ==
    {i \in Conns :
        /\ conns[i].state \notin {"CLOSED", "LISTEN"}
        /\ conns[i].peer = t.peer /\ conns[i].lport = t.lport}

(* tcp_close and tcp_free: the slot is zeroed, its buffer with it.         *)
tcp_free(cs, i) == [cs EXCEPT ![i] = Closed]

(* Dropped when the queue is full.                                         *)
accept_enqueue(i) ==
    IF Len(queue) < ACCEPT_QUEUE_SZ THEN Append(queue, i) ELSE queue

-----------------------------------------------------------------------------
(* The peers.  A client opens, waits for our SYN-ACK, sends its data and   *)
(* closes; a server answers the SYN, waits for the request, sends its data *)
(* and closes.  What a packet carries follows from its place.              *)
Kind(t, n) ==
    CASE n = 1 -> IF t \in Inbound THEN "SYN" ELSE "SYNACK"
      [] n = 2 /\ t \in Inbound -> "ACK"
      [] n = Units + (IF t \in Inbound THEN 3 ELSE 2) -> "FIN"
      [] OTHER -> "DATA"
Nth(t, n) == n - (IF t \in Inbound THEN 2 ELSE 1)
LastPacket(t) == Units + (IF t \in Inbound THEN 3 ELSE 2)

(* A client needs our SYN-ACK before its second packet, a server our SYN   *)
(* before its first and our request before its second.                     *)
PeerSend(t) ==
    /\ sent[t] < LastPacket(t)
    /\ LET before == IF sent[t] = 0 THEN 0 ELSE 1
       IN  told[t] >= IF t \in Inbound THEN before ELSE before + 1
    /\ sent' = [sent EXCEPT ![t] = @ + 1]
    /\ UNCHANGED <<conns, queue, port, task, heard, told, page>>

-----------------------------------------------------------------------------
(* handle_tcp.                                                             *)
HandleSyn(t) ==
    IF Listeners(t.lport) # {} /\ Free # {}
    THEN /\ conns' = [conns EXCEPT ![tcp_alloc] =
                        [Closed EXCEPT !.state = "SYN_RCVD", !.peer = t.peer,
                                       !.lport = t.lport]]
         /\ told' = [told EXCEPT ![t] = 1]
         /\ UNCHANGED queue
    ELSE UNCHANGED <<conns, queue, told>>

(* Any packet with ACK finishes the handshake; its data is not looked at.  *)
FinishHandshake(i, kind) ==
    /\ conns[i].state = "SYN_RCVD"
    /\ conns' = [conns EXCEPT ![i].state = "ESTABLISHED"]
    /\ queue' = accept_enqueue(i)
    /\ UNCHANGED told

HandleSynAck(i, kind) ==
    /\ conns[i].state = "SYN_SENT"
    /\ conns' = IF kind = "SYNACK"
                THEN [conns EXCEPT ![i].state = "ESTABLISHED"] ELSE conns
    /\ UNCHANGED <<queue, told>>

(* Data is appended whatever its sequence number says, as far as it fits.  *)
Stored(c, kind, d) ==
    CASE kind = "DATA" /\ Len(c.rx) < TCP_RX_BUF_SZ ->
             [c EXCEPT !.rx = Append(@, d)]
      [] kind = "FIN" -> [c EXCEPT !.fin = TRUE, !.state = "CLOSE_WAIT"]
      [] OTHER -> c

HandleData(i, kind, d) ==
    /\ conns[i].state \in {"ESTABLISHED", "CLOSE_WAIT"}
    /\ conns' = [conns EXCEPT ![i] = Stored(@, kind, d)]
    /\ UNCHANGED <<queue, told>>

HandlePacket(t, n) ==
    LET kind == Kind(t, n)
        d == [talk |-> t, nth |-> Nth(t, n)]
        found == tcp_find(t)
    IN  IF kind = "SYN" THEN HandleSyn(t)
        ELSE IF found = {} THEN UNCHANGED <<conns, queue, told>>
        ELSE LET i == First(found)
             IN  \/ FinishHandshake(i, kind)
                 \/ HandleSynAck(i, kind)
                 \/ HandleData(i, kind, d)

(* net_poll gets a packet: the next one of a conversation, or when packets *)
(* get lost, repeated and reordered any that was sent.  ping and the name  *)
(* lookup of wget poll as well, so this also happens between the commands. *)
Receive(t, n) ==
    /\ n \in IF Faulty THEN 1 .. sent[t] ELSE {heard[t] + 1}
    /\ n <= sent[t]
    /\ HandlePacket(t, n)
    /\ heard' = IF Faulty THEN heard ELSE [heard EXCEPT ![t] = n]
    /\ UNCHANGED <<port, task, sent, page>>

-----------------------------------------------------------------------------
(* serve and netcat: net_tcp_listen, then a loop that polls and accepts.   *)
Listen(cmd) ==
    /\ task = Idle
    /\ \/ Listeners(ListenPort) # {} /\ UNCHANGED conns
       \/ /\ Listeners(ListenPort) = {} /\ Free # {}
          /\ conns' = [conns EXCEPT ![tcp_alloc] =
                         [@ EXCEPT !.state = "LISTEN", !.lport = ListenPort]]
    /\ task' = [Idle EXCEPT !.at = "accept", !.cmd = cmd]
    /\ UNCHANGED <<queue, port, sent, heard, told, page>>

Acceptable == {k \in DOMAIN queue : /\ conns[queue[k]].lport = ListenPort
                                    /\ conns[queue[k]].state = "ESTABLISHED"}

(* What is ahead of the connection in the queue goes to the back of it.    *)
(* Mutant: the connection goes to the back as well.                        *)
Rotated_Keeps(k) == SubSeq(queue, k + 1, Len(queue)) \o SubSeq(queue, 1, k)
Rotated(k) == SubSeq(queue, k + 1, Len(queue)) \o SubSeq(queue, 1, k - 1)

(* net_tcp_accept_nb, and the same scan in net_http_serve.                 *)
Accept ==
    /\ task.at = "accept"
    /\ Acceptable # {}
    /\ LET k == First(Acceptable)
       IN  /\ task' = [task EXCEPT !.at = "recv", !.conn = queue[k]]
           /\ queue' = Rotated(k)
    /\ UNCHANGED <<conns, port, sent, heard, told, page>>

(* A key ends the command: net_tcp_unlisten.                               *)
Unlisten ==
    /\ task.at = "accept"
    /\ conns' = tcp_free(conns, First(Listeners(ListenPort)))
    /\ task' = Idle
    /\ UNCHANGED <<queue, port, sent, heard, told, page>>

(* net_tcp_recv with data in the buffer: what was not asked for moves down.*)
Rest(buf) == SubSeq(buf, Chunk + 1, Len(buf))
Recv ==
    /\ task.at = "recv"
    /\ conns[task.conn].rx # <<>> /\ Len(task.read) < MaxRead
    /\ LET buf == conns[task.conn].rx
           n == IF Len(buf) < Chunk THEN Len(buf) ELSE Chunk
       IN  /\ task' = [task EXCEPT !.read = @ \o SubSeq(buf, 1, n)]
           /\ conns' = [conns EXCEPT ![task.conn].rx = Rest(buf)]
    /\ UNCHANGED <<queue, port, sent, heard, told, page>>

(* The command is done with the connection: the request is complete, its   *)
(* two seconds are over between two calls, a key was hit, or net_tcp_recv  *)
(* returned 0 at the peer's FIN.  serve goes on, netcat unlistens.         *)
CloseConn ==
    /\ task.at = "recv"
    /\ \/ task.read # <<>>
       \/ conns[task.conn].rx = <<>> /\ conns[task.conn].fin
    /\ \/ /\ task.cmd = "serve"
          /\ conns' = tcp_free(conns, task.conn)
          /\ task' = [Idle EXCEPT !.at = "accept", !.cmd = "serve"]
       \/ /\ task.cmd = "netcat"
          /\ conns' = tcp_free(tcp_free(conns, task.conn),
                               First(Listeners(ListenPort)))
          /\ task' = Idle
    /\ UNCHANGED <<queue, port, sent, heard, told, page>>

-----------------------------------------------------------------------------
(* net_http_get: connect, ask, wait for the FIN, close, then look at what  *)
(* is in the buffer.                                                       *)
Connect ==
    /\ task = Idle
    /\ Free # {} /\ port < FirstEphemeral + MaxGets
    /\ conns' = [conns EXCEPT ![tcp_alloc] =
                   [Closed EXCEPT !.state = "SYN_SENT", !.peer = Server,
                                  !.lport = port]]
    /\ port' = port + 1
    /\ task' = [Idle EXCEPT !.at = "connect", !.cmd = "wget",
                            !.conn = tcp_alloc]
    /\ told' = [told EXCEPT ![[peer |-> Server, lport |-> port]] = 1]
    /\ UNCHANGED <<queue, sent, heard, page>>

Connected ==
    /\ task.at = "connect"
    /\ conns[task.conn].state = "ESTABLISHED"
    /\ task' = [task EXCEPT !.at = "await"]
    /\ told' = [told EXCEPT ![[peer |-> Server,
                               lport |-> conns[task.conn].lport]] = 2]
    /\ UNCHANGED <<conns, queue, port, sent, heard, page>>

ConnectTimeout ==
    /\ task.at = "connect"
    /\ conns' = tcp_free(conns, task.conn)
    /\ task' = Idle
    /\ UNCHANGED <<queue, port, sent, heard, told, page>>

(* At the FIN or after 2000000 polls.  The body is taken from the slot     *)
(* after tcp_close has zeroed it.                                          *)
Finish ==
    /\ task.at = "await"
    /\ conns' = tcp_free(conns, task.conn)
    /\ LET buf == conns'[task.conn].rx
       IN  page' = [fin |-> conns[task.conn].fin,
                    body |-> IF buf = <<>> THEN <<>> ELSE Tail(buf)]
    /\ task' = Idle
    /\ UNCHANGED <<queue, port, sent, heard, told>>

-----------------------------------------------------------------------------
TcpNext ==
    \/ \E t \in Talks : PeerSend(t)
    \/ \E t \in Talks, n \in 1 .. Units + 3 : Receive(t, n)
    \/ \E cmd \in {"serve", "netcat"} : Listen(cmd)
    \/ Accept
    \/ Unlisten
    \/ Recv
    \/ CloseConn
    \/ Connect
    \/ Connected
    \/ ConnectTimeout
    \/ Finish

TcpSpec == TcpInit /\ [][TcpNext]_tcpVars

-----------------------------------------------------------------------------
(* The accept queue holds connections that are open, each once, and not    *)
(* the one a command works on: a slot is never freed, and never handed out *)
(* again, while the queue points to it (accept_enqueue, net_tcp_accept_nb, *)
(* net_tcp_close).                                                         *)
QueueSound ==
    /\ IsInjective(queue)
    /\ \A k \in DOMAIN queue :
         /\ conns[queue[k]].state \in {"ESTABLISHED", "CLOSE_WAIT"}
         /\ queue[k] # task.conn

(* What a connection buffers, and what a command has read from it, was     *)
(* sent in that very conversation, whatever the network does with packets  *)
(* of other clients and of earlier downloads (tcp_find, tcp_connect).      *)
OwnData ==
    /\ \A i \in Conns : \A k \in DOMAIN conns[i].rx :
         /\ conns[i].rx[k].talk.peer = conns[i].peer
         /\ conns[i].rx[k].talk.lport = conns[i].lport
    /\ \A k \in DOMAIN task.read :
         task.read[k].talk.peer = conns[task.conn].peer

(* On a network that keeps packets, and their order, a command reads what  *)
(* the peer sent from the start and without a gap, however it is cut into  *)
(* packets and calls (handle_tcp, net_tcp_recv).  The peers of the runs    *)
(* send no more than a buffer of data.                                     *)
InOrder ==
    \A i \in Conns :
        LET before == IF i = task.conn THEN task.read ELSE <<>>
            all == before \o conns[i].rx
        IN  ~Faulty /\ all # <<>> => all = Stream(all[1].talk, Len(all))

-----------------------------------------------------------------------------
(* What net.c says and does not do.                                        *)

(* net.c:731, of net_http_get: "Returns number of bytes in body".  A       *)
(* download that lasts until the server's FIN has the body.                *)
DownloadHasBody == page.fin => Len(page.body) = Units - 1
=============================================================================
