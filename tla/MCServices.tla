----------------------------- MODULE MCServices -----------------------------
(* Messages between programs and connections of the network, in several    *)
(* settings.  They share no state: a behaviour is one of one setting,      *)
(* `part` says which, and the others keep their initial state.             *)
EXTENDS Ipc, Tcp, Net

VARIABLES part,
          socket_table, next_port, watches, wait, life, came, took, asked,
          ready, own

sockets == <<socket_table, next_port, watches, wait, life, came, took, asked,
             ready, own>>

-----------------------------------------------------------------------------
(* Values of the constants.                                                *)
ExitCalls == {"exit"}

(* Tcp: two clients of one host and a download, while packets get lost,    *)
(* repeated and reordered.                                                 *)
TwoClients == {<<"h", 1>>, <<"h", 2>>}
WebServer == <<"w", 80>>
(* Longer streams on a network that keeps packets and their order; the     *)
(* queue has room for one connection only, and nobody downloads.           *)
Ordered == INSTANCE Tcp WITH
    TCP_MAX_CONNS <- 3, ACCEPT_QUEUE_SZ <- 1, TCP_RX_BUF_SZ <- 3, Chunk <- 1,
    Clients <- TwoClients, Server <- WebServer,
    Units <- 3, MaxGets <- 0, MaxRead <- 2, Faulty <- FALSE

(* Net: queries for two names, answered late and more than once.           *)
TwoRecords == [a |-> "h", b |-> "gw"]
OneDotted == [x |-> "h"]
NoRecords == [n \in {} |-> "none"]
(* Hosts that change their cards, one more of them than the table holds.   *)
Table == INSTANCE Net WITH
    Hosts <- {"gw", "h", "k"}, Alive <- {"gw", "h"}, Askers <- {},
    Macs <- {"m"}, Records <- NoRecords, Dotted <- NoRecords,
    ARP_TABLE_SIZE <- 2, TXIDS <- 8, Offers <- {}, Tries <- 1, MaxCalls <- 2,
    MaxMoves <- 2, Late <- FALSE
(* A DHCP server that makes several offers.                                *)
Leases == INSTANCE Net WITH
    Hosts <- {"gw", "h", "k"}, Alive <- {}, Askers <- {}, Macs <- {},
    Records <- NoRecords, Dotted <- NoRecords, ARP_TABLE_SIZE <- 2,
    TXIDS <- 8, Offers <- {"p", "q"}, Tries <- 3, MaxCalls <- 2,
    MaxMoves <- 0, Late <- TRUE

(* One socket, whose bytes are read in parts.                              *)
Reader == INSTANCE Sockets WITH
    SOCKET_MAX <- 1, Types <- {1, 2}, Modes <- BOOLEAN, Ports <- <<101>>,
    Bound <- {80}, Peers <- {7}, RECV <- 2, EPOLL_MAX_WATCHES <- 1,
    Masks <- {{"in"}}, MaxBytes <- 3, Careful <- TRUE
(* Two sockets that are watched, closed and opened again; a peer that      *)
(* closes is what makes them readable.                                     *)
Watcher == INSTANCE Sockets WITH
    SOCKET_MAX <- 2, Types <- {1}, Modes <- {FALSE}, Ports <- <<101, 102>>,
    Bound <- {}, Peers <- {7}, RECV <- 1, EPOLL_MAX_WATCHES <- 2,
    Masks <- {{"in"}}, MaxBytes <- 0, Careful <- TRUE

ASSUME Reader!SocketsAssumption /\ Watcher!SocketsAssumption
ASSUME Table!NetAssumption /\ Leases!NetAssumption
ASSUME TcpAssumption /\ NetAssumption /\ Ordered!TcpAssumption

ServicesInit ==
    /\ part \in {"ipc", "lossy", "ordered", "lookups", "table", "leases",
                "reader", "watcher"}
    /\ Init
    /\ IF part = "ordered" THEN Ordered!TcpInit ELSE TcpInit
    /\ IF part = "table" THEN Table!NetInit
       ELSE IF part = "leases" THEN Leases!NetInit ELSE NetInit
    /\ IF part = "watcher" THEN Watcher!SocketsInit ELSE Reader!SocketsInit

ServicesNext ==
    /\ UNCHANGED part
    /\ \/ part = "ipc" /\ Next /\ UNCHANGED <<tcpVars, netVars, sockets>>
       \/ /\ \/ part = "lossy" /\ TcpNext
             \/ part = "ordered" /\ Ordered!TcpNext
          /\ UNCHANGED <<vars, netVars, sockets>>
       \/ /\ \/ part = "lookups" /\ NetNext
             \/ part = "table" /\ Table!NetNext
             \/ part = "leases" /\ Leases!NetNext
          /\ UNCHANGED <<vars, tcpVars, sockets>>
       \/ /\ \/ part = "reader" /\ Reader!SocketsNext
             \/ part = "watcher" /\ Watcher!SocketsNext
          /\ UNCHANGED <<vars, tcpVars, netVars>>

ServicesSpec == ServicesInit /\
    [][ServicesNext]_<<part, vars, tcpVars, netVars, sockets>>

-----------------------------------------------------------------------------
(* A stream is read from the start without a gap when the network keeps    *)
(* packets (handle_tcp, net_tcp_recv); what a socket delivers is its own,  *)
(* and epoll tells of the sockets it was asked to watch, as they are       *)
(* (sys_recv, sys_epoll_ctl, sys_epoll_wait).  A ping is answered by the   *)
(* host, and the address taken is the one asked for (net_ping, dhcp_run).  *)
(* All tables have their types.                                            *)
StreamsKept ==
    /\ IpcTypeOK
    /\ part = "lossy" => TcpTypeOK
    /\ part = "ordered" => /\ Ordered!TcpTypeOK /\ Ordered!QueueSound
                           /\ Ordered!OwnData /\ Ordered!InOrder
    /\ part = "lookups" => NetTypeOK
    /\ part = "table" => Table!NetTypeOK /\ Table!PingTrue
    /\ part = "leases" => Leases!NetTypeOK /\ Leases!LeaseAsked
    /\ part = "reader" =>
           Reader!SocketsTypeOK /\ Reader!Own /\ Reader!ReadyHolds
    /\ part = "watcher" =>
           /\ Watcher!SocketsTypeOK /\ Watcher!Own
           /\ Watcher!WatchesAsked /\ Watcher!ReadyHolds
=============================================================================
