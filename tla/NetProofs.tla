----------------------------- MODULE NetProofs ------------------------------
(***************************************************************************)
(* Proofs about Tcp, for every size of the table, of the accept queue and  *)
(* of the buffers, any peers, and a network that keeps packets or does     *)
(* not.                                                                    *)
(*                                                                         *)
(* Proofs about Net, for any hosts, names and offers, every size of the    *)
(* ARP table and number of attempts: what the resolver, the ARP table, a   *)
(* ping and the DHCP client say is right.                                  *)
(***************************************************************************)
EXTENDS Tcp, Net, FiniteSetTheorems, SequenceTheorems, WellFoundedInduction, TLAPS

-----------------------------------------------------------------------------
(* Tcp                                                                     *)

(* A scan of the table finds a slot that fits, when there is one.          *)
LEMMA FirstFits ==
    ASSUME NEW S, S \subseteq Nat, S # {}
    PROVE  First(S) \in S
<1> DEFINE Below == {0 .. x : x \in S}
<1>1. Below \subseteq FiniteSubsetsOf(Nat) /\ Below # {}
  <2>1. \A x \in S : 0 .. x \in FiniteSubsetsOf(Nat)
    <3> SUFFICES ASSUME NEW x \in S PROVE 0 .. x \in FiniteSubsetsOf(Nat)
      OBVIOUS
    <3>1. IsFiniteSet(0 .. x)
      BY FS_Interval
    <3>2. 0 .. x \in SUBSET Nat
      OBVIOUS
    <3> QED BY <3>1, <3>2 DEF FiniteSubsetsOf
  <2>2. PICK x : x \in S
    OBVIOUS
  <2>3. 0 .. x \in Below
    BY <2>2
  <2>4. Below \subseteq FiniteSubsetsOf(Nat)
    BY <2>1
  <2> HIDE DEF Below
  <2> QED BY <2>3, <2>4
<1>2. PICK A \in Below : \A B \in Below : <<B, A>> \notin StrictSubsetOrdering(Nat)
  <2> HIDE DEF Below
  <2> QED BY <1>1, FS_StrictSubsetOrderingWellFounded, WFMin
<1>3. PICK x \in S : A = 0 .. x
  OBVIOUS
<1>4. \A y \in S : x <= y
  <2> SUFFICES ASSUME NEW y \in S, y < x PROVE FALSE
    OBVIOUS
  <2>1. 0 .. y \in Below
    OBVIOUS
  <2>2. 0 .. y \subseteq 0 .. x
    OBVIOUS
  <2>3. x \in 0 .. x /\ x \notin 0 .. y
    OBVIOUS
  <2>4. <<0 .. y, 0 .. x>> \in StrictSubsetOrdering(Nat)
    BY <2>2, <2>3 DEF StrictSubsetOrdering
  <2> QED BY <1>2, <1>3, <2>1, <2>4
<1> QED BY <1>4 DEF First

-----------------------------------------------------------------------------
(* What is always true.  A command that waits for clients has a listening  *)
(* slot; one that has a connection has one that nobody closes but itself;  *)
(* a slot that is not in use holds nothing of its last connection.         *)
Open == {"ESTABLISHED", "CLOSE_WAIT"}

Typed == TcpTypeOK /\ \A t \in Talks : sent[t] <= LastPacket(t)

Commands ==
    /\ task.at = "shell" => task = Idle
    /\ task.at = "accept" => task.conn = 0 /\ task.read = <<>>
    /\ task.at \in {"accept", "recv"} => Listeners(ListenPort) # {}
    /\ task.at = "recv" =>
          task.conn \in Conns /\ conns[task.conn].state \in Open
    /\ task.at \in {"connect", "await"} =>
          /\ task.conn \in Conns /\ task.read = <<>>
          /\ conns[task.conn].state \in Open \cup {"SYN_SENT"}

FreeSlots == \A i \in Free : conns[i] = Closed

TcpInv == Typed /\ Commands /\ FreeSlots /\ QueueSound /\ OwnData

LEMMA TypedParts ==
    ASSUME TcpInv
    PROVE  /\ conns \in [Conns -> TcpConn]
           /\ queue \in Seq(Conns) /\ Len(queue) <= ACCEPT_QUEUE_SZ
           /\ task \in Task /\ port \in Ephemeral
           /\ told \in [Talks -> 0 .. 2]
  BY DEF TcpInv, Typed, TcpTypeOK

LEMMA TableOfSlots ==
    ASSUME TcpAssumption
    PROVE  Conns \subseteq Nat /\ 0 \notin Conns
  BY DEF TcpAssumption, Conns

(* The slot that is handed out is a free one, the one that stops listening *)
(* a listening one.                                                        *)
LEMMA Scans ==
    ASSUME TcpAssumption
    PROVE  /\ Free # {} => tcp_alloc \in Conns /\ conns[tcp_alloc].state = "CLOSED"
           /\ \A p : Listeners(p) # {} => First(Listeners(p)) \in Listeners(p)
           /\ \A t : tcp_find(t) # {} => First(tcp_find(t)) \in tcp_find(t)
<1>1. Free \subseteq Nat
  BY TableOfSlots DEF Free
<1>2. \A p : Listeners(p) \subseteq Nat
  BY TableOfSlots DEF Listeners
<1>3. \A t : tcp_find(t) \subseteq Nat
  BY TableOfSlots DEF tcp_find
<1>4. Free # {} => First(Free) \in Free
  BY <1>1, FirstFits
<1>5. \A p : Listeners(p) # {} => First(Listeners(p)) \in Listeners(p)
  BY <1>2, FirstFits
<1>6. \A t : tcp_find(t) # {} => First(tcp_find(t)) \in tcp_find(t)
  BY <1>3, FirstFits
<1> QED BY <1>4, <1>5, <1>6 DEF tcp_alloc, Free

(* The queue stays sound when only connections that are not in it are      *)
(* closed, and none of it becomes the one a command works on.              *)
LEMMA QueueStays ==
    ASSUME TcpAssumption, TcpInv, queue' = queue,
           \A i \in Conns : conns[i].state \in Open /\ i # task.conn =>
               conns'[i].state \in Open,
           \/ task'.conn \in {0, task.conn}
           \/ task'.conn \in Conns /\ conns[task'.conn].state \notin Open
    PROVE  QueueSound'
<1>1. \A k \in DOMAIN queue : queue[k] \in Conns
  BY TypedParts, ElementOfSeq
<1>2. \A k \in DOMAIN queue : conns[queue[k]].state \in Open /\ queue[k] # task.conn
  BY DEF TcpInv, QueueSound, Open
<1>3. \A k \in DOMAIN queue' :
         conns'[queue'[k]].state \in Open /\ queue'[k] # task'.conn
  BY <1>1, <1>2, TableOfSlots
<1> QED BY <1>3 DEF TcpInv, QueueSound, IsInjective, Open

(* Data stays where it belongs when buffers are emptied or left alone.     *)
LEMMA DataStays ==
    ASSUME TcpInv,
           \A i \in Conns : \/ conns'[i].rx = <<>>
                            \/ /\ conns'[i].rx = conns[i].rx
                               /\ conns'[i].peer = conns[i].peer
                               /\ conns'[i].lport = conns[i].lport,
           \/ task'.read = <<>>
           \/ /\ task'.read = task.read
              /\ conns'[task'.conn].peer = conns[task.conn].peer
    PROVE  OwnData'
  BY DEF TcpInv, OwnData

LEMMA TalkParts ==
    ASSUME NEW t \in Talks
    PROVE  t.peer \in Peers /\ t.lport \in {0, ListenPort} \cup Ephemeral
  BY DEF Talks, Inbound, Outbound, Peers

LEMMA Defaults ==
    ASSUME TcpAssumption
    PROVE  /\ Closed \in TcpConn /\ Idle \in Task
           /\ NoPage \in [fin: BOOLEAN, body: Seq(Data)]
  BY TcpAssumption DEF TcpAssumption, Closed, TcpConn, TcpStates, Peers, NoPeer,
     Idle, Task, NoPage

LEMMA InvInit == TcpAssumption /\ TcpInit => TcpInv
<1> SUFFICES ASSUME TcpAssumption, TcpInit PROVE TcpInv
  OBVIOUS
<1>1. TcpTypeOK
  BY Defaults DEF TcpAssumption, TcpInit, TcpTypeOK, Ephemeral, FirstEphemeral
<1>2. \A t \in Talks : sent[t] <= LastPacket(t)
  BY DEF TcpAssumption, TcpInit, LastPacket
<1>3. Commands
  BY DEF TcpInit, Commands, Idle
<1>4. FreeSlots
  BY DEF TcpInit, FreeSlots, Free
<1>5. QueueSound
  BY DEF TcpInit, QueueSound, IsInjective
<1>6. OwnData
  BY DEF TcpInit, OwnData, Closed, Idle
<1> QED BY <1>1, <1>2, <1>3, <1>4, <1>5, <1>6 DEF TcpInv, Typed

(* A slot is given a new value, and the rest of the table stays.           *)
LEMMA SlotSet ==
    ASSUME TcpAssumption, TcpInv, NEW i \in Conns, NEW c \in TcpConn,
           conns' = [conns EXCEPT ![i] = c]
    PROVE  /\ conns' \in [Conns -> TcpConn] /\ conns'[i] = c
           /\ \A j \in Conns \ {i} : conns'[j] = conns[j]
  BY TypedParts

(* The peers hear of something.                                            *)
LEMMA ToldOf ==
    ASSUME TcpInv, NEW k, NEW v \in 0 .. 2, told' = [told EXCEPT ![k] = v]
    PROVE  told' \in [Talks -> 0 .. 2]
  BY TypedParts

LEMMA InvPeerSend ==
    ASSUME TcpAssumption, TcpInv, NEW t \in Talks, PeerSend(t)
    PROVE  TcpInv'
<1>1. UNCHANGED <<conns, queue, port, task, told, heard, page>>
  BY DEF PeerSend
<1>2. sent' \in [Talks -> Nat] /\ \A u \in Talks : sent'[u] <= LastPacket(u)
  <2>1. sent \in [Talks -> Nat] /\ \A u \in Talks : sent[u] <= LastPacket(u)
    BY DEF TcpInv, Typed, TcpTypeOK
  <2>2. \A u \in Talks : LastPacket(u) \in Nat
    BY DEF TcpAssumption, LastPacket
  <2>3. sent' = [sent EXCEPT ![t] = @ + 1] /\ sent[t] < LastPacket(t)
    BY DEF PeerSend
  <2> QED BY <2>1, <2>2, <2>3
<1>3. Typed'
  BY <1>1, <1>2 DEF TcpInv, Typed, TcpTypeOK, LastPacket
<1>4. (Commands /\ FreeSlots /\ QueueSound /\ OwnData)'
  BY <1>1 DEF TcpInv, Commands, FreeSlots, QueueSound, OwnData, Listeners, Free
<1> QED BY <1>3, <1>4 DEF TcpInv

-----------------------------------------------------------------------------
(* handle_tcp.  The types of what it changes, and all the rest.            *)
Handled ==
    /\ conns' \in [Conns -> TcpConn]
    /\ queue' \in Seq(Conns) /\ Len(queue') <= ACCEPT_QUEUE_SZ
    /\ told' \in [Talks -> 0 .. 2]
    /\ Commands' /\ FreeSlots' /\ QueueSound' /\ OwnData'

LEMMA SynHandled ==
    ASSUME TcpAssumption, TcpInv, NEW t \in Talks, HandleSyn(t), task' = task
    PROVE  Handled
<1>1. CASE UNCHANGED <<conns, queue, told>>
  BY <1>1, TypedParts
     DEF TcpInv, Handled, Commands, FreeSlots, QueueSound, OwnData, Listeners, Free
<1>2. ASSUME Free # {}, queue' = queue, told' = [told EXCEPT ![t] = 1],
             conns' = [conns EXCEPT ![tcp_alloc] =
                         [Closed EXCEPT !.state = "SYN_RCVD", !.peer = t.peer,
                                        !.lport = t.lport]]
      PROVE  Handled
  <2> DEFINE c == [Closed EXCEPT !.state = "SYN_RCVD", !.peer = t.peer,
                                 !.lport = t.lport]
  <2>1. tcp_alloc \in Conns /\ conns[tcp_alloc].state = "CLOSED"
    BY <1>2, Scans
  <2>2. c \in TcpConn /\ c.state = "SYN_RCVD" /\ c.rx = <<>>
    BY Defaults, TalkParts DEF Closed, TcpConn, TcpStates
  <2> HIDE DEF c
  <2>3. /\ conns' \in [Conns -> TcpConn] /\ conns'[tcp_alloc] = c
        /\ \A j \in Conns \ {tcp_alloc} : conns'[j] = conns[j]
    BY <1>2, <2>1, <2>2, SlotSet DEF c
  <2>4. Commands'
    BY <2>1, <2>2, <2>3 DEF TcpInv, Commands, Listeners, Open
  <2>5. FreeSlots'
    BY <2>2, <2>3 DEF TcpInv, FreeSlots, Free
  <2>6. QueueSound'
    BY <1>2, <2>1, <2>3, QueueStays DEF Open
  <2>7. OwnData'
    <3>1. /\ task'.read = task.read
          /\ task.read # <<>> => task.conn # tcp_alloc /\ task.conn \in Conns
      BY <2>1, TypedParts DEF TcpInv, Commands, Open, Task, Idle
    <3> QED BY <2>2, <2>3, <3>1, DataStays
  <2> QED BY <1>2, <2>3, <2>4, <2>5, <2>6, <2>7, TypedParts DEF Handled
<1> QED BY <1>1, <1>2 DEF HandleSyn

LEMMA HandshakeFinished ==
    ASSUME TcpAssumption, TcpInv, NEW i \in Conns, NEW kind,
           FinishHandshake(i, kind), task' = task
    PROVE  Handled
<1> DEFINE c == [conns[i] EXCEPT !.state = "ESTABLISHED"]
<1>1. conns[i].state = "SYN_RCVD" /\ conns' = [conns EXCEPT ![i] = c] /\ told' = told
  BY TypedParts DEF FinishHandshake
<1>2. /\ c \in TcpConn /\ c.state = "ESTABLISHED"
      /\ c.rx = conns[i].rx /\ c.peer = conns[i].peer /\ c.lport = conns[i].lport
  BY TypedParts DEF TcpConn, TcpStates
<1> HIDE DEF c
<1>3. /\ conns' \in [Conns -> TcpConn] /\ conns'[i] = c
      /\ \A j \in Conns \ {i} : conns'[j] = conns[j]
  BY <1>1, <1>2, SlotSet
<1>4. Commands'
  BY <1>1, <1>2, <1>3 DEF TcpInv, Commands, Listeners, Open
<1>5. FreeSlots'
  BY <1>2, <1>3 DEF TcpInv, FreeSlots, Free
<1>6. OwnData'
  <2>1. task.read # <<>> => task.conn # i /\ task.conn \in Conns
    BY <1>1, TypedParts DEF TcpInv, Commands, Open, Task, Idle
  <2> QED BY <1>2, <1>3, <2>1, DataStays
<1>7. i # task.conn /\ \A k \in DOMAIN queue : queue[k] # i
  <2>1. i # task.conn
    BY <1>1, TypedParts, TableOfSlots DEF TcpInv, Commands, Open, Task, Idle
  <2>2. \A k \in DOMAIN queue : queue[k] # i
    BY <1>1 DEF TcpInv, QueueSound
  <2> QED BY <2>1, <2>2
<1>8. CASE queue' = queue
  <2>1. QueueSound'
    BY <1>2, <1>3, <1>7, <1>8, QueueStays DEF Open
  <2> QED BY <1>1, <1>3, <1>4, <1>5, <1>6, <1>8, <2>1, TypedParts DEF Handled
<1>9. CASE Len(queue) < ACCEPT_QUEUE_SZ /\ queue' = Append(queue, i)
  <2>1. /\ queue' \in Seq(Conns) /\ Len(queue') = Len(queue) + 1
        /\ \A k \in 1 .. Len(queue) : queue'[k] = queue[k]
        /\ queue'[Len(queue) + 1] = i
    BY <1>9, TypedParts, AppendProperties
  <2>2. DOMAIN queue = 1 .. Len(queue) /\ Len(queue) \in Nat
        /\ DOMAIN queue' = 1 .. Len(queue) + 1
    BY <2>1, TypedParts, LenProperties
  <2>3. \A k \in DOMAIN queue : queue[k] \in Conns
    BY TypedParts, ElementOfSeq
  <2>4. IsInjective(queue')
    BY <1>7, <2>1, <2>2 DEF TcpInv, QueueSound, IsInjective
  <2>5. \A k \in DOMAIN queue' :
           conns'[queue'[k]].state \in Open /\ queue'[k] # task'.conn
    BY <1>2, <1>3, <1>7, <2>1, <2>2, <2>3 DEF TcpInv, QueueSound, Open
  <2>6. QueueSound'
    BY <2>4, <2>5 DEF QueueSound, Open
  <2>7. Len(queue') <= ACCEPT_QUEUE_SZ
    BY <1>9, <2>1, <2>2 DEF TcpAssumption
  <2> QED BY <1>1, <1>3, <1>4, <1>5, <1>6, <2>1, <2>6, <2>7, TypedParts DEF Handled
<1> QED BY <1>8, <1>9 DEF FinishHandshake, accept_enqueue

LEMMA SynAckHandled ==
    ASSUME TcpAssumption, TcpInv, NEW i \in Conns, NEW kind,
           HandleSynAck(i, kind), task' = task
    PROVE  Handled
<1> DEFINE c == IF kind = "SYNACK" THEN [conns[i] EXCEPT !.state = "ESTABLISHED"]
                ELSE conns[i]
<1>1. conns[i].state = "SYN_SENT" /\ conns' = [conns EXCEPT ![i] = c] /\ UNCHANGED <<queue, told>>
  BY TypedParts DEF HandleSynAck
<1>2. /\ c \in TcpConn /\ c.state \in {"ESTABLISHED", "SYN_SENT"}
      /\ c.rx = conns[i].rx /\ c.peer = conns[i].peer /\ c.lport = conns[i].lport
  BY <1>1, TypedParts DEF TcpConn, TcpStates
<1> HIDE DEF c
<1>3. /\ conns' \in [Conns -> TcpConn] /\ conns'[i] = c
      /\ \A j \in Conns \ {i} : conns'[j] = conns[j]
  BY <1>1, <1>2, SlotSet
<1>4. Commands'
  BY <1>1, <1>2, <1>3 DEF TcpInv, Commands, Listeners, Open
<1>5. FreeSlots'
  BY <1>2, <1>3 DEF TcpInv, FreeSlots, Free
<1>6. OwnData'
  <2>1. task.read # <<>> => task.conn # i /\ task.conn \in Conns
    BY <1>1, TypedParts DEF TcpInv, Commands, Open, Task, Idle
  <2> QED BY <1>2, <1>3, <2>1, DataStays
<1>7. QueueSound'
  BY <1>1, <1>2, <1>3, QueueStays DEF Open
<1> QED BY <1>1, <1>3, <1>4, <1>5, <1>6, <1>7, TypedParts DEF Handled

(* What is stored in a buffer came from the peer of the connection.        *)
LEMMA DataHandled ==
    ASSUME TcpAssumption, TcpInv, NEW t \in Talks, NEW kind,
           NEW d, kind = "DATA" => d \in Data /\ d.talk = t,
           NEW i \in tcp_find(t), HandleData(i, kind, d), task' = task
    PROVE  Handled
<1> DEFINE c == Stored(conns[i], kind, d)
<1>1. i \in Conns /\ conns[i].peer = t.peer /\ conns[i].lport = t.lport
  BY DEF tcp_find
<1>2. /\ conns[i].state \in Open /\ conns' = [conns EXCEPT ![i] = c]
      /\ UNCHANGED <<queue, told>>
  BY TypedParts DEF HandleData, Open
<1>3. conns[i] \in TcpConn
  BY <1>1, TypedParts
<1>4. /\ c \in TcpConn /\ c.state \in Open
      /\ c.peer = conns[i].peer /\ c.lport = conns[i].lport
      /\ c.rx = conns[i].rx \/ (kind = "DATA" /\ c.rx = Append(conns[i].rx, d))
  <2>1. conns[i].rx \in Seq(Data)
    BY <1>3 DEF TcpConn
  <2>2. kind = "DATA" => Append(conns[i].rx, d) \in Seq(Data)
    BY <2>1, AppendProperties
  <2> QED BY <1>2, <1>3, <2>1, <2>2 DEF Stored, TcpConn, TcpStates, Open
<1> HIDE DEF c
<1>5. /\ conns' \in [Conns -> TcpConn] /\ conns'[i] = c
      /\ \A j \in Conns \ {i} : conns'[j] = conns[j]
  BY <1>1, <1>2, <1>4, SlotSet
<1>6. Commands'
  BY <1>2, <1>4, <1>5 DEF TcpInv, Commands, Listeners, Open
<1>7. FreeSlots'
  BY <1>4, <1>5 DEF TcpInv, FreeSlots, Free, Open
<1>8. QueueSound'
  BY <1>2, <1>4, <1>5, QueueStays DEF Open
<1>9. OwnData'
  <2>1. \A j \in Conns : conns'[j].peer = conns[j].peer /\ conns'[j].lport = conns[j].lport
    BY <1>4, <1>5
  <2>2. \A k \in DOMAIN conns'[i].rx : conns'[i].rx[k].talk.peer = conns[i].peer
                                     /\ conns'[i].rx[k].talk.lport = conns[i].lport
    <3>1. CASE c.rx = conns[i].rx
      BY <1>1, <1>5, <3>1 DEF TcpInv, OwnData
    <3>2. CASE kind = "DATA" /\ c.rx = Append(conns[i].rx, d)
      <4>1. conns[i].rx \in Seq(Data)
        BY <1>3 DEF TcpConn
      <4>2. /\ c.rx \in Seq(Data) /\ Len(c.rx) = Len(conns[i].rx) + 1
            /\ \A k \in 1 .. Len(conns[i].rx) : c.rx[k] = conns[i].rx[k]
            /\ c.rx[Len(conns[i].rx) + 1] = d
        BY <3>2, <4>1, AppendProperties
      <4>3. /\ DOMAIN c.rx = 1 .. Len(conns[i].rx) + 1 /\ Len(conns[i].rx) \in Nat
            /\ DOMAIN conns[i].rx = 1 .. Len(conns[i].rx)
        BY <4>1, <4>2, LenProperties
      <4>4. \A k \in DOMAIN conns[i].rx : conns[i].rx[k].talk.peer = conns[i].peer
                                         /\ conns[i].rx[k].talk.lport = conns[i].lport
        BY <1>1 DEF TcpInv, OwnData
      <4> QED BY <1>1, <1>5, <3>2, <4>2, <4>3, <4>4
    <3> QED BY <1>4, <3>1, <3>2
  <2>3. \A j \in Conns \ {i} : conns'[j] = conns[j]
    BY <1>5
  <2>4. \A k \in DOMAIN task.read : task.read[k].talk.peer = conns'[task.conn].peer
    <3>1. task.read # <<>> => task.conn \in Conns
      BY TypedParts DEF TcpInv, Commands, Task, Idle
    <3> QED BY <2>1, <3>1 DEF TcpInv, OwnData
  <2>5. \A j \in Conns : \A k \in DOMAIN conns'[j].rx :
           /\ conns'[j].rx[k].talk.peer = conns'[j].peer
           /\ conns'[j].rx[k].talk.lport = conns'[j].lport
    BY <1>1, <2>1, <2>2, <2>3 DEF TcpInv, OwnData
  <2> QED BY <2>4, <2>5 DEF OwnData
<1> QED BY <1>2, <1>5, <1>6, <1>7, <1>8, <1>9, TypedParts DEF Handled

LEMMA Nothing ==
    ASSUME TcpInv, UNCHANGED <<conns, queue, told, task>>
    PROVE  Handled
  BY TypedParts DEF TcpInv, Handled, Commands, FreeSlots, QueueSound, OwnData,
     Listeners, Free

(* A packet of data has a place in the stream of its peer.                 *)
LEMMA PlaceOfData ==
    ASSUME TcpAssumption, NEW t \in Talks, NEW n \in 1 .. LastPacket(t),
           Kind(t, n) = "DATA"
    PROVE  Nth(t, n) \in 1 .. Units
<1>1. n \in Nat /\ n >= 1 /\ n <= LastPacket(t) /\ Units \in Nat
  BY DEF TcpAssumption, LastPacket
<1>2. CASE t \in Inbound
  <2>1. n # 1 /\ n # 2 /\ n # Units + 3
    BY <1>2 DEF Kind
  <2> QED BY <1>1, <1>2, <2>1 DEF Nth, LastPacket
<1>3. CASE t \notin Inbound
  <2>1. n # 1 /\ n # Units + 2
    BY <1>3 DEF Kind
  <2> QED BY <1>1, <1>3, <2>1 DEF Nth, LastPacket
<1> QED BY <1>2, <1>3

LEMMA PacketHandled ==
    ASSUME TcpAssumption, TcpInv, NEW t \in Talks, NEW n \in 1 .. LastPacket(t),
           HandlePacket(t, n), task' = task
    PROVE  Handled
<1> DEFINE kind == Kind(t, n)
           d == [talk |-> t, nth |-> Nth(t, n)]
           i == First(tcp_find(t))
<1>1. kind = "DATA" => d \in Data /\ d.talk = t
  BY PlaceOfData DEF Data
<1>2. CASE kind = "SYN"
  BY <1>2, SynHandled DEF HandlePacket
<1>3. CASE kind # "SYN" /\ tcp_find(t) = {}
  <2>1. UNCHANGED <<conns, queue, told>>
    BY <1>3 DEF HandlePacket
  <2> QED BY <2>1, Nothing
<1>4. CASE kind # "SYN" /\ tcp_find(t) # {}
  <2>1. i \in tcp_find(t) /\ i \in Conns
    BY <1>4, Scans DEF tcp_find
  <2>2. \/ FinishHandshake(i, kind) \/ HandleSynAck(i, kind)
        \/ HandleData(i, kind, d)
    BY <1>4 DEF HandlePacket
  <2> HIDE DEF i, kind, d
  <2> QED BY <1>1, <2>1, <2>2, HandshakeFinished, SynAckHandled, DataHandled
<1> QED BY <1>2, <1>3, <1>4

LEMMA InvReceive ==
    ASSUME TcpAssumption, TcpInv, NEW t \in Talks, NEW n \in 1 .. Units + 3,
           Receive(t, n)
    PROVE  TcpInv'
<1>1. /\ sent \in [Talks -> Nat] /\ sent[t] <= LastPacket(t)
      /\ heard \in [Talks -> Nat]
  BY DEF TcpInv, Typed, TcpTypeOK
<1>2. n \in 1 .. LastPacket(t) /\ n \in Nat
  BY <1>1 DEF TcpAssumption, Receive, LastPacket
<1>3. UNCHANGED <<port, task, sent, page>> /\ HandlePacket(t, n)
      /\ heard' = IF Faulty THEN heard ELSE [heard EXCEPT ![t] = n]
  BY DEF Receive
<1>4. Handled
  BY <1>2, <1>3, PacketHandled
<1>5. heard' \in [Talks -> Nat]
  BY <1>1, <1>2, <1>3
<1>6. Typed'
  BY <1>3, <1>4, <1>5 DEF TcpInv, Typed, TcpTypeOK, Handled, LastPacket
<1> QED BY <1>4, <1>6 DEF TcpInv, Handled

-----------------------------------------------------------------------------
(* The commands.                                                           *)
LEMMA InvListen ==
    ASSUME TcpAssumption, TcpInv, NEW cmd \in {"serve", "netcat"}, Listen(cmd)
    PROVE  TcpInv'
<1>1. /\ UNCHANGED <<queue, port, sent, heard, told, page>> /\ task = Idle
      /\ task' = [Idle EXCEPT !.at = "accept", !.cmd = cmd]
  BY DEF Listen
<1>2. task' \in Task /\ task'.conn = 0 /\ task'.read = <<>> /\ task'.at = "accept"
  BY <1>1, Defaults DEF Idle, Task
<1>3. /\ conns' \in [Conns -> TcpConn] /\ Listeners(ListenPort)' # {}
      /\ \A j \in Conns : \/ conns'[j] = conns[j]
                           \/ /\ conns[j].state = "CLOSED" /\ conns'[j].state = "LISTEN"
                              /\ conns'[j].rx = <<>>
  <2>1. CASE Listeners(ListenPort) # {} /\ UNCHANGED conns
    BY <2>1, TypedParts DEF Listeners
  <2>2. CASE /\ Free # {}
             /\ conns' = [conns EXCEPT ![tcp_alloc] =
                            [@ EXCEPT !.state = "LISTEN", !.lport = ListenPort]]
    <3> DEFINE c == [conns[tcp_alloc] EXCEPT !.state = "LISTEN", !.lport = ListenPort]
    <3>1. tcp_alloc \in Conns /\ conns[tcp_alloc].state = "CLOSED"
      BY <2>2, Scans
    <3>2. conns[tcp_alloc] = Closed
      BY <3>1 DEF TcpInv, FreeSlots, Free
    <3>3. /\ c \in TcpConn /\ c.state = "LISTEN" /\ c.lport = ListenPort
          /\ c.rx = <<>>
      <4>1. conns[tcp_alloc] \in TcpConn /\ conns[tcp_alloc].rx = <<>>
        BY <3>2, Defaults DEF Closed
      <4> QED BY <4>1 DEF TcpConn, TcpStates
    <3>4. conns' = [conns EXCEPT ![tcp_alloc] = c]
      BY <2>2
    <3> HIDE DEF c
    <3>5. /\ conns' \in [Conns -> TcpConn] /\ conns'[tcp_alloc] = c
          /\ \A j \in Conns \ {tcp_alloc} : conns'[j] = conns[j]
      BY <3>1, <3>3, <3>4, SlotSet
    <3>6. tcp_alloc \in Listeners(ListenPort)'
      BY <3>1, <3>3, <3>5 DEF Listeners
    <3> QED BY <3>1, <3>3, <3>5, <3>6
  <2> QED BY <2>1, <2>2 DEF Listen
<1>4. Typed'
  BY <1>1, <1>2, <1>3 DEF TcpInv, Typed, TcpTypeOK, LastPacket
<1>5. Commands'
  BY <1>2, <1>3 DEF Commands
<1>6. FreeSlots'
  BY <1>3 DEF TcpInv, FreeSlots, Free
<1>7. QueueSound'
  BY <1>1, <1>2, <1>3, QueueStays DEF Open
<1>8. OwnData'
  BY <1>2, <1>3, DataStays
<1> QED BY <1>4, <1>5, <1>6, <1>7, <1>8 DEF TcpInv

(* Removing an element of the queue keeps the others, each once.           *)
LEMMA Removed ==
    ASSUME TcpInv, NEW k \in DOMAIN queue, queue' = Rotated(k)
    PROVE  /\ queue' \in Seq(Conns) /\ Len(queue') <= Len(queue)
           /\ IsInjective(queue')
           /\ \A j \in DOMAIN queue' : \E m \in DOMAIN queue \ {k} : queue'[j] = queue[m]
<1> DEFINE L == Len(queue)
           back == SubSeq(queue, k + 1, L)
           front == SubSeq(queue, 1, k - 1)
<1>1. queue \in Seq(Conns) /\ L \in Nat /\ DOMAIN queue = 1 .. L /\ k \in 1 .. L
  BY TypedParts, LenProperties
<1>2. \A m \in 1 .. L : queue[m] \in Conns
  BY <1>1, ElementOfSeq
<1>3. /\ back \in Seq(Conns) /\ Len(back) = L - k
      /\ \A j \in 1 .. L - k : back[j] = queue[k + j]
  <2>1. \A m \in k + 1 .. L : queue[m] \in Conns
    BY <1>1, <1>2
  <2> QED BY <1>1, <2>1, SubSeqProperties, k + 1 \in Int, L \in Int
<1>4. /\ front \in Seq(Conns) /\ Len(front) = k - 1
      /\ \A j \in 1 .. k - 1 : front[j] = queue[j]
  <2>1. \A m \in 1 .. k - 1 : queue[m] \in Conns
    BY <1>1, <1>2
  <2> QED BY <1>1, <2>1, SubSeqProperties, k - 1 \in Int, 1 \in Int
<1> HIDE DEF back, front
<1>5. queue' = back \o front
  BY DEF Rotated, back, front
<1>6. /\ queue' \in Seq(Conns) /\ Len(queue') = L - 1 /\ DOMAIN queue' = 1 .. L - 1
      /\ \A j \in 1 .. L - 1 : queue'[j] = IF j <= L - k THEN back[j] ELSE front[j - (L - k)]
  <2>1. /\ back \o front \in Seq(Conns)
        /\ Len(back \o front) = Len(back) + Len(front)
        /\ \A j \in 1 .. Len(back) + Len(front) : (back \o front)[j] =
                IF j <= Len(back) THEN back[j] ELSE front[j - Len(back)]
    BY <1>3, <1>4, ConcatProperties
  <2>2. Len(back) + Len(front) = L - 1
    BY <1>1, <1>3, <1>4
  <2>3. DOMAIN queue' = 1 .. Len(queue')
    BY <1>5, <2>1, LenProperties
  <2> QED BY <1>3, <1>5, <2>1, <2>2, <2>3
<1> DEFINE from(j) == IF j <= L - k THEN k + j ELSE j - (L - k)
<1>7. \A j \in 1 .. L - 1 : from(j) \in (1 .. L) \ {k} /\ queue'[j] = queue[from(j)]
  <2> SUFFICES ASSUME NEW j \in 1 .. L - 1
               PROVE  from(j) \in (1 .. L) \ {k} /\ queue'[j] = queue[from(j)]
    OBVIOUS
  <2>1. CASE j <= L - k
    <3>1. j \in 1 .. L - k /\ from(j) = k + j /\ from(j) \in (1 .. L) \ {k}
      BY <1>1, <2>1
    <3> QED BY <1>3, <1>6, <2>1, <3>1
  <2>2. CASE ~(j <= L - k)
    <3>1. j - (L - k) \in 1 .. k - 1 /\ from(j) = j - (L - k) /\ from(j) \in (1 .. L) \ {k}
      BY <1>1, <2>2
    <3> QED BY <1>4, <1>6, <2>2, <3>1
  <2> QED BY <2>1, <2>2
<1>8. \A i, j \in 1 .. L - 1 : from(i) = from(j) => i = j
  BY <1>1
<1>9. IsInjective(queue')
  <2>1. \A a, b \in 1 .. L : queue[a] = queue[b] => a = b
    BY <1>1 DEF TcpInv, QueueSound, IsInjective
  <2> HIDE DEF from
  <2>2. \A a, b \in 1 .. L - 1 : queue'[a] = queue'[b] => a = b
    BY <1>7, <1>8, <2>1
  <2> QED BY <1>6, <2>2 DEF IsInjective
<1>10. \A j \in DOMAIN queue' : \E m \in DOMAIN queue \ {k} : queue'[j] = queue[m]
  <2> HIDE DEF from
  <2> QED BY <1>1, <1>6, <1>7
<1> QED BY <1>1, <1>6, <1>9, <1>10

LEMMA InvAccept ==
    ASSUME TcpAssumption, TcpInv, Accept
    PROVE  TcpInv'
<1> DEFINE k == First(Acceptable)
<1>1. /\ UNCHANGED <<conns, port, sent, heard, told, page>>
      /\ task.at = "accept" /\ queue' = Rotated(k)
      /\ task' = [task EXCEPT !.at = "recv", !.conn = queue[k]]
  BY DEF Accept
<1>2. k \in Acceptable
  <2>1. Acceptable \subseteq Nat
    <3>1. DOMAIN queue = 1 .. Len(queue) /\ Len(queue) \in Nat
      BY TypedParts, LenProperties
    <3> QED BY <3>1 DEF Acceptable
  <2> QED BY <2>1, FirstFits DEF Accept
<1> HIDE DEF k
<1>3. /\ k \in DOMAIN queue /\ queue[k] \in Conns /\ conns[queue[k]].state \in Open
  BY <1>2, TypedParts, ElementOfSeq DEF Acceptable, Open
<1>4. task' \in Task /\ task'.at = "recv" /\ task'.conn = queue[k] /\ task'.read = <<>>
  BY <1>1, <1>3, TypedParts DEF TcpInv, Commands, Task
<1>5. /\ queue' \in Seq(Conns) /\ Len(queue') <= Len(queue) /\ IsInjective(queue')
      /\ \A j \in DOMAIN queue' : \E m \in DOMAIN queue \ {k} : queue'[j] = queue[m]
  BY <1>1, <1>3, Removed
<1>6. Typed'
  <2>1. Len(queue') <= ACCEPT_QUEUE_SZ
    BY <1>5, TypedParts, LenProperties DEF TcpAssumption
  <2> QED BY <1>1, <1>4, <1>5, <2>1 DEF TcpInv, Typed, TcpTypeOK, LastPacket
<1>7. Commands'
  <2>1. Listeners(ListenPort)' # {}
    BY <1>1 DEF TcpInv, Commands, Listeners
  <2> QED BY <1>1, <1>3, <1>4, <2>1 DEF Commands
<1>8. QueueSound'
  <2>1. \A m \in DOMAIN queue \ {k} : queue[m] # queue[k] /\ conns[queue[m]].state \in Open
    BY <1>3 DEF TcpInv, QueueSound, IsInjective, Open
  <2> QED BY <1>1, <1>4, <1>5, <2>1 DEF QueueSound, Open
<1>9. (FreeSlots /\ OwnData)'
  BY <1>1, <1>4 DEF TcpInv, FreeSlots, Free, OwnData
<1> QED BY <1>6, <1>7, <1>8, <1>9 DEF TcpInv

(* A slot is freed and the command ends, or goes on without it.            *)
LEMMA Freed ==
    ASSUME TcpAssumption, TcpInv, NEW S \in SUBSET Conns,
           \A i \in S : i = task.conn \/ conns[i].state \notin Open,
           conns' \in [Conns -> TcpConn], \A i \in S : conns'[i] = Closed,
           \A i \in Conns \ S : conns'[i] = conns[i],
           task'.conn = 0, task'.read = <<>>, queue' = queue
    PROVE  FreeSlots' /\ QueueSound' /\ OwnData'
<1>1. FreeSlots'
  BY DEF TcpInv, FreeSlots, Free
<1>2. QueueSound'
  BY QueueStays
<1>3. OwnData'
  <2>1. \A i \in S : conns'[i].rx = <<>>
    BY DEF Closed
  <2> QED BY <2>1, DataStays
<1> QED BY <1>1, <1>2, <1>3

LEMMA InvUnlisten ==
    ASSUME TcpAssumption, TcpInv, Unlisten
    PROVE  TcpInv'
<1> DEFINE i == First(Listeners(ListenPort))
<1>1. /\ UNCHANGED <<queue, port, sent, heard, told, page>> /\ task' = Idle
      /\ conns' = [conns EXCEPT ![i] = Closed]
  BY DEF Unlisten, tcp_free
<1>2. i \in Conns /\ conns[i].state \notin Open
  <2>1. i \in Listeners(ListenPort)
    BY Scans DEF Unlisten, TcpInv, Commands
  <2> HIDE DEF i
  <2> QED BY <2>1 DEF Listeners, Open
<1> HIDE DEF i
<1>3. /\ conns' \in [Conns -> TcpConn] /\ conns'[i] = Closed
      /\ \A j \in Conns \ {i} : conns'[j] = conns[j]
  BY <1>1, <1>2, Defaults, SlotSet
<1>4. Typed'
  BY <1>1, <1>3, Defaults DEF TcpInv, Typed, TcpTypeOK, LastPacket
<1>5. Commands'
  BY <1>1 DEF Commands, Idle
<1>6. (FreeSlots /\ QueueSound /\ OwnData)'
  <2>1. task'.conn = 0 /\ task'.read = <<>>
    BY <1>1 DEF Idle
  <2> QED BY <1>1, <1>2, <1>3, <2>1, Freed, {i} \in SUBSET Conns
<1> QED BY <1>4, <1>5, <1>6 DEF TcpInv

(* Taking data from the front of a buffer, and adding it to what was read. *)
LEMMA Taken ==
    ASSUME TcpAssumption, NEW D, NEW buf \in Seq(D), NEW n,
           n = IF Len(buf) < Chunk THEN Len(buf) ELSE Chunk
    PROVE  /\ SubSeq(buf, 1, n) \in Seq(D) /\ Rest(buf) \in Seq(D)
           /\ \A k \in DOMAIN SubSeq(buf, 1, n) :
                 \E m \in DOMAIN buf : SubSeq(buf, 1, n)[k] = buf[m]
           /\ \A k \in DOMAIN Rest(buf) : \E m \in DOMAIN buf : Rest(buf)[k] = buf[m]
<1>1. /\ Len(buf) \in Nat /\ DOMAIN buf = 1 .. Len(buf) /\ Chunk \in Nat /\ Chunk >= 1
      /\ \A m \in 1 .. Len(buf) : buf[m] \in D
  BY LenProperties, ElementOfSeq DEF TcpAssumption
<1>2. ASSUME NEW a \in Int, NEW b \in Int, 1 <= a, b <= Len(buf)
      PROVE  /\ SubSeq(buf, a, b) \in Seq(D)
             /\ \A k \in DOMAIN SubSeq(buf, a, b) :
                   \E m \in DOMAIN buf : SubSeq(buf, a, b)[k] = buf[m]
  <2>1. \A m \in a .. b : buf[m] \in D
    BY <1>1, <1>2
  <2>2. /\ SubSeq(buf, a, b) \in Seq(D)
        /\ Len(SubSeq(buf, a, b)) = IF a <= b THEN b - a + 1 ELSE 0
        /\ \A m \in 1 .. b - a + 1 : SubSeq(buf, a, b)[m] = buf[a + m - 1]
    BY <2>1, SubSeqProperties
  <2>3. DOMAIN SubSeq(buf, a, b) = 1 .. Len(SubSeq(buf, a, b))
    BY <2>2, LenProperties
  <2> SUFFICES ASSUME NEW k \in DOMAIN SubSeq(buf, a, b)
               PROVE  \E m \in DOMAIN buf : SubSeq(buf, a, b)[k] = buf[m]
    BY <2>2
  <2>4. k \in 1 .. b - a + 1 /\ a + k - 1 \in 1 .. Len(buf)
    BY <1>1, <1>2, <2>2, <2>3
  <2> QED BY <1>1, <2>2, <2>4
<1>3. n \in Int /\ n <= Len(buf) /\ 1 \in Int /\ 1 <= 1
  BY <1>1
<1>4. Chunk + 1 \in Int /\ 1 <= Chunk + 1 /\ Len(buf) \in Int /\ Len(buf) <= Len(buf)
  BY <1>1
<1>5. /\ SubSeq(buf, 1, n) \in Seq(D)
      /\ \A k \in DOMAIN SubSeq(buf, 1, n) :
            \E m \in DOMAIN buf : SubSeq(buf, 1, n)[k] = buf[m]
  BY <1>2, <1>3
<1>6. /\ SubSeq(buf, Chunk + 1, Len(buf)) \in Seq(D)
      /\ \A k \in DOMAIN SubSeq(buf, Chunk + 1, Len(buf)) :
            \E m \in DOMAIN buf : SubSeq(buf, Chunk + 1, Len(buf))[k] = buf[m]
  BY <1>2, <1>4
<1> QED BY <1>5, <1>6 DEF Rest

LEMMA Joined ==
    ASSUME NEW D, NEW old \in Seq(D), NEW more \in Seq(D)
    PROVE  /\ old \o more \in Seq(D)
           /\ \A k \in DOMAIN (old \o more) :
                 \/ \E m \in DOMAIN old : (old \o more)[k] = old[m]
                 \/ \E m \in DOMAIN more : (old \o more)[k] = more[m]
<1>1. /\ Len(old) \in Nat /\ DOMAIN old = 1 .. Len(old)
      /\ Len(more) \in Nat /\ DOMAIN more = 1 .. Len(more)
  BY LenProperties
<1>2. /\ old \o more \in Seq(D)
      /\ Len(old \o more) = Len(old) + Len(more)
      /\ \A k \in 1 .. Len(old) + Len(more) : (old \o more)[k] =
             IF k <= Len(old) THEN old[k] ELSE more[k - Len(old)]
  BY ConcatProperties
<1>3. DOMAIN (old \o more) = 1 .. Len(old) + Len(more)
  BY <1>2, LenProperties
<1> SUFFICES ASSUME NEW k \in 1 .. Len(old) + Len(more)
             PROVE  \/ \E m \in DOMAIN old : (old \o more)[k] = old[m]
                    \/ \E m \in DOMAIN more : (old \o more)[k] = more[m]
  BY <1>2, <1>3
<1>4. CASE k <= Len(old)
  <2>1. k \in 1 .. Len(old)
    BY <1>1, <1>4
  <2> QED BY <1>1, <1>2, <1>4, <2>1
<1>5. CASE ~(k <= Len(old))
  <2>1. k - Len(old) \in 1 .. Len(more)
    BY <1>1, <1>5
  <2> QED BY <1>1, <1>2, <1>5, <2>1
<1> QED BY <1>4, <1>5

LEMMA InvRecv ==
    ASSUME TcpAssumption, TcpInv, Recv
    PROVE  TcpInv'
<1> DEFINE i == task.conn
           buf == conns[i].rx
           n == IF Len(buf) < Chunk THEN Len(buf) ELSE Chunk
           new == SubSeq(buf, 1, n)
           c == [conns[i] EXCEPT !.rx = Rest(buf)]
<1>1. /\ UNCHANGED <<queue, port, sent, heard, told, page>> /\ task.at = "recv"
      /\ task' = [task EXCEPT !.read = @ \o new]
      /\ conns' = [conns EXCEPT ![i].rx = Rest(buf)]
  BY DEF Recv
<1>2. i \in Conns /\ conns[i].state \in Open /\ conns[i] \in TcpConn
  BY <1>1, TypedParts DEF TcpInv, Commands
<1>3. buf \in Seq(Data) /\ task.read \in Seq(Data)
  BY <1>2, TypedParts DEF TcpConn, Task
<1>4. /\ new \in Seq(Data) /\ Rest(buf) \in Seq(Data)
      /\ \A k \in DOMAIN new : \E m \in DOMAIN buf : new[k] = buf[m]
      /\ \A k \in DOMAIN Rest(buf) : \E m \in DOMAIN buf : Rest(buf)[k] = buf[m]
  <2> HIDE DEF buf
  <2>1. n = IF Len(buf) < Chunk THEN Len(buf) ELSE Chunk
    OBVIOUS
  <2> HIDE DEF n
  <2> QED BY <1>3, <2>1, Taken
<1>5. conns' = [conns EXCEPT ![i] = c]
  BY <1>1
<1> HIDE DEF new, n
<1>6. /\ task.read \o new \in Seq(Data)
      /\ \A k \in DOMAIN (task.read \o new) :
            \/ \E m \in DOMAIN task.read : (task.read \o new)[k] = task.read[m]
            \/ \E m \in DOMAIN new : (task.read \o new)[k] = new[m]
  <2> DEFINE old == task.read
  <2> HIDE DEF old, buf
  <2>1. old \in Seq(Data) /\ new \in Seq(Data)
    BY <1>3, <1>4 DEF old
  <2>2. /\ old \o new \in Seq(Data)
        /\ \A k \in DOMAIN (old \o new) :
              \/ \E m \in DOMAIN old : (old \o new)[k] = old[m]
              \/ \E m \in DOMAIN new : (old \o new)[k] = new[m]
    BY <2>1, Joined
  <2> QED BY <2>2 DEF old
<1>7. /\ c \in TcpConn /\ c.state = conns[i].state /\ c.rx = Rest(buf)
      /\ c.peer = conns[i].peer /\ c.lport = conns[i].lport
  BY <1>2, <1>4 DEF TcpConn
<1> HIDE DEF c
<1>9. /\ conns' \in [Conns -> TcpConn] /\ conns'[i] = c
      /\ \A j \in Conns \ {i} : conns'[j] = conns[j]
  BY <1>2, <1>5, <1>7, SlotSet
<1>10. /\ task' \in Task /\ task'.at = "recv" /\ task'.conn = i
       /\ task'.read = task.read \o new
  BY <1>1, <1>6, TypedParts DEF Task
<1>11. Typed'
  BY <1>1, <1>9, <1>10 DEF TcpInv, Typed, TcpTypeOK, LastPacket
<1>12. Commands'
  BY <1>1, <1>2, <1>7, <1>9, <1>10 DEF TcpInv, Commands, Listeners, Open
<1>13. FreeSlots'
  BY <1>2, <1>7, <1>9 DEF TcpInv, FreeSlots, Free, Open
<1>14. QueueSound'
  BY <1>1, <1>7, <1>9, <1>10, QueueStays
<1>15. OwnData'
  <2>1. \A k \in DOMAIN buf : buf[k].talk.peer = conns[i].peer
                            /\ buf[k].talk.lport = conns[i].lport
    BY <1>2 DEF TcpInv, OwnData
  <2>2. \A k \in DOMAIN task.read : task.read[k].talk.peer = conns[i].peer
    BY DEF TcpInv, OwnData
  <2>3. \A j \in Conns : \A k \in DOMAIN conns'[j].rx :
           /\ conns'[j].rx[k].talk.peer = conns'[j].peer
           /\ conns'[j].rx[k].talk.lport = conns'[j].lport
    <3>1. \A k \in DOMAIN conns'[i].rx :
             /\ conns'[i].rx[k].talk.peer = conns'[i].peer
             /\ conns'[i].rx[k].talk.lport = conns'[i].lport
      BY <1>4, <1>7, <1>9, <2>1
    <3>2. \A j \in Conns \ {i} : \A k \in DOMAIN conns'[j].rx :
             /\ conns'[j].rx[k].talk.peer = conns'[j].peer
             /\ conns'[j].rx[k].talk.lport = conns'[j].lport
      BY <1>9 DEF TcpInv, OwnData
    <3> QED BY <3>1, <3>2
  <2>4. \A k \in DOMAIN task'.read : task'.read[k].talk.peer = conns'[task'.conn].peer
    <3>1. conns'[task'.conn].peer = conns[i].peer
      BY <1>7, <1>9, <1>10
    <3> QED BY <1>4, <1>6, <1>10, <2>1, <2>2, <3>1
  <2> QED BY <2>3, <2>4 DEF OwnData
<1> QED BY <1>11, <1>12, <1>13, <1>14, <1>15 DEF TcpInv

LEMMA InvCloseConn ==
    ASSUME TcpAssumption, TcpInv, CloseConn
    PROVE  TcpInv'
<1> DEFINE i == task.conn
           l == First(Listeners(ListenPort))
<1>1. UNCHANGED <<queue, port, sent, heard, told, page>> /\ task.at = "recv"
  BY DEF CloseConn
<1>2. i \in Conns /\ conns[i].state \in Open
  BY <1>1 DEF TcpInv, Commands
<1>3. l \in Conns /\ conns[l].state = "LISTEN" /\ conns[l].lport = ListenPort
  <2>1. l \in Listeners(ListenPort)
    BY <1>1, Scans DEF TcpInv, Commands
  <2> HIDE DEF l
  <2> QED BY <2>1 DEF Listeners
<1> HIDE DEF l
<1>4. l # i
  BY <1>2, <1>3 DEF Open
<1>5. CASE /\ conns' = tcp_free(conns, i)
           /\ task' = [Idle EXCEPT !.at = "accept", !.cmd = "serve"]
  <2>1. task' \in Task /\ task'.at = "accept" /\ task'.conn = 0 /\ task'.read = <<>>
    BY <1>5, Defaults DEF Idle, Task
  <2>2. /\ conns' \in [Conns -> TcpConn] /\ conns'[i] = Closed
        /\ \A j \in Conns \ {i} : conns'[j] = conns[j]
    BY <1>2, <1>5, Defaults, SlotSet DEF tcp_free
  <2>3. Typed'
    BY <1>1, <2>1, <2>2 DEF TcpInv, Typed, TcpTypeOK, LastPacket
  <2>4. Commands'
    <3>1. l \in Listeners(ListenPort)'
      BY <1>3, <1>4, <2>2 DEF Listeners
    <3> QED BY <2>1, <3>1 DEF Commands
  <2>5. (FreeSlots /\ QueueSound /\ OwnData)'
    BY <1>1, <1>2, <2>1, <2>2, Freed, {i} \in SUBSET Conns
  <2> QED BY <2>3, <2>4, <2>5 DEF TcpInv
<1>6. CASE conns' = tcp_free(tcp_free(conns, i), l) /\ task' = Idle
  <2>1. task' \in Task /\ task'.at = "shell" /\ task'.conn = 0 /\ task'.read = <<>>
    BY <1>6, Defaults DEF Idle
  <2>2. /\ conns' \in [Conns -> TcpConn] /\ conns'[i] = Closed /\ conns'[l] = Closed
        /\ \A j \in Conns \ {i, l} : conns'[j] = conns[j]
    BY <1>2, <1>3, <1>4, <1>6, Defaults, TypedParts DEF tcp_free
  <2>3. Typed'
    BY <1>1, <2>1, <2>2 DEF TcpInv, Typed, TcpTypeOK, LastPacket
  <2>4. Commands'
    BY <1>6, <2>1 DEF Commands
  <2>5. (FreeSlots /\ QueueSound /\ OwnData)'
    <3>1. {i, l} \in SUBSET Conns /\ conns[l].state \notin Open
      BY <1>2, <1>3 DEF Open
    <3> QED BY <1>1, <2>1, <2>2, <3>1, Freed
  <2> QED BY <2>3, <2>4, <2>5 DEF TcpInv
<1> QED BY <1>5, <1>6 DEF CloseConn, l

LEMMA InvConnect ==
    ASSUME TcpAssumption, TcpInv, Connect
    PROVE  TcpInv'
<1> DEFINE c == [Closed EXCEPT !.state = "SYN_SENT", !.peer = Server, !.lport = port]
<1>1. /\ UNCHANGED <<queue, sent, heard, page>> /\ task = Idle
      /\ Free # {} /\ port < FirstEphemeral + MaxGets /\ port' = port + 1
      /\ conns' = [conns EXCEPT ![tcp_alloc] = c]
      /\ task' = [Idle EXCEPT !.at = "connect", !.cmd = "wget", !.conn = tcp_alloc]
      /\ told' = [told EXCEPT ![[peer |-> Server, lport |-> port]] = 1]
  BY DEF Connect
<1>2. tcp_alloc \in Conns /\ conns[tcp_alloc].state = "CLOSED"
  BY <1>1, Scans
<1>3. c \in TcpConn /\ c.state = "SYN_SENT" /\ c.rx = <<>>
  BY Defaults, TypedParts DEF Closed, TcpConn, TcpStates, Peers
<1> HIDE DEF c
<1>4. /\ conns' \in [Conns -> TcpConn] /\ conns'[tcp_alloc] = c
      /\ \A j \in Conns \ {tcp_alloc} : conns'[j] = conns[j]
  BY <1>1, <1>2, <1>3, SlotSet
<1>5. /\ task' \in Task /\ task'.at = "connect" /\ task'.conn = tcp_alloc
      /\ task'.read = <<>>
  BY <1>1, <1>2, Defaults DEF Idle, Task
<1>6. told' \in [Talks -> 0 .. 2]
  BY <1>1, ToldOf, 1 \in 0 .. 2
<1>7. port' \in Ephemeral
  BY <1>1, TypedParts DEF TcpAssumption, Ephemeral, FirstEphemeral
<1>8. Typed'
  BY <1>1, <1>4, <1>5, <1>6, <1>7 DEF TcpInv, Typed, TcpTypeOK, LastPacket
<1>9. Commands'
  BY <1>2, <1>3, <1>4, <1>5 DEF Commands
<1>10. FreeSlots'
  BY <1>3, <1>4 DEF TcpInv, FreeSlots, Free
<1>11. QueueSound'
  BY <1>1, <1>2, <1>4, <1>5, QueueStays DEF Open
<1>12. OwnData'
  BY <1>3, <1>4, <1>5, DataStays
<1> QED BY <1>8, <1>9, <1>10, <1>11, <1>12 DEF TcpInv

LEMMA InvConnected ==
    ASSUME TcpAssumption, TcpInv, Connected
    PROVE  TcpInv'
<1>1. /\ UNCHANGED <<conns, queue, port, sent, heard, page>> /\ task.at = "connect"
      /\ task' = [task EXCEPT !.at = "await"]
      /\ told' = [told EXCEPT ![[peer |-> Server,
                                 lport |-> conns[task.conn].lport]] = 2]
  BY DEF Connected
<1>2. task' \in Task /\ task'.at = "await" /\ task'.conn = task.conn
      /\ task'.read = task.read
  BY <1>1, TypedParts DEF Task
<1>3. told' \in [Talks -> 0 .. 2]
  BY <1>1, ToldOf, 2 \in 0 .. 2
<1>4. Typed'
  BY <1>1, <1>2, <1>3 DEF TcpInv, Typed, TcpTypeOK, LastPacket
<1>5. Commands'
  BY <1>1, <1>2 DEF TcpInv, Commands
<1>6. (FreeSlots /\ QueueSound /\ OwnData)'
  BY <1>1, <1>2 DEF TcpInv, FreeSlots, Free, QueueSound, OwnData
<1> QED BY <1>4, <1>5, <1>6 DEF TcpInv

(* The end of a download, with an answer or without.                       *)
LEMMA InvGivenUp ==
    ASSUME TcpAssumption, TcpInv, task.at \in {"connect", "await"},
           conns' = tcp_free(conns, task.conn), task' = Idle,
           UNCHANGED <<queue, port, sent, heard, told>>,
           page' \in [fin: BOOLEAN, body: Seq(Data)]
    PROVE  TcpInv'
<1>1. task.conn \in Conns
  BY DEF TcpInv, Commands
<1>2. /\ conns' \in [Conns -> TcpConn] /\ conns'[task.conn] = Closed
      /\ \A j \in Conns \ {task.conn} : conns'[j] = conns[j]
  BY <1>1, Defaults, SlotSet DEF tcp_free
<1>3. task' \in Task /\ task'.at = "shell" /\ task'.conn = 0 /\ task'.read = <<>>
  BY Defaults DEF Idle
<1>4. Typed'
  BY <1>2, <1>3 DEF TcpInv, Typed, TcpTypeOK, LastPacket
<1>5. Commands'
  BY <1>3 DEF Commands
<1>6. (FreeSlots /\ QueueSound /\ OwnData)'
  BY <1>1, <1>2, <1>3, Freed, {task.conn} \in SUBSET Conns
<1> QED BY <1>4, <1>5, <1>6 DEF TcpInv

LEMMA InvConnectTimeout ==
    ASSUME TcpAssumption, TcpInv, ConnectTimeout
    PROVE  TcpInv'
<1>1. page' \in [fin: BOOLEAN, body: Seq(Data)]
  BY DEF ConnectTimeout, TcpInv, Typed, TcpTypeOK
<1> QED BY <1>1, InvGivenUp DEF ConnectTimeout

LEMMA InvFinish ==
    ASSUME TcpAssumption, TcpInv, Finish
    PROVE  TcpInv'
<1>1. /\ task.at = "await" /\ conns' = tcp_free(conns, task.conn) /\ task' = Idle
      /\ UNCHANGED <<queue, port, sent, heard, told>>
      /\ page' = [fin |-> conns[task.conn].fin,
                  body |-> IF conns'[task.conn].rx = <<>> THEN <<>>
                           ELSE Tail(conns'[task.conn].rx)]
  BY DEF Finish
<1>2. task.conn \in Conns /\ conns[task.conn] \in TcpConn
  BY <1>1, TypedParts DEF TcpInv, Commands
<1>3. conns'[task.conn].rx = <<>>
  BY <1>1, <1>2, TypedParts DEF tcp_free, Closed
<1>4. page' \in [fin: BOOLEAN, body: Seq(Data)]
  BY <1>1, <1>2, <1>3 DEF TcpConn
<1> QED BY <1>1, <1>4, InvGivenUp

-----------------------------------------------------------------------------
LEMMA InvNext == TcpAssumption /\ TcpInv /\ [TcpNext]_tcpVars => TcpInv'
<1> SUFFICES ASSUME TcpAssumption, TcpInv, [TcpNext]_tcpVars
             PROVE  TcpInv'
  OBVIOUS
<1>1. ASSUME NEW t \in Talks, PeerSend(t) PROVE TcpInv'
  BY <1>1, InvPeerSend
<1>2. ASSUME NEW t \in Talks, NEW n \in 1 .. Units + 3, Receive(t, n) PROVE TcpInv'
  BY <1>2, InvReceive
<1>3. ASSUME NEW cmd \in {"serve", "netcat"}, Listen(cmd) PROVE TcpInv'
  BY <1>3, InvListen
<1>4. CASE UNCHANGED tcpVars
  BY <1>4 DEF tcpVars, TcpInv, Typed, TcpTypeOK, LastPacket, Commands, FreeSlots,
     QueueSound, OwnData, Free, Listeners
<1> QED BY <1>1, <1>2, <1>3, <1>4, InvAccept, InvUnlisten, InvRecv, InvCloseConn,
     InvConnect, InvConnected, InvConnectTimeout, InvFinish DEF TcpNext

THEOREM TcpInvariant == ASSUME TcpAssumption PROVE TcpSpec => []TcpInv
<1>1. TcpInit => TcpInv
  BY InvInit
<1>2. TcpInv /\ [TcpNext]_tcpVars => TcpInv'
  BY InvNext
<1> QED BY <1>1, <1>2, PTL DEF TcpSpec

(* The tables stay what their declarations say: no index of a slot outside *)
(* the table, no more queued connections than the queue has places, no     *)
(* packet of a peer that is not in its script (tcp_conns, accept_queue).   *)
THEOREM TcpTyping == ASSUME TcpAssumption PROVE TcpSpec => []TcpTypeOK
<1>1. TcpInv => TcpTypeOK
  BY DEF TcpInv, Typed
<1> QED BY <1>1, TcpInvariant, PTL

(* The accept queue never points to a slot that was freed or handed to     *)
(* another connection, and never twice to one (tcp_accept_nb rotates it;   *)
(* net_tcp_close does not look at it).                                     *)
THEOREM QueueHoldsOpen == ASSUME TcpAssumption PROVE TcpSpec => []QueueSound
<1>1. TcpInv => QueueSound
  BY DEF TcpInv
<1> QED BY <1>1, TcpInvariant, PTL

(* A command reads and a slot buffers only what the peer of that very      *)
(* conversation sent, whatever was lost, repeated or comes late (tcp_find, *)
(* tcp_free, next_ephemeral_port).                                         *)
THEOREM DataOfConversation == ASSUME TcpAssumption PROVE TcpSpec => []OwnData
<1>1. TcpInv => OwnData
  BY DEF TcpInv
<1> QED BY <1>1, TcpInvariant, PTL

-----------------------------------------------------------------------------
(* Net                                                                     *)

(* The call under way, and the frames that may arrive.                     *)
CallShape ==
    /\ DOMAIN call = {"kind", "of", "try"}
    /\ call.kind \in {"idle", "ping", "dns", "offer", "ack"}
    /\ call.try \in 0 .. Tries /\ calls \in 0 .. MaxCalls
    /\ call.kind = "idle" <=> call = AtRest
    /\ call.kind # "idle" => calls >= 1

(* Numbers of queries used so far at most: Tries by every call but the one *)
(* under way.                                                              *)
Used == IF call.kind = "dns" THEN Tries * (calls - 1) + call.try
        ELSE Tries * calls

(* An answer with the number of the query under way is about its name.     *)
ResolverInv ==
    /\ CallShape
    /\ dns_txid \in Nat /\ dns_txid <= Used
    /\ \A p \in air : p.kind = "dns" =>
         /\ p.txid \in Nat /\ p.txid <= dns_txid
         /\ call.kind = "dns" /\ p.txid = dns_txid => p.ip = Records[call.of]
    /\ call.kind = "dns" =>
         /\ call.of \in DOMAIN Records /\ dns_txid > 0
         /\ dns_result \in {"none", Records[call.of]}
    /\ ResolvesRight

LEMMA Times ==
    ASSUME NEW n \in Nat, NEW a \in Nat, NEW b \in Nat
    PROVE  n * a \in Nat /\ n * (a + 1) = n * a + n /\ (a <= b => n * a <= n * b)
<1>1. n * a \in Nat /\ n * (a + 1) = n * a + n
  OBVIOUS
<1>2. ASSUME a <= b PROVE n * a <= n * b
  BY <1>2, SMTT(30)
<1> QED BY <1>1, <1>2

LEMMA UsedFits ==
    ASSUME NetAssumption, CallShape
    PROVE  /\ Used \in Nat /\ Used < TXIDS
           /\ call.kind = "dns" /\ call.try < Tries => Used + 1 < TXIDS
           /\ call.kind = "idle" /\ calls < MaxCalls => Used + 1 < TXIDS
<1>1. /\ Tries \in Nat \ {0} /\ MaxCalls \in Nat /\ TXIDS \in Nat
      /\ TXIDS > Tries * MaxCalls /\ calls \in 0 .. MaxCalls /\ call.try \in 0 .. Tries
  BY DEF NetAssumption, CallShape
<1>2. ASSUME NEW a \in Nat, NEW b \in Nat, a <= b PROVE Tries * a <= Tries * b
  <2>1. Tries \in Nat
    BY <1>1
  <2> QED BY <1>2, <2>1, Times
<1>3. ASSUME NEW a \in Nat, a >= 1
      PROVE  Tries * a = Tries * (a - 1) + Tries /\ Tries * (a - 1) \in Nat
  <2>1. a - 1 \in Nat /\ (a - 1) + 1 = a
    BY <1>3
  <2> QED BY <1>1, <2>1, Times
<1>4. Tries * calls \in Nat /\ Tries * calls <= Tries * MaxCalls
  BY <1>1, <1>2, Times
<1>5. CASE call.kind = "dns"
  <2>1. calls >= 1 /\ calls \in Nat
    BY <1>1, <1>5 DEF CallShape
  <2>2. Tries * calls = Tries * (calls - 1) + Tries /\ Tries * (calls - 1) \in Nat
    BY <1>3, <2>1
  <2> QED BY <1>1, <1>4, <1>5, <2>2 DEF Used
<1>6. CASE call.kind # "dns"
  <2>1. ASSUME calls < MaxCalls PROVE Tries * calls + 1 <= Tries * MaxCalls
    <3>1. Tries * (calls + 1) <= Tries * MaxCalls
      BY <1>1, <1>2, <2>1
    <3>2. Tries * (calls + 1) = Tries * ((calls + 1) - 1) + Tries
      BY <1>1, <1>3
    <3>3. (calls + 1) - 1 = calls
      BY <1>1
    <3> QED BY <1>1, <1>4, <3>1, <3>2, <3>3
  <2> QED BY <1>1, <1>4, <1>6, <2>1 DEF Used
<1> QED BY <1>5, <1>6

LEMMA ResolverInit == ASSUME NetAssumption, NetInit PROVE ResolverInv
<1>1. call = [kind |-> "idle", of |-> "none", try |-> 0] /\ calls = 0
  BY DEF NetInit, AtRest
<1>2. CallShape
  BY <1>1 DEF NetAssumption, CallShape, AtRest
<1>3. Used \in Nat /\ dns_txid = 0
  BY <1>2, UsedFits DEF NetInit
<1>4. air = {} /\ got.kind = "none"
  BY DEF NetInit
<1> QED BY <1>1, <1>2, <1>3, <1>4 DEF ResolverInv, ResolvesRight

(* A query for a name has a number that no answer under way has.           *)
LEMMA QueryNew ==
    ASSUME NetAssumption, ResolverInv, NEW name \in DOMAIN Records, Query(name),
           Used + 1 < TXIDS, CallShape', call'.kind = "dns", call'.of = name,
           Used' >= Used + 1, UNCHANGED got
    PROVE  ResolverInv'
<1>1. Used \in Nat
  BY UsedFits DEF ResolverInv
<1>2. dns_txid' = dns_txid + 1 /\ dns_txid' \in Nat /\ dns_txid' <= Used'
  <2>1. TXIDS \in Nat /\ dns_txid \in Nat /\ dns_txid + 1 < TXIDS
    BY <1>1 DEF NetAssumption, ResolverInv
  <2>2. (dns_txid + 1) % TXIDS = dns_txid + 1
    BY <2>1
  <2>3. Used' \in Nat
    BY UsedFits DEF NetAssumption, Used, CallShape
  <2>4. dns_txid' = (dns_txid + 1) % TXIDS /\ dns_txid <= Used
    BY DEF Query, NextId, ResolverInv
  <2> QED BY <1>1, <2>1, <2>2, <2>3, <2>4
<1>3. ASSUME NEW p \in air', p.kind = "dns"
      PROVE  /\ p.txid \in Nat /\ p.txid <= dns_txid'
             /\ p.txid = dns_txid' => p.ip = Records[name]
  <2>1. CASE p \in air
    BY <1>2, <1>3, <2>1 DEF ResolverInv
  <2>2. CASE p = Answer(NextId, name, Records[name])
    <3>1. p.txid = NextId /\ p.ip = Records[name] /\ dns_txid' = NextId
      BY <2>2 DEF Answer, Query
    <3> QED BY <1>2, <3>1
  <2> QED BY <1>3, <2>1, <2>2 DEF Query, Asking
<1>4. dns_result' = "none"
  BY DEF Query
<1>5. ResolvesRight'
  BY DEF ResolverInv, ResolvesRight
<1> QED BY <1>2, <1>3, <1>4, <1>5 DEF ResolverInv

(* A call of another kind, or the end of one.                              *)
LEMMA NoQuery ==
    ASSUME NetAssumption, ResolverInv, CallShape', call'.kind # "dns",
           Used' >= Used, UNCHANGED dns_txid,
           \A p \in air' : p.kind = "dns" => p \in air, ResolvesRight'
    PROVE  ResolverInv'
<1>1. Used \in Nat
  BY UsedFits DEF ResolverInv
<1>2. Used' \in Int
  BY DEF CallShape, NetAssumption, Used
<1> QED BY <1>1, <1>2 DEF ResolverInv

(* Steps that leave the call and the resolver alone.                       *)
LEMMA ResolverKept ==
    ASSUME ResolverInv, UNCHANGED <<call, calls, dns_txid, dns_result, got>>,
           \A p \in air' : p.kind = "dns" => p \in air
    PROVE  ResolverInv'
BY DEF ResolverInv, ResolvesRight, CallShape, Used, AtRest

(* A call that begins.                                                     *)
LEMMA Begun ==
    ASSUME NetAssumption, CallShape, NEW k \in {"ping", "dns", "offer"}, NEW h,
           Begin([kind |-> k, of |-> h, try |-> 1])
    PROVE  /\ CallShape' /\ call'.kind = k /\ call'.of = h
           /\ Used' = IF k = "dns" THEN Used + 1 ELSE Used + Tries
           /\ Used + 1 < TXIDS
<1>1. /\ call' = [kind |-> k, of |-> h, try |-> 1] /\ calls' = calls + 1
      /\ call = AtRest /\ calls < MaxCalls
  BY DEF Begin
<1>2. DOMAIN call' = {"kind", "of", "try"} /\ call'.kind = k /\ call'.of = h
      /\ call'.try = 1
  BY <1>1
<1>3. call.kind = "idle" /\ AtRest.kind = "idle"
  BY <1>1 DEF AtRest
<1>4. Tries \in Nat \ {0} /\ calls \in Nat /\ calls + 1 \in 0 .. MaxCalls
  BY <1>1 DEF NetAssumption, CallShape
<1>5. CallShape'
  BY <1>1, <1>2, <1>3, <1>4 DEF CallShape, AtRest
<1>6. Tries * (calls + 1) = Tries * calls + Tries /\ (calls + 1) - 1 = calls
  BY <1>4, Times
<1>7. Used = Tries * calls
  BY <1>3 DEF Used
<1>8. Used' = IF k = "dns" THEN Tries * calls + 1 ELSE Tries * calls + Tries
  BY <1>1, <1>2, <1>6 DEF Used
<1> QED BY <1>1, <1>2, <1>3, <1>5, <1>7, <1>8, UsedFits

(* A call that returns has used its attempts.                              *)
LEMMA Returned ==
    ASSUME NetAssumption, CallShape, call' = AtRest, UNCHANGED calls
    PROVE  CallShape' /\ call'.kind = "idle" /\ Used' >= Used
<1>1. call' = [kind |-> "idle", of |-> "none", try |-> 0]
  BY DEF AtRest
<1>2. DOMAIN call' = {"kind", "of", "try"} /\ call'.kind = "idle" /\ call'.try = 0
  BY <1>1
<1>3. CallShape'
  BY <1>2 DEF CallShape, NetAssumption, AtRest
<1>4. Used' = Tries * calls
  BY <1>2 DEF Used
<1>5. Tries \in Nat /\ calls \in Nat /\ call.try \in 0 .. Tries
  BY DEF NetAssumption, CallShape
<1>6. CASE call.kind = "dns"
  <2>1. calls - 1 \in Nat /\ (calls - 1) + 1 = calls
    BY <1>5, <1>6 DEF CallShape
  <2>2. Tries * calls = Tries * (calls - 1) + Tries /\ Tries * (calls - 1) \in Nat
    BY <1>5, <2>1, Times
  <2>3. Used = Tries * (calls - 1) + call.try
    BY <1>6 DEF Used
  <2> QED BY <1>2, <1>3, <1>4, <1>5, <2>2, <2>3
<1>7. CASE call.kind # "dns"
  <2>1. Used = Tries * calls /\ Tries * calls \in Nat
    BY <1>5, <1>7, Times DEF Used
  <2> QED BY <1>2, <1>3, <1>4, <2>1
<1> QED BY <1>6, <1>7

(* A call that goes on, with another attempt perhaps.                      *)
LEMMA GoesOn ==
    ASSUME NetAssumption, CallShape, call.kind # "idle", UNCHANGED calls,
           NEW k \in {"dns", "offer", "ack"}, NEW t \in 0 .. Tries,
           DOMAIN call' = DOMAIN call, call'.kind = k, call'.try = t
    PROVE  /\ CallShape'
           /\ call.kind # "dns" /\ k # "dns" => Used' = Used
           /\ call.kind = "dns" /\ k = "dns" => Used' = Used + (t - call.try)
<1>1. DOMAIN call' = {"kind", "of", "try"} /\ call'.kind = k /\ call'.try = t
  BY DEF CallShape
<1>2. call'.kind # "idle" /\ AtRest.kind = "idle"
  BY <1>1 DEF AtRest
<1>3. CallShape'
  BY <1>1, <1>2 DEF CallShape, AtRest
<1>4. calls \in Nat /\ calls >= 1 /\ Tries \in Nat /\ call.try \in Nat /\ t \in Nat
  BY DEF CallShape, NetAssumption
<1>5. calls - 1 \in Nat
  BY <1>4
<1>6. Tries * (calls - 1) \in Nat
  BY <1>4, <1>5, Times
<1>7. call.kind # "dns" /\ k # "dns" => Used' = Used
  BY <1>1 DEF Used
<1>8. ASSUME call.kind = "dns", k = "dns" PROVE Used' = Used + (t - call.try)
  <2>1. Used = Tries * (calls - 1) + call.try /\ Used' = Tries * (calls - 1) + t
    BY <1>1, <1>8 DEF Used
  <2> QED BY <1>4, <1>6, <2>1
<1> QED BY <1>1, <1>3, <1>7, <1>8

LEMMA ReturnsRight ==
    ASSUME NetAssumption, ResolverInv, NEW ip, Return(ip), UNCHANGED dns_txid,
           call.kind = "dns" => ip = dns_result
    PROVE  ResolverInv'
<1>1. CallShape' /\ call'.kind = "idle" /\ Used' >= Used
  BY Returned DEF Return, ResolverInv
<1>2. \A p \in air' : p.kind = "dns" => p \in air
  BY DEF Return
<1>3. got'.kind = call.kind /\ got'.of = call.of /\ got'.ip = ip
  BY DEF Return
<1>4. ResolvesRight'
  BY <1>3 DEF ResolvesRight, ResolverInv
<1> QED BY <1>1, <1>2, <1>4, NoQuery DEF Return

LEMMA ResolverDelivers ==
    ASSUME NetAssumption, ResolverInv, Deliver PROVE ResolverInv'
<1>1. \A p \in air' : p \in air
  BY DEF Deliver
<1>2. PICK p \in air : HandleArp(p) \/ HandleIcmp(p) \/ dns_handle_reply(p) \/ handle_dhcp(p)
  BY DEF Deliver
<1>3. UNCHANGED <<call, calls, dns_txid, got>>
  BY DEF Deliver
<1>4. CASE HandleArp(p) \/ HandleIcmp(p) \/ handle_dhcp(p)
  BY <1>1, <1>3, <1>4, ResolverKept DEF HandleArp, HandleIcmp, handle_dhcp, notes
<1>5. CASE dns_handle_reply(p)
  <2>1. CallShape' /\ Used' = Used
    BY <1>3 DEF ResolverInv, CallShape, Used, AtRest
  <2>2. call.kind = "dns" => dns_result' \in {"none", Records[call.of]}
    BY <1>5 DEF dns_handle_reply, Wanted, ResolverInv
  <2>3. ResolvesRight'
    BY <1>3 DEF ResolverInv, ResolvesRight
  <2> QED BY <1>1, <1>3, <2>1, <2>2, <2>3 DEF ResolverInv
<1> QED BY <1>2, <1>4, <1>5

LEMMA ResolverNext == ASSUME NetAssumption, ResolverInv, NetNext PROVE ResolverInv'
<1> USE DEF notes
<1>0. CallShape
  BY DEF ResolverInv
<1>1. ASSUME NEW h \in Hosts, net_ping(h) PROVE ResolverInv'
  <2>1. Begin([kind |-> "ping", of |-> h, try |-> 1])
    BY <1>1 DEF net_ping
  <2>2. CallShape' /\ call'.kind = "ping" /\ Used' = Used + Tries
    BY <1>0, <2>1, Begun
  <2>3. \A p \in air' : p.kind = "dns" => p \in air
    BY <1>1 DEF net_ping, Asking, Echo
  <2>4. ResolvesRight' /\ UNCHANGED dns_txid
    BY <1>1 DEF net_ping, ResolverInv, ResolvesRight
  <2>5. Used' >= Used
    BY <1>0, <2>2, UsedFits DEF NetAssumption
  <2> QED BY <2>2, <2>3, <2>4, <2>5, NoQuery
<1>2. ASSUME NEW h \in Hosts, Tells(h) \/ Pings(h) PROVE ResolverInv'
  <2>1. \A p \in air' : p.kind = "dns" => p \in air
    BY <1>2 DEF Tells, Pings, Arp, Echo
  <2>2. UNCHANGED <<call, calls, dns_txid, dns_result, got>>
    BY <1>2 DEF Tells, Pings
  <2> QED BY <2>1, <2>2, ResolverKept
<1>3. ASSUME NEW n \in DOMAIN Records, net_dns_resolve(n) PROVE ResolverInv'
  <2>1. Begin([kind |-> "dns", of |-> n, try |-> 1])
    BY <1>3 DEF net_dns_resolve
  <2>2. /\ CallShape' /\ call'.kind = "dns" /\ call'.of = n
        /\ Used' = Used + 1 /\ Used + 1 < TXIDS
    BY <1>0, <2>1, Begun
  <2>3. Used' >= Used + 1
    BY <1>0, <2>2, UsedFits
  <2> QED BY <1>3, <2>2, <2>3, QueryNew DEF net_dns_resolve
<1>4. ASSUME NEW n \in DOMAIN Dotted, Parse(n) PROVE ResolverInv'
  <2>1. n \notin DOMAIN Records
    BY DEF NetAssumption
  <2>2. call = AtRest /\ call' = AtRest /\ calls' = calls + 1 /\ calls < MaxCalls
    BY <1>4 DEF Parse
  <2>3. call.kind = "idle" /\ call'.kind = "idle"
    BY <2>2 DEF AtRest
  <2>4. CallShape'
    BY <1>0, <2>2, <2>3 DEF CallShape, NetAssumption
  <2>5. Used' >= Used
    <3>1. calls \in Nat /\ Tries \in Nat
      BY <1>0 DEF CallShape, NetAssumption
    <3>2. Tries * calls \in Nat /\ Tries * (calls + 1) = Tries * calls + Tries
      BY <3>1, Times
    <3>3. Used = Tries * calls /\ Used' = Tries * (calls + 1)
      BY <2>2, <2>3 DEF Used
    <3> QED BY <3>1, <3>2, <3>3
  <2>6. got'.of = n /\ UNCHANGED <<dns_txid, air>>
    BY <1>4 DEF Parse
  <2>7. ResolvesRight'
    BY <2>1, <2>6 DEF ResolvesRight
  <2>8. call'.kind # "dns"
    BY <2>3
  <2> QED BY <2>4, <2>5, <2>6, <2>7, <2>8, NoQuery
<1>5. ASSUME dhcp_run PROVE ResolverInv'
  <2>1. Begin([kind |-> "offer", of |-> "me", try |-> 1])
    BY <1>5 DEF dhcp_run
  <2>2. CallShape' /\ call'.kind = "offer" /\ Used' = Used + Tries
    BY <1>0, <2>1, Begun
  <2>3. \A p \in air' : p.kind = "dns" => p \in air
    BY <1>5 DEF dhcp_run, Discover, Lease
  <2>4. ResolvesRight' /\ UNCHANGED dns_txid
    BY <1>5 DEF dhcp_run, ResolverInv, ResolvesRight
  <2>5. Used' >= Used
    BY <1>0, <2>2, UsedFits DEF NetAssumption
  <2> QED BY <2>2, <2>3, <2>4, <2>5, NoQuery
<1>6. ASSUME PingReturns \/ ResolveReturns \/ DhcpReturns PROVE ResolverInv'
  BY <1>6, ReturnsRight DEF PingReturns, ResolveReturns, DhcpReturns
<1>7. ASSUME ResolveAgain PROVE ResolverInv'
  <2>1. /\ call.kind = "dns" /\ call.try < Tries /\ Query(call.of)
        /\ call' = [call EXCEPT !.try = call.try + 1] /\ UNCHANGED <<calls, got>>
    BY <1>7 DEF ResolveAgain
  <2>2. /\ DOMAIN call' = DOMAIN call /\ call'.kind = "dns" /\ call'.of = call.of
        /\ call'.try = call.try + 1
    BY <1>0, <2>1 DEF CallShape
  <2>21. call.try + 1 \in 0 .. Tries
    BY <1>0, <2>1 DEF CallShape, NetAssumption
  <2>3. CallShape' /\ Used' = Used + ((call.try + 1) - call.try)
    BY <1>0, <2>1, <2>2, <2>21, GoesOn
  <2>4. Used' >= Used + 1 /\ Used + 1 < TXIDS
    BY <1>0, <2>1, <2>3, UsedFits DEF CallShape
  <2>5. call.of \in DOMAIN Records
    BY <2>1 DEF ResolverInv
  <2> QED BY <2>1, <2>2, <2>3, <2>4, <2>5, QueryNew
<1>8. ASSUME DhcpRequest PROVE ResolverInv'
  <2>1. /\ call.kind = "offer" /\ UNCHANGED <<calls, got, dns_txid>>
        /\ call' = [call EXCEPT !.kind = "ack", !.of = dhcp_offered_ip]
    BY <1>8 DEF DhcpRequest
  <2>2. /\ DOMAIN call' = DOMAIN call /\ call'.kind = "ack" /\ call'.try = call.try
        /\ call.try \in 0 .. Tries
    BY <1>0, <2>1 DEF CallShape
  <2>3. CallShape' /\ Used' = Used
    BY <1>0, <2>1, <2>2, GoesOn
  <2>4. \A p \in air' : p.kind = "dns" => p \in air
    BY <1>8 DEF DhcpRequest, Lease
  <2>5. ResolvesRight'
    BY <2>1 DEF ResolverInv, ResolvesRight
  <2> QED BY <1>0, <2>1, <2>2, <2>3, <2>4, <2>5, NoQuery, UsedFits
<1>9. ASSUME DhcpAgain PROVE ResolverInv'
  <2>1. CASE call.try < Tries
    <3>1. /\ call.kind = "offer" /\ UNCHANGED <<calls, got, dns_txid>> /\ Discover
          /\ call' = [call EXCEPT !.try = call.try + 1]
      BY <1>9, <2>1 DEF DhcpAgain
    <3>2. /\ DOMAIN call' = DOMAIN call /\ call'.kind = "offer"
          /\ call'.try = call.try + 1
      BY <1>0, <3>1 DEF CallShape
    <3>21. call.try + 1 \in 0 .. Tries
      BY <1>0, <2>1 DEF CallShape, NetAssumption
    <3>3. CallShape' /\ Used' = Used
      BY <1>0, <3>1, <3>2, <3>21, GoesOn
    <3>4. \A p \in air' : p.kind = "dns" => p \in air
      BY <3>1 DEF Discover, Lease
    <3>5. ResolvesRight'
      BY <3>1 DEF ResolverInv, ResolvesRight
    <3> QED BY <1>0, <3>1, <3>2, <3>3, <3>4, <3>5, NoQuery, UsedFits
  <2>2. CASE ~(call.try < Tries)
    <3>1. Return("none") /\ UNCHANGED dns_txid /\ call.kind # "dns"
      BY <1>9, <2>2 DEF DhcpAgain
    <3> QED BY <3>1, ReturnsRight
  <2> QED BY <2>1, <2>2
<1>10. ASSUME Lose PROVE ResolverInv'
  BY <1>10, ResolverKept DEF Lose
<1> QED BY <1>1, <1>2, <1>3, <1>4, <1>5, <1>6, <1>7, <1>8, <1>9, <1>10,
           ResolverDelivers DEF NetNext

(* ResolvesRight (Net) holds for any names, servers and number of          *)
(* attempts, as long as the numbers of queries do not come round: whatever *)
(* answers to earlier queries arrive, also twice and after their call gave *)
(* up, what the resolver returns is what the name stands for, or nothing.  *)
THEOREM NamesResolve == ASSUME NetAssumption PROVE NetSpec => []ResolvesRight
<1>1. NetInit => ResolverInv
  BY ResolverInit
<1>2. ResolverInv /\ [NetNext]_netVars => ResolverInv'
  <2>1. ResolverInv /\ UNCHANGED netVars => ResolverInv'
    BY ResolverKept DEF netVars
  <2> QED BY <2>1, ResolverNext
<1>3. ResolverInv => ResolvesRight
  BY DEF ResolverInv
<1> QED BY <1>1, <1>2, <1>3, PTL DEF NetSpec

-----------------------------------------------------------------------------
Cards == Macs \cup {"gw0", "h0"}
Entry == Hosts \X Cards

(* Every host has one entry at most, with the card it told of last; one    *)
(* without an entry has told of none, or the table was full.               *)
TableInv ==
    /\ arp_table \in Seq(Entry) /\ Len(arp_table) <= ARP_TABLE_SIZE
    /\ DOMAIN claimed = Hosts
    /\ \A p \in air : p.kind = "arp" => p.from \in Hosts /\ p.mac \in Cards
    /\ \A i, j \in DOMAIN arp_table : arp_table[i][1] = arp_table[j][1] => i = j
    /\ \A i \in DOMAIN arp_table : arp_table[i][2] = claimed[arp_table[i][1]]
    /\ \A h \in Hosts :
         EntriesOf(h) = {} => claimed[h] = "none" \/ Len(arp_table) = ARP_TABLE_SIZE

LEMMA TableInit == ASSUME NetAssumption, NetInit PROVE TableInv
<1>1. <<"gw", "gw0">> \in Entry /\ "gw" \in Hosts
  BY DEF NetAssumption, Entry, Cards
<1>2. arp_table = << <<"gw", "gw0">> >> /\ air = {}
      /\ claimed = [h \in Hosts |-> IF h = "gw" THEN "gw0" ELSE "none"]
  BY DEF NetInit
<1>3. arp_table \in Seq(Entry) /\ Len(arp_table) = 1 /\ DOMAIN arp_table = {1}
      /\ arp_table[1] = <<"gw", "gw0">>
  BY <1>1, <1>2
<1>4. ARP_TABLE_SIZE >= 1
  BY DEF NetAssumption
<1>5. \A h \in Hosts : EntriesOf(h) = {} => claimed[h] = "none"
  BY <1>2, <1>3 DEF EntriesOf
<1> QED BY <1>1, <1>2, <1>3, <1>4, <1>5 DEF TableInv

(* arp_table_add.                                                          *)
LEMMA TableLearns ==
    ASSUME NetAssumption, TableInv, NEW h \in Hosts, NEW m \in Cards,
           arp_table' = Learned(h, m), claimed' = [claimed EXCEPT ![h] = m],
           air' \subseteq air
    PROVE  TableInv'
<1>0. ARP_TABLE_SIZE \in Nat \ {0}
  BY DEF NetAssumption
<1>1. /\ DOMAIN claimed' = Hosts /\ claimed'[h] = m
      /\ \A k \in Hosts \ {h} : claimed'[k] = claimed[k]
  BY DEF TableInv
<1>2. <<h, m>> \in Entry /\ arp_table \in Seq(Entry) /\ Len(arp_table) \in Nat
      /\ DOMAIN arp_table = 1 .. Len(arp_table)
  BY DEF TableInv, Entry
<1>21. Len(arp_table) \in Nat /\ Len(arp_table) <= ARP_TABLE_SIZE
  BY <1>2 DEF TableInv
<1>22. /\ Len(arp_table) < ARP_TABLE_SIZE => Len(arp_table) # ARP_TABLE_SIZE
       /\ ~(Len(arp_table) < ARP_TABLE_SIZE) => Len(arp_table) = ARP_TABLE_SIZE
  BY <1>0, <1>21
<1>3. \A i \in DOMAIN arp_table : arp_table[i][1] \in Hosts
  BY <1>2 DEF Entry
<1>4. CASE EntriesOf(h) # {}
  <2>1. arp_table' = [i \in 1 .. Len(arp_table) |->
                        IF i \in EntriesOf(h) THEN <<h, m>> ELSE arp_table[i]]
    BY <1>2, <1>4 DEF Learned
  <2>2. arp_table' \in Seq(Entry) /\ Len(arp_table') = Len(arp_table)
        /\ DOMAIN arp_table' = DOMAIN arp_table
    BY <1>2, <2>1
  <2>3. \A i \in DOMAIN arp_table :
            /\ arp_table'[i][1] = arp_table[i][1]
            /\ arp_table[i][1] = h => arp_table'[i][2] = m
            /\ arp_table[i][1] # h => arp_table'[i][2] = arp_table[i][2]
    BY <1>2, <2>1 DEF EntriesOf
  <2>4. \A k \in Hosts : EntriesOf(k)' = EntriesOf(k)
    BY <2>2, <2>3 DEF EntriesOf
  <2>5. \A i, j \in DOMAIN arp_table' : arp_table'[i][1] = arp_table'[j][1] => i = j
    BY <2>2, <2>3 DEF TableInv
  <2>6. \A i \in DOMAIN arp_table' : arp_table'[i][2] = claimed'[arp_table'[i][1]]
    BY <1>1, <1>3, <2>2, <2>3 DEF TableInv
  <2>7. \A k \in Hosts : EntriesOf(k)' = {} =>
            claimed'[k] = "none" \/ Len(arp_table') = ARP_TABLE_SIZE
    BY <1>1, <1>4, <2>2, <2>4 DEF TableInv
  <2> QED BY <1>1, <2>2, <2>5, <2>6, <2>7 DEF TableInv
<1>5. CASE EntriesOf(h) = {} /\ Len(arp_table) < ARP_TABLE_SIZE
  <2> DEFINE n == Len(arp_table) + 1
  <2>1. arp_table' = Append(arp_table, <<h, m>>)
    BY <1>5 DEF Learned, Appended
  <2>2. /\ arp_table' \in Seq(Entry) /\ Len(arp_table') = n
        /\ DOMAIN arp_table' = DOMAIN arp_table \cup {n} /\ n \notin DOMAIN arp_table
        /\ arp_table'[n] = <<h, m>>
        /\ \A i \in DOMAIN arp_table : arp_table'[i] = arp_table[i]
    BY <1>2, <2>1
  <2> HIDE DEF n
  <2>3. \A i \in DOMAIN arp_table : arp_table[i][1] # h
    BY <1>5 DEF EntriesOf
  <2>4. arp_table'[n][1] = h /\ arp_table'[n][2] = m
    BY <2>2
  <2>5. \A i, j \in DOMAIN arp_table' : arp_table'[i][1] = arp_table'[j][1] => i = j
    BY <2>2, <2>3, <2>4 DEF TableInv
  <2>6. \A i \in DOMAIN arp_table' : arp_table'[i][2] = claimed'[arp_table'[i][1]]
    BY <1>1, <1>3, <2>2, <2>3, <2>4 DEF TableInv
  <2>7. ASSUME NEW k \in Hosts, EntriesOf(k)' = {} PROVE claimed'[k] = "none"
    <3>1. k # h
      BY <2>2, <2>4, <2>7 DEF EntriesOf
    <3>2. EntriesOf(k) = {}
      BY <2>2, <2>7 DEF EntriesOf
    <3>3. Len(arp_table) # ARP_TABLE_SIZE
      BY <1>5, <1>22
    <3> QED BY <1>1, <3>1, <3>2, <3>3 DEF TableInv
  <2>8. Len(arp_table') <= ARP_TABLE_SIZE
    BY <1>0, <1>2, <1>5, <2>2 DEF n
  <2> QED BY <1>1, <2>2, <2>5, <2>6, <2>7, <2>8 DEF TableInv
<1>6. CASE EntriesOf(h) = {} /\ ~(Len(arp_table) < ARP_TABLE_SIZE)
  <2>1. arp_table' = arp_table
    BY <1>6 DEF Learned, Appended
  <2>2. Len(arp_table) = ARP_TABLE_SIZE
    BY <1>6, <1>22
  <2>3. \A i \in DOMAIN arp_table : arp_table[i][1] # h
    BY <1>6 DEF EntriesOf
  <2>4. \A i \in DOMAIN arp_table' : arp_table'[i][2] = claimed'[arp_table'[i][1]]
    BY <1>1, <1>3, <2>1, <2>3 DEF TableInv
  <2> QED BY <1>1, <2>1, <2>2, <2>4 DEF TableInv
<1> QED BY <1>4, <1>5, <1>6

LEMMA TableKept ==
    ASSUME TableInv, UNCHANGED <<arp_table, claimed>>,
           \A p \in air' : p.kind = "arp" =>
             p \in air \/ (p.from \in Hosts /\ p.mac \in Cards)
    PROVE  TableInv'
<1>1. \A h \in Hosts : EntriesOf(h)' = EntriesOf(h)
  BY DEF EntriesOf
<1> QED BY <1>1 DEF TableInv

LEMMA TableNext == ASSUME NetAssumption, TableInv, NetNext PROVE TableInv'
<1> DEFINE New == {p \in air' : p \notin air}
<1>1. ASSUME NEW h \in Hosts, net_ping(h) \/ Tells(h) \/ Pings(h) PROVE TableInv'
  <2>1. UNCHANGED <<arp_table, claimed>>
    BY <1>1 DEF net_ping, Tells, Pings
  <2>2. CASE net_ping(h) \/ Pings(h)
    <3>1. \A p \in air' : p.kind = "arp" => p \in air
      BY <2>2 DEF net_ping, Pings, Asking, Echo
    <3> QED BY <2>1, <3>1, TableKept
  <2>3. CASE Tells(h)
    <3>1. PICK m \in Macs, oper \in {"request", "reply"} :
            air' = {p \in air : p.kind # "arp" \/ p.from # h} \cup {Arp(oper, h, m)}
      BY <2>3 DEF Tells
    <3>2. Arp(oper, h, m).from = h /\ Arp(oper, h, m).mac = m
      BY DEF Arp
    <3>3. \A p \in air' : p \in air \/ (p.from \in Hosts /\ p.mac \in Cards)
      BY <3>1, <3>2 DEF Cards
    <3> QED BY <2>1, <3>3, TableKept
  <2> QED BY <1>1, <2>2, <2>3
<1>2. ASSUME \/ \E n \in DOMAIN Records : net_dns_resolve(n)
             \/ ResolveAgain
      PROVE  TableInv'
  <2>1. UNCHANGED <<arp_table, claimed>>
    BY <1>2 DEF net_dns_resolve, ResolveAgain
  <2>2. \A id, n, ip : Answer(id, n, ip).kind = "dns"
    BY DEF Answer
  <2>3. ASSUME NEW n, Query(n) PROVE \A p \in air' : p.kind = "arp" => p \in air
    BY <2>2, <2>3 DEF Query, Asking
  <2>4. \A p \in air' : p.kind = "arp" => p \in air
    BY <1>2, <2>3 DEF net_dns_resolve, ResolveAgain
  <2> QED BY <2>1, <2>4, TableKept
<1>3. ASSUME dhcp_run \/ DhcpRequest \/ DhcpAgain PROVE TableInv'
  <2>1. UNCHANGED <<arp_table, claimed>>
    BY <1>3 DEF dhcp_run, DhcpRequest, DhcpAgain, Return
  <2>2. \A type, ip : Lease(type, ip).kind = "dhcp"
    BY DEF Lease
  <2>3. Discover => \A p \in air' : p.kind = "arp" => p \in air
    <3> SUFFICES ASSUME Discover, NEW p \in air', p.kind = "arp" PROVE p \in air
      OBVIOUS
    <3>1. PICK ip \in Offers : air' = air \cup {Lease("offer", ip)}
      BY DEF Discover
    <3>2. p # Lease("offer", ip)
      BY <2>2
    <3> QED BY <3>1, <3>2
  <2>4. \A p \in air' : p.kind = "arp" => p \in air
    <3>1. CASE dhcp_run
      BY <2>3, <3>1 DEF dhcp_run
    <3>2. CASE DhcpRequest
      BY <2>2, <3>2 DEF DhcpRequest
    <3>3. CASE DhcpAgain
      <4>1. Discover \/ Return("none")
        BY <3>3 DEF DhcpAgain
      <4> QED BY <2>3, <4>1 DEF Return
    <3> QED BY <1>3, <3>1, <3>2, <3>3
  <2> QED BY <2>1, <2>4, TableKept
<1>4. ASSUME \/ \E n \in DOMAIN Dotted : Parse(n)
             \/ PingReturns \/ ResolveReturns \/ DhcpReturns \/ Lose
      PROVE  TableInv'
  <2>1. UNCHANGED <<arp_table, claimed>> /\ \A p \in air' : p \in air
    BY <1>4 DEF Parse, PingReturns, ResolveReturns, DhcpReturns, Lose, Return
  <2> QED BY <2>1, TableKept
<1>5. ASSUME Deliver PROVE TableInv'
  <2>1. PICK p \in air :
            HandleArp(p) \/ HandleIcmp(p) \/ dns_handle_reply(p) \/ handle_dhcp(p)
    BY <1>5 DEF Deliver
  <2>2. air' \subseteq air
    BY <1>5 DEF Deliver
  <2>3. CASE HandleArp(p)
    <3>1. p.from \in Hosts /\ p.mac \in Cards
      BY <2>3 DEF HandleArp, TableInv
    <3> QED BY <2>2, <2>3, <3>1, TableLearns DEF HandleArp
  <2>4. CASE HandleIcmp(p) \/ dns_handle_reply(p) \/ handle_dhcp(p)
    BY <2>2, <2>4, TableKept DEF HandleIcmp, dns_handle_reply, handle_dhcp
  <2> QED BY <2>1, <2>3, <2>4
<1> QED BY <1>1, <1>2, <1>3, <1>4, <1>5 DEF NetNext

LEMMA TableMeans == ASSUME TableInv PROVE TableTrue
<1>1. ASSUME NEW h \in Hosts
      PROVE  /\ Cardinality(EntriesOf(h)) <= 1
             /\ arp_lookup(h) = claimed[h]
                \/ (arp_lookup(h) = "none" /\ Len(arp_table) = ARP_TABLE_SIZE)
  <2>1. CASE EntriesOf(h) = {}
    <3>1. Cardinality(EntriesOf(h)) = 0
      BY <2>1, FS_EmptySet
    <3>2. arp_lookup(h) = "none"
      BY <2>1 DEF arp_lookup
    <3> QED BY <2>1, <3>1, <3>2 DEF TableInv
  <2>2. CASE EntriesOf(h) # {}
    <3>1. PICK i : i = CHOOSE j \in EntriesOf(h) : TRUE
      OBVIOUS
    <3>2. i \in EntriesOf(h)
      BY <2>2, <3>1
    <3>3. EntriesOf(h) = {i}
      BY <3>2 DEF EntriesOf, TableInv
    <3>4. Cardinality(EntriesOf(h)) = 1
      BY <3>3, FS_Singleton
    <3>5. arp_lookup(h) = arp_table[i][2]
      BY <2>2, <3>1 DEF arp_lookup
    <3>6. arp_table[i][2] = claimed[h]
      BY <3>2 DEF EntriesOf, TableInv
    <3> QED BY <3>4, <3>5, <3>6
  <2> QED BY <2>1, <2>2
<1> QED BY <1>1 DEF TableTrue

(* TableTrue (Net) holds for tables of every size and any hosts, whatever  *)
(* they tell and in whichever order it arrives: an address has one entry   *)
(* at most, the card told of last, and lacks one only when none was told   *)
(* of or the table was full.                                               *)
THEOREM AddressesKnown == ASSUME NetAssumption PROVE NetSpec => []TableTrue
<1>1. NetInit => TableInv
  BY TableInit
<1>2. TableInv /\ [NetNext]_netVars => TableInv'
  <2>1. TableInv /\ UNCHANGED netVars => TableInv'
    BY TableKept DEF netVars
  <2> QED BY <2>1, TableNext
<1>3. TableInv => TableTrue
  BY TableMeans
<1> QED BY <1>1, <1>2, <1>3, PTL DEF NetSpec

-----------------------------------------------------------------------------
(* When answers come in time or never, an echo reply under way is that of  *)
(* the host the call asks.                                                 *)
IsReply(p) == p.kind = "icmp" /\ p.type = "reply"
Replies(h) == h \in Alive /\ call.kind = "ping" /\ call.of = h
PingInv ==
    /\ ~Late => \A p \in air : IsReply(p) => Replies(p.from)
    /\ ~Late /\ call.kind = "ping" /\ icmp_got_reply => call.of \in Alive
    /\ PingTrue

(* No other call begins before a ping has returned, and then its answers   *)
(* are gone.                                                               *)
LEMMA PingKept ==
    ASSUME PingInv, UNCHANGED got,
           ~Late => \A p \in air' : IsReply(p) => p \in air,
           \/ UNCHANGED <<call, icmp_got_reply>>
           \/ call.kind # "ping" /\ call'.kind # "ping"
    PROVE  PingInv'
<1>1. PingTrue'
  BY DEF PingInv, PingTrue
<1>2. CASE UNCHANGED <<call, icmp_got_reply>>
  BY <1>1, <1>2 DEF PingInv, Replies
<1>3. CASE call.kind # "ping" /\ call'.kind # "ping"
  BY <1>1, <1>3 DEF PingInv, Replies
<1> QED BY <1>2, <1>3

LEMMA PingReturn ==
    ASSUME PingInv, NEW ip, Return(ip),
           call.kind = "ping" => ip = IF icmp_got_reply THEN call.of ELSE "none"
    PROVE  PingInv'
<1>1. ~Late => \A p \in air' : ~IsReply(p)
  BY DEF Return, IsReply
<1>2. call'.kind = "idle"
  BY DEF Return, AtRest
<1>3. got'.kind = call.kind /\ got'.of = call.of /\ got'.ip = ip
  BY DEF Return
<1>4. PingTrue'
  BY <1>3 DEF PingInv, PingTrue
<1> QED BY <1>1, <1>2, <1>4 DEF PingInv

LEMMA PingNext == ASSUME PingInv, NetNext PROVE PingInv'
<1>1. AtRest.kind = "idle"
  BY DEF AtRest
<1>2. /\ \A id, n, ip : Answer(id, n, ip).kind = "dns"
      /\ \A type, ip : Lease(type, ip).kind = "dhcp"
      /\ \A o, h, m : Arp(o, h, m).kind = "arp"
      /\ \A type, h : Echo(type, h).type = type /\ Echo(type, h).from = h
  BY DEF Answer, Lease, Arp, Echo
<1>3. ASSUME NEW h \in Hosts, net_ping(h) PROVE PingInv'
  <2>1. /\ call = AtRest /\ call'.kind = "ping" /\ call'.of = h
        /\ icmp_got_reply' = FALSE /\ got' = got
    BY <1>3 DEF net_ping, Begin
  <2>2. ASSUME ~Late, NEW p \in air', IsReply(p) PROVE p.from = h /\ h \in Alive
    <3>1. p \notin air
      BY <1>1, <2>1, <2>2 DEF PingInv, Replies
    <3>2. p = Echo("reply", h) /\ p \in {Echo("reply", a) : a \in Alive}
      BY <1>3, <3>1 DEF net_ping, Asking
    <3> QED BY <1>2, <3>2
  <2>3. PingTrue'
    BY <2>1 DEF PingInv, PingTrue
  <2> QED BY <2>1, <2>2, <2>3 DEF PingInv, Replies
<1>4. ASSUME NEW h \in Hosts, Tells(h) \/ Pings(h) PROVE PingInv'
  <2>1. UNCHANGED <<got, call, icmp_got_reply>>
    BY <1>4 DEF Tells, Pings, notes
  <2>2. \A p \in air' : IsReply(p) => p \in air
    BY <1>2, <1>4 DEF Tells, Pings, IsReply
  <2> QED BY <2>1, <2>2, PingKept
<1>5. ASSUME NEW n, Query(n) PROVE \A p \in air' : IsReply(p) => p \in air
  BY <1>2, <1>5 DEF Query, Asking, IsReply
<1>6. ASSUME NEW n \in DOMAIN Records, net_dns_resolve(n) PROVE PingInv'
  <2>1. call.kind # "ping" /\ call'.kind # "ping" /\ got' = got
    BY <1>1, <1>6 DEF net_dns_resolve, Begin
  <2> QED BY <1>5, <1>6, <2>1, PingKept DEF net_dns_resolve
<1>7. ASSUME ResolveAgain PROVE PingInv'
  <2>1. UNCHANGED got /\ Query(call.of) /\ call.kind = "dns"
        /\ call' = [call EXCEPT !.try = call.try + 1]
    BY <1>7 DEF ResolveAgain
  <2>2. call'.kind # "ping"
    BY <2>1
  <2> QED BY <1>5, <2>1, <2>2, PingKept
<1>8. ASSUME NEW n \in DOMAIN Dotted, Parse(n) PROVE PingInv'
  <2>1. got'.kind = "dns" /\ UNCHANGED <<call, air, icmp_got_reply>>
    BY <1>8 DEF Parse, notes
  <2> QED BY <2>1 DEF PingInv, PingTrue, Replies
<1>9. ASSUME Discover PROVE \A p \in air' : IsReply(p) => p \in air
  <2> SUFFICES ASSUME NEW p \in air', IsReply(p) PROVE p \in air
    OBVIOUS
  <2>1. PICK ip \in Offers : air' = air \cup {Lease("offer", ip)}
    BY <1>9 DEF Discover
  <2> QED BY <1>2, <2>1 DEF IsReply
<1>10. ASSUME dhcp_run PROVE PingInv'
  <2>1. call.kind # "ping" /\ call'.kind # "ping" /\ got' = got
    BY <1>1, <1>10 DEF dhcp_run, Begin
  <2> QED BY <1>9, <1>10, <2>1, PingKept DEF dhcp_run
<1>11. ASSUME DhcpRequest PROVE PingInv'
  <2>1. /\ call.kind = "offer" /\ got' = got
        /\ call' = [call EXCEPT !.kind = "ack", !.of = dhcp_offered_ip]
        /\ air' = air \cup {Lease("ack", dhcp_offered_ip)}
    BY <1>11 DEF DhcpRequest
  <2>2. (call'.kind = "ack" \/ call'.kind = "offer") /\ icmp_got_reply' = icmp_got_reply
    BY <1>11, <2>1 DEF DhcpRequest, notes
  <2>3. \A p \in air' : IsReply(p) => p \in air
    BY <1>2, <2>1 DEF IsReply
  <2> QED BY <2>1, <2>2, <2>3, PingKept
<1>12. ASSUME DhcpAgain PROVE PingInv'
  <2>1. CASE call.try < Tries
    <3>1. /\ call.kind = "offer" /\ got' = got /\ Discover
          /\ call' = [call EXCEPT !.try = call.try + 1]
      BY <1>12, <2>1 DEF DhcpAgain
    <3>2. call'.kind # "ping"
      BY <3>1
    <3> QED BY <1>9, <3>1, <3>2, PingKept
  <2>2. CASE ~(call.try < Tries)
    BY <1>12, <2>2, PingReturn DEF DhcpAgain
  <2> QED BY <2>1, <2>2
<1>13. ASSUME PingReturns \/ ResolveReturns \/ DhcpReturns PROVE PingInv'
  BY <1>13, PingReturn DEF PingReturns, ResolveReturns, DhcpReturns
<1>14. ASSUME Lose PROVE PingInv'
  BY <1>14, PingKept DEF Lose, notes
<1>15. ASSUME Deliver PROVE PingInv'
  <2>1. /\ UNCHANGED <<call, got>> /\ \A p \in air' : p \in air
    BY <1>15 DEF Deliver
  <2>2. PICK p \in air :
            HandleArp(p) \/ HandleIcmp(p) \/ dns_handle_reply(p) \/ handle_dhcp(p)
    BY <1>15 DEF Deliver
  <2>3. CASE HandleArp(p) \/ dns_handle_reply(p) \/ handle_dhcp(p)
    BY <2>1, <2>3, PingKept DEF HandleArp, dns_handle_reply, handle_dhcp, notes
  <2>4. CASE HandleIcmp(p)
    <3>1. ~Late /\ call.kind = "ping" /\ icmp_got_reply' => call.of \in Alive
      BY <2>4 DEF HandleIcmp, PingInv, Replies, IsReply
    <3>2. PingTrue'
      BY <2>1 DEF PingInv, PingTrue
    <3> QED BY <2>1, <3>1, <3>2 DEF PingInv, Replies
  <2> QED BY <2>2, <2>3, <2>4
<1> QED BY <1>3, <1>4, <1>6, <1>7, <1>8, <1>10, <1>11, <1>12, <1>13, <1>14,
           <1>15 DEF NetNext

(* PingTrue (Net) holds for any hosts: without late answers, a ping that   *)
(* says its host is there is right.                                        *)
THEOREM PingsAreRight == NetSpec => []PingTrue
<1>1. NetInit => PingInv
  BY DEF NetInit, PingInv, PingTrue
<1>2. PingInv /\ [NetNext]_netVars => PingInv'
  <2>1. PingInv /\ UNCHANGED netVars => PingInv'
    BY PingKept DEF netVars
  <2> QED BY <2>1, PingNext
<1>3. PingInv => PingTrue
  BY DEF PingInv
<1> QED BY <1>1, <1>2, <1>3, PTL DEF NetSpec

(* LeaseAsked (Net) holds for any offers: the address the machine takes is *)
(* the one it asked for, and it keeps it until the next exchange ends.     *)
THEOREM LeasesAreAsked == NetSpec => []LeaseAsked
<1>1. NetInit => LeaseAsked
  BY DEF NetInit, LeaseAsked
<1>2. ASSUME LeaseAsked, [NetNext]_netVars PROVE LeaseAsked'
  <2>1. CASE DhcpReturns
    <3>1. got'.of = call.of /\ got'.ip = call.of /\ net_ip' = call.of
      BY <2>1 DEF DhcpReturns, Return
    <3> QED BY <3>1 DEF LeaseAsked
  <2>2. CASE PingReturns \/ ResolveReturns \/ DhcpAgain
    <3>1. got' = got \/ (got'.kind = call.kind /\ call.kind # "ack")
      BY <2>2 DEF PingReturns, ResolveReturns, DhcpAgain, Return
    <3>2. net_ip' = net_ip
      BY <2>2 DEF PingReturns, ResolveReturns, DhcpAgain
    <3> QED BY <1>2, <3>1, <3>2 DEF LeaseAsked
  <2>3. CASE \E n \in DOMAIN Dotted : Parse(n)
    BY <2>3 DEF Parse, LeaseAsked
  <2>4. CASE UNCHANGED <<net_ip, got>>
    BY <1>2, <2>4 DEF LeaseAsked
  <2> QED BY <1>2, <2>1, <2>2, <2>3, <2>4
          DEF NetNext, netVars, net_ping, Tells, Pings, net_dns_resolve,
              dhcp_run, Deliver, ResolveAgain, DhcpRequest, Lose
<1> QED BY <1>1, <1>2, PTL DEF NetSpec
=============================================================================
