-------------------------------- MODULE Ipc ---------------------------------
(***************************************************************************)
(* Message passing between processes (ipc.c): an inbox of IPC_QUEUE_DEPTH  *)
(* messages per process and a registry of named servers, used by the       *)
(* programs that Proc runs.                                                *)
(*                                                                         *)
(* The four calls run with interrupts masked and sys_yield only pets the   *)
(* watchdog, so nothing else runs while a call waits: a send to a full     *)
(* inbox gives up after its 1000 yields, and a receive from an empty one   *)
(* spins for ever.                                                         *)
(***************************************************************************)
EXTENDS Proc, Sequences

CONSTANTS
    IPC_QUEUE_DEPTH,   \* messages buffered per process (16)
    IPC_SERVER_MAX,    \* entries of the registry (32)
    Types,             \* message types; a type stands for type and payload
    Stems,             \* first 15 characters of a server name
    Tails              \* what follows them; 0 when nothing does

ASSUME IpcAssumption ==
    /\ IPC_QUEUE_DEPTH \in Nat \ {0}
    /\ IPC_SERVER_MAX \in Nat
    /\ Types # {}
    /\ Stems # {}
    /\ 0 \in Tails

VARIABLES
    queues,    \* g_queues: the inboxes, by pid % PROC_MAX
    servers,   \* g_servers: the registry
    out,       \* history: the latest message received, where and by whom
    lastReg    \* history: stem -> the pid of the latest to register it

ipcVars == <<queues, servers, out, lastReg>>
vars == <<procVars, ipcVars>>

-----------------------------------------------------------------------------
Pids == 0 .. PROC_MAX
Indices == 0 .. IPC_QUEUE_DEPTH - 1

(* IpcMsg; src is history: the pid of the program that really sent it.     *)
IpcMsg == [type: Types, from: Pids, src: Pids]
NoMsg == [type |-> CHOOSE t \in Types : TRUE, from |-> 0, src |-> 0]

IpcQueue == [msgs: [Indices -> IpcMsg], head: Indices, tail: Indices,
             count: 0 .. IPC_QUEUE_DEPTH, waiting: BOOLEAN]

Names == [stem: Stems, tail: Tails]
Entries == 1 .. IPC_SERVER_MAX
NotRegistered == PROC_MAX + 1
IpcServer == [name: Stems, pid: Pids, active: BOOLEAN]

IpcTypeOK ==
    /\ queues \in [Slots -> IpcQueue]
    /\ servers \in [Entries -> IpcServer]
    /\ out = <<>> \/ out \in Slots \X IpcMsg
    /\ lastReg \in [Stems -> 0 .. NotRegistered]

IpcInit ==
    /\ queues = [b \in Slots |->
                   [msgs |-> [i \in Indices |-> NoMsg], head |-> 0,
                    tail |-> 0, count |-> 0, waiting |-> FALSE]]
    /\ servers = [i \in Entries |->
                    [name |-> CHOOSE s \in Stems : TRUE, pid |-> 0,
                     active |-> FALSE]]
    /\ out = <<>>
    /\ lastReg = [s \in Stems |-> NotRegistered]

Init == ProcInit /\ IpcInit

-----------------------------------------------------------------------------
Box(pid) == pid % PROC_MAX
Succ(i) == (i + 1) % IPC_QUEUE_DEPTH

(* ipc_find_pcb: any slot that is not EMPTY will do, DEAD ones too.        *)
ipc_find_pcb(pid) == {s \in Slots : pcb[s].state # "EMPTY" /\ pcb[s].pid = pid}

HasRoom(q) == q.count < IPC_QUEUE_DEPTH

(* Mutant: the message lands where the oldest one is.                      *)
Enqueue_AtHead(q, m) ==
    [q EXCEPT !.msgs[q.head] = m, !.tail = Succ(q.tail),
              !.count = q.count + 1, !.waiting = FALSE]
Enqueue(q, m) ==
    [q EXCEPT !.msgs[q.tail] = m, !.tail = Succ(q.tail),
              !.count = q.count + 1, !.waiting = FALSE]

(* Mutant: the count is not taken down.                                    *)
Dequeue_KeepsCount(q) == [q EXCEPT !.head = Succ(q.head)]
Dequeue(q) == [q EXCEPT !.head = Succ(q.head), !.count = q.count - 1]

(* sys_ipc_send, when the destination exists and its inbox has room.  A    *)
(* receiver that waits is made READY.  Otherwise the call returns -1 and   *)
(* changes nothing.                                                        *)
sys_ipc_send(dest, type) ==
    /\ Executing
    /\ ipc_find_pcb(dest) # {}
    /\ LET q == queues[Box(dest)]
           m == [type |-> type, from |-> current_pid, src |-> cpu.slot + 1]
       IN  /\ HasRoom(q)
           /\ queues' = [queues EXCEPT ![Box(dest)] = Enqueue(q, m)]
           /\ pcb' = IF q.waiting
                     THEN [pcb EXCEPT ![Min(ipc_find_pcb(dest))].state
                                        = "READY"]
                     ELSE pcb
    /\ UNCHANGED <<current_pid, cpu, spaces, loaded, stacks, vmas>>
    /\ UNCHANGED <<servers, out, lastReg>>

(* sys_ipc_recv takes the oldest message of the inbox current_pid names.   *)
sys_ipc_recv ==
    /\ Executing
    /\ LET b == Box(current_pid) IN
         /\ queues[b].count > 0
         /\ out' = <<b, queues[b].msgs[queues[b].head]>>
         /\ queues' = [queues EXCEPT ![b] = Dequeue(@)]
    /\ UNCHANGED procVars
    /\ UNCHANGED <<servers, lastReg>>

(* sys_ipc_recv on an empty inbox: waiting is set and the loop never ends. *)
RecvEmpty ==
    /\ Executing
    /\ queues[Box(current_pid)].count = 0
    /\ queues' = [queues EXCEPT ![Box(current_pid)].waiting = TRUE]
    /\ cpu' = [cpu EXCEPT !.who = "spin"]
    /\ UNCHANGED <<pcb, current_pid, spaces, loaded, stacks, vmas>>
    /\ UNCHANGED <<servers, out, lastReg>>

-----------------------------------------------------------------------------
(* sys_ipc_register compares and stores the first 15 characters.           *)
SameEntry(n) == {i \in Entries : servers[i].active /\ servers[i].name = n.stem}
FreeEntries == {i \in Entries : ~servers[i].active}

EntryFor(n) == IF SameEntry(n) # {} THEN SameEntry(n) ELSE FreeEntries

(* Mutant: an entry found again keeps the pid of its first owner.          *)
sys_ipc_register_KeepsPid(n) ==
    /\ Executing
    /\ EntryFor(n) # {}
    /\ servers' = [servers EXCEPT ![Min(EntryFor(n))] =
                     [name |-> n.stem, active |-> TRUE,
                      pid |-> IF @.active THEN @.pid ELSE current_pid]]
    /\ lastReg' = [lastReg EXCEPT ![n.stem] = current_pid]
    /\ UNCHANGED procVars
    /\ UNCHANGED <<queues, out>>

(* A name known already changes owner, though ipc.c:137 has the call       *)
(* refuse it with -1; a new one takes the first free entry.  With the      *)
(* registry full the call returns -1.                                      *)
sys_ipc_register(n) ==
    /\ Executing
    /\ EntryFor(n) # {}
    /\ servers' = [servers EXCEPT ![Min(EntryFor(n))] =
                     [name |-> n.stem, active |-> TRUE, pid |-> current_pid]]
    /\ lastReg' = [lastReg EXCEPT ![n.stem] = current_pid]
    /\ UNCHANGED procVars
    /\ UNCHANGED <<queues, out>>

(* sys_ipc_lookup compares 16 characters, and the 16th of an entry is 0.   *)
sys_ipc_lookup(n) ==
    LET found == {i \in SameEntry(n) : n.tail = 0}
    IN  IF found = {} THEN NotRegistered ELSE servers[Min(found)].pid

-----------------------------------------------------------------------------
Next ==
    \/ ProcNext /\ UNCHANGED ipcVars
    \/ \E dest \in Pids, type \in Types : sys_ipc_send(dest, type)
    \/ sys_ipc_recv
    \/ RecvEmpty
    \/ \E n \in Names : sys_ipc_register(n)

(* The timer interrupts whenever interrupts are on.  Nothing else is fair: *)
(* a program need not make a call.                                         *)
Spec == Init /\ [][Next]_vars /\ WF_vars(TimerTick /\ UNCHANGED ipcVars)

-----------------------------------------------------------------------------
(* The indices of an inbox agree with its count, so a message is never     *)
(* overwritten before it is read and a slot is never read twice.           *)
RingConsistent ==
    \A b \in Slots :
        /\ queues[b].count \in 0 .. IPC_QUEUE_DEPTH
        /\ queues[b].tail = (queues[b].head + queues[b].count)
                              % IPC_QUEUE_DEPTH

(* The inboxes as queues: the messages from head on, count of them.        *)
Contents(q) ==
    [k \in 1 .. q.count |-> q.msgs[(q.head + k - 1) % IPC_QUEUE_DEPTH]]

Mail == INSTANCE Mailbox WITH
            Boxes <- Slots, Messages <- IpcMsg, Depth <- IPC_QUEUE_DEPTH,
            inbox <- [b \in Slots |-> Contents(queues[b])], taken <- out

(* Every inbox is a bounded first-in first-out queue: nothing is lost,     *)
(* duplicated or reordered, whatever programs start, die or are preempted  *)
(* in between.                                                             *)
ImplementsMailbox == Mail!MailSpec

(* A message that carries the pid of a live process was sent by that very  *)
(* process, also after other senders have died: pids are not used again.   *)
NoForgedSender ==
    CanExecute =>
      \A b \in Slots : \A k \in 1 .. queues[b].count :
        LET m == Contents(queues[b])[k] IN
          \A s \in Slots : Live(s) /\ pcb[s].pid = m.from => m.src = s + 1

(* Looking a short name up gives the pid of the last process to register   *)
(* it, and the registry never holds a name twice (sys_ipc_register).  This *)
(* is what the code does, and its remark `server restarted' means: a later *)
(* caller takes a name from its owner.  The comment at ipc.c:137 promises  *)
(* the owner keeps it (-1 if `name already taken'), and does not hold.     *)
LookupFindsLatest ==
    /\ \A s \in Stems : sys_ipc_lookup([stem |-> s, tail |-> 0]) = lastReg[s]
    /\ \A i, j \in Entries :
         /\ servers[i].active /\ servers[j].active
         /\ servers[i].name = servers[j].name
         => i = j
=============================================================================
