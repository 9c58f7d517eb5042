-------------------------------- MODULE Nvme --------------------------------
(***************************************************************************)
(* The input/output queues of nvme.c and the sectors read and written      *)
(* through them (nvme_read_sector, nvme_write_sector).                     *)
(*                                                                         *)
(* The driver has one command under way: it writes an entry at sq_tail,    *)
(* rings the doorbell and spins on the entry of the completion queue at    *)
(* cq_head until phase bit and command identifier match, or gives up.  The *)
(* controller is external: it fetches entries in order, carries them out   *)
(* in any order, late ones included, and posts each completion with the    *)
(* phase of its own lap.                                                   *)
(***************************************************************************)
EXTENDS Integers

CONSTANTS
    DEPTH,       \* entries of each queue (NVME_IO_Q_DEPTH, 16)
    CIDS,        \* command identifiers (65536)
    PerBlock,    \* sectors of 512 bytes in a native block (lba_size / 512)
    Blocks,      \* native blocks of the namespace
    Values,      \* contents of a sector
    MaxCid,      \* bound: commands are issued while next_cid is below it
    Faults       \* "timeout": the driver may give up, "error": a command
                 \* may fail

NvmeAssumption ==
    /\ DEPTH \in Nat \ {0, 1} /\ CIDS \in Nat \ {0} /\ MaxCid \in 0 .. CIDS
    /\ PerBlock \in Nat \ {0} /\ Blocks \in Nat \ {0} /\ Values # {}
    /\ Faults \subseteq {"timeout", "error"}

VARIABLES
    ioq,        \* ioq: both rings and the driver's indices
    dev,      \* the controller: its indices and the commands it has fetched
    media,    \* sector -> what the controller holds
    tmp,      \* the buffer commands read into and write from
    call,     \* the call under way
    disk,     \* history: sector -> what a read should return
    got       \* history: what the latest command or read turned out to be

nvmeVars == <<ioq, dev, media, tmp, call, disk, got>>

-----------------------------------------------------------------------------
Entries == 0 .. DEPTH - 1
Next1(i) == (i + 1) % DEPTH
Sectors == 0 .. Blocks * PerBlock - 1
BlockOf(s) == s \div PerBlock
Within == 0 .. PerBlock - 1

Cmd == [opc: {"read", "write"}, cid: 0 .. CIDS - 1, block: 0 .. Blocks - 1]
Cqe == [cid: 0 .. CIDS - 1, phase: 0 .. 1, ok: BOOLEAN]
Some == CHOOSE v \in Values : TRUE

NvmeQueue == [sq: [Entries -> Cmd], cq: [Entries -> Cqe], sq_tail: Entries,
              cq_head: Entries, cq_phase: 0 .. 1, next_cid: 0 .. CIDS - 1]
Controller == [head: Entries, tail: Entries, phase: 0 .. 1,
               fetched: SUBSET Cmd, done: SUBSET (0 .. CIDS - 1)]

(* at: what the call spins on; a write to part of a block reads it first.  *)
Call == [at: {"idle", "read", "fill", "write"}, sector: Sectors,
         val: Values, cid: 0 .. CIDS - 1]
NoCall == [at |-> "idle", sector |-> 0, val |-> Some, cid |-> 0]

NvmeTypeOK ==
    /\ ioq \in NvmeQueue
    /\ dev.head \in Entries /\ dev.tail \in Entries /\ dev.phase \in 0 .. 1
    /\ dev.fetched \subseteq Cmd /\ dev.done \subseteq 0 .. CIDS - 1
    /\ media \in [Sectors -> Values] /\ disk \in [Sectors -> Values]
    /\ tmp \in [Within -> Values]
    /\ call \in Call
    /\ got \in [own: BOOLEAN, val: Values, was: Values]

(* nvme_init zeroes the rings and expects phase 1.                         *)
NvmeInit ==
    /\ ioq = [sq |-> [i \in Entries |-> [opc |-> "read", cid |-> 0, block |-> 0]],
            cq |-> [i \in Entries |-> [cid |-> 0, phase |-> 0, ok |-> TRUE]],
            sq_tail |-> 0, cq_head |-> 0, cq_phase |-> 1, next_cid |-> 0]
    /\ dev = [head |-> 0, tail |-> 0, phase |-> 1, fetched |-> {},
              done |-> {}]
    /\ media = [s \in Sectors |-> Some]
    /\ tmp = [i \in Within |-> Some]
    /\ call = NoCall
    /\ disk = media
    /\ got = [own |-> TRUE, val |-> Some, was |-> Some]

-----------------------------------------------------------------------------
(* nvme_io up to the wait: the entry, then sq_ring, which looks at nothing *)
(* to tell whether the ring is full.                                       *)
CanIssue == ioq.next_cid < MaxCid
Issued(r, opc, s) ==
    [r EXCEPT !.sq[r.sq_tail] = [opc |-> opc, cid |-> r.next_cid,
                                 block |-> BlockOf(s)],
              !.sq_tail = Next1(@),
              !.next_cid = (@ + 1) % CIDS]

(* The call waits for that command; data is what tmp holds when it is sent.*)
Command(r, opc, at, s, v, data) ==
    /\ CanIssue
    /\ ioq' = Issued(r, opc, s)
    /\ call' = [at |-> at, sector |-> s, val |-> v, cid |-> ioq.next_cid]
    /\ dev' = [dev EXCEPT !.done = @ \ {ioq.next_cid}]
    /\ tmp' = data
    /\ UNCHANGED <<media, disk>>

nvme_read_sector(s) ==
    /\ call.at = "idle"
    /\ Command(ioq, "read", "read", s, Some, tmp)
    /\ UNCHANGED got

nvme_write_sector(s, v) ==
    /\ call.at = "idle"
    /\ IF PerBlock = 1
       THEN Command(ioq, "write", "write", s, v, [i \in Within |-> v])
       ELSE Command(ioq, "read", "fill", s, v, tmp)
    /\ UNCHANGED got

-----------------------------------------------------------------------------
(* cq_poll accepts the entry at cq_head.                                   *)
(* Mutant: the command identifier is not compared.                         *)
Matches_AnyCid == ioq.cq[ioq.cq_head].phase = ioq.cq_phase
Matches ==
    /\ ioq.cq[ioq.cq_head].phase = ioq.cq_phase
    /\ ioq.cq[ioq.cq_head].cid = call.cid

(* The expected phase flips when the head wraps.                           *)
Consumed ==
    [ioq EXCEPT !.cq_head = Next1(@),
              !.cq_phase = IF Next1(ioq.cq_head) = 0 THEN 1 - @ ELSE @]

Own == call.cid \in dev.done
Ok == ioq.cq[ioq.cq_head].ok

(* The sector of the block that a read returns: the first one.             *)
ReadOffset(s) == 0
WriteOffset(s) == s % PerBlock

(* The command failed: the call returns ETIMEDOUT.                         *)
Failed ==
    /\ call.at # "idle"
    /\ Matches /\ ~Ok
    /\ ioq' = Consumed
    /\ call' = NoCall
    /\ got' = [got EXCEPT !.own = Own]
    /\ UNCHANGED <<dev, media, tmp, disk>>

ReadDone ==
    /\ call.at = "read"
    /\ Matches /\ Ok
    /\ ioq' = Consumed
    /\ got' = [own |-> Own, val |-> tmp[ReadOffset(call.sector)],
               was |-> disk[call.sector]]
    /\ call' = NoCall
    /\ UNCHANGED <<dev, media, tmp, disk>>

(* The block has been read: the sector is put into it and it is written.   *)
FillDone ==
    /\ call.at = "fill"
    /\ Matches /\ Ok
    /\ Command(Consumed, "write", "write", call.sector, call.val,
              [tmp EXCEPT ![WriteOffset(call.sector)] = call.val])
    /\ got' = [got EXCEPT !.own = Own]

WriteDone ==
    /\ call.at = "write"
    /\ Matches /\ Ok
    /\ ioq' = Consumed
    /\ disk' = [disk EXCEPT ![call.sector] = call.val]
    /\ call' = NoCall
    /\ got' = [got EXCEPT !.own = Own]
    /\ UNCHANGED <<dev, media, tmp>>

(* 200000 looks at the entry were not enough.                              *)
GiveUp ==
    /\ "timeout" \in Faults
    /\ call.at # "idle"
    /\ ~Matches
    /\ call' = NoCall
    /\ UNCHANGED <<ioq, dev, media, tmp, disk, got>>

-----------------------------------------------------------------------------
(* The controller.                                                         *)
Fetch ==
    /\ dev.head # ioq.sq_tail
    /\ dev' = [dev EXCEPT !.fetched = @ \cup {ioq.sq[dev.head]},
                          !.head = Next1(@)]
    /\ UNCHANGED <<ioq, media, tmp, call, disk, got>>

(* It moves the data, then posts the completion where there is room.       *)
Execute(c, ok) ==
    /\ Next1(dev.tail) # ioq.cq_head
    /\ dev' = [dev EXCEPT !.fetched = @ \ {c}, !.done = @ \cup {c.cid},
                          !.tail = Next1(@),
                          !.phase = IF Next1(dev.tail) = 0 THEN 1 - @ ELSE @]
    /\ ioq' = [ioq EXCEPT !.cq[dev.tail] =
                [cid |-> c.cid, phase |-> dev.phase, ok |-> ok]]
    /\ tmp' = IF ok /\ c.opc = "read"
              THEN [i \in Within |-> media[c.block * PerBlock + i]] ELSE tmp
    /\ media' = IF ok /\ c.opc = "write"
                THEN [s \in Sectors |-> IF BlockOf(s) = c.block
                                        THEN tmp[s % PerBlock] ELSE media[s]]
                ELSE media
    /\ UNCHANGED <<call, disk, got>>

NvmeNext ==
    \/ \E s \in Sectors : nvme_read_sector(s)
    \/ \E s \in Sectors, v \in Values : nvme_write_sector(s, v)
    \/ Failed
    \/ ReadDone
    \/ FillDone
    \/ WriteDone
    \/ GiveUp
    \/ Fetch
    \/ \E c \in dev.fetched, ok \in {TRUE} \cup {f # "error" : f \in Faults} :
          Execute(c, ok)

NvmeSpec == NvmeInit /\ [][NvmeNext]_nvmeVars

-----------------------------------------------------------------------------
(* A call that is answered is answered for the command it sent, after any  *)
(* number of commands the driver gave up on and the controller carried out *)
(* late (cq_poll).  Identifiers do not come round within the bound.        *)
AnswerIsOwn == got.own

(* When the driver never gives up, the answer appears at the entry it      *)
(* looks at, with the phase it expects, lap after lap; and before it       *)
(* appears nothing there passes for one (cq_poll).                         *)
AnswerInPlace ==
    "timeout" \notin Faults /\ call.at # "idle" =>
        (Matches <=> dev.head = ioq.sq_tail /\ dev.fetched = {})

(* When the driver never gives up, a write changes its sector and no other *)
(* of the block, and one that failed changes nothing (nvme_write_sector).  *)
WritesLand == "timeout" \notin Faults /\ call.at = "idle" => media = disk

-----------------------------------------------------------------------------
(* What nvme.c says and does not do.                                       *)

(* nvme.c:327: nvme_read_sector reads one 512-byte sector, whatever the    *)
(* native block size.                                                      *)
ReadsBack == "timeout" \notin Faults => got.val = got.was

=============================================================================
