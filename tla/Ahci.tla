-------------------------------- MODULE Ahci --------------------------------
(***************************************************************************)
(* The SATA driver ahci.c with the disk calls of kernel.c above it         *)
(* (ata_read_sector, ata_write_sector).                                    *)
(*                                                                         *)
(* Each port has one command slot, one command table and one data buffer.  *)
(* A call fills them, sets bit 0 of P_CI and spins until the drive clears  *)
(* it, reports an error, or 400000 looks were not enough; the last two     *)
(* reset the link.  The drive is external: it moves one sector at a time   *)
(* and keeps what it was given in a cache that only a flush is sure to     *)
(* empty.                                                                  *)
(***************************************************************************)
EXTENDS Integers, FiniteSets

CONSTANTS
    Drives,      \* 1 .. n: the implemented ports with a device attached
    LBAS,        \* sectors of each
    Data,        \* contents of a sector, 0 for one of zeroes
    MAX_SECTORS, \* MAX_SECTORS_PER_CMD (8)
    MAX_PORTS,   \* ports the driver keeps track of (8)
    Legacy,      \* TRUE: a disk answers on the legacy ATA channel
    Faults       \* "timeout", "error", "memory", "power"

AhciAssumption ==
    /\ LBAS \in Nat \ {0} /\ MAX_SECTORS \in Nat \ {0} /\ MAX_PORTS \in Nat \ {0}
    /\ IsFiniteSet(Drives) /\ Drives = 1 .. Cardinality(Drives)
    /\ 0 \in Data /\ Legacy \in BOOLEAN
    /\ Faults \subseteq {"timeout", "error", "memory", "power"}

VARIABLES
    probe,     \* the port ahci_init looks at; past the last one: it is done
    num_ports, \* g_num_ports
    ports,     \* g_ports: what the driver knows of each
    slot,      \* command header, FIS and PRDT of the command in the slot
    data_buf,  \* data_buf of the port in use
    call,      \* the call under way
    line,      \* the port: P_CI, the error bits, sectors moved
    cache,     \* what the drives answer with
    media,     \* what they keep when power goes
    pio,       \* the disk on the legacy channel
    live, kept,\* histories: what a sector may read as; and after a power cut
    got        \* history: what the latest read returned and should have

ahciVars == <<probe, num_ports, ports, slot, data_buf, call, line, cache,
              media, pio, live, kept, got>>

-----------------------------------------------------------------------------
Lba == 0 .. LBAS - 1
Idx == 0 .. MAX_SECTORS - 1
Ident == -1
Ops == {"read", "write", "flush", "identify"}
NoPort == [drive |-> 0, present |-> FALSE, sector_count |-> 0]
Idle == [op |-> "none", port |-> 0, lba |-> 0, n |-> 0, disk |-> FALSE,
         val |-> 0]
Quiet == [ci |-> FALSE, err |-> FALSE, moved |-> 0]
Empty == [write |-> FALSE, prdt |-> 0, op |-> "none", lba |-> 0, n |-> 0]
Whole(x) == [d \in Drives |-> [l \in Lba |-> x]]

AhciTypeOK ==
    /\ probe \in 1 .. Cardinality(Drives) + 1
    /\ num_ports \in 0 .. MAX_PORTS
    /\ \A i \in 0 .. MAX_PORTS - 1 :
          /\ ports[i].drive \in Drives \cup {0} /\ ports[i].present \in BOOLEAN
          /\ ports[i].sector_count \in {0, LBAS}
    /\ slot.op \in Ops \cup {"none"} /\ slot.prdt \in 0 .. MAX_SECTORS
    /\ \A i \in Idx : data_buf[i] \in Data \/ data_buf[i] = Ident
    /\ call.op \in Ops \cup {"none"} /\ call.n \in 0 .. MAX_SECTORS
    /\ line.ci \in BOOLEAN /\ line.err \in BOOLEAN
    /\ line.moved \in 0 .. MAX_SECTORS
    /\ \A d \in Drives, l \in Lba :
          /\ cache[d][l] \in Data /\ media[d][l] \in Data
          /\ live[d][l] \subseteq Data /\ kept[d][l] \subseteq Data
    /\ pio \in [Lba -> Data]

AhciInit ==
    /\ probe = 1 /\ num_ports = 0
    /\ ports = [i \in 0 .. MAX_PORTS - 1 |-> NoPort]
    /\ slot = Empty /\ data_buf = [i \in Idx |-> 0]
    /\ call = Idle /\ line = Quiet
    /\ cache = Whole(0) /\ media = Whole(0)
    /\ live = Whole({0}) /\ kept = Whole({0})
    /\ pio = [l \in Lba |-> 0]
    /\ got = [ok |-> TRUE]

-----------------------------------------------------------------------------
(* ahci_init.                                                              *)

(* The check every call starts with.                                       *)
Present(i) == i \in 0 .. num_ports - 1 /\ ports[i].present

(* One turn of the loop over the ports: without memory for the buffers the *)
(* record is left for the next port to fill in.  The identify of the new   *)
(* port comes before g_num_ports counts it.                                *)
Probe ==
    /\ probe \in Drives /\ num_ports < MAX_PORTS
    /\ \E ok \in {TRUE} \cup {f # "memory" : f \in Faults} :
          /\ ports' = [ports EXCEPT ![num_ports] =
                [drive |-> probe, present |-> TRUE,
                 sector_count |->
                    IF ok /\ Present(num_ports) THEN LBAS ELSE 0]]
          /\ num_ports' = IF ok THEN num_ports + 1 ELSE num_ports
    /\ probe' = probe + 1
    /\ UNCHANGED <<slot, data_buf, call, line, cache, media, pio, live,
                   kept, got>>

Ready == probe \notin Drives \/ num_ports = MAX_PORTS

-----------------------------------------------------------------------------
(* The calls, up to the wait.                                              *)

Drive(i) == ports[i].drive
Span(a, n) == a .. a + n - 1
Widened(s, d, a, n, v) ==
    [s EXCEPT ![d] = [l \in Lba |-> IF l \in Span(a, n) THEN @[l] \cup {v}
                                    ELSE @[l]]]

(* Header, PRDT and FIS, all written anew.                                 *)
(* Mutant: the header keeps the entries of an earlier command.             *)
Filled_KeepsLength(op, a, n) ==
    [write |-> op = "write", prdt |-> IF slot.prdt = 0 THEN n ELSE slot.prdt,
     op |-> op, lba |-> a, n |-> n]
Filled(op, a, n) ==
    [write |-> op = "write", prdt |-> n, op |-> op, lba |-> a, n |-> n]

Issue(op, i, a, n, v, disk) ==
    /\ Ready /\ call = Idle /\ Present(i)
    /\ slot' = Filled(op, a, n)
    /\ line' = [ci |-> TRUE, err |-> FALSE, moved |-> 0]
    /\ call' = [op |-> op, port |-> i, lba |-> a, n |-> n, disk |-> disk,
                val |-> v]
    /\ UNCHANGED <<probe, num_ports, ports, cache, media, pio, got>>

(* One to MAX_SECTORS_PER_CMD sectors.                                     *)
InRange(a, n) == n \in 1 .. MAX_SECTORS /\ a + n <= LBAS

ahci_read_sectors(i, a, n) ==
    /\ InRange(a, n)
    /\ Issue("read", i, a, n, 0, FALSE)
    /\ UNCHANGED <<data_buf, live, kept>>

(* The caller's sectors, all v here, go to the data buffer first.          *)
Writing(i, a, n, v, disk) ==
    /\ InRange(a, n)
    /\ Issue("write", i, a, n, v, disk)
    /\ data_buf' = [x \in Idx |-> IF x < n THEN v ELSE data_buf[x]]
    /\ live' = Widened(live, Drive(i), a, n, v)
    /\ kept' = Widened(kept, Drive(i), a, n, v)

ahci_write_sectors(i, a, n, v) == Writing(i, a, n, v, FALSE)

ahci_flush(i) ==
    /\ Issue("flush", i, 0, 0, 0, FALSE)
    /\ UNCHANGED <<data_buf, live, kept>>

ahci_identify(i) ==
    /\ Issue("identify", i, 0, 1, 0, FALSE)
    /\ UNCHANGED <<data_buf, live, kept>>

(* kernel.c: the disk is the first port when there is one.                 *)
ata_read_sector(a) ==
    /\ Issue("read", 0, a, 1, 0, TRUE)
    /\ UNCHANGED <<data_buf, live, kept>>

ata_write_sector(a, v) == Writing(0, a, 1, v, TRUE)

-----------------------------------------------------------------------------
(* The drive.                                                              *)
Own == Drive(call.port)
Limit == IF slot.prdt < slot.n THEN slot.prdt ELSE slot.n

Move ==
    /\ line.ci /\ ~line.err /\ line.moved < Limit
    /\ line' = [line EXCEPT !.moved = @ + 1]
    /\ LET l == slot.lba + line.moved IN
       CASE slot.op = "write" ->
               /\ cache' = [cache EXCEPT ![Own][l] = data_buf[line.moved]]
               /\ UNCHANGED data_buf
         [] slot.op = "read" ->
               /\ data_buf' = [data_buf EXCEPT ![line.moved] = cache[Own][l]]
               /\ UNCHANGED cache
         [] OTHER ->
               /\ data_buf' = [data_buf EXCEPT ![line.moved] = Ident]
               /\ UNCHANGED cache
    /\ UNCHANGED <<probe, num_ports, ports, slot, call, media, pio, live,
                   kept, got>>

Complete ==
    /\ line.ci /\ ~line.err /\ line.moved = Limit
    /\ slot.op = "flush" => cache[Own] = media[Own]
    /\ line' = [line EXCEPT !.ci = FALSE]
    /\ UNCHANGED <<probe, num_ports, ports, slot, data_buf, call, cache,
                   media, pio, live, kept, got>>

Break ==
    /\ "error" \in Faults /\ line.ci /\ ~line.err
    /\ line' = [line EXCEPT !.err = TRUE]
    /\ UNCHANGED <<probe, num_ports, ports, slot, data_buf, call, cache,
                   media, pio, live, kept, got>>

Destage(d, l) ==
    /\ media[d][l] # cache[d][l]
    /\ media' = [media EXCEPT ![d][l] = cache[d][l]]
    /\ UNCHANGED <<probe, num_ports, ports, slot, data_buf, call, line,
                   cache, pio, live, kept, got>>

-----------------------------------------------------------------------------
(* port_issue_and_wait, the end of it, and what the call does then.        *)

(* P_CI is clear: success.  A read is copied out of the data buffer.       *)
Finished == call # Idle /\ ~line.ci /\ ~line.err

Answered ==
    /\ Finished
    /\ call' = Idle /\ line' = Quiet
    /\ got' = IF call.op = "read"
              THEN LET own == \A x \in 0 .. call.n - 1 :
                                 data_buf[x] \in live[Own][call.lba + x]
                   IN  [ok |-> own]
              ELSE got
    /\ live' = IF call.op = "write"
               THEN [live EXCEPT ![Own] =
                       [l \in Lba |-> IF l \in Span(call.lba, call.n)
                                      THEN {call.val} ELSE @[l]]]
               ELSE live
    /\ kept' = IF call.op = "flush" THEN [kept EXCEPT ![Own] = live[Own]]
               ELSE kept
    /\ UNCHANGED <<probe, num_ports, ports, slot, data_buf, cache, media,
                   pio>>

(* port_reset stops the port and resets the link: the drive drops the      *)
(* command.                                                                *)
port_reset == Quiet

(* A failed call returns ETIMEDOUT.  Above it ata_read_sector and          *)
(* ata_write_sector then use the legacy channel: what is there answers, or *)
(* a read gives zeroes and a write nothing.                                *)
Fell ==
    /\ line' = port_reset /\ call' = Idle
    /\ pio' = IF call.disk /\ call.op = "write" /\ Legacy
              THEN [pio EXCEPT ![call.lba] = call.val] ELSE pio
    /\ UNCHANGED <<probe, num_ports, ports, slot, data_buf, cache, media,
                   live, kept, got>>

Failed == call # Idle /\ line.err /\ Fell
GiveUp == "timeout" \in Faults /\ line.ci /\ ~line.err /\ Fell

(* Power goes at any moment, and the machine starts again.                 *)
PowerCut ==
    /\ "power" \in Faults
    /\ cache' = media /\ live' = kept
    /\ probe' = 1 /\ num_ports' = 0
    /\ ports' = [i \in 0 .. MAX_PORTS - 1 |-> NoPort]
    /\ slot' = Empty /\ data_buf' = [i \in Idx |-> 0]
    /\ call' = Idle /\ line' = Quiet
    /\ UNCHANGED <<media, pio, kept, got>>

AhciNext ==
    \/ Probe
    \/ \E i \in 0 .. num_ports - 1, a \in Lba, n \in 1 .. MAX_SECTORS :
          \/ ahci_read_sectors(i, a, n)
          \/ \E v \in Data : ahci_write_sectors(i, a, n, v)
    \/ \E i \in 0 .. num_ports - 1 : ahci_flush(i) \/ ahci_identify(i)
    \/ \E a \in Lba : ata_read_sector(a)
    \/ \E a \in Lba, v \in Data : ata_write_sector(a, v)
    \/ Move
    \/ Complete
    \/ Break
    \/ \E d \in Drives, l \in Lba : Destage(d, l)
    \/ Answered
    \/ Failed
    \/ GiveUp
    \/ PowerCut

AhciSpec == AhciInit /\ [][AhciNext]_ahciVars

-----------------------------------------------------------------------------
(* Every sector holds what the latest write that was answered put there,   *)
(* or what one that failed since may have, on the drive of that port; and  *)
(* after a power cut nothing older than the latest flush that was answered *)
(* (ahci_write_sectors, ahci_flush, port_reset).                           *)
SectorsKept ==
    \A d \in Drives, l \in Lba :
        cache[d][l] \in live[d][l] /\ media[d][l] \in kept[d][l]

(* A read that succeeds returns that, all of it (ahci_read_sectors).       *)
ReadsOwn == got.ok

=============================================================================
