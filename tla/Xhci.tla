-------------------------------- MODULE Xhci --------------------------------
(***************************************************************************)
(* The xHCI driver of usb.c: commands go to the controller through one     *)
(* ring and come back through another (x2_cmd), and each connected port is *)
(* given a slot, an address and an endpoint for reports                    *)
(* (x2_enumerate_port, x2_poll_one).                                       *)
(*                                                                         *)
(* An entry of a ring is the consumer's when its cycle bit is the one the  *)
(* consumer expects; both change theirs at the end of the ring.  The       *)
(* controller is external: it takes commands in order, may fail one, and   *)
(* posts an event for each, for each change of a port and for each report, *)
(* as long as the event ring has room before the driver's place.           *)
(***************************************************************************)
EXTENDS Naturals, Sequences, FiniteSets

CONSTANTS
    CmdRing,   \* entries of the command ring, the last one a link (32)
    EvtRing,   \* entries of the event ring (32)
    Ports,     \* 1 .. n: the ports with a device
    HcSlots,   \* 1 .. n: the slots of the controller
    MAX_HID,   \* report endpoints (8)
    HcEvents,  \* bound: changes of ports, and reports
    HcFaults   \* "timeout", "error", "memory"

XhciAssumption ==
    /\ CmdRing \in Nat \ {0, 1} /\ EvtRing \in Nat \ {0, 1}
    /\ IsFiniteSet(Ports) /\ Ports = 1 .. Cardinality(Ports) /\ 1 \in Ports
    /\ IsFiniteSet(HcSlots) /\ HcSlots = 1 .. Cardinality(HcSlots)
    /\ MAX_HID \in Nat /\ HcEvents \in Nat
    /\ HcFaults \subseteq {"timeout", "error", "memory"}

VARIABLES
    cmd_ring, cmd_idx, cmd_pcs, \* the command ring, and the driver's place
    evt_ring, evt_idx, evt_ccs, \* the event ring, and the driver's place
    hc,     \* the controller's places in both
    slots,  \* its slots: state, port
    enum,   \* x2_enumerate_port: what it does next, port, slot
    hid,    \* hid_slot of the endpoints set up
    made,   \* history: commands written
    done, seen \* histories: the latest command carried out, the latest event
               \* taken, and whether all came in their order

xhciVars == <<cmd_ring, cmd_idx, cmd_pcs, evt_ring, evt_idx, evt_ccs, hc,
              slots, enum, hid, made, done, seen>>
driver == <<cmd_ring, cmd_idx, cmd_pcs, evt_idx, evt_ccs, enum, hid, made,
            seen>>

-----------------------------------------------------------------------------
HcOps == {"enable", "default", "address", "configure"}
NoCmd == [cycle |-> 0, no |-> 0, type |-> "none", slot |-> 0, port |-> 0]
NoEvent == [cycle |-> 0, no |-> 0, type |-> "none", cc |-> 0, slot |-> 0]
SlotOff == [state |-> "off", port |-> 0]
Scan(p) == [pc |-> "port", port |-> p, slot |-> 0]

XhciTypeOK ==
    /\ cmd_idx \in 0 .. CmdRing - 2 /\ cmd_pcs \in {0, 1}
    /\ evt_idx \in 0 .. EvtRing - 1 /\ evt_ccs \in {0, 1}
    /\ hc.cmd \in 0 .. CmdRing - 1 /\ hc.evt \in 0 .. EvtRing - 1
    /\ \A i \in DOMAIN evt_ring : evt_ring[i].slot \in HcSlots \cup {0}
    /\ \A s \in HcSlots : /\ slots[s].port \in Ports \cup {0}
                          /\ slots[s].state \in {"off", "enabled", "default",
                                                 "addressed", "configured"}
    /\ enum.slot \in HcSlots \cup {0} /\ Len(hid) <= MAX_HID

(* x2_init_one: empty rings.                                               *)
XhciInit ==
    /\ cmd_ring = [i \in 0 .. CmdRing - 1 |-> NoCmd]
    /\ cmd_idx = 0 /\ cmd_pcs = 1
    /\ evt_ring = [i \in 0 .. EvtRing - 1 |-> NoEvent]
    /\ evt_idx = 0 /\ evt_ccs = 1
    /\ hc = [cmd |-> 0, ccs |-> 1, evt |-> 0, pcs |-> 1, left |-> HcEvents,
             no |-> 0]
    /\ slots = [s \in HcSlots |-> SlotOff]
    /\ enum = Scan(1) /\ hid = <<>>
    /\ made = 0 /\ done = <<0, TRUE>> /\ seen = <<0, TRUE>>

-----------------------------------------------------------------------------
(* x2_cmd.                                                                 *)

(* The last entry but one written, the link gets the cycle of this round,  *)
(* and the next round the other one.                                       *)
(* Mutant: the link gets that of the next round.                           *)
LinkCycle_Next == 1 - cmd_pcs
LinkCycle == cmd_pcs

Enqueue(type, slot, then) ==
    LET trb == [cycle |-> cmd_pcs, no |-> made + 1, type |-> type,
                slot |-> slot, port |-> enum.port]
        wrap == cmd_idx + 1 >= CmdRing - 1
        put == [cmd_ring EXCEPT ![cmd_idx] = trb] IN
    /\ cmd_ring' =
          IF wrap THEN [put EXCEPT ![CmdRing - 1] =
                           [NoCmd EXCEPT !.cycle = LinkCycle, !.type = "link"]]
          ELSE put
    /\ cmd_idx' = IF wrap THEN 0 ELSE cmd_idx + 1
    /\ cmd_pcs' = IF wrap THEN 1 - cmd_pcs ELSE cmd_pcs
    /\ made' = made + 1
    /\ enum' = [enum EXCEPT !.pc = then]
    /\ UNCHANGED <<evt_ring, evt_idx, evt_ccs, hc, slots, hid, done, seen>>

NextEvent == evt_ring[evt_idx]
Posted == NextEvent.cycle = evt_ccs

(* One event further, and the controller is told.                          *)
Advance ==
    /\ evt_idx' = (evt_idx + 1) % EvtRing
    /\ evt_ccs' = IF evt_idx + 1 = EvtRing THEN 1 - evt_ccs ELSE evt_ccs
    /\ seen' = <<NextEvent.no, seen[2] /\ NextEvent.no = seen[1] + 1>>

NextPort == enum' = IF enum.port + 1 \in Ports THEN Scan(enum.port + 1)
                    ELSE [Scan(1) EXCEPT !.pc = "active"]

(* Any completion ends the wait, even that of a command given up before.   *)
Completed(from) ==
    /\ enum.pc = from /\ Posted /\ NextEvent.type = "cmd"
    /\ Advance
    /\ UNCHANGED <<cmd_ring, cmd_idx, cmd_pcs, evt_ring, hc, slots, made,
                   done>>

Awaiting == {"enabling", "defaulting", "addressing", "configuring"}

(* Other events are passed over while a command is waited for.             *)
PassOver ==
    /\ enum.pc \in Awaiting /\ Posted /\ NextEvent.type # "cmd"
    /\ Advance
    /\ UNCHANGED <<cmd_ring, cmd_idx, cmd_pcs, evt_ring, hc, slots, enum, hid,
                   made, done>>

-----------------------------------------------------------------------------
(* x2_enumerate_port.                                                      *)

ResetPort ==
    /\ enum.pc = "port"
    /\ \/ NextPort
       \/ enum' = [enum EXCEPT !.pc = "enable"]
    /\ UNCHANGED <<cmd_ring, cmd_idx, cmd_pcs, evt_ring, evt_idx, evt_ccs, hc,
                   slots, hid, made, done, seen>>

EnableSlot == enum.pc = "enable" /\ Enqueue("enable", 0, "enabling")

Enabled ==
    /\ Completed("enabling")
    /\ \/ NextEvent.cc = 1 /\ enum' = [enum EXCEPT !.pc = "slot"]
       \/ NextEvent.cc # 1 /\ NextPort
    /\ UNCHANGED hid

(* The slot is read from the event before the driver's place, which it has *)
(* given back already; then memory for the contexts is needed.             *)
ReadSlot ==
    /\ enum.pc = "slot"
    /\ LET s == evt_ring[(evt_idx + EvtRing - 1) % EvtRing].slot IN
       \/ s # 0 /\ enum' = [enum EXCEPT !.pc = "default", !.slot = s]
       \/ (s = 0 \/ "memory" \in HcFaults) /\ NextPort
    /\ UNCHANGED <<cmd_ring, cmd_idx, cmd_pcs, evt_ring, evt_idx, evt_ccs, hc,
                   slots, hid, made, done, seen>>

(* Address Device, first without sending SET_ADDRESS.  How that ends is    *)
(* not looked at.                                                          *)
DefaultSlot ==
    enum.pc = "default" /\ Enqueue("default", enum.slot, "defaulting")
Defaulted ==
    /\ Completed("defaulting")
    /\ enum' = [enum EXCEPT !.pc = "address"]
    /\ UNCHANGED hid

AddressSlot ==
    enum.pc = "address" /\ Enqueue("address", enum.slot, "addressing")
Addressed ==
    /\ Completed("addressing")
    /\ LET ok == NextEvent.cc = 1 /\ Len(hid) < MAX_HID IN
       \/ ok /\ enum' = [enum EXCEPT !.pc = "configure"]
       \/ ~ok /\ NextPort
    /\ UNCHANGED hid

(* The report endpoint: whether it could be configured is not looked at.   *)
ConfigureSlot ==
    /\ enum.pc = "configure"
    /\ \/ Enqueue("configure", enum.slot, "configuring")
       \/ /\ "memory" \in HcFaults /\ NextPort
          /\ UNCHANGED <<cmd_ring, cmd_idx, cmd_pcs, evt_ring, evt_idx, evt_ccs,
                         hc, slots, hid, made, done, seen>>
Configured ==
    /\ Completed("configuring")
    /\ hid' = Append(hid, enum.slot)
    /\ NextPort

(* x2_cmd gives up: all but two of the calls look at that.                 *)
TimedOut ==
    /\ "timeout" \in HcFaults /\ enum.pc \in Awaiting /\ ~Posted
    /\ \/ /\ enum.pc = "defaulting" /\ enum' = [enum EXCEPT !.pc = "address"]
          /\ UNCHANGED hid
       \/ /\ enum.pc = "configuring" /\ NextPort
          /\ hid' = Append(hid, enum.slot)
       \/ /\ enum.pc \in {"enabling", "addressing"} /\ NextPort
          /\ UNCHANGED hid
    /\ UNCHANGED <<cmd_ring, cmd_idx, cmd_pcs, evt_ring, evt_idx, evt_ccs, hc,
                   slots, made, done, seen>>

(* x2_poll_one: one event: what a report says is taken elsewhere.          *)
x2_poll_one ==
    /\ enum.pc = "active" /\ Posted
    /\ Advance
    /\ UNCHANGED <<cmd_ring, cmd_idx, cmd_pcs, evt_ring, hc, slots, enum, hid,
                   made, done>>

-----------------------------------------------------------------------------
(* The controller.                                                         *)

Room == (hc.evt + 1) % EvtRing # evt_idx
Post(h, type, cc, slot) ==
    /\ Room
    /\ evt_ring' = [evt_ring EXCEPT ![h.evt] =
           [cycle |-> h.pcs, no |-> h.no + 1, type |-> type, cc |-> cc,
            slot |-> slot]]
    /\ hc' = [h EXCEPT !.evt = (@ + 1) % EvtRing, !.no = @ + 1,
                       !.pcs = IF h.evt + 1 = EvtRing THEN 1 - @ ELSE @]

FreeSlots == {s \in HcSlots : slots[s].state = "off"}
Allows == [default |-> {"enabled"}, address |-> {"enabled", "default"},
           configure |-> {"addressed", "configured"}]
Becomes == [default |-> "default", address |-> "addressed",
            configure |-> "configured"]

(* A command on its turn: it is carried out, or fails.                     *)
CarryOut ==
    LET trb == cmd_ring[hc.cmd]
        h == [hc EXCEPT !.cmd = @ + 1] IN
    /\ trb.cycle = hc.ccs /\ trb.type \in HcOps
    /\ done' = <<trb.no, done[2] /\ trb.no = done[1] + 1>>
    /\ \/ /\ "error" \in HcFaults /\ Post(h, "cmd", 4, trb.slot)
          /\ UNCHANGED slots
       \/ /\ trb.type = "enable" /\ FreeSlots # {}
          /\ \E s \in FreeSlots :
                /\ \A t \in FreeSlots : s <= t
                /\ slots' = [slots EXCEPT ![s].state = "enabled"]
                /\ Post(h, "cmd", 1, s)
       \/ /\ trb.type = "enable" /\ FreeSlots = {}
          /\ Post(h, "cmd", 9, 0) /\ UNCHANGED slots
       \/ /\ trb.type # "enable"
          /\ slots[trb.slot].state \in Allows[trb.type]
          /\ slots' = [slots EXCEPT ![trb.slot] =
                           [state |-> Becomes[trb.type], port |-> trb.port]]
          /\ Post(h, "cmd", 1, trb.slot)
       \/ /\ trb.type # "enable"
          /\ slots[trb.slot].state \notin Allows[trb.type]
          /\ Post(h, "cmd", 19, trb.slot) /\ UNCHANGED slots
    /\ UNCHANGED driver

(* The link at the end of the ring.                                        *)
FollowLink ==
    /\ cmd_ring[hc.cmd].cycle = hc.ccs /\ cmd_ring[hc.cmd].type = "link"
    /\ hc' = [hc EXCEPT !.cmd = 0, !.ccs = 1 - @]
    /\ UNCHANGED <<slots, evt_ring, done, driver>>

PortChange ==
    /\ hc.left > 0
    /\ Post([hc EXCEPT !.left = @ - 1], "port", 1, 0)
    /\ UNCHANGED <<slots, done, driver>>

XhciNext ==
    \/ ResetPort
    \/ EnableSlot
    \/ Enabled
    \/ ReadSlot
    \/ DefaultSlot
    \/ Defaulted
    \/ AddressSlot
    \/ Addressed
    \/ ConfigureSlot
    \/ Configured
    \/ PassOver
    \/ TimedOut
    \/ x2_poll_one
    \/ CarryOut
    \/ FollowLink
    \/ PortChange

XhciSpec == XhciInit /\ [][XhciNext]_xhciVars

-----------------------------------------------------------------------------
(* No command is left out, repeated or overtaken (x2_cmd).                 *)
CommandsInOrder == done[2] /\ done[1] <= made

(* And no event (x2_cmd, x2_poll_one).                                     *)
EventsInOrder == seen[2] /\ seen[1] <= hc.no

(* Both rings are queues, round after round.                               *)
RingsInOrder == CommandsInOrder /\ EventsInOrder

(* What x2_cmd waits for is there, or the controller can get to it.        *)
NothingStuck ==
    enum.pc \in Awaiting =>
        Posted \/ ~Room \/ cmd_ring[hc.cmd].cycle = hc.ccs

(* An endpoint that is polled belongs to a slot that has an address, and   *)
(* no two to the same, as long as no command was given up                  *)
(* (x2_enumerate_port).                                                    *)
SlotsOwn ==
    "timeout" \notin HcFaults =>
        \A i, j \in DOMAIN hid :
            /\ slots[hid[i]].state \in {"addressed", "configured"}
            /\ hid[i] = hid[j] => i = j
=============================================================================
