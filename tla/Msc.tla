-------------------------------- MODULE Msc --------------------------------
(***************************************************************************)
(* Disks on the USB (usb.c): a command is three transfers, the wrapper of  *)
(* the command (CBW), the data, and the wrapper of the status (CSW), and   *)
(* a failed one is followed by a reset of the drive (msc_command).         *)
(*                                                                         *)
(* The drive is external.  It goes from one phase of a command to the next *)
(* by what it is sent or asked for, stalls an endpoint when it cannot go   *)
(* on, and keeps it stalled until the halt is cleared.  A transfer may     *)
(* time out with or without having reached the drive, and so may each      *)
(* request of the reset.  Drives are such that do not look at data toggles *)
(* and requests such that fit one transfer descriptor.                     *)
(***************************************************************************)
EXTENDS Integers

CONSTANTS
    UsbBlocks,  \* block numbers
    UsbValues,  \* contents of a block
    MaxTag,     \* bound: commands sent
    UsbFaults   \* "timeout", "stall", "error"

MscAssumption == /\ MaxTag \in Nat
                 /\ UsbFaults \subseteq {"timeout", "stall", "error"}

VARIABLES
    cmd,     \* msc_command: what it does next, and for whom
    tag,     \* dev->tag
    buf,     \* the caller's buffer
    probed,  \* probe_msc: "new", "answered" INQUIRY, "valid": in g_usb_msc, "no"
    drive,   \* the drive: phase, and the command it is in
    halted,  \* its stalled endpoints
    platter, \* what it holds
    live,    \* history: what a block may read as
    mine     \* history: what the latest command that succeeded read was its own

mscVars == <<cmd, tag, buf, probed, drive, halted, platter, live, mine>>

-----------------------------------------------------------------------------
Nothing == [kind |-> "nothing"]
Wrapper(t, op, b) == [kind |-> "cbw", tag |-> t, op |-> op, block |-> b]
Status(t, s) == [kind |-> "csw", tag |-> t, status |-> s]
Content(v) == [kind |-> "data", val |-> v]

Idle == [step |-> "idle", op |-> "none", block |-> 0, val |-> 0]
Ready == [phase |-> "cbw", op |-> "none", block |-> 0, tag |-> 0, status |-> 0]
Ops == {"inquiry", "capacity", "read", "write"}

MscTypeOK ==
    /\ cmd.step \in {"idle", "cbw", "data", "csw", "reset"}
    /\ cmd.op \in Ops \cup {"none"} /\ tag \in 0 .. MaxTag
    /\ buf.kind \in {"nothing", "data", "csw"}
    /\ probed \in {"new", "answered", "valid", "no"}
    /\ drive.phase \in {"cbw", "data", "csw"} /\ drive.tag \in 0 .. MaxTag
    /\ halted \subseteq {"in", "out"}
    /\ platter \in [UsbBlocks -> UsbValues] /\ live \in [UsbBlocks -> SUBSET UsbValues]

MscInit ==
    /\ cmd = Idle /\ tag = 0 /\ buf = Nothing /\ probed = "new"
    /\ drive = Ready /\ halted = {}
    /\ \E v \in UsbValues : /\ platter = [b \in UsbBlocks |-> v]
                            /\ live = [b \in UsbBlocks |-> {v}]
    /\ mine = TRUE

-----------------------------------------------------------------------------
(* The drive: what a transfer does to it, and what the driver sees of it.  *)

As(rc, d, h, p, x) ==
    [rc |-> rc, drive |-> d, halted |-> h, platter |-> p, in |-> x]
NoAnswer == As(-1, drive, halted, platter, Nothing)
(* A stalled transfer clears ACTIVE, which is all ehci_bulk_xfer looks at  *)
(* before it looks at HALTED: the driver takes it for done.                *)
Stalled(d, eps) == As(0, d, halted \cup eps, platter, Nothing)
Failing(d) == [d EXCEPT !.phase = "csw", !.status = 1]
Passing(d) == [d EXCEPT !.phase = "csw", !.status = 0]
If(f, answers) == IF f \in UsbFaults THEN answers ELSE {}

Holds(d) == IF d.op = "read" THEN platter[d.block] ELSE -1
Written(v) == [platter EXCEPT ![drive.block] = v]

Out(p) ==
    IF "out" \in halted THEN {Stalled(drive, {})} ELSE
    CASE drive.phase = "cbw" /\ p.kind = "cbw" ->
            {As(0, [phase |-> "data", op |-> p.op, block |-> p.block,
                    tag |-> p.tag, status |-> 0], halted, platter, Nothing)}
      [] drive.phase = "cbw" /\ p.kind # "cbw" -> {Stalled(drive, {"in", "out"})}
      [] drive.phase = "data" /\ drive.op = "write" /\ p.kind = "data" ->
            {As(0, Passing(drive), halted, Written(p.val), Nothing)}
            \cup If("error", {As(0, Failing(drive), halted, platter, Nothing)})
            \cup If("stall", {Stalled(Failing(drive), {"out"})})
      [] drive.phase = "data" /\ drive.op = "write" /\ p.kind # "data" ->
            {As(0, Failing(drive), halted, platter, Nothing)}
      [] OTHER -> {NoAnswer} \cup If("stall", {Stalled(drive, {"out"})})

In ==
    IF "in" \in halted THEN {Stalled(drive, {})} ELSE
    CASE drive.phase = "data" /\ drive.op # "write" ->
            {As(0, Passing(drive), halted, platter, Content(Holds(drive)))}
            \cup If("error", {As(0, Failing(drive), halted, platter, Nothing)})
            \cup If("stall", {Stalled(Failing(drive), {"in"})})
      [] drive.phase = "csw" ->
            {As(0, Ready, halted, platter, Status(drive.tag, drive.status))}
      [] OTHER -> {NoAnswer}

(* msc_bulk and ehci_bulk_xfer: the transfer, one that is given up before  *)
(* it reaches the drive, and one that is given up after.                   *)
Bulk(answers) ==
    answers \cup
    If("timeout", {NoAnswer} \cup {[a EXCEPT !.rc = -1, !.in = Nothing] :
                                    a \in answers})

-----------------------------------------------------------------------------
(* The calls, up to the first transfer.                                    *)
msc_command(op, b, v) ==
    /\ cmd = Idle /\ tag < MaxTag
    /\ cmd' = [step |-> "cbw", op |-> op, block |-> b, val |-> v]
    /\ tag' = tag + 1
    /\ buf' = Nothing
    /\ UNCHANGED <<probed, drive, halted, platter, mine>>

(* probe_msc: the drive is entered when it answers INQUIRY and READ        *)
(* CAPACITY.                                                               *)
msc_inquiry ==
    probed = "new" /\ msc_command("inquiry", 0, 0) /\ UNCHANGED live
msc_read_capacity ==
    probed = "answered" /\ msc_command("capacity", 0, 0) /\ UNCHANGED live

usb_msc_read(b) ==
    probed = "valid" /\ msc_command("read", b, 0) /\ UNCHANGED live
usb_msc_write(b, v) ==
    /\ probed = "valid" /\ msc_command("write", b, v)
    /\ live' = [live EXCEPT ![b] = @ \cup {v}]

-----------------------------------------------------------------------------
(* msc_command, one transfer after the other.                              *)

Goto(step) == cmd' = [cmd EXCEPT !.step = step]
Took(a) == drive' = a.drive /\ halted' = a.halted /\ platter' = a.platter

SendWrapper ==
    /\ cmd.step = "cbw"
    /\ \E a \in Bulk(Out(Wrapper(tag, cmd.op, cmd.block))) :
          /\ Took(a)
          /\ Goto(IF a.rc = 0 THEN "data" ELSE "reset")
    /\ UNCHANGED <<tag, buf, probed, live, mine>>

MoveData ==
    /\ cmd.step = "data"
    /\ \E a \in Bulk(IF cmd.op = "write" THEN Out(Content(cmd.val)) ELSE In) :
          /\ Took(a)
          /\ buf' = IF a.in = Nothing THEN buf ELSE a.in
          /\ Goto(IF a.rc = 0 THEN "csw" ELSE "reset")
    /\ UNCHANGED <<tag, probed, live, mine>>

(* The end of a command, with its result.                                  *)
Return(rc) ==
    /\ cmd' = Idle
    /\ probed' = CASE cmd.op = "inquiry" -> IF rc = 0 THEN "answered" ELSE "no"
                   [] cmd.op = "capacity" -> IF rc = 0 THEN "valid" ELSE "no"
                   [] OTHER -> probed
    /\ mine' = IF rc # 0 \/ cmd.op = "write" THEN mine
               ELSE /\ buf.kind = "data"
                    /\ IF cmd.op = "read" THEN buf.val \in live[cmd.block]
                       ELSE buf.val = -1
    /\ live' = IF rc = 0 /\ cmd.op = "write"
               THEN [live EXCEPT ![cmd.block] = {cmd.val}] ELSE live
    /\ UNCHANGED <<tag, buf>>

(* Only a status with the signature and the tag of the command counts.     *)
Verdict(csw) == IF csw.kind # "csw" \/ csw.tag # tag THEN -1 ELSE csw.status

GetStatus ==
    /\ cmd.step = "csw"
    /\ \E a \in Bulk(In) :
          /\ Took(a)
          /\ \/ a.rc = 0 /\ Return(Verdict(a.in))
             \/ /\ a.rc # 0 /\ Goto("reset")
                /\ UNCHANGED <<tag, buf, probed, live, mine>>

(* Three requests, any of which may get lost: the drive is made ready for  *)
(* a command, and the halt of the OUT endpoint is cleared.  The second one *)
(* names the IN endpoint without its direction bit, which is not it.       *)
msc_reset ==
    /\ cmd.step = "reset"
    /\ \E ready, clear \in {TRUE} \cup {f # "timeout" : f \in UsbFaults} :
          /\ drive' = IF ready THEN Ready ELSE drive
          /\ halted' = IF clear THEN halted \ {"out"} ELSE halted
    /\ Return(-1)
    /\ UNCHANGED platter

MscNext ==
    \/ msc_inquiry
    \/ msc_read_capacity
    \/ \E b \in UsbBlocks : \/ usb_msc_read(b)
                            \/ \E v \in UsbValues : usb_msc_write(b, v)
    \/ SendWrapper
    \/ MoveData
    \/ GetStatus
    \/ msc_reset

MscSpec == MscInit /\ [][MscNext]_mscVars

-----------------------------------------------------------------------------
(* A command that returns 0 has its own answer, whatever the drive is left *)
(* with from commands that failed (msc_command).                           *)
AnswersOwn == mine

(* A block holds what the latest write that returned 0 put there, or one   *)
(* that failed since may have (usb_msc_write).                             *)
BlocksKept == \A b \in UsbBlocks : platter[b] \in live[b]
=============================================================================
