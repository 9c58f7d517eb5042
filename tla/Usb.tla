-------------------------------- MODULE Usb --------------------------------
(***************************************************************************)
(* Finding the devices of the USB (usb.c): usb_full_init starts each       *)
(* controller on the PCI bus and goes through its ports, those of EHCI     *)
(* controllers after all the others.  What is connected is reset, given an *)
(* address and entered in g_usb_dev and in the table of its class; a hub   *)
(* adds the ports below it.                                                *)
(*                                                                         *)
(* The bus and the devices are external.  A device that was reset listens  *)
(* to address 0 until SET_ADDRESS gives it another one.  Every control     *)
(* transfer goes to the first EHCI controller that started (usb_ctrl_xfer),*)
(* and reaches whatever listens there.                                     *)
(***************************************************************************)
EXTENDS Naturals, Sequences, FiniteSets

CONSTANTS
    Devices,         \* what is plugged in
    Ctrls,           \* the controllers
    Pci,             \* the same in the order they are found
    On,              \* the devices on the ports of each
    Lacking,         \* those that memory may be lacking for
    Below,           \* the devices below each hub
    Class,           \* "msc", "hub", "vendor", or one that has a table
    Speed,           \* "high", "full" or "low"
    USB_MAX_DEVICES, \* places in g_usb_dev (16)
    TableMax,        \* places in the table of each class (4 or 2)
    BusFaults        \* <<stage, fault>>: what may happen to a transfer

Stages == {"port", "first", "address", "descriptor", "config", "configure",
           "probe"}

(* An EHCI controller leaves a device of low speed to its companion.       *)
Ignores(c, d) == c[1] = "ehci" /\ Speed[d] = "low"

(* A controller is found once, and a device is plugged in once, if the     *)
(* port of a companion is counted for the devices of low speed.            *)
OnePlace ==
    /\ \A i, j \in DOMAIN Pci : Pci[i] = Pci[j] => i = j
    /\ \A c, e \in Ctrls : \A i \in DOMAIN On[c], j \in DOMAIN On[e] :
          On[c][i] = On[e][j] =>
              (c = e /\ i = j) \/ Ignores(c, On[c][i]) \/ Ignores(e, On[e][j])
    /\ \A h, k \in Devices : \A i \in DOMAIN Below[h], j \in DOMAIN Below[k] :
          Below[h][i] = Below[k][j] => h = k /\ i = j
    /\ \A c \in Ctrls, h \in Devices :
          \A i \in DOMAIN On[c], j \in DOMAIN Below[h] :
              On[c][i] = Below[h][j] => Ignores(c, On[c][i])

UsbAssumption ==
    /\ Pci \in Seq(Ctrls) \ {<<>>} /\ Lacking \subseteq Ctrls
    /\ USB_MAX_DEVICES \in Nat \ {0}
    /\ On \in [Ctrls -> Seq(Devices)] /\ Below \in [Devices -> Seq(Devices)]
    /\ OnePlace
    /\ DOMAIN TableMax = {Class[d] : d \in Devices} \ {"hub", "vendor"}
    /\ \A t \in DOMAIN TableMax : TableMax[t] \in Nat
    /\ BusFaults \subseteq Stages \X {"lost", "late", "refused"}

VARIABLES
    bus,       \* the devices: listening, on which controller, at what address
    next_addr, \* next_addr of each controller
    g_usb_dev, \* the devices found
    classes,   \* g_usb_msc, g_usb_audio, ...: places in g_usb_dev
    work,      \* usb_full_init: controllers still to start or to scan
    g_ehci,    \* the EHCI controllers that started
    todo,      \* the ports still to look at
    at         \* how far usb_enumerate_device is with the first of them

usbVars == <<bus, next_addr, g_usb_dev, classes, work, g_ehci, todo, at>>
pci == <<work, g_ehci>>

-----------------------------------------------------------------------------
Port(c, d, hub) == [ctrl |-> c, dev |-> d, hub |-> hub]
Begin == [stage |-> "port", addr |-> 0, class |-> "none"]
Off == [on |-> FALSE, ctrl |-> Pci[1], addr |-> 0, conf |-> FALSE]

UsbTypeOK ==
    /\ \A d \in Devices : /\ bus[d].on \in BOOLEAN /\ bus[d].ctrl \in Ctrls
                          /\ bus[d].addr \in Nat /\ bus[d].conf \in BOOLEAN
    /\ next_addr \in [Ctrls -> Nat]
    /\ Len(g_usb_dev) \in 0 .. USB_MAX_DEVICES
    /\ \A t \in DOMAIN TableMax :
          /\ Len(classes[t]) \in 0 .. TableMax[t]
          /\ \A i \in DOMAIN classes[t] : classes[t][i] \in DOMAIN g_usb_dev
    /\ \A i \in DOMAIN g_ehci : g_ehci[i] \in Ctrls
    /\ at.stage \in Stages /\ at.addr \in Nat

UsbInit ==
    /\ bus = [d \in Devices |-> Off]
    /\ next_addr = [c \in Ctrls |-> 1]
    /\ g_usb_dev = <<>>
    /\ classes = [t \in DOMAIN TableMax |-> <<>>]
    /\ work = [i \in DOMAIN Pci |-> <<"start", Pci[i]>>]
    /\ g_ehci = <<>> /\ todo = <<>>
    /\ at = Begin

-----------------------------------------------------------------------------
(* The controllers, when the ports of those before are done.               *)

PortsOf(c) == [i \in DOMAIN On[c] |-> Port(c, On[c][i], 0)]

NextIs(kind, c) == todo = <<>> /\ work # <<>> /\ Head(work) = <<kind, c>>
Found == UNCHANGED <<bus, next_addr, g_usb_dev, classes, at>>

(* ehci_init_one: without memory the controller is left out.               *)
StartEhci(c) ==
    /\ NextIs("start", c) /\ c[1] = "ehci"
    /\ \/ /\ g_ehci' = Append(g_ehci, c)
          /\ work' = Append(Tail(work), <<"scan", c>>)
       \/ c \in Lacking /\ work' = Tail(work) /\ UNCHANGED g_ehci
    /\ UNCHANGED todo /\ Found

(* uhci_init_one and ohci_init_one look at their ports at once.            *)
StartUhci(c) ==
    /\ NextIs("start", c) /\ c[1] = "uhci"
    /\ \/ todo' = PortsOf(c)
       \/ c \in Lacking /\ UNCHANGED todo
    /\ work' = Tail(work) /\ UNCHANGED g_ehci /\ Found
StartOhci(c) ==
    /\ NextIs("start", c) /\ c[1] = "ohci"
    /\ \/ todo' = PortsOf(c)
       \/ c \in Lacking /\ UNCHANGED todo
    /\ work' = Tail(work) /\ UNCHANGED g_ehci /\ Found

ScanEhci(c) ==
    /\ NextIs("scan", c)
    /\ todo' = PortsOf(c) /\ work' = Tail(work) /\ UNCHANGED g_ehci
    /\ Found

-----------------------------------------------------------------------------
(* Control transfers.                                                      *)

(* usb_ctrl_xfer: controllers of other types get no transfer at all.       *)
Reached(c, a) ==
    IF c[1] # "ehci" \/ g_ehci = <<>> THEN {}
    ELSE {d \in Devices : /\ bus[d].on /\ bus[d].ctrl = g_ehci[1]
                          /\ bus[d].addr = a}

(* ehci_ctrl_xfer: what becomes of a transfer.  It fails when nobody       *)
(* answers, when it is lost, and when only the answer is.  A request that  *)
(* the device refuses in the status stage clears ACTIVE too, which the     *)
(* driver looks at first: that is a success.                               *)
Outcomes(c, a) ==
    IF Reached(c, a) = {} THEN {"lost"}
    ELSE {"done"} \cup {f \in {"lost", "late", "refused"} :
                           <<at.stage, f>> \in BusFaults}
Succeeds(o) == o \in {"done", "refused"}
Happens(o) == o \in {"done", "late"}

Here == Head(todo)
Go(stage) == at' = [at EXCEPT !.stage = stage] /\ UNCHANGED todo
Leave == at' = Begin /\ todo' = Tail(todo)
GoOn(o, stage) == IF Succeeds(o) THEN Go(stage) ELSE Leave

-----------------------------------------------------------------------------
(* The ports.                                                              *)

(* After a reset the device listens at address 0.                          *)
Reset(c, d, heard) ==
    bus' = [bus EXCEPT ![d] =
              [on |-> heard, ctrl |-> c, addr |-> 0, conf |-> FALSE]]

(* usb_enumerate_device does nothing when g_usb_dev is full.               *)
Enumerate == IF Len(g_usb_dev) < USB_MAX_DEVICES THEN Go("first") ELSE Leave

(* ehci_port_reset: a device of low speed is left to the companion, one of *)
(* full speed is enumerated though the controller does not hear it.        *)
EhciPort ==
    /\ todo # <<>> /\ at.stage = "port" /\ Here.hub = 0
    /\ Here.ctrl[1] = "ehci"
    /\ IF Ignores(Here.ctrl, Here.dev) THEN Leave /\ UNCHANGED bus
       ELSE Reset(Here.ctrl, Here.dev, Speed[Here.dev] = "high") /\ Enumerate
    /\ UNCHANGED <<next_addr, g_usb_dev, classes, pci>>

UhciPort ==
    /\ todo # <<>> /\ at.stage = "port" /\ Here.ctrl[1] = "uhci"
    /\ Reset(Here.ctrl, Here.dev, TRUE) /\ Enumerate
    /\ UNCHANGED <<next_addr, g_usb_dev, classes, pci>>
OhciPort ==
    /\ todo # <<>> /\ at.stage = "port" /\ Here.ctrl[1] = "ohci"
    /\ Reset(Here.ctrl, Here.dev, TRUE) /\ Enumerate
    /\ UNCHANGED <<next_addr, g_usb_dev, classes, pci>>

(* The port of a hub, in probe_hub: its status is asked for, the port is   *)
(* reset, and the status asked for again.                                  *)
HubPort ==
    /\ todo # <<>> /\ at.stage = "port" /\ Here.hub # 0
    /\ \E o \in Outcomes(Here.ctrl, Here.hub) :
          /\ IF Happens(o) THEN Reset(g_ehci[1], Here.dev, TRUE)
             ELSE UNCHANGED bus
          /\ IF Succeeds(o) THEN Enumerate ELSE Leave
    /\ UNCHANGED <<next_addr, g_usb_dev, classes, pci>>

-----------------------------------------------------------------------------
(* usb_enumerate_device, one transfer after the other.  A failure leaves   *)
(* the device as it is, and its place in g_usb_dev to the next one.        *)

(* GET_DESCRIPTOR at address 0.                                            *)
GetFirst ==
    /\ at.stage = "first"
    /\ \E o \in Outcomes(Here.ctrl, 0) : GoOn(o, "address")
    /\ UNCHANGED <<bus, next_addr, g_usb_dev, classes, pci>>

(* The counter moves on whatever becomes of the request.                   *)
(* Mutant: only when it succeeded.                                         *)
AfterAddress_OnSuccess(o, a) == IF Succeeds(o) THEN a + 1 ELSE a
AfterAddress(o, a) == a + 1

SetAddress ==
    /\ at.stage = "address"
    /\ LET new == next_addr[Here.ctrl] IN
       \E o \in Outcomes(Here.ctrl, 0) :
          /\ next_addr' =
                [next_addr EXCEPT ![Here.ctrl] = AfterAddress(o, new)]
          /\ bus' = IF Happens(o)
                    THEN [d \in Devices |-> IF d \in Reached(Here.ctrl, 0)
                                            THEN [bus[d] EXCEPT !.addr = new]
                                            ELSE bus[d]]
                    ELSE bus
          /\ IF Succeeds(o)
             THEN /\ at' = [at EXCEPT !.stage = "descriptor", !.addr = new]
                  /\ UNCHANGED todo
             ELSE Leave
    /\ UNCHANGED <<g_usb_dev, classes, pci>>

(* The class is that of whoever answers.                                   *)
GetDescriptor ==
    /\ at.stage = "descriptor"
    /\ \E o \in Outcomes(Here.ctrl, at.addr) :
          \/ /\ Succeeds(o)
             /\ \E d \in Reached(Here.ctrl, at.addr) :
                   at' = [at EXCEPT !.stage = "config", !.class = Class[d]]
             /\ UNCHANGED todo
          \/ ~Succeeds(o) /\ Leave
    /\ UNCHANGED <<bus, next_addr, g_usb_dev, classes, pci>>

(* The configuration, its head and then the whole of it.                   *)
GetConfig ==
    /\ at.stage = "config"
    /\ \E o \in Outcomes(Here.ctrl, at.addr) : GoOn(o, "configure")
    /\ UNCHANGED <<bus, next_addr, g_usb_dev, classes, pci>>

(* SET_CONFIGURATION: the result is not looked at.                         *)
SetConfiguration ==
    /\ at.stage = "configure"
    /\ \E o \in Outcomes(Here.ctrl, at.addr) :
          bus' = [d \in Devices |->
                    IF Happens(o) /\ d \in Reached(Here.ctrl, at.addr)
                    THEN [bus[d] EXCEPT !.conf = TRUE] ELSE bus[d]]
    /\ g_usb_dev' = Append(g_usb_dev, [ctrl |-> Here.ctrl, addr |-> at.addr,
                                       class |-> at.class])
    /\ Go("probe")
    /\ UNCHANGED <<next_addr, classes, pci>>

-----------------------------------------------------------------------------
(* usb_probe_all_classes.                                                  *)

Place == Len(g_usb_dev)
Enter(t) ==
    classes' = IF Len(classes[t]) < TableMax[t]
               THEN [classes EXCEPT ![t] = Append(@, Place)] ELSE classes

(* A disk is entered when it answers two commands; below a hub nothing     *)
(* else is looked for.                                                     *)
probe_msc ==
    /\ at.stage = "probe" /\ at.class = "msc"
    /\ Enter("msc") \/ UNCHANGED classes
    /\ Leave /\ UNCHANGED <<bus, next_addr, g_usb_dev, pci>>

(* probe_audio, probe_cdc, probe_printer, probe_video, probe_bluetooth:    *)
(* what they ask the device does not matter.                               *)
probe_class ==
    /\ at.stage = "probe" /\ Here.hub = 0
    /\ at.class \in DOMAIN TableMax \ {"msc"}
    /\ Enter(at.class)
    /\ Leave /\ UNCHANGED <<bus, next_addr, g_usb_dev, pci>>

(* The ports of a hub come before the next one of the controller.          *)
probe_hub ==
    /\ at.stage = "probe" /\ Here.hub = 0 /\ at.class = "hub"
    /\ \E o \in Outcomes(Here.ctrl, at.addr),
          d \in Reached(Here.ctrl, at.addr) :
          /\ at' = Begin
          /\ todo' = IF ~Succeeds(o) THEN Tail(todo)
                     ELSE [i \in DOMAIN Below[d] |->
                             Port(Here.ctrl, Below[d][i], at.addr)]
                          \o Tail(todo)
    /\ UNCHANGED <<bus, next_addr, g_usb_dev, classes, pci>>

(* Devices without a driver, and what is below a hub.                      *)
NoDriver ==
    /\ at.stage = "probe"
    /\ at.class = "vendor" \/ (Here.hub # 0 /\ at.class # "msc")
    /\ Leave /\ UNCHANGED <<bus, next_addr, g_usb_dev, classes, pci>>

UsbNext ==
    \/ \E c \in Ctrls : StartEhci(c)
    \/ \E c \in Ctrls : StartUhci(c)
    \/ \E c \in Ctrls : StartOhci(c)
    \/ \E c \in Ctrls : ScanEhci(c)
    \/ EhciPort
    \/ UhciPort
    \/ OhciPort
    \/ HubPort
    \/ GetFirst
    \/ SetAddress
    \/ GetDescriptor
    \/ GetConfig
    \/ SetConfiguration
    \/ probe_msc
    \/ probe_class
    \/ probe_hub
    \/ NoDriver

UsbSpec == UsbInit /\ [][UsbNext]_usbVars

-----------------------------------------------------------------------------
(* No two devices listen to one address of the controller that transfers  *)
(* go to, so that a transfer has one device to talk to, however many of    *)
(* them were lost on the way; except that those for which g_usb_dev has no *)
(* place stay at address 0 (usb_enumerate_device).                         *)
AddressesOwn ==
    \A d, e \in Devices :
        /\ d # e /\ bus[d].on /\ bus[e].on /\ g_ehci # <<>>
        /\ bus[d].ctrl = g_ehci[1] /\ bus[e].ctrl = g_ehci[1]
        /\ bus[d].addr = bus[e].addr
        => bus[d].addr = 0 /\ Len(g_usb_dev) = USB_MAX_DEVICES

(* Each entry leads to one device, of the class entered, and no two to the *)
(* same; an entry of a class table leads to a device of that class         *)
(* (usb_enumerate_device, usb_probe_all_classes).                          *)
EntriesTrue ==
    /\ \A i \in DOMAIN g_usb_dev :
          LET e == g_usb_dev[i] IN
          /\ \E d \in Devices : /\ Reached(e.ctrl, e.addr) = {d}
                                /\ Class[d] = e.class
          /\ \A j \in DOMAIN g_usb_dev : g_usb_dev[j].addr = e.addr => j = i
    /\ \A t \in DOMAIN TableMax :
          \A i, j \in DOMAIN classes[t] :
             /\ g_usb_dev[classes[t][i]].class = t
             /\ classes[t][i] = classes[t][j] => i = j

(* A device of high speed on the first EHCI controller that no transfer    *)
(* failed is entered, as long as there is room (usb_full_init).            *)
AllFound ==
    work = <<>> /\ todo = <<>> /\ BusFaults = {} /\ g_ehci # <<>> =>
        \A i \in DOMAIN On[g_ehci[1]] :
           LET d == On[g_ehci[1]][i] IN
           Speed[d] = "high" =>
              \/ Len(g_usb_dev) = USB_MAX_DEVICES
              \/ \E e \in DOMAIN g_usb_dev :
                    Reached(g_ehci[1], g_usb_dev[e].addr) = {d}
=============================================================================
