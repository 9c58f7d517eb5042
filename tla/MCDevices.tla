----------------------------- MODULE MCDevices -----------------------------
(* The devices and what is built on them: screen and line editor, keyboard *)
(* and mouse, windows, sound, the disks and the network card.  They share  *)
(* no state: a behaviour is one of one setting, `part` says which, and the *)
(* others keep their initial state.                                        *)
EXTENDS Nic, Nvme, Sound, Gui, Input

VARIABLES part,
          con, rows, paged, edit, hist, said, wiped,
          probe, num_ports, ports, slot, buf, cmd, line, cache, platter, pio,
          live, kept, answer,
          bus, next_addr, g_usb_dev, classes, work, g_ehci, todo, at,
          wanted, tag, block, probed, stick, halted, cells, may, owned,
          cmd_ring, cmd_idx, cmd_pcs, evt_ring, evt_idx, evt_ccs, hc, slots,
          enum, hid, made, done, seen

screen == <<con, rows, paged, edit, hist, said, wiped>>
ahci == <<probe, num_ports, ports, slot, buf, cmd, line, cache, platter, pio,
          live, kept, answer>>
usb == <<bus, next_addr, g_usb_dev, classes, work, g_ehci, todo, at>>
msc == <<wanted, tag, block, probed, stick, halted, cells, may, owned>>
xhci == <<cmd_ring, cmd_idx, cmd_pcs, evt_ring, evt_idx, evt_ccs, hc, slots,
          enum, hid, made, done, seen>>
onboard == <<screen, inputVars, guiVars, soundVars, ahci, nvmeVars, cardVars>>
buses == <<usb, msc, xhci>>

-----------------------------------------------------------------------------
(* Values of the constants.  Nic: either card, with frames of one and of   *)
(* two words; the buffer of one card goes round in the middle of a frame,  *)
(* and the slots are used again.  Nvme: commands that the driver gives up  *)
(* on and that are carried out later.  Sound: two channels, two programs   *)
(* one after the other, and sounds of one tick and shorter.                *)
FrameWords == [f \in Frames |-> f]

(* A ring of three rows, two lines remembered.                             *)
Hist == INSTANCE Console WITH
    ROWS <- 2, COLS <- 4, SCROLLBACK <- 3, STEP <- 1, HIST_MAX <- 2,
    LINE <- 1, Chars <- {"a", "b"}, MaxLines <- 5, Points <- {}, Pages <- FALSE
(* Lines of two characters.                                                *)
Line == INSTANCE Console WITH
    ROWS <- 2, COLS <- 4, SCROLLBACK <- 3, STEP <- 1, HIST_MAX <- 2,
    LINE <- 2, Chars <- {"a"}, MaxLines <- 5, Points <- {}, Pages <- FALSE
(* The view is moved, and so is the pointer.                               *)
Paged == INSTANCE Console WITH
    ROWS <- 2, COLS <- 4, SCROLLBACK <- 5, STEP <- 1, HIST_MAX <- 2,
    LINE <- 1, Chars <- {"a"}, MaxLines <- 5,
    Points <- {<<0, 1>>, <<1, 2>>}, Pages <- TRUE

(* Input: rings of three and of two places, as in its four settings.  Keys *)
(* pressed, held and let go, with the time, and the mouse.                 *)
Keyboard == INSTANCE Input WITH
    KEY_BUF_SIZE <- 3, MOUSE_BUF_SIZE <- 2, DELAY <- 2, RATE <- 1,
    Readers <- {"raw"}, Letters <- {"a"}, Arrows <- {"up"}, Packet <- 3,
    Marked <- {}, Loses <- FALSE, MaxWire <- 2, MaxTick <- 3, MaxEvents <- 2
(* More packets than the ring holds.                                       *)
Mouse == INSTANCE Input WITH
    KEY_BUF_SIZE <- 3, MOUSE_BUF_SIZE <- 2, DELAY <- 2, RATE <- 1,
    Readers <- {"raw"}, Letters <- {}, Arrows <- {}, Packet <- 3,
    Marked <- {}, Loses <- FALSE, MaxWire <- 3, MaxTick <- 0, MaxEvents <- 3
(* The desktop, which reads in two places, on a wire that loses bytes.     *)
Loop == INSTANCE Input WITH
    KEY_BUF_SIZE <- 3, MOUSE_BUF_SIZE <- 2, DELAY <- 2, RATE <- 1,
    Readers <- {"gui", "ps2"}, Letters <- {}, Arrows <- {"up"}, Packet <- 3,
    Marked <- {}, Loses <- TRUE, MaxWire <- 2, MaxTick <- 0, MaxEvents <- 2
(* The desktop's loop alone, on such a wire.                               *)
Lossy == INSTANCE Input WITH
    KEY_BUF_SIZE <- 3, MOUSE_BUF_SIZE <- 2, DELAY <- 2, RATE <- 1,
    Readers <- {"gui"}, Letters <- {}, Arrows <- {}, Packet <- 3,
    Marked <- {}, Loses <- TRUE, MaxWire <- 4, MaxTick <- 0, MaxEvents <- 3
(* A mouse with a wheel, whose fourth byte looks like a first one.         *)
Wheel == INSTANCE Input WITH
    KEY_BUF_SIZE <- 3, MOUSE_BUF_SIZE <- 2, DELAY <- 2, RATE <- 1,
    Readers <- {"raw"}, Letters <- {}, Arrows <- {}, Packet <- 4,
    Marked <- {4}, Loses <- FALSE, MaxWire <- 4, MaxTick <- 0, MaxEvents <- 2

(* One drive of two sectors, with every fault.                             *)
Drive == INSTANCE Ahci WITH
    Drives <- {1}, LBAS <- 2, Data <- {0, 1}, MAX_SECTORS <- 2,
    MAX_PORTS <- 2, Legacy <- FALSE,
    Faults <- {"timeout", "error", "memory", "power"},
    data_buf <- buf, call <- cmd, media <- platter, got <- answer
(* Two drives, one of them without its buffers perhaps.                    *)
Drives == INSTANCE Ahci WITH
    Drives <- {1, 2}, LBAS <- 1, Data <- {0, 1}, MAX_SECTORS <- 1,
    MAX_PORTS <- 2, Legacy <- TRUE, Faults <- {"memory", "error"},
    data_buf <- buf, call <- cmd, media <- platter, got <- answer

(* Commands that fail, on blocks of one sector.                            *)
Failing == INSTANCE Nvme WITH
    DEPTH <- 2, CIDS <- 3, PerBlock <- 1, Blocks <- 2, Values <- {1, 2},
    MaxCid <- 3, Faults <- {"error"}
(* Blocks of two sectors.                                                  *)
Native == INSTANCE Nvme WITH
    DEPTH <- 3, CIDS <- 4, PerBlock <- 2, Blocks <- 1, Values <- {1, 2},
    MaxCid <- 4, Faults <- {}

(* Two EHCI controllers, two of the older types, and devices of the        *)
(* classes that are told apart, one of them below a hub.                   *)
Plugged == {"disk", "hub", "stick", "cam", "pen", "key", "cd", "bell", "mic",
            "light"}
PluggedCtrls == {<<"ehci", 0>>, <<"ehci", 1>>, <<"uhci", 0>>, <<"ohci", 0>>}
PluggedPci == << <<"uhci", 0>>, <<"ehci", 0>>, <<"ohci", 0>>, <<"ehci", 1>> >>
PluggedOn == [c \in PluggedCtrls |->
                CASE c = <<"ehci", 0>> ->
                       <<"disk", "key", "hub", "cam", "pen", "mic">>
                  [] c = <<"ehci", 1>> -> <<"cd">>
                  [] c = <<"uhci", 0>> -> <<"key", "light">>
                  [] OTHER -> <<"bell">>]
PluggedBelow == [d \in Plugged |-> IF d = "hub" THEN <<"stick">> ELSE <<>>]
PluggedClass == [disk |-> "msc", hub |-> "hub", stick |-> "msc",
                 cam |-> "video", pen |-> "vendor", key |-> "vendor",
                 cd |-> "msc", bell |-> "vendor", mic |-> "vendor",
                 light |-> "vendor"]
PluggedSpeed == [d \in Plugged |-> CASE d \in {"key", "light"} -> "low"
                                  [] d = "bell" -> "full"
                                  [] OTHER -> "high"]
(* Transfers are lost, or their answers are, once a device has its address.*)
AddressedFaults ==
    {<<"address", "late">>, <<"configure", "refused">>}
    \cup {"port", "descriptor", "config", "configure", "probe"} \X {"lost"}
Bus == INSTANCE Usb WITH
    Devices <- Plugged, Ctrls <- PluggedCtrls, Pci <- PluggedPci,
    On <- PluggedOn, Lacking <- PluggedCtrls,
    Below <- PluggedBelow, Class <- PluggedClass, Speed <- PluggedSpeed,
    USB_MAX_DEVICES <- 4, TableMax <- [msc |-> 1, video |-> 2],
    BusFaults <- AddressedFaults
(* Nothing is lost.                                                        *)
Quiet == INSTANCE Usb WITH
    Devices <- Plugged, Ctrls <- PluggedCtrls, Pci <- PluggedPci,
    On <- PluggedOn, Lacking <- {},
    Below <- PluggedBelow, Class <- PluggedClass, Speed <- PluggedSpeed,
    USB_MAX_DEVICES <- 7, TableMax <- [msc |-> 2, video |-> 2],
    BusFaults <- {}

(* A disk of two blocks on the USB, with every fault.                      *)
Stick == INSTANCE Msc WITH
    UsbBlocks <- {1, 2}, UsbValues <- {0, 1}, MaxTag <- 4,
    UsbFaults <- {"timeout", "stall", "error"},
    cmd <- wanted, buf <- block, drive <- stick, platter <- cells, live <- may,
    mine <- owned

(* Commands that fail, on rings that go round.                             *)
Refused == INSTANCE Xhci WITH
    CmdRing <- 4, EvtRing <- 4, Ports <- {1, 2}, HcSlots <- {1, 2},
    MAX_HID <- 2, HcEvents <- 2, HcFaults <- {"error", "memory"}
(* Commands that are given up and carried out later.                       *)
GivenUp == INSTANCE Xhci WITH
    CmdRing <- 6, EvtRing <- 3, Ports <- {1, 2}, HcSlots <- {1, 2},
    MAX_HID <- 2, HcEvents <- 2, HcFaults <- {"timeout"}

Settings == {"hist", "line", "paged", "keyboard", "mouse", "loop", "lossy",
             "wheel", "windows", "mixer", "drive", "drives", "failing", "late",
             "native", "nic", "ports", "quiet", "stick", "refused", "givenup"}

ASSUME /\ Hist!ConsoleAssumption /\ Line!ConsoleAssumption
       /\ Paged!ConsoleAssumption
       /\ Keyboard!InputAssumption /\ Mouse!InputAssumption
       /\ Loop!InputAssumption /\ Lossy!InputAssumption /\ Wheel!InputAssumption
       /\ InputAssumption /\ GuiAssumption /\ SoundAssumption
       /\ Drive!AhciAssumption /\ Drives!AhciAssumption
       /\ NicAssumption /\ NvmeAssumption
       /\ Failing!NvmeAssumption /\ Native!NvmeAssumption
       /\ Bus!UsbAssumption /\ Quiet!UsbAssumption
       /\ Stick!MscAssumption
       /\ Refused!XhciAssumption /\ GivenUp!XhciAssumption

-----------------------------------------------------------------------------
DevicesInit ==
    /\ part \in Settings
    /\ IF part = "paged" THEN Paged!ConsoleInit ELSE Hist!ConsoleInit
    /\ Keyboard!InputInit
    /\ GuiInit
    /\ SoundInit /\ (part # "mixer" => running = "p")
    /\ IF part = "drives" THEN Drives!AhciInit ELSE Drive!AhciInit
    /\ CASE part = "failing" -> Failing!NvmeInit
         [] part = "native" -> Native!NvmeInit
         [] OTHER -> NvmeInit
    /\ CardInit /\ (part # "nic" => active = "none")
    /\ IF part = "quiet" THEN Quiet!UsbInit ELSE Bus!UsbInit
    /\ Stick!MscInit /\ (part # "stick" => cells[1] = 0)
    /\ IF part = "givenup" THEN GivenUp!XhciInit ELSE Refused!XhciInit

DevicesNext ==
    /\ UNCHANGED part
    /\ \/ /\ \/ part = "hist" /\ Hist!ConsoleNext
             \/ part = "line" /\ Line!ConsoleNext
             \/ part = "paged" /\ Paged!ConsoleNext
          /\ UNCHANGED <<inputVars, guiVars, soundVars, ahci, nvmeVars, cardVars, buses>>
       \/ /\ \/ part = "keyboard" /\ Keyboard!InputNext
             \/ part = "mouse" /\ Mouse!InputNext
             \/ part = "loop" /\ Loop!InputNext
             \/ part = "lossy" /\ Lossy!InputNext
             \/ part = "wheel" /\ Wheel!InputNext
          /\ UNCHANGED <<screen, guiVars, soundVars, ahci, nvmeVars, cardVars, buses>>
       \/ /\ part = "windows" /\ GuiNext
          /\ UNCHANGED <<screen, inputVars, soundVars, ahci, nvmeVars, cardVars, buses>>
       \/ /\ part = "mixer" /\ SoundNext
          /\ UNCHANGED <<screen, inputVars, guiVars, ahci, nvmeVars, cardVars, buses>>
       \/ /\ \/ part = "drive" /\ Drive!AhciNext
             \/ part = "drives" /\ Drives!AhciNext
          /\ UNCHANGED <<screen, inputVars, guiVars, soundVars, nvmeVars, cardVars, buses>>
       \/ /\ \/ part = "failing" /\ Failing!NvmeNext
             \/ part = "late" /\ NvmeNext
             \/ part = "native" /\ Native!NvmeNext
          /\ UNCHANGED <<screen, inputVars, guiVars, soundVars, ahci, cardVars, buses>>
       \/ /\ part = "nic" /\ CardNext
          /\ UNCHANGED <<screen, inputVars, guiVars, soundVars, ahci, nvmeVars, buses>>
       \/ /\ \/ part = "ports" /\ Bus!UsbNext
             \/ part = "quiet" /\ Quiet!UsbNext
          /\ UNCHANGED <<onboard, msc, xhci>>
       \/ /\ part = "stick" /\ Stick!MscNext
          /\ UNCHANGED <<onboard, usb, xhci>>
       \/ /\ \/ part = "refused" /\ Refused!XhciNext
             \/ part = "givenup" /\ GivenUp!XhciNext
          /\ UNCHANGED <<onboard, usb, msc>>

DevicesSpec ==
    DevicesInit /\ [][DevicesNext]_<<part, onboard, buses>>

-----------------------------------------------------------------------------
(* The ring holds the latest rows, the screen shows them or, paged, older  *)
(* ones in order, and the line edited and those remembered are what was    *)
(* typed (backbuf_advance, vga_redraw, read_line, hist_push).  The key     *)
(* that repeats is one that is held, shifts are those of the event, and    *)
(* packets are whole, all but one if a byte is lost (input_key_release,    *)
(* kb_translate, mouse_poll, cmd_gui).                                     *)
ConsoleTrue ==
    /\ part = "hist" => /\ Hist!ConsoleTypeOK
                        /\ Hist!RingHoldsLatest /\ Hist!ScreenIsLive
                        /\ Hist!LineShown /\ Hist!RemembersLatest
    /\ part = "line" => /\ Line!ConsoleTypeOK
                        /\ Line!RingHoldsLatest /\ Line!ScreenIsLive
                        /\ Line!LineShown /\ Line!RemembersLatest
    /\ part = "paged" => /\ Paged!ConsoleTypeOK
                         /\ Paged!RingHoldsLatest /\ Paged!ViewInOrder
                         /\ Paged!LineShown /\ Paged!RemembersLatest
    /\ part = "keyboard" => /\ Keyboard!InputTypeOK /\ Keyboard!HeldIsDown
                            /\ Keyboard!MarksTrue /\ Keyboard!PacketsWhole
    /\ part = "mouse" => Mouse!InputTypeOK /\ Mouse!PacketsWhole
    /\ part = "loop" => Loop!InputTypeOK
    /\ part = "lossy" => Lossy!InputTypeOK /\ Lossy!PacketsWhole
    /\ part = "wheel" => Wheel!InputTypeOK

(* What a disk answers is the answer to the command that waits for it and  *)
(* appears where the driver looks, a read returns what the sectors hold, a *)
(* write changes its sectors and no other, on its drive, and a flush keeps *)
(* them (nvme_write_sector, port_issue_and_wait, ahci_write_sectors,       *)
(* ahci_flush, msc_command, usb_msc_write).  Not said of `native', blocks  *)
(* of two sectors: that a read returns them.  It does not; nvme_read_      *)
(* sector hands out the first half of the block for either (nvme.c:342),   *)
(* though it `adapts to native LBA size' (nvme.c:327).                     *)
SectorsKept ==
    /\ part = "late" => NvmeTypeOK
    /\ part = "failing" => /\ Failing!NvmeTypeOK /\ Failing!AnswerInPlace
                           /\ Failing!WritesLand /\ Failing!ReadsBack
    /\ part = "native" => /\ Native!NvmeTypeOK /\ Native!AnswerInPlace
                          /\ Native!WritesLand
    /\ part = "drive" => /\ Drive!AhciTypeOK
                         /\ Drive!ReadsOwn /\ Drive!SectorsKept
    /\ part = "drives" => /\ Drives!AhciTypeOK
                          /\ Drives!ReadsOwn /\ Drives!SectorsKept
    /\ part = "stick" => /\ Stick!MscTypeOK
                         /\ Stick!AnswersOwn /\ Stick!BlocksKept

(* Devices of a bus have addresses of their own, entries lead to one       *)
(* device of their class, whatever is lost once it has an address, and     *)
(* nothing is overlooked when nothing is lost (usb_enumerate_device).      *)
(* Commands and events of the xHCI controller keep their order round after *)
(* round, a command waited for can be carried out, and each endpoint       *)
(* polled has a slot of its own (x2_cmd, x2_enumerate_port).  What is read *)
(* from the buffer of the RTL8139 is the next frame (rtl8139_poll).        *)
BusSorted ==
    /\ part = "ports" => Bus!UsbTypeOK /\ Bus!AddressesOwn /\ Bus!EntriesTrue
    /\ part = "quiet" => /\ Quiet!UsbTypeOK
                         /\ Quiet!AddressesOwn /\ Quiet!EntriesTrue
                         /\ Quiet!AllFound
    /\ part = "refused" => /\ Refused!XhciTypeOK /\ Refused!RingsInOrder
                           /\ Refused!NothingStuck /\ Refused!SlotsOwn
    /\ part = "givenup" => /\ GivenUp!XhciTypeOK /\ GivenUp!RingsInOrder
                           /\ GivenUp!NothingStuck
    /\ part = "nic" => CardTypeOK /\ ReadsFrame
    /\ part = "mixer" => SoundTypeOK
=============================================================================
