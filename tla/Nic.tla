-------------------------------- MODULE Nic ---------------------------------
(***************************************************************************)
(* The network cards behind nic_init, nic_send and nic_poll (e1000.c).     *)
(* The cards are external.                                                 *)
(*                                                                         *)
(* The e1000 has a ring of descriptors for each direction: it fills the    *)
(* receive descriptors from its head up to the tail the driver gave it,    *)
(* and sends the transmit descriptors between its head and the driver's    *)
(* tail, at its own pace.  net_rx_deliver does not come back to            *)
(* e1000_poll: the only address it has to resolve is the gateway's, which  *)
(* net_start put in the table.                                             *)
(*                                                                         *)
(* The RTL8139 has a few transmit slots, and one buffer that it fills with *)
(* frames, one behind the other and round at the end, each after a header  *)
(* and followed by its checksum.  A word of the buffer is what the driver  *)
(* keeps its places to (four bytes); frames are such as nic_send lets      *)
(* through.                                                                *)
(***************************************************************************)
EXTENDS Integers, Sequences, FiniteSets

CONSTANTS
    RING,      \* descriptors of each ring (16)
    Frames     \* contents of a frame

E1000Assumption == RING \in Nat \ {0, 1} /\ Frames # {}

VARIABLES
    rx,        \* g_e1000_rx_ring with its buffers, rx_tail (RDT) and RDH
    tx,        \* g_e1000_tx_ring with its buffers, tx_tail (TDT) and TDH
    sending,   \* e1000_send: what it is at, and the frame
    delivered  \* history: the ring and the frame of the latest delivery

nicVars == <<rx, tx, sending, delivered>>

-----------------------------------------------------------------------------
Descs == 0 .. RING - 1
After(i) == (i + 1) % RING
AnyFrame == CHOOSE f \in Frames : TRUE

(* dd: the descriptor-done bit.                                            *)
Desc == [dd: BOOLEAN, frame: Frames]
Ring == [desc: [Descs -> Desc], head: Descs, tail: Descs]

Sending == [at: {"idle", "wait", "sent"}, frame: Frames, slot: Descs]
NotSending == [at |-> "idle", frame |-> AnyFrame, slot |-> 0]

NicTypeOK ==
    /\ rx \in Ring /\ tx \in Ring
    /\ sending \in Sending
    /\ delivered = <<>> \/ delivered \in {"rx", "tx"} \X Frames

(* e1000_init: every receive slot but one is the card's, every transmit    *)
(* slot is marked done.                                                    *)
NicInit ==
    /\ rx = [desc |-> [i \in Descs |-> [dd |-> FALSE, frame |-> AnyFrame]],
             head |-> 0, tail |-> RING - 1]
    /\ tx = [desc |-> [i \in Descs |-> [dd |-> TRUE, frame |-> AnyFrame]],
             head |-> 0, tail |-> 0]
    /\ sending = NotSending
    /\ delivered = <<>>

-----------------------------------------------------------------------------
(* The card has a frame and a descriptor to put it in; without one it      *)
(* drops the frame.                                                        *)
Arrive(f) ==
    /\ rx.head # rx.tail
    /\ rx' = [rx EXCEPT !.desc[rx.head] = [dd |-> TRUE, frame |-> f],
                        !.head = After(@)]
    /\ UNCHANGED <<tx, sending, delivered>>

(* One turn of the loop of e1000_poll: deliver the frame of the slot after *)
(* the tail, then give the slot back.                                      *)
(* Mutant: the done bit stays set.                                         *)
GiveBack_KeepsDone(i) == [rx EXCEPT !.tail = i]
GiveBack(i) == [rx EXCEPT !.desc[i].dd = FALSE, !.tail = i]
Poll ==
    LET slot == After(rx.tail)
    IN  /\ rx.desc[slot].dd
        /\ delivered' = <<"rx", rx.desc[slot].frame>>
        /\ rx' = GiveBack(slot)
        /\ UNCHANGED <<tx, sending>>

(* e1000_send, up to the wait for the slot at the tail.                    *)
Send(f) ==
    /\ sending.at = "idle"
    /\ sending' = [at |-> "wait", frame |-> f, slot |-> tx.tail]
    /\ UNCHANGED <<rx, tx, delivered>>

(* The slot is free: copy, clear the done bit, ring the doorbell.          *)
SlotFree(i) == tx.desc[i].dd
Submit ==
    /\ sending.at = "wait"
    /\ SlotFree(sending.slot)
    /\ tx' = [tx EXCEPT !.desc[tx.tail] = [dd |-> FALSE,
                                           frame |-> sending.frame],
                        !.tail = After(@)]
    /\ sending' = [sending EXCEPT !.at = "sent"]
    /\ UNCHANGED <<rx, delivered>>

(* 100000 looks were not enough: the frame is dropped.                     *)
Drop ==
    /\ sending.at = "wait"
    /\ ~tx.desc[sending.slot].dd
    /\ sending' = NotSending
    /\ UNCHANGED <<rx, tx, delivered>>

(* The frame is out, or another 100000 looks were not enough.              *)
SendReturns ==
    /\ sending.at = "sent"
    /\ sending' = NotSending
    /\ UNCHANGED <<rx, tx, delivered>>

(* The card sends the frame at its head; head = tail is an empty ring.     *)
Transmit ==
    /\ tx.head # tx.tail
    /\ delivered' = <<"tx", tx.desc[tx.head].frame>>
    /\ tx' = [tx EXCEPT !.desc[tx.head].dd = TRUE, !.head = After(@)]
    /\ UNCHANGED <<rx, sending>>

NicNext ==
    \/ \E f \in Frames : Arrive(f)
    \/ Poll
    \/ \E f \in Frames : Send(f)
    \/ Submit
    \/ Drop
    \/ SendReturns
    \/ Transmit

NicSpec == NicInit /\ [][NicNext]_nicVars

-----------------------------------------------------------------------------
(* The frames between two places of a ring, oldest first.                  *)
From(r, first, n) == [k \in 1 .. n |-> r.desc[(first + k - 1) % RING].frame]
Received == From(rx, After(rx.tail),
                 (rx.head + RING - After(rx.tail)) % RING)

(* A transmit ring whose every slot waits looks empty to the card; the     *)
(* done bits tell the driver otherwise.                                    *)
Waiting ==
    IF tx.head = tx.tail /\ ~tx.desc[tx.head].dd
    THEN From(tx, tx.head, RING)
    ELSE From(tx, tx.head, (tx.tail + RING - tx.head) % RING)

Queues == INSTANCE Mailbox WITH
              Boxes <- {"rx", "tx"}, Messages <- Frames, Depth <- RING,
              inbox <- [b \in {"rx", "tx"} |->
                          IF b = "rx" THEN Received ELSE Waiting],
              taken <- delivered

(* Each direction is a bounded first-in first-out queue: a frame that      *)
(* found a descriptor is delivered once, in order and unchanged, whatever  *)
(* the pace of the card and however often e1000_send gives up waiting.     *)
ImplementsQueues == Queues!MailSpec

-----------------------------------------------------------------------------
(* The RTL8139, and the choice between the cards.                          *)
CONSTANTS
    RX_WORDS,   \* words of the receive buffer (16384)
    Words,      \* frame -> its length in words
    SLOTS,      \* RTL_TX_SLOT_COUNT (4)
    Patient     \* the card has let go of a slot when its turn comes again

NicAssumption ==
    /\ E1000Assumption
    /\ Words \in [Frames -> Nat \ {0}]
    /\ \A f \in Frames : Words[f] + 2 < RX_WORDS
    /\ SLOTS \in Nat \ {0}
    /\ Patient \in BOOLEAN

VARIABLES
    active,     \* g_active_nic; nic_ready says that it is not NIC_NONE
    tsd,        \* the transmit slots: status register and buffer
    tx_slot,    \* g_rtl_tx_slot
    cur_tx,     \* the slot the card sends next
    post,       \* rtl8139_send: what it is at, and the frame
    rx_buf,     \* g_rtl_rx_buf: the frame a word belongs to, and which word
    rx_ptr,     \* g_rtl_rx_ptr
    capr,       \* the place up to which the card may write
    cbr,        \* the place where the card writes next
    isr,        \* the ROK bit of the interrupt status
    drain       \* rtl8139_poll: what it is at, and hw_write_ptr

intel == <<rx, tx, sending>>
rtlSend == <<tsd, tx_slot, cur_tx, post>>
rtlReceive == <<rx_buf, rx_ptr, capr, cbr, isr, drain>>
cardVars == <<active, intel, delivered, rtlSend, rtlReceive>>

-----------------------------------------------------------------------------
Places == 0 .. RX_WORDS - 1
Ahead(p, n) == (p + n) % RX_WORDS
Fill(f) == Words[f] + 2
NextSlot(i) == (i + 1) % SLOTS

CardTypeOK ==
    /\ NicTypeOK
    /\ active \in {"none", "e1000", "rtl8139"}
    /\ tsd \in [0 .. SLOTS - 1 -> [own: BOOLEAN, tok: BOOLEAN, frame: Frames]]
    /\ {tx_slot, cur_tx} \subseteq 0 .. SLOTS - 1
    /\ post \in [at: {"idle", "own", "tok"}, frame: Frames]
    /\ rx_buf \in [Places -> Frames \X Int]
    /\ {rx_ptr, capr, cbr} \subseteq Places
    /\ isr \in BOOLEAN
    /\ drain \in [at: {"idle", "look", "ack", "cbr", "frames"}, hw: Places]

(* The first card that answers; an e1000 without an address does not.      *)
nic_init(e1000, rtl8139) ==
    CASE e1000 = "there" -> "e1000"
      [] e1000 # "there" /\ rtl8139 -> "rtl8139"
      [] OTHER -> "none"

(* rtl8139_init: every slot is the driver's, the buffer empty.             *)
rtl8139_init ==
    /\ tsd = [i \in 0 .. SLOTS - 1 |->
                [own |-> TRUE, tok |-> FALSE, frame |-> AnyFrame]]
    /\ tx_slot = 0 /\ cur_tx = 0
    /\ post = [at |-> "idle", frame |-> AnyFrame]
    /\ rx_buf = [p \in Places |-> <<AnyFrame, -1>>]
    /\ rx_ptr = 0 /\ capr = 0 /\ cbr = 0
    /\ isr = FALSE
    /\ drain = [at |-> "idle", hw |-> 0]

CardInit ==
    /\ \E e \in {"absent", "mute", "there"}, r \in BOOLEAN :
          active = nic_init(e, r)
    /\ NicInit
    /\ rtl8139_init

-----------------------------------------------------------------------------
(* rtl8139_send up to the wait for the slot.                               *)
RtlSend(f) ==
    /\ post.at = "idle"
    /\ post' = [at |-> "own", frame |-> f]
    /\ UNCHANGED <<tsd, tx_slot, cur_tx, delivered, rtlReceive>>

(* The slot is free, or 100000 looks were not enough: it is filled all the *)
(* same.                                                                   *)
Hand ==
    /\ post.at = "own"
    /\ tsd[tx_slot].own \/ ~Patient
    /\ tsd' = [tsd EXCEPT ![tx_slot] = [own |-> FALSE, tok |-> FALSE,
                                        frame |-> post.frame]]
    /\ post' = [post EXCEPT !.at = "tok"]
    /\ UNCHANGED <<tx_slot, cur_tx, delivered, rtlReceive>>

(* The frame is out, or another 100000 looks were not enough.              *)
RtlSent ==
    /\ post.at = "tok"
    /\ post' = [post EXCEPT !.at = "idle"]
    /\ tx_slot' = NextSlot(tx_slot)
    /\ UNCHANGED <<tsd, cur_tx, delivered, rtlReceive>>

(* The card sends its slots in turn.                                       *)
RtlTransmit ==
    /\ ~tsd[cur_tx].own
    /\ delivered' = <<"tx", tsd[cur_tx].frame>>
    /\ tsd' = [tsd EXCEPT ![cur_tx].own = TRUE, ![cur_tx].tok = TRUE]
    /\ cur_tx' = NextSlot(cur_tx)
    /\ UNCHANGED <<tx_slot, post, rtlReceive>>

-----------------------------------------------------------------------------
(* The card has a frame and room for it; without room it drops the frame.  *)
RtlArrive(f) ==
    /\ cbr = capr \/ Fill(f) < (capr + RX_WORDS - cbr) % RX_WORDS
    /\ rx_buf' = [p \in Places |->
                    LET k == (p + RX_WORDS - cbr) % RX_WORDS
                    IN  IF k < Fill(f) THEN <<f, k>> ELSE rx_buf[p]]
    /\ cbr' = Ahead(cbr, Fill(f))
    /\ isr' = TRUE
    /\ UNCHANGED <<rx_ptr, capr, drain, delivered, rtlSend>>

(* rtl8139_poll: the status is looked at, acknowledged, and only then is   *)
(* the card asked how far it has come.                                     *)
RtlPoll ==
    /\ drain.at = "idle"
    /\ drain' = [drain EXCEPT !.at = "look"]
    /\ UNCHANGED <<rx_buf, rx_ptr, capr, cbr, isr, delivered, rtlSend>>
Look ==
    /\ drain.at = "look"
    /\ drain' = [drain EXCEPT !.at = IF isr THEN "ack" ELSE "idle"]
    /\ UNCHANGED <<rx_buf, rx_ptr, capr, cbr, isr, delivered, rtlSend>>
Acknowledge ==
    /\ drain.at = "ack"
    /\ isr' = FALSE
    /\ drain' = [drain EXCEPT !.at = "cbr"]
    /\ UNCHANGED <<rx_buf, rx_ptr, capr, cbr, delivered, rtlSend>>
ReadCbr ==
    /\ drain.at = "cbr"
    /\ drain' = [at |-> "frames", hw |-> cbr]
    /\ UNCHANGED <<rx_buf, rx_ptr, capr, cbr, isr, delivered, rtlSend>>

(* The next frame, and the place behind it for the card; then the status   *)
(* again.                                                                  *)
Deliver ==
    LET f == rx_buf[rx_ptr][1]
    IN  /\ drain.at = "frames"
        /\ rx_ptr # drain.hw
        /\ delivered' = <<"rx", f>>
        /\ rx_ptr' = Ahead(rx_ptr, Fill(f))
        /\ capr' = rx_ptr'
        /\ UNCHANGED <<rx_buf, cbr, isr, drain, rtlSend>>
(* Mutant: the status is acknowledged once more when the frames are read.  *)
Drained_Acks ==
    /\ drain.at = "frames"
    /\ rx_ptr = drain.hw
    /\ drain' = [drain EXCEPT !.at = "look"]
    /\ isr' = FALSE
    /\ UNCHANGED <<rx_buf, rx_ptr, capr, cbr, delivered, rtlSend>>
Drained ==
    /\ drain.at = "frames"
    /\ rx_ptr = drain.hw
    /\ drain' = [drain EXCEPT !.at = "look"]
    /\ UNCHANGED <<rx_buf, rx_ptr, capr, cbr, isr, delivered, rtlSend>>

RtlNext ==
    \/ \E f \in Frames : RtlSend(f) \/ RtlArrive(f)
    \/ Hand \/ RtlSent \/ RtlTransmit
    \/ RtlPoll \/ Look \/ Acknowledge \/ ReadCbr \/ Deliver \/ Drained

(* nic_send and nic_poll: without a card they return.                      *)
CardNext ==
    /\ UNCHANGED active
    /\ \/ active = "e1000" /\ NicNext /\ UNCHANGED <<rtlSend, rtlReceive>>
       \/ active = "rtl8139" /\ RtlNext /\ UNCHANGED intel

CardSpec == CardInit /\ [][CardNext]_cardVars

-----------------------------------------------------------------------------
(* The frame that is read next begins where the driver is, and its words   *)
(* follow as far as the end of the buffer; the driver reads on behind the  *)
(* end, where the card does not write (rtl8139_poll).                      *)
ReadsFrame ==
    LET f == rx_buf[rx_ptr][1]
    IN  drain.at = "frames" /\ rx_ptr # drain.hw =>
            \A k \in 0 .. Words[f] :
                rx_ptr + k < RX_WORDS => rx_buf[rx_ptr + k] = <<f, k>>

(* No frame is left in the buffer without the status saying so, whenever   *)
(* it arrived during a poll (rtl8139_poll).                                *)
NothingForgotten ==
    drain.at \in {"idle", "look"} /\ rx_ptr # cbr => isr

(* The frames between two places of the buffer, by their headers, and the  *)
(* slots the card has still to send.                                       *)
InBuffer ==
    LET Next[s \in [p: Places, n: 0 .. RX_WORDS]] ==
            IF s.p = cbr \/ s.n = 0 THEN <<>>
            ELSE LET f == rx_buf[s.p][1]
                 IN  <<f>> \o Next[[p |-> Ahead(s.p, Fill(f)), n |-> s.n - 1]]
    IN  Next[[p |-> rx_ptr, n |-> RX_WORDS]]
InSlots ==
    LET n == Cardinality({i \in 0 .. SLOTS - 1 : ~tsd[i].own})
    IN  [k \in 1 .. n |-> tsd[(cur_tx + k - 1) % SLOTS].frame]

CardQueues == INSTANCE Mailbox WITH
    Boxes <- {"rx", "tx"}, Messages <- Frames, Depth <- RX_WORDS + SLOTS + RING,
    inbox <- [b \in {"rx", "tx"} |->
                IF active = "e1000" THEN IF b = "rx" THEN Received ELSE Waiting
                ELSE IF b = "rx" THEN InBuffer ELSE InSlots],
    taken <- delivered

(* Whatever the card, each direction is a bounded first-in first-out       *)
(* queue: a frame it has taken is delivered once and in order.             *)
ImplementsCardQueues == CardQueues!MailSpec

=============================================================================
