------------------------------- MODULE Input --------------------------------
(***************************************************************************)
(* Keyboard and mouse (kernel.c, ps2.c, usb_hid.c, input.c): the bytes the *)
(* devices put on one controller, the decoders that take them off it, and  *)
(* the rings programs poll.  A program that reads its standard input makes *)
(* read_key_raw decode, the shell read_key, the desktop its own loop and,  *)
(* once a turn, ps2_poll; the console, the loop and ps2.c keep modifiers   *)
(* and pieces of packets of their own.                                     *)
(***************************************************************************)
EXTENDS Integers, FiniteSets, SequencesExt

CONSTANTS
    KEY_BUF_SIZE, MOUSE_BUF_SIZE,
    DELAY, RATE,    \* REPEAT_DELAY_TICKS, REPEAT_RATE_TICKS
    Readers,        \* who decodes: "raw", "shell", "gui", "ps2"
    Letters, Arrows,    \* keys with one code, keys with 0xE0 before it
    Packet,         \* bytes of a mouse packet: 4 when the wheel is on
    Marked,         \* the later bytes that look like a first one
    Loses,          \* TRUE: a byte of the mouse may get lost
    MaxWire,        \* bound: bytes in the controller
    MaxTick,        \* bound: ticks
    MaxEvents       \* bound: keys pressed and packets sent

Keys == Letters \cup Arrows \cup {"shift"}

InputAssumption ==
    /\ KEY_BUF_SIZE \in Nat \ {0} /\ MOUSE_BUF_SIZE \in Nat \ {0}
    /\ DELAY \in Nat /\ RATE \in Nat /\ Packet \in {3, 4}
    /\ Marked \subseteq 2 .. Packet
    /\ Readers \subseteq {"raw", "shell", "gui", "ps2"} /\ Loses \in BOOLEAN
    /\ Letters \cap Arrows = {}
    /\ {"none", "shift", "e0", "mouse"} \cap (Letters \cup Arrows) = {}
    /\ MaxWire \in Nat /\ MaxTick \in Nat /\ MaxEvents \in Nat

VARIABLES
    down, ticks, sent,      \* keys held, pit_ticks, the mouse's packets
    wire,                   \* bytes in the controller
    flags,                  \* decoders: shift_flag and e0_flag
    shadow,                 \* inp_shift, what events are marked with
    keys, key_head, key_tail,           \* key_ring
    held,                   \* the key that repeats, how, since when, last time
    part_pkt, mice, mou_head, mou_tail, \* packet being read, mou_ring
    stored, polled, packets, pressed,   \* history
    waiting         \* history: packets a program has not polled and may get

inputVars == <<down, ticks, sent, wire, flags, shadow, keys, key_head,
               key_tail, held, part_pkt, mice, mou_head, mou_tail, stored,
               polled, packets, pressed, waiting>>
keyring == <<keys, key_head, key_tail, held, stored, polled>>
mousering == <<part_pkt, mice, mou_head, mou_tail, packets, waiting>>

Sides == {"console", "gui", "ps2"}
NoKey == [key |-> "none", shift |-> FALSE, since |-> 0, last |-> 0]
Event(k, s) == [key |-> k, shift |-> s]

InputTypeOK ==
    /\ down \subseteq Keys /\ ticks \in 0 .. MaxTick
    /\ key_head \in 0 .. KEY_BUF_SIZE - 1 /\ key_tail \in 0 .. KEY_BUF_SIZE - 1
    /\ mou_head \in 0 .. MOUSE_BUF_SIZE - 1
    /\ mou_tail \in 0 .. MOUSE_BUF_SIZE - 1
    /\ held.key \in Keys \cup {"none"} /\ shadow \in BOOLEAN
    /\ Len(wire) <= MaxWire /\ \A d \in Sides : Len(part_pkt[d]) < Packet

InputInit ==
    /\ down = {} /\ ticks = 0 /\ sent = 0 /\ wire = <<>>
    /\ flags = [d \in Sides |-> [shift |-> FALSE, e0 |-> FALSE]]
    /\ shadow = FALSE
    /\ keys = [i \in 0 .. KEY_BUF_SIZE - 1 |-> Event("none", FALSE)]
    /\ key_head = 0 /\ key_tail = 0 /\ held = NoKey
    /\ part_pkt = [d \in Sides |-> <<>>]
    /\ mice = [i \in 0 .. MOUSE_BUF_SIZE - 1 |-> 0]
    /\ mou_head = 0 /\ mou_tail = 0
    /\ stored = <<>> /\ polled = <<>> /\ packets = <<>> /\ pressed = 0
    /\ waiting = 0

-----------------------------------------------------------------------------
(* The devices.                                                            *)
Byte(k, up) == [key |-> k, up |-> up]
Code(k, up) ==
    (IF k \in Arrows THEN <<Byte("e0", FALSE)>> ELSE <<>>) \o <<Byte(k, up)>>

Put(bytes) == Len(wire) + Len(bytes) <= MaxWire /\ wire' = wire \o bytes

PressKey(k) ==
    /\ k \notin down /\ pressed < MaxEvents /\ Put(Code(k, FALSE))
    /\ down' = down \cup {k} /\ pressed' = pressed + 1
    /\ UNCHANGED <<ticks, sent, flags, shadow, keyring, mousering>>

ReleaseKey(k) ==
    /\ k \in down /\ Put(Code(k, TRUE)) /\ down' = down \ {k}
    /\ UNCHANGED <<ticks, sent, flags, shadow, keyring, mousering, pressed>>

(* The mouse moves: byte i of packet n.                                    *)
MouseByte(n, i) == [key |-> "mouse", n |-> n, i |-> i]
Slide(lost) ==
    /\ sent < MaxEvents /\ sent' = sent + 1
    /\ lost \in IF Loses /\ sent = 0 THEN 0 .. Packet ELSE {0}
    /\ LET whole == [i \in 1 .. Packet |-> MouseByte(sent', i)]
       IN  Put(IF lost = 0 THEN whole ELSE RemoveAt(whole, lost))
    /\ UNCHANGED <<down, ticks, flags, shadow, keyring, mousering, pressed>>

Tick ==
    /\ ticks < MaxTick /\ ticks' = ticks + 1
    /\ UNCHANGED <<down, sent, wire, flags, shadow, keyring, mousering, pressed>>

-----------------------------------------------------------------------------
(* input.c.                                                                *)
NextPlace(i, size) == (i + 1) % size
KeyFull == NextPlace(key_tail, KEY_BUF_SIZE) = key_head

Stored(e) ==
    /\ keys' = [keys EXCEPT ![key_tail] = e]
    /\ key_tail' = NextPlace(key_tail, KEY_BUF_SIZE)
    /\ stored' = Append(stored, e)

(* The key that repeats from now on, with the modifiers it has now.        *)
Holding(k) == [key |-> k, shift |-> shadow', since |-> ticks, last |-> ticks]

(* Mutant: a full ring is not noticed.                                     *)
PushKey_NeverFull(k) ==
    /\ Stored(Event(k, shadow'))
    /\ held' = Holding(k)

(* input_push_key: a full ring drops the key, and the key held before it   *)
(* goes on repeating.                                                      *)
PushKey(k) ==
    IF KeyFull THEN UNCHANGED <<keys, key_tail, held, stored>>
    ELSE /\ Stored(Event(k, shadow'))
         /\ held' = Holding(k)

(* input_key_release: any key that goes up ends the repetition.            *)
Released == held' = NoKey

(* input_key_repeat_tick: the key as it was pressed; a repeat that finds   *)
(* the ring full is lost.                                                  *)
Repeat ==
    IF held.key = "none" \/ ticks - held.since < DELAY \/ ticks - held.last < RATE
    THEN UNCHANGED <<held, keys, key_tail, stored>>
    ELSE /\ held' = [held EXCEPT !.last = ticks]
         /\ IF KeyFull THEN UNCHANGED <<keys, key_tail, stored>>
            ELSE Stored(Event(held.key, held.shift))

(* sys_poll_keys for one event.  A poll with no room only repeats.         *)
PollKeys ==
    /\ Repeat
    /\ IF key_head = key_tail' THEN UNCHANGED <<key_head, polled>>
       ELSE /\ polled' = Append(polled, keys'[key_head])
            /\ key_head' = NextPlace(key_head, KEY_BUF_SIZE)
    /\ UNCHANGED <<down, ticks, sent, wire, flags, shadow, mousering, pressed>>
PollNoKeys ==
    /\ Repeat
    /\ UNCHANGED <<down, ticks, sent, wire, flags, shadow, key_head, polled,
                   mousering, pressed>>

(* input_push_mouse: the oldest event makes room.                          *)
PushMouse(n) ==
    LET next == NextPlace(mou_tail, MOUSE_BUF_SIZE)
    IN  /\ mou_head' = IF next = mou_head THEN NextPlace(mou_head, MOUSE_BUF_SIZE)
                       ELSE mou_head
        /\ mice' = [mice EXCEPT ![mou_tail] = n] /\ mou_tail' = next

(* sys_poll_mouse for one event; sys_mouse_setmode(0) empties the ring.    *)
PollMouse ==
    /\ mou_head # mou_tail /\ mou_head' = NextPlace(mou_head, MOUSE_BUF_SIZE)
    /\ UNCHANGED <<down, ticks, sent, wire, flags, shadow, keyring, part_pkt,
                   mice, mou_tail, packets, pressed>>
    /\ waiting' = waiting - 1
Ungrab ==
    /\ mou_head # mou_tail /\ mou_head' = 0 /\ mou_tail' = 0
    /\ UNCHANGED <<down, ticks, sent, wire, flags, shadow, keyring, part_pkt,
                   mice, packets, pressed>>
    /\ waiting' = 0

-----------------------------------------------------------------------------
(* The decoders: one byte each.                                            *)
Marks(r) == r # "shell"     \* read_key tells input.c nothing
Side(r) == IF r \in {"raw", "shell"} THEN "console" ELSE r

(* A key byte, in the order of the tests of read_key_raw: prefix, shift,   *)
(* releases, codes after a prefix, plain codes.  A plain code of an arrow, *)
(* its prefix gone to another decoder, is above the table and ignored, but *)
(* for ps2_decode_key, where it is a digit; there whatever follows a prefix*)
(* is a key of the second table, shift and another prefix included.        *)
Decode(r, b) ==
    LET f == flags[Side(r)]
        Set(s, e) == flags' = [flags EXCEPT ![Side(r)] = [shift |-> s, e0 |-> e]]
        same == UNCHANGED <<keys, key_tail, held, stored>>
        stray == r = "ps2" /\ f.e0
    IN  IF b.key = "e0" /\ ~stray
        THEN Set(f.shift, TRUE) /\ UNCHANGED shadow /\ same
        ELSE IF b.key = "shift" /\ ~stray
        THEN /\ Set(~b.up, FALSE) /\ same
             /\ shadow' = IF Marks(r) THEN ~b.up ELSE shadow
        ELSE /\ Set(f.shift, FALSE) /\ UNCHANGED shadow
             /\ IF ~Marks(r) THEN same
                ELSE IF b.up \/ b.key = "e0"
                THEN Released /\ UNCHANGED <<keys, key_tail, stored>>
                ELSE IF f.e0 = (b.key \in Arrows) \/ (r = "ps2" /\ ~f.e0)
                THEN PushKey(b.key) ELSE same

Counted(pkt) ==
    /\ packets' = Append(packets, pkt)
    /\ waiting' = IF waiting < MOUSE_BUF_SIZE - 1 THEN waiting + 1 ELSE waiting

First == {1} \cup Marked

(* A mouse byte.  The desktop looks at the first byte when it comes, the   *)
(* others when the packet is complete; only ps2.c knows its length.        *)
Length(r) == IF r = "ps2" THEN Packet ELSE 3
Collect(r, b) ==
    LET d == Side(r)
        pkt == Append(part_pkt[d], b)
        kept == UNCHANGED <<mice, mou_head, mou_tail, packets, waiting>>
    IN  IF r = "gui" /\ Len(pkt) = 1 /\ b.i \notin First
        THEN UNCHANGED mousering
        ELSE /\ part_pkt' = [part_pkt EXCEPT ![d] =
                               IF Len(pkt) < Length(r) THEN pkt ELSE <<>>]
             /\ IF Len(pkt) < Length(r) \/ pkt[1].i \notin First THEN kept
                ELSE PushMouse(Len(packets) + 1) /\ Counted(pkt)

Read(r) ==
    /\ wire # <<>> /\ wire' = Tail(wire)
    /\ LET b == Head(wire)
       IN  IF b.key = "mouse"
           THEN Collect(r, b) /\ UNCHANGED <<flags, shadow, keyring>>
           ELSE Decode(r, b) /\ UNCHANGED <<key_head, polled, mousering>>
    /\ UNCHANGED <<down, ticks, sent, pressed>>

InputNext ==
    \/ \E k \in Keys : PressKey(k) \/ ReleaseKey(k)
    \/ \E lost \in 0 .. 4 : Slide(lost)
    \/ Tick \/ PollKeys \/ PollNoKeys \/ PollMouse \/ Ungrab
    \/ \E r \in Readers : Read(r)

InputSpec == InputInit /\ [][InputNext]_inputVars

-----------------------------------------------------------------------------
Between(ring, size, head, tail) ==
    [i \in 1 .. (tail - head + size) % size |-> ring[(head + i - 1) % size]]

(* Programs get the keys that found room, in order and each once           *)
(* (input_push_key, sys_poll_keys).                                        *)
KeysInOrder ==
    polled \o Between(keys, KEY_BUF_SIZE, key_head, key_tail) = stored

(* The ring of the mouse holds the latest packets, as many as it has room  *)
(* for (input_push_mouse, sys_poll_mouse).                                 *)
MiceLatest ==
    LET ring == Between(mice, MOUSE_BUF_SIZE, mou_head, mou_tail)
    IN  ring = [i \in 1 .. waiting |-> Len(packets) - waiting + i]

(* Keys arrive in order, each once, but for those that find the ring full, *)
(* and the latest packets of the mouse can be polled (input_push_key,      *)
(* sys_poll_keys, input_push_mouse, sys_poll_mouse).                       *)
InputKept == InputTypeOK /\ KeysInOrder /\ MiceLatest

(* The packets that are used are packets of the mouse, but for one after a *)
(* byte was lost: the desktop finds the start again (mouse_poll, cmd_gui). *)
PacketsWhole ==
    LET Torn == {i \in DOMAIN packets : \E j \in 1 .. 3 :
                    packets[i][j] # MouseByte(packets[i][1].n, j)}
    IN  Cardinality(Torn) <= IF Loses THEN 1 ELSE 0

(* Only a key that is down, or whose release has not been read, repeats    *)
(* (input_key_release).                                                    *)
HeldIsDown ==
    held.key = "none" \/ held.key \in down
        \/ \E i \in DOMAIN wire : wire[i] = Byte(held.key, TRUE)

(* An event is marked with the shift state it was translated with          *)
(* (input_mod_update, kb_translate).                                       *)
MarksTrue == \A r \in Readers : Marks(r) => shadow = flags[Side(r)].shift
=============================================================================
