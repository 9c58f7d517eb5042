------------------------------- MODULE Sound -------------------------------
(***************************************************************************)
(* The sound driver sound.c: the mixer of eight channels that the timer    *)
(* interrupt advances (sys_snd_mix_tick) and the keys of the FM chip.      *)
(*                                                                         *)
(* A channel remembers the address of a program's samples, not a copy, so  *)
(* the interrupt reads them in whatever address space is loaded.  What is  *)
(* mixed of them is left out: position and owner say which sample it was.  *)
(***************************************************************************)
EXTENDS Integers, FiniteSets

CONSTANTS
    CHANNELS,    \* mixer channels (MIX_CHANNELS, 8)
    VOICES,      \* channels of the FM chip (9)
    SAMPLES,     \* samples a tick pushes (MIX_SAMPLES_PER_TICK, 22)
    MAX_LEN,     \* bound: samples in a sound
    Programs,    \* programs, one after the other
    Volumes,     \* volumes asked for
    FULL,        \* the largest volume (255), of a channel just started
    Card, Chip,  \* whether the hardware is there
    MaxPushed,   \* bound: samples pushed to the card
    Careful      \* TRUE: a program stops what it started before it exits,
                 \* "the sample buffer must remain valid" (sound.h:100)

SoundAssumption ==
    /\ CHANNELS \in Nat \ {0} /\ VOICES \in Nat \ {0} /\ SAMPLES \in Nat \ {0}
    /\ MAX_LEN \in Nat \ {0} /\ FULL \in Nat \ {0} /\ MaxPushed \in Nat
    /\ Volumes \subseteq Nat /\ Programs # {}
    /\ {Card, Chip, Careful} \subseteq BOOLEAN

VARIABLES
    mix_ch,      \* the channels
    sb16_ready, sb16_probed, opl2_ready,
    keyed,       \* channels of the chip whose note is on
    running,     \* the program whose address space is loaded
    pushed,      \* samples written to the card
    taken,       \* history: channel -> samples taken since it was started
    own          \* history: every sample came from the program that asked

soundVars == <<mix_ch, sb16_ready, sb16_probed, opl2_ready, keyed, running,
               pushed, taken, own>>

-----------------------------------------------------------------------------
Ch == 0 .. CHANNELS - 1
Silent == CHOOSE p \in Programs : TRUE
Channel == [buf: Programs, len: 0 .. MAX_LEN, pos: 0 .. MAX_LEN,
            active: BOOLEAN, loop: BOOLEAN, vol: 0 .. FULL]

SoundTypeOK ==
    /\ mix_ch \in [Ch -> Channel]
    /\ {sb16_ready, sb16_probed, opl2_ready} \subseteq BOOLEAN
    /\ keyed \subseteq 0 .. VOICES - 1
    /\ running \in Programs /\ pushed \in 0 .. MaxPushed + SAMPLES
    /\ taken \in [Ch -> Nat] /\ own \in BOOLEAN

SoundInit ==
    /\ mix_ch = [c \in Ch |-> [buf |-> Silent, len |-> 0, pos |-> 0,
                               active |-> FALSE, loop |-> FALSE, vol |-> 0]]
    /\ sb16_ready = FALSE /\ sb16_probed = FALSE /\ opl2_ready = FALSE
    /\ keyed = {} /\ running \in Programs /\ pushed = 0
    /\ taken = [c \in Ch |-> 0] /\ own = TRUE

-----------------------------------------------------------------------------
(* sb16_init looks for the card once.                                      *)
sb16_init ==
    /\ sb16_probed' = TRUE
    /\ sb16_ready' = (sb16_ready \/ (~sb16_probed /\ Card))

sb16_probe ==
    /\ ~sb16_probed
    /\ sb16_init
    /\ UNCHANGED <<mix_ch, opl2_ready, keyed, running, pushed, taken, own>>

(* Mutant: the position of the sound before it is kept.                    *)
sys_snd_mix_play_KeepsPos(c, len, loop) ==
    /\ sb16_init
    /\ mix_ch' = [mix_ch EXCEPT ![c] =
          [@ EXCEPT !.buf = running, !.len = len, !.active = TRUE,
                    !.loop = loop, !.vol = FULL]]
    /\ taken' = [taken EXCEPT ![c] = 0]
    /\ UNCHANGED <<opl2_ready, keyed, running, pushed, own>>
sys_snd_mix_play(c, len, loop) ==
    /\ sb16_init
    /\ mix_ch' = [mix_ch EXCEPT ![c] =
          [buf |-> running, len |-> len, pos |-> 0, active |-> TRUE,
           loop |-> loop, vol |-> FULL]]
    /\ taken' = [taken EXCEPT ![c] = 0]
    /\ UNCHANGED <<opl2_ready, keyed, running, pushed, own>>

sys_snd_mix_stop(c) ==
    /\ mix_ch' = [mix_ch EXCEPT ![c].active = FALSE]
    /\ UNCHANGED <<sb16_ready, sb16_probed, opl2_ready, keyed, running,
                   pushed, taken, own>>

sys_snd_mix_volume(c, vol) ==
    /\ mix_ch' = [mix_ch EXCEPT ![c].vol = IF vol > FULL THEN FULL ELSE vol]
    /\ UNCHANGED <<sb16_ready, sb16_probed, opl2_ready, keyed, running,
                   pushed, taken, own>>

-----------------------------------------------------------------------------
(* A channel after one of its samples was taken.                           *)
Stepped(mc) ==
    IF mc.pos + 1 < mc.len THEN [mc EXCEPT !.pos = @ + 1]
    ELSE IF mc.loop THEN [mc EXCEPT !.pos = 0]
    ELSE [mc EXCEPT !.pos = @ + 1, !.active = FALSE]

Playing(m) == {c \in Ch : m[c].active}

(* One sample of every sound that plays is mixed; nothing is pushed when   *)
(* none does.                                                              *)
Sample(r) ==
    LET on == Playing(r.ch) IN
    IF on = {} THEN r
    ELSE [ch |-> [c \in Ch |-> IF c \in on THEN Stepped(r.ch[c]) ELSE r.ch[c]],
          taken |-> [c \in Ch |-> IF c \in on THEN r.taken[c] + 1 ELSE r.taken[c]],
          own |-> r.own /\ \A c \in on : r.ch[c].buf = running,
          n |-> r.n + 1]

(* The state of the mixer after n samples.                                 *)
Mix[n \in 0 .. SAMPLES] ==
    IF n = 0 THEN [ch |-> mix_ch, taken |-> taken, own |-> own, n |-> pushed]
    ELSE Sample(Mix[n - 1])

(* From the timer interrupt, or by a program (system call 326).            *)
sys_snd_mix_tick ==
    /\ sb16_ready /\ pushed < MaxPushed
    /\ LET r == Mix[SAMPLES] IN
          /\ mix_ch' = r.ch /\ taken' = r.taken /\ own' = r.own
          /\ pushed' = r.n
    /\ UNCHANGED <<sb16_ready, sb16_probed, opl2_ready, keyed, running>>

-----------------------------------------------------------------------------
(* The FM chip.  A note that has been on stays on until its key is let go. *)
opl2_init == opl2_ready' = (opl2_ready \/ Chip)

sys_snd_opl_note(ch, key_on) ==
    /\ opl2_init
    /\ keyed' = IF ~opl2_ready' THEN keyed
                ELSE IF key_on THEN keyed \cup {ch} ELSE keyed \ {ch}
    /\ UNCHANGED <<mix_ch, sb16_ready, sb16_probed, running, pushed, taken,
                   own>>

sys_snd_opl_reset ==
    /\ opl2_init
    /\ keyed' = IF opl2_ready' THEN {} ELSE keyed
    /\ UNCHANGED <<mix_ch, sb16_ready, sb16_probed, running, pushed, taken,
                   own>>

(* The program exits and another one runs: nothing tells the mixer.        *)
Exit(p) ==
    /\ p # running
    /\ Careful => Playing(mix_ch) = {}
    /\ running' = p
    /\ UNCHANGED <<mix_ch, sb16_ready, sb16_probed, opl2_ready, keyed,
                   pushed, taken, own>>

SoundNext ==
    \/ sb16_probe
    \/ \E c \in Ch, len \in 1 .. MAX_LEN, loop \in BOOLEAN :
          sys_snd_mix_play(c, len, loop)
    \/ \E c \in Ch : sys_snd_mix_stop(c)
    \/ \E c \in Ch, vol \in Volumes : sys_snd_mix_volume(c, vol)
    \/ sys_snd_mix_tick
    \/ \E ch \in 0 .. VOICES - 1, on \in BOOLEAN : sys_snd_opl_note(ch, on)
    \/ sys_snd_opl_reset
    \/ \E p \in Programs : Exit(p)

SoundSpec == SoundInit /\ [][SoundNext]_soundVars

-----------------------------------------------------------------------------
(* The mixer takes the samples of a sound in order without a gap, round    *)
(* and round or once, inside the sound, and a sound goes silent at its     *)
(* end, not before (sys_snd_mix_tick).                                     *)
SamplesInOrder ==
    \A c \in Ch :
        LET mc == mix_ch[c] IN
        /\ mc.active => mc.pos < mc.len
        /\ mc.active \/ taken[c] > 0 =>
              IF mc.loop THEN mc.pos = taken[c] % mc.len
              ELSE mc.pos = taken[c] /\ taken[c] <= mc.len

(* And it takes them from the memory of the program that started the sound.*)
SamplesOwn == own /\ SamplesInOrder
=============================================================================
