------------------------------- MODULE Stream -------------------------------
(***************************************************************************)
(* What pipe.c promises, whatever the layout of its buffer: a bounded      *)
(* stream of bytes.  A write adds as much of its data as fits at the end,  *)
(* a read takes as much as it asked for from the front, and a call that    *)
(* can move nothing changes nothing.                                       *)
(***************************************************************************)
EXTENDS Integers, Sequences

CONSTANTS
    Datas,     \* the data of writes
    Sizes,     \* how much reads ask for
    Capacity   \* how much the stream holds

VARIABLES
    stream,    \* what has been written and not yet read
    got        \* what the latest read that moved bytes returned

streamVars == <<stream, got>>

StreamInit == stream = <<>> /\ got = <<>>

Smaller(m, n) == IF m < n THEN m ELSE n

Send(data) ==
    LET n == Smaller(Len(data), Capacity - Len(stream))
    IN  /\ n > 0
        /\ stream' = stream \o SubSeq(data, 1, n)
        /\ UNCHANGED got

Receive(most) ==
    LET n == Smaller(most, Len(stream))
    IN  /\ n > 0
        /\ got' = SubSeq(stream, 1, n)
        /\ stream' = SubSeq(stream, n + 1, Len(stream))

StreamNext == (\E data \in Datas : Send(data)) \/ (\E most \in Sizes : Receive(most))

StreamSpec == StreamInit /\ [][StreamNext]_streamVars
=============================================================================
