-------------------------------- MODULE Pipe --------------------------------
(***************************************************************************)
(* A pipe (pipe.c): a circular buffer with a byte count, read and written  *)
(* without waiting.  The flags read_open and write_open, which pipe_create *)
(* sets and no code clears, are left out, and with them the end of file    *)
(* and the errors of a closed end.                                         *)
(***************************************************************************)
EXTENDS Integers, Sequences

CONSTANTS
    PIPE_BUF_SIZE,  \* 4096
    Bytes,          \* what flows through it, 0 among it
    Datas,          \* the data of the writes that are made
    Sizes           \* how much the reads ask for

ASSUME PipeAssumption ==
    /\ PIPE_BUF_SIZE \in Nat \ {0}
    /\ 0 \in Bytes
    /\ Datas \subseteq Seq(Bytes)
    /\ Sizes \subseteq Nat

VARIABLES
    buf, head, tail, count,  \* the buffer
    out,                     \* what the latest read that moved bytes returned
    ret                      \* what the latest call returned

ring == <<buf, head, tail, count>>
vars == <<ring, out, ret>>

-----------------------------------------------------------------------------
Index == 0 .. PIPE_BUF_SIZE - 1
EAGAIN == -11

TypeOK ==
    /\ buf \in [Index -> Bytes]
    /\ head \in Index /\ tail \in Index
    /\ count \in 0 .. PIPE_BUF_SIZE
    /\ out \in Seq(Bytes)
    /\ ret \in Int

Lesser(m, n) == IF m < n THEN m ELSE n

(* Where index i comes from the start s, going round.                      *)
Ahead(s, i) == IF i >= s THEN i - s ELSE i - s + PIPE_BUF_SIZE
Step(s, n) == (s + n) % PIPE_BUF_SIZE

(* pipe_create                                                             *)
Init ==
    /\ buf = [i \in Index |-> 0]
    /\ head = 0 /\ tail = 0 /\ count = 0
    /\ out = <<>>
    /\ ret = 0

(* How many bytes of data are written.                                     *)
Fits(data) == Lesser(Len(data), PIPE_BUF_SIZE - count)

pipe_write(data) ==
    LET n == Fits(data)
    IN  /\ buf' = [i \in Index |-> IF Ahead(tail, i) < n
                                   THEN data[Ahead(tail, i) + 1] ELSE buf[i]]
        /\ tail' = Step(tail, n)
        /\ count' = count + n
        /\ ret' = IF n = 0 /\ data # <<>> THEN EAGAIN ELSE n
        /\ UNCHANGED <<head, out>>

(* Mutant: the head moves on before its byte is taken.                     *)
pipe_read_SkipsFirst(most) ==
    LET n == Lesser(most, count)
    IN  /\ out' = IF n = 0 THEN out ELSE [k \in 1 .. n |-> buf[Step(head, k)]]
        /\ head' = Step(head, n)
        /\ count' = count - n
        /\ ret' = IF n = 0 /\ most > 0 THEN EAGAIN ELSE n
        /\ UNCHANGED <<buf, tail>>
(* Mutant: the head is left where it was after a read of one byte.         *)
pipe_read_HeadStays(most) ==
    LET n == Lesser(most, count)
    IN  /\ out' = IF n = 0 THEN out ELSE [k \in 1 .. n |-> buf[Step(head, k - 1)]]
        /\ head' = IF n = 1 THEN head ELSE Step(head, n)
        /\ count' = count - n
        /\ ret' = IF n = 0 /\ most > 0 THEN EAGAIN ELSE n
        /\ UNCHANGED <<buf, tail>>
pipe_read(most) ==
    LET n == Lesser(most, count)
    IN  /\ out' = IF n = 0 THEN out ELSE [k \in 1 .. n |-> buf[Step(head, k - 1)]]
        /\ head' = Step(head, n)
        /\ count' = count - n
        /\ ret' = IF n = 0 /\ most > 0 THEN EAGAIN ELSE n
        /\ UNCHANGED <<buf, tail>>

Next ==
    \/ \E data \in Datas : pipe_write(data)
    \/ \E most \in Sizes : pipe_read(most)

Spec == Init /\ [][Next]_vars

-----------------------------------------------------------------------------
(* The indices and the count agree: count tells a full buffer from an      *)
(* empty one, head and tail delimit the bytes that can be read.            *)
RingConsistent == tail = Step(head, count)

(* The bytes from head on.                                                 *)
Contents == [k \in 1 .. count |-> buf[Step(head, k - 1)]]

(* Bytes come out once, in the order they went in, whatever wraps around   *)
(* and however little of a request fits (pipe_read, pipe_write).           *)
Abstract == INSTANCE Stream WITH
    Capacity <- PIPE_BUF_SIZE, stream <- Contents, got <- out
ImplementsStream == Abstract!StreamSpec
=============================================================================
