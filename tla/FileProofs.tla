---------------------------- MODULE FileProofs ------------------------------
(***************************************************************************)
(* Proofs about Pipe, for buffers of every size and requests of any data:  *)
(* typing, the agreement of indices and count, and that the ring           *)
(* implements a bounded stream (module Stream).                            *)
(*                                                                         *)
(* Proofs about the journalled file system (Jfs), for tables, files and    *)
(* journals of any size: blocks have one owner, names are live, counts are *)
(* true, texts are kept and the log is whole.                              *)
(*                                                                         *)
(* Proofs about Vfs, for every number of descriptors, open inodes and      *)
(* pipes, on any volume: an open inode is referred to as often as its      *)
(* count says, and no pipe outlives its descriptors.                       *)
(*                                                                         *)
(* Proofs about the SATA driver (Ahci), for any number of drives, sectors  *)
(* and ports: what was written stays, through commands that fail or are    *)
(* given up and through power cuts, and what a read returns was written.   *)
(***************************************************************************)
EXTENDS Pipe, Vfs, Ahci, SequenceTheorems, FiniteSetTheorems,
        WellFoundedInduction, TLAPS

-----------------------------------------------------------------------------
(* Pipe                                                                    *)

(* The step round the ring without the modulus.                            *)
LEMMA StepValue ==
    ASSUME NEW s \in Index, NEW n \in 0 .. PIPE_BUF_SIZE
    PROVE  /\ Step(s, n) \in Index
           /\ Step(s, n) = IF s + n < PIPE_BUF_SIZE THEN s + n ELSE s + n - PIPE_BUF_SIZE
<1>1. PIPE_BUF_SIZE \in Nat \ {0} /\ s \in Nat /\ n \in Nat
      /\ s + n < PIPE_BUF_SIZE + PIPE_BUF_SIZE
  BY PipeAssumption DEF PipeAssumption, Index
<1>2. (s + n) % PIPE_BUF_SIZE = IF s + n < PIPE_BUF_SIZE THEN s + n ELSE s + n - PIPE_BUF_SIZE
  BY <1>1
<1>3. (IF s + n < PIPE_BUF_SIZE THEN s + n ELSE s + n - PIPE_BUF_SIZE) \in Index
  BY <1>1 DEF Index
<1> QED BY <1>2, <1>3 DEF Step

(* Index k of the contents lies k - 1 steps after the head; seen from the  *)
(* tail, the bytes that can be read come last and the free places first.   *)
LEMMA PlaceOfByte ==
    ASSUME NEW h \in Index, NEW c \in 0 .. PIPE_BUF_SIZE, NEW k \in 1 .. PIPE_BUF_SIZE
    PROVE  /\ Step(h, k - 1) \in Index
           /\ Ahead(Step(h, c), Step(h, k - 1)) =
                IF k <= c THEN PIPE_BUF_SIZE - c + k - 1 ELSE k - 1 - c
<1>1. PIPE_BUF_SIZE \in Nat \ {0}
  BY PipeAssumption DEF PipeAssumption
<1>2. k - 1 \in 0 .. PIPE_BUF_SIZE
  BY <1>1
<1>3. /\ Step(h, k - 1) \in Index /\ Step(h, c) \in Index
      /\ Step(h, k - 1) = IF h + (k - 1) < PIPE_BUF_SIZE THEN h + (k - 1)
                          ELSE h + (k - 1) - PIPE_BUF_SIZE
      /\ Step(h, c) = IF h + c < PIPE_BUF_SIZE THEN h + c ELSE h + c - PIPE_BUF_SIZE
  BY <1>2, StepValue
<1> DEFINE u == Step(h, k - 1)
           v == Step(h, c)
<1> HIDE DEF u, v
<1>4. /\ u \in Index /\ v \in Index
      /\ u = IF h + (k - 1) < PIPE_BUF_SIZE THEN h + (k - 1) ELSE h + (k - 1) - PIPE_BUF_SIZE
      /\ v = IF h + c < PIPE_BUF_SIZE THEN h + c ELSE h + c - PIPE_BUF_SIZE
  BY <1>3, Zenon DEF u, v
<1>5. Ahead(v, u) = IF k <= c THEN PIPE_BUF_SIZE - c + k - 1 ELSE k - 1 - c
  BY <1>1, <1>4 DEF Ahead, Index
<1> QED BY <1>3, <1>5, Zenon DEF u, v

(* Two walks round the ring add up.                                        *)
LEMMA StepAdds ==
    ASSUME NEW s \in Index, NEW m \in Nat, NEW n \in Nat, m + n <= PIPE_BUF_SIZE
    PROVE  Step(Step(s, m), n) = Step(s, m + n)
<1>1. PIPE_BUF_SIZE \in Nat \ {0} /\ m \in 0 .. PIPE_BUF_SIZE /\ n \in 0 .. PIPE_BUF_SIZE
      /\ m + n \in 0 .. PIPE_BUF_SIZE
  BY PipeAssumption DEF PipeAssumption
<1> DEFINE a == Step(s, m)
           b == Step(a, n)
           c == Step(s, m + n)
<1>2. /\ a \in Index
      /\ a = IF s + m < PIPE_BUF_SIZE THEN s + m ELSE s + m - PIPE_BUF_SIZE
  BY <1>1, StepValue
<1> HIDE DEF a
<1>3. b = IF a + n < PIPE_BUF_SIZE THEN a + n ELSE a + n - PIPE_BUF_SIZE
  BY <1>1, <1>2, StepValue
<1>4. c = IF s + (m + n) < PIPE_BUF_SIZE THEN s + (m + n) ELSE s + (m + n) - PIPE_BUF_SIZE
  BY <1>1, StepValue
<1> HIDE DEF b, c
<1>5. b = c
  BY <1>1, <1>2, <1>3, <1>4 DEF Index
<1> QED BY <1>5 DEF a, b, c

-----------------------------------------------------------------------------
PipeInv == TypeOK /\ RingConsistent

(* A new pipe is empty.                                                    *)
LEMMA PipeInvInit == Init => PipeInv
<1> SUFFICES ASSUME Init PROVE PipeInv
  OBVIOUS
<1>1. PIPE_BUF_SIZE \in Nat \ {0} /\ 0 \in Bytes
  BY PipeAssumption DEF PipeAssumption
<1>2. 0 \in Index
  BY <1>1 DEF Index
<1>3. <<>> \in Seq(Bytes)
  OBVIOUS
<1>4. TypeOK
  BY <1>1, <1>2, <1>3 DEF Init, TypeOK
<1>5. Step(0, 0) = 0
  BY <1>1, <1>2, StepValue
<1> QED BY <1>4, <1>5 DEF Init, PipeInv, RingConsistent

(* The number of bytes a write moves.                                      *)
LEMMA FitsRange ==
    ASSUME TypeOK, NEW data \in Datas
    PROVE  /\ Fits(data) \in Nat /\ Fits(data) <= Len(data)
           /\ count + Fits(data) <= PIPE_BUF_SIZE
           /\ data \in Seq(Bytes) /\ Len(data) \in Nat
<1>1. PIPE_BUF_SIZE \in Nat \ {0} /\ data \in Seq(Bytes)
  BY PipeAssumption DEF PipeAssumption
<1>2. Len(data) \in Nat /\ count \in 0 .. PIPE_BUF_SIZE
  BY <1>1 DEF TypeOK
<1> QED BY <1>1, <1>2 DEF Fits, Lesser

(* A write keeps the types and the ring.                                   *)
LEMMA WriteKeeps ==
    ASSUME PipeInv, NEW data \in Datas, pipe_write(data)
    PROVE  PipeInv'
<1> DEFINE n == Fits(data)
<1>1. PIPE_BUF_SIZE \in Nat \ {0}
  BY PipeAssumption DEF PipeAssumption
<1>2. /\ n \in Nat /\ n <= Len(data) /\ count + n <= PIPE_BUF_SIZE
      /\ data \in Seq(Bytes) /\ Len(data) \in Nat
  BY FitsRange DEF PipeInv
<1>3. head \in Index /\ tail \in Index /\ count \in 0 .. PIPE_BUF_SIZE
      /\ tail = Step(head, count) /\ buf \in [Index -> Bytes]
  BY DEF PipeInv, TypeOK, RingConsistent
<1> HIDE DEF n
<1>4. /\ buf' = [i \in Index |-> IF Ahead(tail, i) < n
                                   THEN data[Ahead(tail, i) + 1] ELSE buf[i]]
      /\ tail' = Step(tail, n) /\ count' = count + n
      /\ ret' = (IF n = 0 /\ data # <<>> THEN EAGAIN ELSE n)
      /\ head' = head /\ out' = out
  BY DEF pipe_write, n
<1>5. buf' \in [Index -> Bytes]
  <2>1. ASSUME NEW i \in Index, Ahead(tail, i) < n
        PROVE  data[Ahead(tail, i) + 1] \in Bytes
    <3>1. Ahead(tail, i) + 1 \in 1 .. Len(data)
      BY <1>1, <1>2, <1>3, <2>1 DEF Ahead, Index
    <3> QED BY <1>2, <3>1
  <2> QED BY <1>3, <1>4, <2>1
<1>6. tail' \in Index
  BY <1>1, <1>2, <1>3, <1>4, StepValue
<1>7. count' \in 0 .. PIPE_BUF_SIZE
  BY <1>1, <1>2, <1>3, <1>4
<1>8. ret' \in Int
  BY <1>2, <1>4 DEF EAGAIN
<1>9. tail' = Step(head', count')
  BY <1>2, <1>3, <1>4, StepAdds
<1> QED BY <1>3, <1>4, <1>5, <1>6, <1>7, <1>8, <1>9 DEF PipeInv, TypeOK, RingConsistent

(* So does a read.                                                         *)
LEMMA ReadKeeps ==
    ASSUME PipeInv, NEW most \in Sizes, pipe_read(most)
    PROVE  PipeInv'
<1> DEFINE n == Lesser(most, count)
<1>1. PIPE_BUF_SIZE \in Nat \ {0} /\ most \in Nat
  BY PipeAssumption DEF PipeAssumption
<1>2. head \in Index /\ tail \in Index /\ count \in 0 .. PIPE_BUF_SIZE
      /\ tail = Step(head, count) /\ buf \in [Index -> Bytes] /\ out \in Seq(Bytes)
  BY DEF PipeInv, TypeOK, RingConsistent
<1>3. n \in Nat /\ n <= count
  BY <1>1, <1>2 DEF Lesser
<1> HIDE DEF n
<1>4. /\ out' = (IF n = 0 THEN out ELSE [k \in 1 .. n |-> buf[Step(head, k - 1)]])
      /\ head' = Step(head, n) /\ count' = count - n
      /\ ret' = (IF n = 0 /\ most > 0 THEN EAGAIN ELSE n)
      /\ buf' = buf /\ tail' = tail
  BY DEF pipe_read, n
<1>5. out' \in Seq(Bytes)
  <2>1. ASSUME NEW k \in 1 .. n PROVE buf[Step(head, k - 1)] \in Bytes
    <3>1. k - 1 \in 0 .. PIPE_BUF_SIZE
      BY <1>1, <1>2, <1>3
    <3>2. Step(head, k - 1) \in Index
      BY <1>2, <3>1, StepValue
    <3> QED BY <1>2, <3>2
  <2>2. [k \in 1 .. n |-> buf[Step(head, k - 1)]] \in Seq(Bytes)
    BY <1>3, <2>1
  <2> QED BY <1>2, <1>4, <2>2
<1>6. head' \in Index
  BY <1>1, <1>2, <1>3, <1>4, StepValue
<1>7. count' \in 0 .. PIPE_BUF_SIZE
  BY <1>1, <1>2, <1>3, <1>4
<1>8. ret' \in Int
  BY <1>3, <1>4 DEF EAGAIN
<1>9. tail' = Step(head', count')
  <2>1. n + (count - n) = count /\ count - n \in Nat /\ n + (count - n) <= PIPE_BUF_SIZE
    BY <1>1, <1>2, <1>3
  <2>2. Step(Step(head, n), count - n) = Step(head, n + (count - n))
    BY <1>2, <1>3, <2>1, StepAdds
  <2> QED BY <1>2, <1>4, <2>1, <2>2
<1> QED BY <1>2, <1>4, <1>5, <1>6, <1>7, <1>8, <1>9 DEF PipeInv, TypeOK, RingConsistent

(* Every step keeps the invariant.                                         *)
LEMMA PipeInvNext == PipeInv /\ [Next]_vars => PipeInv'
<1> SUFFICES ASSUME PipeInv, [Next]_vars PROVE PipeInv'
  OBVIOUS
<1>1. ASSUME NEW data \in Datas, pipe_write(data) PROVE PipeInv'
  BY <1>1, WriteKeeps
<1>2. ASSUME NEW most \in Sizes, pipe_read(most) PROVE PipeInv'
  BY <1>2, ReadKeeps
<1>3. CASE UNCHANGED vars
  BY <1>3 DEF vars, ring, PipeInv, TypeOK, RingConsistent
<1> QED BY <1>1, <1>2, <1>3 DEF Next

(* The buffer, its indices and what was read have their types at all       *)
(* times, whatever is written and read.                                    *)
THEOREM PipeTyping == Spec => []TypeOK
<1>1. PipeInv => TypeOK
  BY DEF PipeInv
<1> QED BY <1>1, PipeInvInit, PipeInvNext, PTL DEF Spec

(* tail is count bytes after head, round the ring, at all times.           *)
THEOREM PipeRing == Spec => []RingConsistent
<1>1. PipeInv => RingConsistent
  BY DEF PipeInv
<1> QED BY <1>1, PipeInvInit, PipeInvNext, PTL DEF Spec

-----------------------------------------------------------------------------
(* The c bytes from h on are a sequence, in every buffer.                  *)
LEMMA BytesFrom ==
    ASSUME NEW b \in [Index -> Bytes], NEW h \in Index, NEW c \in 0 .. PIPE_BUF_SIZE
    PROVE  /\ [k \in 1 .. c |-> b[Step(h, k - 1)]] \in Seq(Bytes)
           /\ Len([k \in 1 .. c |-> b[Step(h, k - 1)]]) = c
<1>1. PIPE_BUF_SIZE \in Nat \ {0} /\ c \in Nat
  BY PipeAssumption DEF PipeAssumption
<1>2. ASSUME NEW k \in 1 .. c PROVE b[Step(h, k - 1)] \in Bytes
  <2>1. k - 1 \in 0 .. PIPE_BUF_SIZE
    BY <1>1
  <2> QED BY <2>1, StepValue
<1>3. [k \in 1 .. c |-> b[Step(h, k - 1)]] \in [1 .. c -> Bytes]
  BY <1>2
<1> QED BY <1>1, <1>3

(* The contents are a sequence of count bytes.                             *)
LEMMA ContentsIsSeq ==
    ASSUME TypeOK
    PROVE  /\ Contents \in Seq(Bytes) /\ Len(Contents) = count
           /\ \A k \in 1 .. count : Contents[k] = buf[Step(head, k - 1)]
BY BytesFrom DEF Contents, TypeOK

(* A write appends what fits of its data to the contents.                  *)
LEMMA WriteAppends ==
    ASSUME PipeInv, PipeInv', NEW data \in Datas, pipe_write(data)
    PROVE  Contents' = Contents \o SubSeq(data, 1, Fits(data))
<1> DEFINE n == Fits(data)
           s == SubSeq(data, 1, n)
<1>1. PIPE_BUF_SIZE \in Nat \ {0}
  BY PipeAssumption DEF PipeAssumption
<1>2. /\ n \in Nat /\ n <= Len(data) /\ count + n <= PIPE_BUF_SIZE
      /\ data \in Seq(Bytes) /\ Len(data) \in Nat
  BY FitsRange DEF PipeInv
<1>3. head \in Index /\ tail \in Index /\ count \in 0 .. PIPE_BUF_SIZE
      /\ tail = Step(head, count) /\ buf \in [Index -> Bytes]
  BY DEF PipeInv, TypeOK, RingConsistent
<1>4. /\ buf' = [i \in Index |-> IF Ahead(tail, i) < n
                                   THEN data[Ahead(tail, i) + 1] ELSE buf[i]]
      /\ count' = count + n /\ head' = head
  BY DEF pipe_write
<1> HIDE DEF n
<1>5. s \in Seq(Bytes) /\ Len(s) = n /\ \A j \in 1 .. n : s[j] = data[j]
  <2>1. \A j \in 1 .. n : data[j] \in Bytes
    BY <1>2
  <2> QED BY <1>2, <2>1, SubSeqProperties
<1> HIDE DEF s
<1>6. /\ Contents \in Seq(Bytes) /\ Len(Contents) = count
      /\ \A k \in 1 .. count : Contents[k] = buf[Step(head, k - 1)]
  BY ContentsIsSeq DEF PipeInv
<1>7. /\ Contents' \in Seq(Bytes) /\ Len(Contents') = count'
      /\ \A k \in 1 .. count' : (Contents')[k] = buf'[Step(head', k - 1)]
  <2>1. TypeOK'
    BY DEF PipeInv
  <2> QED BY <2>1, BytesFrom DEF Contents, TypeOK
<1>8. /\ Contents \o s \in Seq(Bytes)
      /\ Len(Contents \o s) = count + n
      /\ \A k \in 1 .. count + n : (Contents \o s)[k] =
                  IF k <= count THEN Contents[k] ELSE s[k - count]
  BY <1>5, <1>6, ConcatProperties
<1>9. ASSUME NEW k \in 1 .. count + n
      PROVE  (Contents')[k] = (Contents \o s)[k]
  <2>1. k \in 1 .. PIPE_BUF_SIZE /\ k \in Int
    BY <1>1, <1>2, <1>3
  <2>2. /\ Step(head, k - 1) \in Index
        /\ Ahead(tail, Step(head, k - 1)) =
             IF k <= count THEN PIPE_BUF_SIZE - count + k - 1 ELSE k - 1 - count
    BY <1>3, <2>1, PlaceOfByte
  <2>3. (Contents')[k] = IF Ahead(tail, Step(head, k - 1)) < n
                         THEN data[Ahead(tail, Step(head, k - 1)) + 1]
                         ELSE buf[Step(head, k - 1)]
    BY <1>4, <1>7, <2>2
  <2>4. CASE k <= count
    <3>1. ~(Ahead(tail, Step(head, k - 1)) < n)
      BY <1>1, <1>2, <1>3, <2>1, <2>2, <2>4
    <3>2. k \in 1 .. count
      BY <1>3, <2>1, <2>4
    <3> QED BY <1>6, <1>8, <2>3, <2>4, <3>1, <3>2
  <2>5. CASE ~(k <= count)
    <3>1. /\ Ahead(tail, Step(head, k - 1)) < n
          /\ Ahead(tail, Step(head, k - 1)) + 1 = k - count
          /\ k - count \in 1 .. n
      BY <1>1, <1>2, <1>3, <2>1, <2>2, <2>5
    <3>2. (Contents')[k] = data[k - count]
      BY <2>3, <3>1
    <3> QED BY <1>5, <1>8, <2>5, <3>1, <3>2
  <2> QED BY <2>4, <2>5
<1>10. Contents' = Contents \o s
  BY <1>4, <1>7, <1>8, <1>9, SeqEqual
<1> QED BY <1>10 DEF s, n

(* A read takes its bytes from the front of the contents.                  *)
LEMMA ReadTakes ==
    ASSUME PipeInv, PipeInv', NEW most \in Sizes, pipe_read(most),
           Lesser(most, count) > 0
    PROVE  /\ out' = SubSeq(Contents, 1, Lesser(most, count))
           /\ Contents' = SubSeq(Contents, Lesser(most, count) + 1, count)
<1> DEFINE n == Lesser(most, count)
           s == SubSeq(Contents, 1, n)
           t == SubSeq(Contents, n + 1, count)
<1>1. PIPE_BUF_SIZE \in Nat \ {0} /\ most \in Nat
  BY PipeAssumption DEF PipeAssumption
<1>2. head \in Index /\ count \in 0 .. PIPE_BUF_SIZE /\ buf \in [Index -> Bytes]
  BY DEF PipeInv, TypeOK
<1>3. n \in Nat /\ n <= count /\ n > 0
  BY <1>1, <1>2 DEF Lesser
<1>4. /\ out' = [k \in 1 .. n |-> buf[Step(head, k - 1)]]
      /\ head' = Step(head, n) /\ count' = count - n /\ buf' = buf
  BY <1>3 DEF pipe_read
<1> HIDE DEF n
<1>5. /\ Contents \in Seq(Bytes) /\ Len(Contents) = count
      /\ \A k \in 1 .. count : Contents[k] = buf[Step(head, k - 1)]
  BY ContentsIsSeq DEF PipeInv
<1>6. /\ Contents' \in Seq(Bytes) /\ Len(Contents') = count'
      /\ \A k \in 1 .. count' : (Contents')[k] = buf'[Step(head', k - 1)]
  <2>1. TypeOK'
    BY DEF PipeInv
  <2> QED BY <2>1, BytesFrom DEF Contents, TypeOK
<1>7. \A k \in 1 .. count : Contents[k] \in Bytes
  BY <1>5
<1>8. s \in Seq(Bytes) /\ Len(s) = n /\ \A k \in 1 .. n : s[k] = Contents[k]
  BY <1>2, <1>3, <1>7, SubSeqProperties
<1>9. /\ t \in Seq(Bytes) /\ Len(t) = count - n
      /\ \A k \in 1 .. count - n : t[k] = Contents[n + k]
  BY <1>2, <1>3, <1>7, SubSeqProperties
<1> HIDE DEF s, t
<1>10. out' = s
  <2>1. /\ out' \in Seq(Bytes) /\ Len(out') = n
        /\ \A k \in 1 .. n : (out')[k] = buf[Step(head, k - 1)]
    <3>1. out' \in Seq(Bytes)
      BY DEF PipeInv, TypeOK
    <3> QED BY <1>3, <1>4, <3>1
  <2>2. \A k \in 1 .. n : (out')[k] = s[k]
    BY <1>2, <1>3, <1>5, <1>8, <2>1
  <2> QED BY <1>8, <2>1, <2>2, SeqEqual
<1>11. Contents' = t
  <2>1. ASSUME NEW k \in 1 .. count - n PROVE (Contents')[k] = t[k]
    <3>1. /\ n + k \in 1 .. count /\ k - 1 \in Nat /\ n + (k - 1) <= PIPE_BUF_SIZE
          /\ n + (k - 1) = (n + k) - 1
      BY <1>1, <1>2, <1>3
    <3>2. Step(Step(head, n), k - 1) = Step(head, (n + k) - 1)
      BY <1>2, <1>3, <3>1, StepAdds
    <3>3. t[k] = buf[Step(head, (n + k) - 1)]
      BY <1>5, <1>9, <3>1
    <3> QED BY <1>4, <1>6, <3>2, <3>3
  <2> QED BY <1>4, <1>6, <1>9, <2>1, SeqEqual
<1> QED BY <1>10, <1>11 DEF s, t, n

(* The pipe implements the bounded stream: bytes leave once and in the     *)
(* order they came in, for every size of the buffer and of the requests.   *)
THEOREM PipeIsStream == Spec => ImplementsStream
<1>1. Init => Abstract!StreamInit
  <2>1. ASSUME count = 0 PROVE Contents = <<>>
    BY <2>1 DEF Contents
  <2> QED BY <2>1 DEF Init, Abstract!StreamInit
<1>2. PipeInv /\ PipeInv' /\ [Next]_vars => [Abstract!StreamNext]_(Abstract!streamVars)
  <2> SUFFICES ASSUME PipeInv, PipeInv', [Next]_vars
               PROVE  [Abstract!StreamNext]_(Abstract!streamVars)
    OBVIOUS
  <2>1. Contents \in Seq(Bytes) /\ Len(Contents) = count /\ count \in Nat
    BY ContentsIsSeq DEF PipeInv, TypeOK
  <2>2. ASSUME NEW data \in Datas, pipe_write(data)
        PROVE  [Abstract!StreamNext]_(Abstract!streamVars)
    <3>1. /\ Contents' = Contents \o SubSeq(data, 1, Fits(data)) /\ out' = out
          /\ Fits(data) \in Nat /\ data \in Seq(Bytes)
      BY <2>2, WriteAppends, FitsRange DEF PipeInv, pipe_write
    <3>2. Fits(data) = Abstract!Smaller(Len(data), PIPE_BUF_SIZE - Len(Contents))
      BY <2>1 DEF Fits, Lesser, Abstract!Smaller
    <3>3. CASE Fits(data) = 0
      <4>1. SubSeq(data, 1, 0) = <<>>
        BY SubSeqEmpty
      <4>2. Contents' = Contents
        BY <2>1, <3>1, <3>3, <4>1, ConcatEmptySeq
      <4> QED BY <3>1, <4>2 DEF Abstract!streamVars
    <3>4. CASE Fits(data) > 0
      <4>1. Abstract!Send(data)
        BY <3>1, <3>2, <3>4 DEF Abstract!Send
      <4> QED BY <4>1 DEF Abstract!StreamNext
    <3> QED BY <3>1, <3>3, <3>4
  <2>3. ASSUME NEW most \in Sizes, pipe_read(most)
        PROVE  [Abstract!StreamNext]_(Abstract!streamVars)
    <3>1. most \in Nat
      BY PipeAssumption DEF PipeAssumption
    <3>2. Lesser(most, count) \in Nat
      BY <2>1, <3>1 DEF Lesser
    <3>3. CASE Lesser(most, count) = 0
      <4>1. out' = out /\ buf' = buf /\ count' = count - 0 /\ head' = Step(head, 0)
        BY <2>3, <3>3 DEF pipe_read
      <4>2. head' = head /\ count' = count
        <5>1. head \in Index /\ PIPE_BUF_SIZE \in Nat \ {0}
          BY PipeAssumption DEF PipeInv, TypeOK, PipeAssumption
        <5>2. Step(head, 0) = head
          BY <5>1, StepValue DEF Index
        <5> QED BY <2>1, <4>1, <5>2
      <4>3. Contents' = Contents
        BY <4>1, <4>2 DEF Contents
      <4> QED BY <4>1, <4>3 DEF Abstract!streamVars
    <3>4. CASE Lesser(most, count) > 0
      <4>1. /\ out' = SubSeq(Contents, 1, Lesser(most, count))
            /\ Contents' = SubSeq(Contents, Lesser(most, count) + 1, count)
        BY <2>3, <3>4, ReadTakes
      <4>2. Lesser(most, count) = Abstract!Smaller(most, Len(Contents))
        BY <2>1 DEF Lesser, Abstract!Smaller
      <4>3. Abstract!Receive(most)
        BY <2>1, <3>4, <4>1, <4>2 DEF Abstract!Receive
      <4> QED BY <4>3 DEF Abstract!StreamNext
    <3> QED BY <3>2, <3>3, <3>4
  <2>4. CASE UNCHANGED vars
    BY <2>4 DEF vars, ring, Contents, Abstract!streamVars
  <2> QED BY <2>2, <2>3, <2>4 DEF Next
<1>3. Spec => []PipeInv
  BY PipeInvInit, PipeInvNext, PTL DEF Spec
<1> QED BY <1>1, <1>2, <1>3, PTL DEF Spec, ImplementsStream, Abstract!StreamSpec

-----------------------------------------------------------------------------
(* Jfs                                                                     *)

Pointers == 0 .. PTRS - 1
Room == 0 .. SLOTS - 1
Turn == 0 .. JOURNAL - 1
Kinds == {"FREE", "FILE", "DIR"}
Entry == JournalEntry \cup {SuperSector}

LEMMA TableSizes ==
    ASSUME JfsAssumption
    PROVE  /\ JFS_MAX_INODES \in Nat \ {0} /\ JFS_MAX_BLOCKS \in Nat \ {0}
           /\ PTRS \in Nat \ {0} /\ SLOTS \in Nat \ {0} /\ JOURNAL \in Nat \ {0}
           /\ 0 \in Inodes /\ 0 \in Blocks /\ 0 \in Pointers /\ 0 \in Room /\ 0 \in Turn
           /\ Root = 0 /\ Inodes \subseteq Nat /\ Blocks \subseteq Nat
           /\ FREE_BLOCKS \in Nat /\ MaxBoots \in Nat
           /\ NoInode \notin Inodes /\ NoBlock \notin Blocks
BY DEF JfsAssumption, Inodes, Blocks, Pointers, Room, Turn, Root, NoInode, NoBlock

(* The fields of the state, one by one.                                    *)
Typed(f) ==
    /\ f.super \in Super /\ f.super_disk \in Super
    /\ f.type \in [Inodes -> Kinds]
    /\ f.ptrs \in [Inodes -> [Pointers -> Blocks]]
    /\ f.size \in [Inodes -> Nat]
    /\ f.used \in SUBSET Blocks
    /\ f.disk \in [Blocks -> [Room -> Unit]]
    /\ f.head \in Turn /\ f.tail \in Turn /\ f.count \in Turn
    /\ f.entries \in [Turn -> JournalEntry]
    /\ f.log \in [Turn -> Entry]

LEMMA Fields == ASSUME NEW f \in FsState PROVE Typed(f)
BY DEF FsState, Typed, Pointers, Room, Turn, Kinds, Entry

LEMMA SetData ==
    ASSUME NEW f \in FsState, NEW s \in Super, NEW t \in [Inodes -> Kinds],
           NEW p \in [Inodes -> [Pointers -> Blocks]], NEW z \in [Inodes -> Nat],
           NEW u \in SUBSET Blocks, NEW d \in [Blocks -> [Room -> Unit]]
    PROVE  [f EXCEPT !.super = s, !.type = t, !.ptrs = p, !.size = z, !.used = u, !.disk = d] \in FsState
BY DEF FsState, Pointers, Room, Turn, Kinds, Entry

LEMMA SetJournal ==
    ASSUME NEW f \in FsState, NEW s \in Super, NEW h \in Turn, NEW t \in Turn, NEW c \in Turn,
           NEW e \in [Turn -> JournalEntry], NEW l \in [Turn -> Entry]
    PROVE  [f EXCEPT !.super_disk = s, !.head = h, !.tail = t, !.count = c, !.entries = e, !.log = l]
             \in FsState
BY DEF FsState, Pointers, Room, Turn, Kinds, Entry

-----------------------------------------------------------------------------
(* The journal.                                                            *)
SameData(f, g) ==
    /\ g.super = f.super /\ g.type = f.type /\ g.ptrs = f.ptrs
    /\ g.used = f.used /\ g.disk = f.disk
Last(f) == (f.tail + JOURNAL - 1) % JOURNAL
LogTrue(f) ==
    /\ f.tail = (f.head + f.count) % JOURNAL
    /\ f.count = 0 /\ Last(f) # 0 /\ f.entries[Last(f)] # NoEntry
         => f.log[Last(f)] = f.entries[Last(f)]

LEMMA Flush ==
    ASSUME JfsAssumption, NEW f \in FsState, NEW n \in 0 .. JOURNAL
    PROVE  LET g == jfs_journal_flush([f EXCEPT !.count = n])
           IN  /\ g \in FsState /\ SameData(f, g)
               /\ g.head = f.tail /\ g.tail = f.tail /\ g.count = 0 /\ g.entries = f.entries
               /\ \A j \in Turn \ {0} :
                     g.log[j] = IF j \in {(f.head + i) % JOURNAL : i \in 0 .. n - 1}
                                THEN f.entries[j] ELSE f.log[j]
<1> DEFINE e == [f EXCEPT !.count = n]
           pending == {(e.head + i) % JOURNAL : i \in 0 .. e.count - 1}
           log == [j \in 0 .. JOURNAL - 1 |->
                     IF j = 0 THEN SuperSector
                     ELSE IF j \in pending THEN e.entries[j] ELSE e.log[j]]
           g == jfs_journal_flush(e)
<1>1. Typed(f)
  BY Fields
<1>2. /\ e.head = f.head /\ e.tail = f.tail /\ e.entries = f.entries /\ e.log = f.log
      /\ e.super = f.super /\ e.count = n /\ SameData(f, e)
  BY DEF FsState, SameData
<1>3. log \in [Turn -> Entry]
  BY <1>1, <1>2 DEF Typed, Turn, Entry
<1>4. g = [f EXCEPT !.super_disk = f.super, !.head = f.tail, !.tail = f.tail, !.count = 0,
                    !.entries = f.entries, !.log = log]
  BY <1>1, <1>2 DEF jfs_journal_flush, FsState, Typed, Turn
<1>5. g \in FsState
  <2> HIDE DEF log, g
  <2>1. 0 \in Turn /\ f.tail \in Turn /\ f.super \in Super /\ f.entries \in [Turn -> JournalEntry]
    BY <1>1, TableSizes DEF Typed
  <2> QED BY <1>3, <1>4, <2>1, SetJournal
<1>6. /\ g.head = f.tail /\ g.tail = f.tail /\ g.count = 0 /\ g.entries = f.entries /\ g.log = log
      /\ SameData(f, g)
  BY <1>4 DEF FsState, SameData
<1>7. \A j \in Turn \ {0} : log[j] = IF j \in {(f.head + i) % JOURNAL : i \in 0 .. n - 1}
                                    THEN f.entries[j] ELSE f.log[j]
  BY <1>2 DEF Turn
<1> QED BY <1>5, <1>6, <1>7

LEMMA Round ==
    ASSUME JfsAssumption, NEW a \in Turn, NEW n \in 0 .. JOURNAL
    PROVE  /\ (a + n) % JOURNAL = IF a + n < JOURNAL THEN a + n ELSE a + n - JOURNAL
           /\ (a + n) % JOURNAL \in Turn
BY TableSizes DEF Turn

LEMMA Stays == ASSUME JfsAssumption, NEW a \in Turn PROVE (a + 0) % JOURNAL = a
BY TableSizes DEF Turn

LEMMA Before ==
    ASSUME JfsAssumption, NEW f \in FsState
    PROVE  /\ Last(f) = IF f.tail = 0 THEN JOURNAL - 1 ELSE f.tail - 1
           /\ Last(f) \in Turn
<1>1. f.tail \in Turn /\ JOURNAL \in Nat \ {0}
  BY Fields, TableSizes DEF Typed
<1>2. f.tail + JOURNAL - 1 = f.tail + (JOURNAL - 1) /\ JOURNAL - 1 \in 0 .. JOURNAL
  BY <1>1 DEF Turn
<1>3. Last(f) = (f.tail + (JOURNAL - 1)) % JOURNAL
  BY <1>2 DEF Last
<1>4. Last(f) = IF f.tail + (JOURNAL - 1) < JOURNAL THEN f.tail + (JOURNAL - 1)
                ELSE f.tail + (JOURNAL - 1) - JOURNAL
  BY <1>1, <1>2, <1>3, Round
<1> QED BY <1>1, <1>4 DEF Turn

(* jfs_journal_flush writes every entry since the head.                    *)
LEMMA FlushKeeps ==
    ASSUME JfsAssumption, NEW f \in FsState
    PROVE  LET g == jfs_journal_flush(f)
           IN  /\ g \in FsState /\ SameData(f, g) /\ g.count = 0
               /\ LogTrue(f) => LogTrue(g)
<1> DEFINE g == jfs_journal_flush(f)
<1>1. Typed(f) /\ f = [f EXCEPT !.count = f.count]
  BY Fields DEF FsState
<1>2. f.count \in 0 .. JOURNAL /\ f.count \in Nat /\ f.tail \in Turn /\ f.head \in Turn /\ JOURNAL \in Nat \ {0}
  BY <1>1, TableSizes DEF Typed, Turn
<1>3. /\ g \in FsState /\ SameData(f, g)
      /\ g.head = f.tail /\ g.tail = f.tail /\ g.count = 0 /\ g.entries = f.entries
      /\ \A j \in Turn \ {0} :
            g.log[j] = IF j \in {(f.head + i) % JOURNAL : i \in 0 .. f.count - 1}
                       THEN f.entries[j] ELSE f.log[j]
  BY <1>1, <1>2, Flush
<1> HIDE DEF g
<1>4. ASSUME LogTrue(f) PROVE LogTrue(g)
  <2>1. g.tail = (g.head + g.count) % JOURNAL
    BY <1>2, <1>3, Stays
  <2>2. Last(g) = Last(f) /\ Last(f) \in Turn
    BY <1>3, Before DEF Last
  <2>3. ASSUME Last(f) # 0, f.entries[Last(f)] # NoEntry PROVE g.log[Last(f)] = f.entries[Last(f)]
    <3>1. CASE f.count = 0
      BY <1>2, <1>3, <1>4, <2>2, <2>3, <3>1 DEF LogTrue
    <3>2. CASE f.count # 0
      <4>1. f.count - 1 \in 0 .. f.count - 1 /\ f.count - 1 \in 0 .. JOURNAL
        BY <1>2, <3>2
      <4>2. f.tail = (f.head + f.count) % JOURNAL
        BY <1>4 DEF LogTrue
      <4>3. f.tail = IF f.head + f.count < JOURNAL THEN f.head + f.count ELSE f.head + f.count - JOURNAL
        BY <1>2, <4>2, Round
      <4>4. (f.head + (f.count - 1)) % JOURNAL =
              IF f.head + (f.count - 1) < JOURNAL THEN f.head + (f.count - 1)
              ELSE f.head + (f.count - 1) - JOURNAL
        BY <1>2, <4>1, Round
      <4>5. Last(f) = (f.head + (f.count - 1)) % JOURNAL
        BY <1>2, <3>2, <4>3, <4>4, Before DEF Turn
      <4>6. Last(f) \in {(f.head + i) % JOURNAL : i \in 0 .. f.count - 1}
        BY <4>1, <4>5
      <4> QED BY <1>3, <2>2, <2>3, <4>6
    <3> QED BY <3>1, <3>2
  <2> QED BY <1>3, <2>1, <2>2, <2>3 DEF LogTrue
<1> QED BY <1>3, <1>4 DEF g

(* jfs_journal_commit flushes when the entry is the last that fits.        *)
LEMMA CommitKeeps ==
    ASSUME JfsAssumption, NEW f \in FsState, NEW op \in {"WRITE", "UNLINK", "MKDIR", "CREATE"},
           NEW i \in Inodes
    PROVE  LET g == jfs_journal_commit(f, op, i)
           IN  /\ g \in FsState /\ SameData(f, g)
               /\ LogTrue(f) => LogTrue(g)
<1> DEFINE t == (f.tail + 1) % JOURNAL
           x == [op |-> op, ino |-> i]
           e == [f EXCEPT !.entries[f.tail] = x, !.tail = t]
           g == jfs_journal_commit(f, op, i)
<1>1. Typed(f) /\ JOURNAL \in Nat \ {0} /\ f.tail \in Turn /\ f.head \in Turn /\ f.count \in Turn
  BY Fields, TableSizes DEF Typed
<1>2. t \in Turn /\ t = IF f.tail + 1 < JOURNAL THEN f.tail + 1 ELSE f.tail + 1 - JOURNAL
  <2>1. 1 \in 0 .. JOURNAL
    BY <1>1
  <2> QED BY <1>1, <2>1, Round
<1>3. x \in JournalEntry
  BY DEF JournalEntry
<1> HIDE DEF x, t
<1>4. /\ e.entries = [f.entries EXCEPT ![f.tail] = x] /\ e.tail = t /\ e.head = f.head
      /\ e.count = f.count /\ e.log = f.log /\ e.super_disk = f.super_disk /\ SameData(f, e)
  BY DEF FsState, SameData
<1>5. e.entries \in [Turn -> JournalEntry]
  BY <1>1, <1>3, <1>4 DEF Typed
<1>6. e \in FsState
  <2> DEFINE n == e.entries
  <2>1. e = [f EXCEPT !.super_disk = f.super_disk, !.head = f.head, !.tail = t, !.count = f.count,
                      !.entries = n, !.log = f.log]
    BY <1>4 DEF FsState
  <2>2. /\ f.super_disk \in Super /\ f.head \in Turn /\ f.count \in Turn /\ f.log \in [Turn -> Entry]
        /\ n \in [Turn -> JournalEntry]
    BY <1>1, <1>5 DEF Typed
  <2> HIDE DEF e, n
  <2> QED BY <1>2, <2>1, <2>2, SetJournal
<1>7. g = IF f.count + 1 >= JOURNAL THEN jfs_journal_flush([e EXCEPT !.count = JOURNAL])
          ELSE [e EXCEPT !.count = f.count + 1]
  BY <1>4 DEF jfs_journal_commit, x, t
<1> HIDE DEF e, g
<1>8. CASE f.count + 1 >= JOURNAL
  <2>1. JOURNAL \in 0 .. JOURNAL
    BY <1>1
  <2>2. /\ g \in FsState /\ SameData(e, g)
        /\ g.head = e.tail /\ g.tail = e.tail /\ g.count = 0 /\ g.entries = e.entries
        /\ \A j \in Turn \ {0} :
              g.log[j] = IF j \in {(e.head + k) % JOURNAL : k \in 0 .. JOURNAL - 1}
                         THEN e.entries[j] ELSE e.log[j]
    BY <1>6, <1>7, <1>8, <2>1, Flush
  <2>3. SameData(f, g)
    BY <1>4, <2>2 DEF SameData
  <2>4. LogTrue(g)
    <3>1. g.tail = (g.head + g.count) % JOURNAL
      BY <1>2, <1>4, <2>2, Stays
    <3>2. ASSUME NEW j \in Turn PROVE j \in {(e.head + k) % JOURNAL : k \in 0 .. JOURNAL - 1}
      <4> DEFINE k == IF j >= e.head THEN j - e.head ELSE j - e.head + JOURNAL
      <4>1. k \in 0 .. JOURNAL - 1 /\ k \in 0 .. JOURNAL /\ e.head \in Turn
        BY <1>1, <1>4 DEF Turn
      <4>2. (e.head + k) % JOURNAL = IF e.head + k < JOURNAL THEN e.head + k ELSE e.head + k - JOURNAL
        BY <4>1, Round
      <4>3. (e.head + k) % JOURNAL = j
        BY <1>1, <4>1, <4>2 DEF Turn
      <4> QED BY <4>1, <4>3
    <3>3. \A j \in Turn \ {0} : g.log[j] = g.entries[j]
      BY <2>2, <3>2
    <3>4. Last(g) \in Turn
      BY <2>2, Before
    <3> QED BY <3>1, <3>3, <3>4 DEF LogTrue
  <2> QED BY <2>2, <2>3, <2>4 DEF g
<1>9. CASE f.count + 1 < JOURNAL
  <2>1. f.count + 1 \in Turn /\ f.count + 1 \in 0 .. JOURNAL /\ f.count \in 0 .. JOURNAL
    BY <1>1, <1>9 DEF Turn
  <2>2. g = [e EXCEPT !.count = f.count + 1]
    BY <1>1, <1>7, <1>9 DEF Turn
  <2>3. /\ g.count = f.count + 1 /\ g.head = f.head /\ g.tail = t /\ SameData(f, g)
    BY <1>4, <1>6, <2>2 DEF FsState, SameData
  <2>4. g \in FsState
    <3>1. Typed(e)
      BY <1>6, Fields
    <3>2. g = [e EXCEPT !.super_disk = e.super_disk, !.head = e.head, !.tail = e.tail,
                        !.count = f.count + 1, !.entries = e.entries, !.log = e.log]
      BY <1>6, <2>2 DEF FsState
    <3> QED BY <1>6, <2>1, <3>1, <3>2, SetJournal DEF Typed
  <2>5. ASSUME LogTrue(f) PROVE LogTrue(g)
    <3>1. f.tail = IF f.head + f.count < JOURNAL THEN f.head + f.count ELSE f.head + f.count - JOURNAL
      BY <1>1, <2>1, <2>5, Round DEF LogTrue
    <3>2. (f.head + (f.count + 1)) % JOURNAL =
            IF f.head + (f.count + 1) < JOURNAL THEN f.head + (f.count + 1)
            ELSE f.head + (f.count + 1) - JOURNAL
      BY <1>1, <2>1, Round
    <3>3. g.tail = (g.head + g.count) % JOURNAL
      BY <1>1, <1>2, <2>3, <3>1, <3>2 DEF Turn
    <3>4. g.count # 0
      BY <1>1, <2>3 DEF Turn
    <3> QED BY <3>3, <3>4 DEF LogTrue
  <2> QED BY <2>3, <2>4, <2>5 DEF g
<1>10. f.count + 1 >= JOURNAL \/ f.count + 1 < JOURNAL
  BY <1>1 DEF Turn
<1> QED BY <1>8, <1>9, <1>10 DEF g

-----------------------------------------------------------------------------
(* What the tables and the disk say to each other.                         *)
Exclusive(f) ==
    \A i, j \in Inodes, k, l \in Pointers :
        f.ptrs[i][k] # 0 /\ f.ptrs[i][k] = f.ptrs[j][l] => i = j /\ k = l
InUse(f) ==
    \A b \in Blocks \ {0} :
        b \in f.used <=> \E i \in Inodes, k \in Pointers : f.ptrs[i][k] = b
Unowned(f) ==
    \A i \in Inodes, k \in Pointers : f.type[i] = "FREE" => f.ptrs[i][k] = 0
Owners(f) == Exclusive(f) /\ InUse(f) /\ Unowned(f)

(* Directory d lists inode i in position p.                                *)
Lists(f, d, p, i) ==
    /\ f.type[d] = "DIR" /\ p \in Backed(f, d)
    /\ UnitAt(f, d, p).ino = i /\ i # 0
Entries(f) ==
    \A d \in Inodes, p \in Positions, i \in Inodes : Lists(f, d, p, i) =>
        /\ f.type[i] # "FREE"
        /\ \A e \in Inodes, q \in Positions : Lists(f, e, q, i) => e = d /\ q = p

Vacant(f) == {i \in Inodes : f.type[i] = "FREE"}
CountsOf(f) ==
    /\ f.super.free_inodes = Cardinality(Vacant(f))
    /\ f.super.free_blocks + Cardinality(f.used) = FREE_BLOCKS

(* The history and the disk agree on a file, whatever its size.            *)
Texts(f, w) ==
    \A i \in Inodes :
        /\ f.type[i] # "FILE" => DOMAIN w[i] = {}
        /\ f.type[i] = "FILE" =>
             /\ DOMAIN w[i] \subseteq Backed(f, i)
             /\ \A p \in Backed(f, i) :
                   UnitAt(f, i, p).what = IF p \in DOMAIN w[i] THEN w[i][p] ELSE "zero"

Sound(f) ==
    /\ f \in FsState /\ f.type[Root] = "DIR"
    /\ LogTrue(f) /\ Owners(f) /\ Entries(f)

JfsInv ==
    /\ Sound(fs) /\ boots \in 0 .. MaxBoots
    /\ boots = 0 => CountsOf(fs)
    /\ DOMAIN written = Inodes /\ Texts(fs, written)

-----------------------------------------------------------------------------
(* Positions: the number of the pointer and the place in its block.        *)
LEMMA Divided ==
    ASSUME NEW d \in Nat \ {0}, NEW x \in Int
    PROVE  /\ x \div d \in Int /\ x % d \in 0 .. d - 1
           /\ x = d * (x \div d) + (x % d)
OBVIOUS

LEMMA Product ==
    ASSUME NEW d \in Nat \ {0}, NEW p \in Int, NEW q \in Int, p < q
    PROVE  d * p + d <= d * q
<1>1. p + 1 <= q
  OBVIOUS
<1>2. d * (p + 1) <= d * q
  BY <1>1, SMTT(30)
<1>3. d * (p + 1) = d * p + d
  BY SMTT(30)
<1> QED BY <1>2, <1>3, SMTT(30)

LEMMA Places ==
    ASSUME JfsAssumption, NEW p \in Positions
    PROVE  /\ p \in Nat /\ p \div SLOTS \in Pointers /\ p % SLOTS \in Room
           /\ (p \div SLOTS) * SLOTS + (p % SLOTS) = p
<1> DEFINE k == p \div SLOTS
           r == p % SLOTS
<1>1. SLOTS \in Nat \ {0} /\ PTRS \in Nat \ {0} /\ PTRS * SLOTS \in Int
  BY TableSizes
<1>2. p \in Int /\ 0 <= p /\ p < PTRS * SLOTS
  BY <1>1 DEF Positions
<1>3. k \in Int /\ r \in 0 .. SLOTS - 1 /\ p = SLOTS * k + r
  BY <1>1, <1>2, Divided
<1> HIDE DEF k, r
<1>4. ~(k < 0)
  <2> SUFFICES ASSUME k < 0 PROVE FALSE
    OBVIOUS
  <2>1. SLOTS * k + SLOTS <= SLOTS * 0
    BY <1>1, <1>3, Product
  <2>2. SLOTS * 0 = 0 /\ SLOTS * k \in Int
    BY <1>1, <1>3
  <2> QED BY <1>1, <1>2, <1>3, <2>1, <2>2
<1>5. ~(PTRS <= k)
  <2> SUFFICES ASSUME PTRS <= k PROVE FALSE
    OBVIOUS
  <2>1. SLOTS * (PTRS - 1) + SLOTS <= SLOTS * k
    BY <1>1, <1>3, Product
  <2>2. SLOTS * (PTRS - 1) + SLOTS = PTRS * SLOTS
    BY <1>1, SMTT(30)
  <2>3. SLOTS * k \in Int
    BY <1>1, <1>3
  <2> QED BY <1>1, <1>2, <1>3, <2>1, <2>2, <2>3
<1>6. k * SLOTS = SLOTS * k
  BY <1>1, <1>3
<1> QED BY <1>1, <1>2, <1>3, <1>4, <1>5, <1>6 DEF k, r, Pointers, Room

(* A position is known by the two.                                         *)
LEMMA Apart ==
    ASSUME JfsAssumption, NEW p \in Positions, NEW q \in Positions,
           p \div SLOTS = q \div SLOTS, p % SLOTS = q % SLOTS
    PROVE  p = q
BY Places

(* The unit at a position that has a block.                                *)
Placed(f, i, p) ==
    /\ UnitAt(f, i, p) = f.disk[f.ptrs[i][p \div SLOTS]][p % SLOTS]
    /\ UnitAt(f, i, p) \in Unit
    /\ f.ptrs[i][p \div SLOTS] \in Blocks
    /\ p \in Backed(f, i) <=> f.ptrs[i][p \div SLOTS] # 0
LEMMA Reads ==
    ASSUME JfsAssumption, NEW f \in FsState, NEW i \in Inodes, NEW p \in Positions
    PROVE  Placed(f, i, p)
<1>1. p \div SLOTS \in Pointers /\ p % SLOTS \in Room
  BY Places
<1>2. f.ptrs[i][p \div SLOTS] \in Blocks
  BY <1>1, Fields DEF Typed
<1>3. f.disk[f.ptrs[i][p \div SLOTS]][p % SLOTS] \in Unit
  BY <1>1, <1>2, Fields DEF Typed
<1> QED BY <1>2, <1>3 DEF UnitAt, Backed, Placed

-----------------------------------------------------------------------------
SameJournal(f, g) ==
    /\ g.super_disk = f.super_disk /\ g.head = f.head /\ g.tail = f.tail
    /\ g.count = f.count /\ g.entries = f.entries /\ g.log = f.log

LEMMA JournalKept ==
    ASSUME NEW f, NEW g, SameJournal(f, g)
    PROVE  LogTrue(f) => LogTrue(g)
BY DEF SameJournal, LogTrue, Last

(* The journal takes no part in the rest.                                  *)
LEMMA DataKept ==
    ASSUME NEW f, NEW g, SameData(f, g)
    PROVE  /\ Owners(f) => Owners(g)
           /\ Entries(f) => Entries(g)
           /\ CountsOf(f) => CountsOf(g)
           /\ \A i \in Inodes : Backed(g, i) = Backed(f, i)
           /\ \A i, p : UnitAt(g, i, p) = UnitAt(f, i, p)
           /\ \A d, p, i : Lists(g, d, p, i) <=> Lists(f, d, p, i)
<1>1. Owners(f) => Owners(g)
  BY DEF SameData, Owners, Exclusive, InUse, Unowned
<1>2. \A i : Backed(g, i) = Backed(f, i)
  BY DEF SameData, Backed
<1>3. \A i, p : UnitAt(g, i, p) = UnitAt(f, i, p)
  BY DEF SameData, UnitAt
<1>4. \A d, p, i : Lists(g, d, p, i) <=> Lists(f, d, p, i)
  BY <1>2, <1>3 DEF SameData, Lists
<1>5. Entries(f) => Entries(g)
  BY <1>4 DEF SameData, Entries
<1>6. CountsOf(f) => CountsOf(g)
  BY DEF SameData, CountsOf, Vacant
<1> QED BY <1>1, <1>2, <1>3, <1>4, <1>5, <1>6

LEMMA LeastExists ==
    ASSUME NEW S, S \subseteq Nat, S # {}
    PROVE  \E x \in S : \A y \in S : x <= y
<1> DEFINE Below == {0 .. x : x \in S}
<1>1. Below \subseteq FiniteSubsetsOf(Nat) /\ Below # {}
  <2>1. \A x \in S : 0 .. x \in FiniteSubsetsOf(Nat)
    BY FS_Interval DEF FiniteSubsetsOf
  <2> QED BY <2>1
<1>2. PICK A \in Below : \A B \in Below : <<B, A>> \notin StrictSubsetOrdering(Nat)
  <2> HIDE DEF Below
  <2> QED BY <1>1, FS_StrictSubsetOrderingWellFounded, WFMin
<1>3. PICK x \in S : A = 0 .. x
  OBVIOUS
<1>4. \A y \in S : x <= y
  <2> SUFFICES ASSUME NEW y \in S, y < x PROVE FALSE
    OBVIOUS
  <2>1. 0 .. y \in Below /\ 0 .. y \subseteq 0 .. x
    OBVIOUS
  <2>2. x \in 0 .. x /\ x \notin 0 .. y
    OBVIOUS
  <2>3. <<0 .. y, 0 .. x>> \in StrictSubsetOrdering(Nat)
    BY <2>1, <2>2 DEF StrictSubsetOrdering
  <2> QED BY <1>2, <1>3, <2>1, <2>3
<1> QED BY <1>4

LEMMA SomeLeast ==
    ASSUME NEW S, S \subseteq Nat, S # {}
    PROVE  Min(S) \in S /\ \A y \in S : Min(S) <= y
BY LeastExists DEF Min

LEMMA Finite ==
    ASSUME JfsAssumption
    PROVE  /\ \A S \in SUBSET Blocks : IsFiniteSet(S) /\ Cardinality(S) \in Nat
           /\ \A S \in SUBSET Inodes : IsFiniteSet(S) /\ Cardinality(S) \in Nat
<1>1. IsFiniteSet(Blocks) /\ IsFiniteSet(Inodes)
  BY TableSizes, FS_Interval DEF Blocks, Inodes
<1> QED BY <1>1, FS_Subset, FS_CardinalityType

-----------------------------------------------------------------------------
(* A free block b is taken, given contents c and made block k of inode i.  *)
Extended(f, h, i, k, b, c) ==
    /\ h \in FsState /\ SameJournal(f, h)
    /\ h.type = f.type /\ h.size = f.size
    /\ h.super.free_inodes = f.super.free_inodes
    /\ h.super.free_blocks = f.super.free_blocks - 1
    /\ h.used = f.used \cup {b}
    /\ h.ptrs = [f.ptrs EXCEPT ![i][k] = b]
    /\ h.disk = [f.disk EXCEPT ![b] = c]

LEMMA Alloc ==
    ASSUME JfsAssumption, NEW f \in FsState
    PROVE  LET a == jfs_alloc_block(f)
           IN  \/ a.blk = NoBlock /\ a.fs = f
               \/ /\ a.blk \in Blocks \ f.used
                  /\ a.fs = [f EXCEPT !.used = f.used \cup {a.blk},
                                      !.super.free_blocks = f.super.free_blocks - 1,
                                      !.disk[a.blk] = ZeroBlock]
<1> DEFINE a == jfs_alloc_block(f)
           free == Blocks \ f.used
<1>1. CASE free = {}
  BY <1>1 DEF jfs_alloc_block
<1>2. CASE free # {}
  <2>1. Min(free) \in free
    BY <1>2, TableSizes, SomeLeast
  <2>2. a = [blk |-> Min(free),
             fs |-> [f EXCEPT !.used = f.used \cup {Min(free)},
                              !.super.free_blocks = f.super.free_blocks - 1,
                              !.disk[Min(free)] = ZeroBlock]]
    BY <1>2 DEF jfs_alloc_block
  <2> QED BY <2>1, <2>2
<1> QED BY <1>1, <1>2

LEMMA SuperSet ==
    ASSUME NEW s \in Super, NEW n \in Int
    PROVE  /\ [s EXCEPT !.free_blocks = n] \in Super /\ [s EXCEPT !.free_inodes = n] \in Super
           /\ [s EXCEPT !.free_blocks = n].free_inodes = s.free_inodes
           /\ [s EXCEPT !.free_blocks = n].free_blocks = n
           /\ [s EXCEPT !.free_inodes = n].free_blocks = s.free_blocks
           /\ [s EXCEPT !.free_inodes = n].free_inodes = n
BY DEF Super

LEMMA Extend ==
    ASSUME JfsAssumption, NEW f \in FsState, NEW b \in Blocks, NEW i \in Inodes, NEW k \in Pointers,
           NEW c \in [Room -> Unit], NEW g, NEW h,
           g = [f EXCEPT !.used = f.used \cup {b},
                         !.super.free_blocks = f.super.free_blocks - 1,
                         !.disk[b] = ZeroBlock],
           h = [g EXCEPT !.ptrs[i][k] = b, !.disk[b] = c]
    PROVE  Extended(f, h, i, k, b, c)
<1> DEFINE s == [f.super EXCEPT !.free_blocks = f.super.free_blocks - 1]
           p == [f.ptrs EXCEPT ![i][k] = b]
           u == f.used \cup {b}
           d == [f.disk EXCEPT ![b] = c]
<1>1. Typed(f)
  BY Fields
<1>2. s \in Super /\ s.free_inodes = f.super.free_inodes /\ s.free_blocks = f.super.free_blocks - 1
  <2>1. f.super \in Super /\ f.super.free_blocks - 1 \in Int
    BY <1>1 DEF Typed, Super
  <2> QED BY <2>1, SuperSet
<1>3. p \in [Inodes -> [Pointers -> Blocks]] /\ u \in SUBSET Blocks /\ d \in [Blocks -> [Room -> Unit]]
  BY <1>1 DEF Typed
<1>4. h = [f EXCEPT !.super = s, !.type = f.type, !.ptrs = p, !.size = f.size, !.used = u, !.disk = d]
  BY ZenonT(60), <1>1 DEF FsState, Typed
<1>5. f.type \in [Inodes -> Kinds] /\ f.size \in [Inodes -> Nat]
  BY <1>1 DEF Typed
<1> HIDE DEF s, p, u, d
<1>6. h \in FsState
  <2>1. [f EXCEPT !.super = s, !.type = f.type, !.ptrs = p, !.size = f.size, !.used = u, !.disk = d]
          \in FsState
    BY ONLY <1>2, <1>3, <1>5, SetData, f \in FsState
  <2> QED BY <1>4, <2>1
<1>7. h.super = s /\ h.type = f.type /\ h.size = f.size /\ h.ptrs = p /\ h.used = u /\ h.disk = d
      /\ SameJournal(f, h)
  BY <1>4 DEF FsState, SameJournal
<1> QED BY <1>2, <1>6, <1>7 DEF Extended, p, u, d

LEMMA ExtendOwns ==
    ASSUME JfsAssumption, NEW f \in FsState, NEW h, NEW b \in Blocks \ f.used,
           NEW i \in Inodes, NEW k \in Pointers, NEW c, Extended(f, h, i, k, b, c),
           Owners(f), f.type[i] # "FREE", f.ptrs[i][k] = 0
    PROVE  /\ Owners(h)
           /\ CountsOf(f) => CountsOf(h)
           /\ LogTrue(f) => LogTrue(h)
<1>1. Typed(f) /\ h.ptrs = [f.ptrs EXCEPT ![i][k] = b] /\ h.type = f.type /\ h.used = f.used \cup {b}
  BY Fields DEF Extended
<1>2. \A j \in Inodes, l \in Pointers : h.ptrs[j][l] = IF j = i /\ l = k THEN b ELSE f.ptrs[j][l]
  BY <1>1 DEF Typed
<1>3. b # 0 => \A j \in Inodes, l \in Pointers : f.ptrs[j][l] # b
  BY DEF Owners, InUse
<1>4. Exclusive(h)
  BY <1>2, <1>3 DEF Owners, Exclusive
<1>5. InUse(h)
  <2> SUFFICES ASSUME NEW x \in Blocks \ {0}
               PROVE  x \in h.used <=> \E j \in Inodes, l \in Pointers : h.ptrs[j][l] = x
    BY DEF InUse
  <2>1. x \in f.used <=> \E j \in Inodes, l \in Pointers : f.ptrs[j][l] = x
    BY DEF Owners, InUse
  <2>2. CASE x = b
    BY <1>1, <1>2, <2>2
  <2>3. CASE x # b
    BY <1>1, <1>2, <2>1, <2>3
  <2> QED BY <2>2, <2>3
<1>6. Unowned(h)
  BY <1>1, <1>2 DEF Owners, Unowned
<1>7. ASSUME CountsOf(f) PROVE CountsOf(h)
  <2>1. IsFiniteSet(f.used) /\ Cardinality(f.used) \in Nat
    BY <1>1, Finite DEF Typed
  <2>2. Cardinality(h.used) = Cardinality(f.used) + 1
    BY ZenonT(60), <1>1, <2>1, FS_AddElement
  <2>3. Vacant(h) = Vacant(f)
    BY <1>1 DEF Vacant
  <2>4. f.super.free_blocks \in Int /\ FREE_BLOCKS \in Nat
    BY <1>1, TableSizes DEF Typed, Super
  <2> QED BY <1>7, <2>1, <2>2, <2>3, <2>4 DEF CountsOf, Extended
<1>8. LogTrue(f) => LogTrue(h)
  BY JournalKept DEF Extended
<1> QED BY <1>4, <1>5, <1>6, <1>7, <1>8 DEF Owners

(* Block b of an inode gets contents c.                                    *)
Rewritten(f, h, b, c) ==
    /\ h \in FsState /\ SameJournal(f, h)
    /\ h.type = f.type /\ h.size = f.size /\ h.super = f.super
    /\ h.used = f.used /\ h.ptrs = f.ptrs
    /\ h.disk = [f.disk EXCEPT ![b] = c]

LEMMA Rewrite ==
    ASSUME JfsAssumption, NEW f \in FsState, NEW b \in Blocks, NEW c \in [Room -> Unit], NEW h,
           h = [f EXCEPT !.disk[b] = c]
    PROVE  Rewritten(f, h, b, c)
<1> DEFINE d == [f.disk EXCEPT ![b] = c]
<1>1. Typed(f)
  BY Fields
<1>2. /\ d \in [Blocks -> [Room -> Unit]] /\ f.super \in Super /\ f.ptrs \in [Inodes -> [Pointers -> Blocks]]
      /\ f.used \in SUBSET Blocks /\ f.type \in [Inodes -> Kinds] /\ f.size \in [Inodes -> Nat]
  BY <1>1 DEF Typed
<1>3. h = [f EXCEPT !.super = f.super, !.type = f.type, !.ptrs = f.ptrs, !.size = f.size,
                    !.used = f.used, !.disk = d]
  BY DEF FsState
<1> HIDE DEF d
<1>4. [f EXCEPT !.super = f.super, !.type = f.type, !.ptrs = f.ptrs, !.size = f.size,
                !.used = f.used, !.disk = d] \in FsState
  BY ONLY <1>2, SetData, f \in FsState
<1>5. /\ h.type = f.type /\ h.size = f.size /\ h.super = f.super /\ h.used = f.used
      /\ h.ptrs = f.ptrs /\ h.disk = d /\ SameJournal(f, h)
  BY <1>3 DEF FsState, SameJournal
<1> QED BY <1>3, <1>4, <1>5 DEF Rewritten, d

LEMMA RewriteOwns ==
    ASSUME NEW f, NEW h, NEW b, NEW c, Rewritten(f, h, b, c)
    PROVE  /\ Owners(f) => Owners(h)
           /\ CountsOf(f) => CountsOf(h)
           /\ LogTrue(f) => LogTrue(h)
<1>1. Owners(f) => Owners(h)
  BY DEF Rewritten, Owners, Exclusive, InUse, Unowned
<1>2. CountsOf(f) => CountsOf(h)
  BY DEF Rewritten, CountsOf, Vacant
<1>3. LogTrue(f) => LogTrue(h)
  BY JournalKept DEF Rewritten
<1> QED BY <1>1, <1>2, <1>3

-----------------------------------------------------------------------------
(* The other units stay what they are.                                     *)
UnitKept(f, h, j, q) ==
    /\ q \in Backed(h, j) <=> q \in Backed(f, j)
    /\ q \in Backed(f, j) => UnitAt(h, j, q) = UnitAt(f, j, q)

Grown(f, h, i, k, b, c, j, q) ==
    /\ j = i /\ q \div SLOTS = k /\ b # 0 =>
         /\ q \in Backed(h, j) /\ q \notin Backed(f, j)
         /\ UnitAt(h, j, q) = c[q % SLOTS]
    /\ ~(j = i /\ q \div SLOTS = k /\ b # 0) => UnitKept(f, h, j, q)
Replaced(f, h, i, k, c, j, q) ==
    /\ j = i /\ q \div SLOTS = k =>
         /\ q \in Backed(h, j) /\ q \in Backed(f, j)
         /\ UnitAt(h, j, q) = c[q % SLOTS]
         /\ UnitAt(f, j, q) = f.disk[f.ptrs[i][k]][q % SLOTS]
    /\ ~(j = i /\ q \div SLOTS = k) => UnitKept(f, h, j, q)

LEMMA ExtendUnits ==
    ASSUME JfsAssumption, NEW f \in FsState, NEW h, NEW b \in Blocks \ f.used,
           NEW i \in Inodes, NEW k \in Pointers, NEW c \in [Room -> Unit], Extended(f, h, i, k, b, c),
           Owners(f), f.ptrs[i][k] = 0, NEW j \in Inodes, NEW q \in Positions
    PROVE  Grown(f, h, i, k, b, c, j, q)
<1> DEFINE l == q \div SLOTS
           r == q % SLOTS
<1>1. /\ Typed(f) /\ h.ptrs = [f.ptrs EXCEPT ![i][k] = b] /\ h.disk = [f.disk EXCEPT ![b] = c]
      /\ h \in FsState
  BY Fields DEF Extended
<1>2. l \in Pointers /\ r \in Room
  BY Places
<1>3. h.ptrs[j][l] = IF j = i /\ l = k THEN b ELSE f.ptrs[j][l]
  BY <1>1, <1>2 DEF Typed
<1>4. \A x \in Blocks : h.disk[x] = IF x = b THEN c ELSE f.disk[x]
  BY <1>1 DEF Typed
<1>a. Placed(f, j, q) /\ Placed(h, j, q)
  BY <1>1, Reads
<1>5. /\ UnitAt(f, j, q) = f.disk[f.ptrs[j][l]][r] /\ UnitAt(h, j, q) = h.disk[h.ptrs[j][l]][r]
      /\ q \in Backed(f, j) <=> f.ptrs[j][l] # 0
      /\ q \in Backed(h, j) <=> h.ptrs[j][l] # 0
      /\ f.ptrs[j][l] \in Blocks
  BY <1>1, <1>a DEF Placed
<1>6. f.ptrs[j][l] # 0 => f.ptrs[j][l] # b
  BY <1>2, <1>5 DEF Owners, InUse
<1> HIDE DEF l, r
<1>7. ASSUME j = i, l = k, b # 0
      PROVE  q \in Backed(h, j) /\ q \notin Backed(f, j) /\ UnitAt(h, j, q) = c[r]
  BY <1>3, <1>4, <1>5, <1>7
<1>8. ASSUME ~(j = i /\ l = k /\ b # 0) PROVE UnitKept(f, h, j, q)
  BY <1>3, <1>4, <1>5, <1>6, <1>8 DEF UnitKept
<1> QED BY <1>7, <1>8 DEF l, r, Grown

LEMMA RewriteUnits ==
    ASSUME JfsAssumption, NEW f \in FsState, NEW h,
           NEW i \in Inodes, NEW k \in Pointers, NEW c \in [Room -> Unit],
           Rewritten(f, h, f.ptrs[i][k], c),
           Owners(f), f.ptrs[i][k] # 0, NEW j \in Inodes, NEW q \in Positions
    PROVE  Replaced(f, h, i, k, c, j, q)
<1> DEFINE l == q \div SLOTS
           r == q % SLOTS
           b == f.ptrs[i][k]
<1>1. /\ Typed(f) /\ h.ptrs = f.ptrs /\ h.disk = [f.disk EXCEPT ![b] = c] /\ h \in FsState
  BY Fields DEF Rewritten
<1>2. l \in Pointers /\ r \in Room
  BY Places
<1>4. \A x \in Blocks : h.disk[x] = IF x = b THEN c ELSE f.disk[x]
  BY <1>1 DEF Typed
<1>a. Placed(f, j, q) /\ Placed(h, j, q)
  BY <1>1, Reads
<1>5. /\ UnitAt(f, j, q) = f.disk[f.ptrs[j][l]][r] /\ UnitAt(h, j, q) = h.disk[f.ptrs[j][l]][r]
      /\ q \in Backed(f, j) <=> f.ptrs[j][l] # 0
      /\ q \in Backed(h, j) <=> f.ptrs[j][l] # 0
      /\ f.ptrs[j][l] \in Blocks
  BY <1>1, <1>a DEF Placed
<1>6. f.ptrs[j][l] # 0 /\ f.ptrs[j][l] = b => j = i /\ l = k
  BY <1>2 DEF Owners, Exclusive
<1> HIDE DEF l, r
<1>7. ASSUME j = i, l = k
      PROVE  /\ q \in Backed(h, j) /\ q \in Backed(f, j) /\ UnitAt(h, j, q) = c[r]
             /\ UnitAt(f, j, q) = f.disk[b][r]
  BY <1>4, <1>5, <1>7
<1>8. ASSUME ~(j = i /\ l = k) PROVE UnitKept(f, h, j, q)
  BY <1>4, <1>5, <1>6, <1>8 DEF UnitKept
<1> QED BY <1>7, <1>8 DEF l, r, Replaced

-----------------------------------------------------------------------------
(* jfs_dir_add: one position of d lists i, and the rest is as before.      *)
Listing(f, h, d, i, p) ==
    /\ \A j \in Inodes \ {d}, q \in Positions : UnitKept(f, h, j, q)
    /\ \A e, j \in Inodes, q \in Positions :
          Lists(h, e, q, j) => Lists(f, e, q, j) \/ (e = d /\ q = p /\ j = i)
Added(f, h, d, i) ==
    /\ h \in FsState /\ h.type = f.type /\ h.size = f.size
    /\ Owners(h) /\ (CountsOf(f) => CountsOf(h)) /\ (LogTrue(f) => LogTrue(h))
    /\ \E p \in Int : Listing(f, h, d, i, p)

LEMMA ListsKept ==
    ASSUME NEW f, NEW h, NEW e, NEW q, NEW j, UnitKept(f, h, e, q), h.type = f.type
    PROVE  Lists(h, e, q, j) => Lists(f, e, q, j)
BY DEF UnitKept, Lists

LEMMA AddToSlot ==
    ASSUME JfsAssumption, NEW f \in FsState, Owners(f), NEW d \in Inodes, NEW n \in Names,
           NEW i \in Inodes, NEW p \in Positions, p \in Backed(f, d), NEW h,
           h = [f EXCEPT !.disk[f.ptrs[d][p \div SLOTS]][p % SLOTS] = DirEntry(n, i)]
    PROVE  Added(f, h, d, i)
<1> DEFINE k == p \div SLOTS
           b == f.ptrs[d][k]
           c == [f.disk[b] EXCEPT ![p % SLOTS] = DirEntry(n, i)]
<1>1. k \in Pointers /\ p % SLOTS \in Room /\ b \in Blocks /\ b # 0 /\ p \in Int
  <2>1. Placed(f, d, p)
    BY Reads
  <2> QED BY <2>1, Places DEF Positions, Placed
<1>2. f.disk \in [Blocks -> [Room -> Unit]]
  BY Fields DEF Typed
<1>3. DirEntry(n, i) \in Unit /\ DirEntry(n, i).ino = i
  BY DEF DirEntry, Unit
<1>4. c \in [Room -> Unit] /\ \A r \in Room : c[r] = IF r = p % SLOTS THEN DirEntry(n, i) ELSE f.disk[b][r]
  BY <1>1, <1>2, <1>3
<1>5. h = [f EXCEPT !.disk[b] = c]
  BY DEF FsState
<1> HIDE DEF c, k, b
<1>6. Rewritten(f, h, b, c)
  BY <1>1, <1>4, <1>5, Rewrite
<1>7. h \in FsState /\ h.type = f.type /\ h.size = f.size
  BY <1>6 DEF Rewritten
<1>8. Owners(h) /\ (CountsOf(f) => CountsOf(h)) /\ (LogTrue(f) => LogTrue(h))
  BY <1>6, RewriteOwns
<1>9. ASSUME NEW j \in Inodes, NEW q \in Positions
      PROVE  /\ j = d /\ q \div SLOTS = k =>
                  /\ q \in Backed(f, j)
                  /\ UnitAt(h, j, q) = c[q % SLOTS]
                  /\ UnitAt(f, j, q) = f.disk[b][q % SLOTS]
             /\ ~(j = d /\ q \div SLOTS = k) => UnitKept(f, h, j, q)
  <2>1. Replaced(f, h, d, k, c, j, q)
    BY <1>1, <1>4, <1>6, RewriteUnits DEF b
  <2> QED BY <2>1 DEF Replaced, b
<1>10. ASSUME NEW e \in Inodes, NEW j \in Inodes, NEW q \in Positions, Lists(h, e, q, j)
       PROVE  Lists(f, e, q, j) \/ (e = d /\ q = p /\ j = i)
  <2>1. CASE ~(e = d /\ q \div SLOTS = k)
    BY <1>7, <1>9, <1>10, <2>1, ListsKept
  <2>2. CASE e = d /\ q \div SLOTS = k
    <3>1. q % SLOTS \in Room
      BY Places
    <3>2. CASE q % SLOTS = p % SLOTS
      <4>1. q = p
        BY <2>2, <3>2, Apart DEF k
      <4>2. j = i
        BY <1>3, <1>4, <1>9, <1>10, <2>2, <3>1, <3>2 DEF Lists
      <4> QED BY <2>2, <4>1, <4>2
    <3>3. CASE q % SLOTS # p % SLOTS
      <4>1. c[q % SLOTS] = f.disk[b][q % SLOTS]
        BY <1>4, <3>1, <3>3
      <4>2. q \in Backed(f, e) /\ UnitAt(h, e, q) = UnitAt(f, e, q)
        BY <1>9, <2>2, <4>1
      <4> QED BY <1>7, <1>10, <4>2 DEF Lists
    <3> QED BY <3>2, <3>3
  <2> QED BY <2>1, <2>2
<1>11. Listing(f, h, d, i, p)
  BY <1>9, <1>10 DEF Listing
<1> QED BY <1>1, <1>7, <1>8, <1>11 DEF Added

LEMMA AddBlock ==
    ASSUME JfsAssumption, NEW f \in FsState, Owners(f), NEW d \in Inodes, f.type[d] # "FREE",
           NEW n \in Names, NEW i \in Inodes,
           NEW k \in Pointers, f.ptrs[d][k] = 0, NEW b \in Blocks \ f.used, NEW c, NEW h,
           c = [ZeroBlock EXCEPT ![0] = DirEntry(n, i)], Extended(f, h, d, k, b, c)
    PROVE  Added(f, h, d, i)
<1>1. DirEntry(n, i) \in Unit /\ DirEntry(n, i).ino = i /\ ZeroUnit \in Unit /\ ZeroUnit.ino = 0
  BY TableSizes DEF DirEntry, ZeroUnit, Unit
<1>2. c \in [Room -> Unit] /\ \A r \in Room : c[r] = IF r = 0 THEN DirEntry(n, i) ELSE ZeroUnit
  BY <1>1, TableSizes DEF ZeroBlock, Room
<1>3. h \in FsState /\ h.type = f.type /\ h.size = f.size
  BY DEF Extended
<1>4. Owners(h) /\ (CountsOf(f) => CountsOf(h)) /\ (LogTrue(f) => LogTrue(h))
  BY ExtendOwns
<1>5. ASSUME NEW j \in Inodes, NEW q \in Positions
      PROVE  /\ j = d /\ q \div SLOTS = k /\ b # 0 => UnitAt(h, j, q) = c[q % SLOTS]
             /\ ~(j = d /\ q \div SLOTS = k /\ b # 0) => UnitKept(f, h, j, q)
  <2>1. Grown(f, h, d, k, b, c, j, q)
    BY <1>2, ExtendUnits
  <2> QED BY <2>1 DEF Grown
<1> DEFINE p == k * SLOTS
<1>6. p \in Int
  BY TableSizes DEF Pointers
<1>7. ASSUME NEW e \in Inodes, NEW j \in Inodes, NEW q \in Positions, Lists(h, e, q, j)
      PROVE  Lists(f, e, q, j) \/ (e = d /\ q = p /\ j = i)
  <2>1. CASE ~(e = d /\ q \div SLOTS = k /\ b # 0)
    BY <1>3, <1>5, <1>7, <2>1, ListsKept
  <2>2. CASE e = d /\ q \div SLOTS = k /\ b # 0
    <3>1. q % SLOTS \in Room /\ q = k * SLOTS + (q % SLOTS)
      BY <2>2, Places
    <3>2. UnitAt(h, e, q).ino = j /\ j # 0
      BY <1>7 DEF Lists
    <3>3. q % SLOTS = 0 /\ j = i
      BY <1>1, <1>2, <1>5, <2>2, <3>1, <3>2
    <3> QED BY <1>6, <2>2, <3>1, <3>3
  <2> QED BY <2>1, <2>2
<1>8. Listing(f, h, d, i, p)
  BY <1>5, <1>7 DEF Listing
<1> QED BY <1>3, <1>4, <1>6, <1>8 DEF Added

LEMMA DirAdd ==
    ASSUME JfsAssumption, NEW f \in FsState, Owners(f), NEW d \in Inodes, f.type[d] # "FREE",
           NEW n \in Names, NEW i \in Inodes
    PROVE  LET a == jfs_dir_add(f, d, n, i)
           IN  \/ a.ok = FALSE /\ a.fs = f
               \/ a.ok = TRUE /\ Added(f, a.fs, d, i)
<1> DEFINE slots == {p \in Backed(f, d) : UnitAt(f, d, p).ino = 0}
           room == {k \in 0 .. PTRS - 1 : f.ptrs[d][k] = 0}
           l == jfs_alloc_block(f)
           a == jfs_dir_add(f, d, n, i)
<1>1. CASE slots # {}
  <2> DEFINE p == Min(slots)
  <2>1. slots \subseteq Positions /\ slots \subseteq Nat
    BY Places DEF Backed
  <2>2. p \in slots
    BY <1>1, <2>1, SomeLeast
  <2>3. a = [ok |-> TRUE,
             fs |-> [f EXCEPT !.disk[f.ptrs[d][p \div SLOTS]][p % SLOTS] = DirEntry(n, i)]]
    BY <1>1 DEF jfs_dir_add
  <2>4. p \in Positions /\ p \in Backed(f, d)
    BY <2>1, <2>2
  <2> HIDE DEF p, slots, a
  <2>5. Added(f, a.fs, d, i)
    BY <2>3, <2>4, AddToSlot
  <2>6. a.ok = TRUE
    BY <2>3
  <2> QED BY <2>5, <2>6 DEF a
<1>2. CASE slots = {} /\ (room = {} \/ l.blk = NoBlock)
  <2>1. a = [ok |-> FALSE, fs |-> f]
    BY <1>2 DEF jfs_dir_add
  <2> QED BY <2>1
<1>3. CASE slots = {} /\ room # {} /\ l.blk # NoBlock
  <2> DEFINE k == Min(room)
             b == l.blk
             c == [ZeroBlock EXCEPT ![0] = DirEntry(n, i)]
  <2>1. room \subseteq Nat /\ room \subseteq Pointers
    BY TableSizes DEF Pointers
  <2>2. k \in room
    BY <1>3, <2>1, SomeLeast
  <2>3. a = [ok |-> TRUE, fs |-> [l.fs EXCEPT !.ptrs[d][k] = b, !.disk[b] = c]]
    BY <1>3 DEF jfs_dir_add
  <2>4. /\ b \in Blocks \ f.used
        /\ l.fs = [f EXCEPT !.used = f.used \cup {b},
                            !.super.free_blocks = f.super.free_blocks - 1,
                            !.disk[b] = ZeroBlock]
    BY <1>3, Alloc
  <2>5. k \in Pointers /\ f.ptrs[d][k] = 0
    BY <2>1, <2>2
  <2>6. c \in [Room -> Unit]
    BY TableSizes DEF ZeroBlock, Room, DirEntry, ZeroUnit, Unit
  <2> HIDE DEF k, b, l, a, room, slots
  <2>7. Extended(f, a.fs, d, k, b, c)
    <3> HIDE DEF c
    <3> QED BY <2>3, <2>4, <2>5, <2>6, Extend
  <2>8. Added(f, a.fs, d, i)
    BY <2>4, <2>5, <2>7, AddBlock
  <2> QED BY <2>3, <2>8 DEF a
<1> QED BY <1>1, <1>2, <1>3

-----------------------------------------------------------------------------
(* Inode i starts anew, as t, without the blocks it had.                   *)
NoBlocks == [k \in Pointers |-> 0]
Renewed(f, h, i, t) ==
    /\ h \in FsState
    /\ h.type = [f.type EXCEPT ![i] = t]
    /\ h.ptrs = [f.ptrs EXCEPT ![i] = NoBlocks]
    /\ h.used = f.used \ Owned(f, i)
    /\ h.disk = f.disk

Anew(f, i, t, s) ==
    [f EXCEPT !.super = s, !.type[i] = t, !.size[i] = 0,
              !.ptrs[i] = [k \in 0 .. PTRS - 1 |-> 0],
              !.used = f.used \ Owned(f, i)]

LEMMA Renew ==
    ASSUME JfsAssumption, NEW f \in FsState, NEW i \in Inodes, NEW t \in Kinds, NEW s \in Super
    PROVE  /\ Renewed(f, Anew(f, i, t, s), i, t) /\ SameJournal(f, Anew(f, i, t, s))
           /\ Anew(f, i, t, s).super = s
<1> DEFINE h == Anew(f, i, t, s)
           y == [f.type EXCEPT ![i] = t]
           z == [f.size EXCEPT ![i] = 0]
           p == [f.ptrs EXCEPT ![i] = NoBlocks]
           u == f.used \ Owned(f, i)
<1>1. Typed(f)
  BY Fields
<1>2. NoBlocks \in [Pointers -> Blocks]
  BY TableSizes DEF NoBlocks
<1>3. /\ y \in [Inodes -> Kinds] /\ z \in [Inodes -> Nat] /\ p \in [Inodes -> [Pointers -> Blocks]]
      /\ u \in SUBSET Blocks /\ f.disk \in [Blocks -> [Room -> Unit]]
  BY <1>1, <1>2 DEF Typed
<1>4. h = [f EXCEPT !.super = s, !.type = y, !.ptrs = p, !.size = z, !.used = u, !.disk = f.disk]
  BY DEF FsState, NoBlocks, Pointers, Anew
<1> HIDE DEF h, y, z, p, u
<1>5. [f EXCEPT !.super = s, !.type = y, !.ptrs = p, !.size = z, !.used = u, !.disk = f.disk] \in FsState
  BY ONLY <1>3, SetData, f \in FsState, s \in Super
<1>6. h.super = s /\ h.type = y /\ h.ptrs = p /\ h.used = u /\ h.disk = f.disk /\ SameJournal(f, h)
  BY <1>4 DEF FsState, SameJournal
<1> QED BY <1>4, <1>5, <1>6 DEF Renewed, h, y, p, u

LEMMA RenewOwns ==
    ASSUME JfsAssumption, NEW f \in FsState, NEW i \in Inodes, NEW t \in Kinds, NEW h,
           Renewed(f, h, i, t), Owners(f)
    PROVE  Owners(h)
<1>1. Typed(f) /\ h.ptrs = [f.ptrs EXCEPT ![i] = NoBlocks] /\ h.type = [f.type EXCEPT ![i] = t]
      /\ h.used = f.used \ Owned(f, i)
  BY Fields DEF Renewed
<1>2. \A j \in Inodes, l \in Pointers : h.ptrs[j][l] = IF j = i THEN 0 ELSE f.ptrs[j][l]
  BY <1>1 DEF Typed, NoBlocks
<1>3. Exclusive(h)
  BY <1>2 DEF Owners, Exclusive
<1>4. InUse(h)
  <2> SUFFICES ASSUME NEW x \in Blocks \ {0}
               PROVE  x \in h.used <=> \E j \in Inodes, l \in Pointers : h.ptrs[j][l] = x
    BY DEF InUse
  <2>1. x \in f.used <=> \E j \in Inodes, l \in Pointers : f.ptrs[j][l] = x
    BY DEF Owners, InUse
  <2>2. x \in Owned(f, i) <=> \E l \in Pointers : f.ptrs[i][l] = x
    BY DEF Owned, Pointers
  <2>3. CASE x \in Owned(f, i)
    <3>1. PICK l \in Pointers : f.ptrs[i][l] = x
      BY <2>2, <2>3
    <3>2. \A j \in Inodes \ {i}, m \in Pointers : f.ptrs[j][m] # x
      BY <3>1 DEF Owners, Exclusive
    <3> QED BY <1>1, <1>2, <2>3, <3>2
  <2>4. CASE x \notin Owned(f, i)
    BY <1>1, <1>2, <2>1, <2>2, <2>4
  <2> QED BY <2>3, <2>4
<1>5. Unowned(h)
  BY <1>1, <1>2 DEF Owners, Unowned, Typed
<1> QED BY <1>3, <1>4, <1>5 DEF Owners

LEMMA RenewUnits ==
    ASSUME JfsAssumption, NEW f \in FsState, NEW i \in Inodes, NEW t \in Kinds, NEW h,
           Renewed(f, h, i, t), NEW j \in Inodes, NEW q \in Positions
    PROVE  /\ j # i => UnitKept(f, h, j, q) /\ h.type[j] = f.type[j]
           /\ j = i => q \notin Backed(h, j)
<1>1. Typed(f) /\ h.ptrs = [f.ptrs EXCEPT ![i] = NoBlocks] /\ h.type = [f.type EXCEPT ![i] = t]
      /\ h.disk = f.disk /\ h \in FsState
  BY Fields DEF Renewed
<1>2. q \div SLOTS \in Pointers /\ Placed(f, j, q) /\ Placed(h, j, q)
  BY <1>1, Places, Reads
<1>3. h.ptrs[j][q \div SLOTS] = IF j = i THEN 0 ELSE f.ptrs[j][q \div SLOTS]
  BY <1>1, <1>2 DEF Typed, NoBlocks
<1>4. j # i => h.type[j] = f.type[j]
  BY <1>1 DEF Typed
<1> QED BY <1>1, <1>2, <1>3, <1>4 DEF Placed, UnitKept

LEMMA RenewLists ==
    ASSUME JfsAssumption, NEW f \in FsState, NEW i \in Inodes, NEW t \in Kinds, NEW h,
           Renewed(f, h, i, t), NEW e \in Inodes, NEW q \in Positions, NEW j, Lists(h, e, q, j)
    PROVE  Lists(f, e, q, j)
<1>1. e # i
  BY RenewUnits DEF Lists
<1>2. UnitKept(f, h, e, q) /\ h.type[e] = f.type[e]
  BY <1>1, RenewUnits
<1> QED BY <1>2 DEF UnitKept, Lists

Unlisted(f, i) == \A d \in Inodes, p \in Positions : ~Lists(f, d, p, i)

LEMMA RenewEntries ==
    ASSUME JfsAssumption, NEW f \in FsState, NEW i \in Inodes, NEW t \in Kinds, NEW h,
           Renewed(f, h, i, t), Entries(f), t # "FREE" \/ Unlisted(f, i)
    PROVE  Entries(h)
<1> SUFFICES ASSUME NEW d \in Inodes, NEW p \in Positions, NEW j \in Inodes, Lists(h, d, p, j)
             PROVE  /\ h.type[j] # "FREE"
                    /\ \A e \in Inodes, q \in Positions : Lists(h, e, q, j) => e = d /\ q = p
  BY DEF Entries
<1>1. Lists(f, d, p, j)
  BY RenewLists
<1>2. \A e \in Inodes, q \in Positions : Lists(h, e, q, j) => Lists(f, e, q, j)
  BY RenewLists
<1>3. f.type[j] # "FREE" /\ \A e \in Inodes, q \in Positions : Lists(f, e, q, j) => e = d /\ q = p
  BY <1>1 DEF Entries
<1>4. h.type[j] # "FREE"
  <2>1. Typed(f) /\ h.type = [f.type EXCEPT ![i] = t]
    BY Fields DEF Renewed
  <2> QED BY <1>1, <1>3, <2>1 DEF Typed, Unlisted
<1> QED BY <1>2, <1>3, <1>4

-----------------------------------------------------------------------------
(* What a call does to the volume.                                         *)
TextsStay(f, g) ==
    \A j \in Inodes : g.type[j] = "FILE" =>
        \/ f.type[j] = "FILE" /\ \A q \in Positions : UnitKept(f, g, j, q)
        \/ f.type[j] = "FREE" /\ \A q \in Positions : q \notin Backed(g, j)
Follows(f, g) == Sound(g) /\ (CountsOf(f) => CountsOf(g)) /\ TextsStay(f, g)

LEMMA AllKept ==
    ASSUME JfsAssumption, NEW f, NEW h, NEW g, SameData(h, g), NEW j \in Inodes, NEW q
    PROVE  UnitKept(f, h, j, q) => UnitKept(f, g, j, q)
<1>1. Backed(g, j) = Backed(h, j) /\ UnitAt(g, j, q) = UnitAt(h, j, q)
  BY DataKept
<1> QED BY <1>1 DEF UnitKept

(* jfs_create and jfs_mkdir: the new inode has no blocks and no name.      *)
Born(f, g, i, t) ==
    /\ i \in Inodes \ {0} /\ f.type[i] = "FREE"
    /\ Sound(g) /\ (CountsOf(f) => CountsOf(g))
    /\ g.type = [f.type EXCEPT ![i] = t]
    /\ \A q \in Positions : q \notin Backed(g, i)
    /\ \A j \in Inodes \ {i}, q \in Positions : UnitKept(f, g, j, q)
    /\ Unlisted(g, i)

LEMMA Make ==
    ASSUME JfsAssumption, NEW f, Sound(f), NEW op \in {"CREATE", "MKDIR"}, NEW t \in {"FILE", "DIR"}
    PROVE  LET m == jfs_make(f, op, t)
           IN  \/ m.ino = NoInode /\ m.fs = f
               \/ m.ino # NoInode /\ Born(f, m.fs, m.ino, t)
<1> DEFINE m == jfs_make(f, op, t)
           free == {i \in Inodes \ {Root} : f.type[i] = "FREE"}
<1>1. CASE free = {}
  BY <1>1 DEF jfs_make, jfs_alloc_inode
<1>2. CASE free # {}
  <2> DEFINE i == Min(free)
             s == [f.super EXCEPT !.free_inodes = f.super.free_inodes - 1]
             h == [f EXCEPT !.super.free_inodes = f.super.free_inodes - 1, !.type[i] = t,
                            !.size[i] = 0, !.ptrs[i] = [k \in 0 .. PTRS - 1 |-> 0]]
             c == jfs_journal_commit(h, op, i)
             g == jfs_journal_flush(c)
  <2>0. free \subseteq Nat
    BY TableSizes
  <2>1. i \in free
    BY <1>2, <2>0, SomeLeast
  <2>2. i \in Inodes \ {0} /\ f.type[i] = "FREE" /\ i # NoInode
    BY <2>1, TableSizes
  <2>3. jfs_alloc_inode(f) = i
    BY <1>2 DEF jfs_alloc_inode
  <2>4. m = [ino |-> i, fs |-> g]
    BY <2>2, <2>3 DEF jfs_make
  <2>5. f \in FsState /\ Typed(f) /\ t \in Kinds /\ t # "FREE" /\ f.super.free_inodes - 1 \in Int
    BY Fields DEF Sound, Kinds, Typed, Super
  <2> HIDE DEF i, free, m
  <2>6. Owned(f, i) = {}
    BY <2>2 DEF Sound, Owners, Unowned, Owned, Pointers
  <2>7. s \in Super /\ s.free_blocks = f.super.free_blocks /\ s.free_inodes = f.super.free_inodes - 1
    <3>1. f.super \in Super
      BY <2>5 DEF Typed
    <3> QED BY <2>5, <3>1, SuperSet
  <2>8. h = Anew(f, i, t, s)
    BY ZenonT(60), <2>5, <2>6 DEF FsState, Anew
  <2> HIDE DEF h, s
  <2> HIDE DEF c, g
  <2>9. Renewed(f, h, i, t) /\ SameJournal(f, h) /\ h.super = s
    <3>1. i \in Inodes /\ f \in FsState /\ t \in Kinds /\ s \in Super
      BY <2>2, <2>5, <2>7
    <3> QED BY <2>8, <3>1, Renew
  <2>10. h \in FsState
    BY <2>9 DEF Renewed
  <2>11. c \in FsState /\ SameData(h, c) /\ (LogTrue(h) => LogTrue(c))
    BY <2>2, <2>10, CommitKeeps DEF c
  <2>12. g \in FsState /\ SameData(c, g) /\ (LogTrue(c) => LogTrue(g))
    BY <2>11, FlushKeeps DEF g
  <2>13. SameData(h, g)
    BY <2>11, <2>12 DEF SameData
  <2>14. LogTrue(g)
    BY <2>9, <2>11, <2>12, JournalKept DEF Sound
  <2>15. Owners(g)
    <3>1. Owners(h)
      BY <2>2, <2>5, <2>9, RenewOwns DEF Sound
    <3> QED BY <2>13, <3>1, DataKept
  <2>16. Entries(g)
    <3>1. Entries(h)
      BY <2>2, <2>5, <2>9, RenewEntries DEF Sound
    <3> QED BY <2>13, <3>1, DataKept
  <2>17. g.type = [f.type EXCEPT ![i] = t] /\ g.type[Root] = "DIR"
    BY <2>2, <2>5, <2>9, <2>13, TableSizes DEF Renewed, SameData, Sound, Typed
  <2>18. ASSUME CountsOf(f) PROVE CountsOf(g)
    <3>1. Vacant(h) = Vacant(f) \ {i} /\ i \in Vacant(f)
      BY <2>2, <2>5, <2>9 DEF Vacant, Renewed, Typed
    <3>2. IsFiniteSet(Vacant(f)) /\ Cardinality(Vacant(f)) \in Nat
      BY Finite DEF Vacant
    <3>3. Cardinality(Vacant(h)) = Cardinality(Vacant(f)) - 1
      BY <3>1, <3>2, FS_RemoveElement
    <3>4. h.used = f.used
      BY <2>6, <2>9 DEF Renewed
    <3>5. CountsOf(h)
      BY <2>7, <2>9, <2>18, <3>3, <3>4 DEF CountsOf
    <3> QED BY <2>13, <3>5, DataKept
  <2>19. ASSUME NEW q \in Positions PROVE q \notin Backed(g, i)
    <3>1. q \notin Backed(h, i)
      BY <2>2, <2>5, <2>9, RenewUnits
    <3> QED BY <2>2, <2>13, <3>1, DataKept
  <2>20. ASSUME NEW j \in Inodes \ {i}, NEW q \in Positions PROVE UnitKept(f, g, j, q)
    <3>1. UnitKept(f, h, j, q)
      BY <2>2, <2>5, <2>9, RenewUnits
    <3> QED BY <2>13, <3>1, AllKept
  <2>21. Unlisted(g, i)
    <3> SUFFICES ASSUME NEW d \in Inodes, NEW p \in Positions, Lists(g, d, p, i) PROVE FALSE
      BY DEF Unlisted
    <3>1. Lists(h, d, p, i)
      BY <2>13, DataKept
    <3>2. Lists(f, d, p, i)
      BY <2>2, <2>5, <2>9, <3>1, RenewLists
    <3> QED BY <2>2, <3>2 DEF Sound, Entries
  <2>22. Sound(g)
    BY <2>12, <2>14, <2>15, <2>16, <2>17 DEF Sound
  <2>23. Born(f, g, i, t)
    BY <2>2, <2>17, <2>18, <2>19, <2>20, <2>21, <2>22 DEF Born
  <2>24. m.ino = i /\ m.fs = g
    BY <2>4
  <2> QED BY <2>2, <2>23, <2>24 DEF m
<1> QED BY <1>1, <1>2

(* jfs_unlink, for an inode that no directory lists any more.              *)
Gone(f, g, i) ==
    /\ Sound(g) /\ (CountsOf(f) => CountsOf(g))
    /\ g.type = [f.type EXCEPT ![i] = "FREE"]
    /\ \A j \in Inodes \ {i}, q \in Positions : UnitKept(f, g, j, q)

LEMMA UnlinkGone ==
    ASSUME JfsAssumption, NEW f, Sound(f), NEW i \in Inodes \ {0}, f.type[i] # "FREE", Unlisted(f, i)
    PROVE  Gone(f, jfs_unlink(f, i), i)
<1> DEFINE c == jfs_journal_commit(f, "UNLINK", i)
           a == Cardinality(Owned(f, i) \cap f.used)
           s == [[c.super EXCEPT !.free_blocks = c.super.free_blocks + a]
                   EXCEPT !.free_inodes = c.super.free_inodes + 1]
           h == Anew(c, i, "FREE", s)
           g == jfs_journal_flush(h)
<1>1. f \in FsState /\ Typed(f) /\ i \in Inodes /\ "FREE" \in Kinds
  BY Fields DEF Sound, Kinds
<1>2. c \in FsState /\ SameData(f, c) /\ (LogTrue(f) => LogTrue(c))
  BY <1>1, CommitKeeps
<1>3. a \in Nat
  <2>1. Owned(f, i) \cap f.used \in SUBSET Blocks
    BY <1>1 DEF Typed
  <2> QED BY <2>1, Finite
<1> HIDE DEF c, a
<1>4. c.super = f.super /\ Owned(c, i) = Owned(f, i) /\ c.used = f.used
  BY <1>2 DEF SameData, Owned
<1>5. jfs_unlink(f, i) = g
  <2>1. [c EXCEPT !.used = @ \ Owned(f, i), !.super.free_blocks = @ + a,
                  !.ptrs[i] = [k \in 0 .. PTRS - 1 |-> 0],
                  !.super.free_inodes = @ + 1, !.type[i] = "FREE", !.size[i] = 0] = h
    BY ZenonT(60), <1>2, <1>4 DEF FsState, Anew
  <2> QED BY <2>1 DEF jfs_unlink, c, a
<1>6. /\ s \in Super /\ s.free_blocks = f.super.free_blocks + a
      /\ s.free_inodes = f.super.free_inodes + 1
  <2>1. c.super \in Super /\ c.super.free_blocks + a \in Int /\ c.super.free_inodes + 1 \in Int
    BY <1>1, <1>3, <1>4 DEF Typed, Super
  <2> DEFINE x == [c.super EXCEPT !.free_blocks = c.super.free_blocks + a]
  <2>2. /\ x \in Super /\ x.free_blocks = c.super.free_blocks + a
        /\ x.free_inodes = c.super.free_inodes
    BY <2>1, SuperSet
  <2>3. s = [x EXCEPT !.free_inodes = c.super.free_inodes + 1]
    OBVIOUS
  <2> DEFINE n == c.super.free_inodes + 1
  <2>4. n \in Int
    BY <2>1
  <2> HIDE DEF x, n
  <2>5. /\ [x EXCEPT !.free_inodes = n] \in Super
        /\ [x EXCEPT !.free_inodes = n].free_blocks = x.free_blocks
        /\ [x EXCEPT !.free_inodes = n].free_inodes = n
    BY <2>2, <2>4, SuperSet
  <2> QED BY <1>4, <2>2, <2>3, <2>5 DEF n
<1> HIDE DEF s
<1>7. Renewed(c, h, i, "FREE") /\ SameJournal(c, h) /\ h.super = s
  BY <1>1, <1>2, <1>6, Renew
<1> HIDE DEF h
<1>8. h \in FsState
  BY <1>7 DEF Renewed
<1>9. g \in FsState /\ SameData(h, g) /\ (LogTrue(h) => LogTrue(g))
  BY <1>8, FlushKeeps
<1> HIDE DEF g
<1>10. LogTrue(g)
  BY <1>2, <1>7, <1>9, JournalKept DEF Sound
<1>11. Owners(c) /\ Entries(c) /\ Unlisted(c, i)
  BY <1>2, DataKept DEF Sound, Unlisted
<1>12. Owners(g) /\ Entries(g)
  <2>1. Owners(h) /\ Entries(h)
    BY <1>1, <1>2, <1>7, <1>11, RenewOwns, RenewEntries
  <2> QED BY <1>9, <2>1, DataKept
<1>13. g.type = [f.type EXCEPT ![i] = "FREE"] /\ g.type[Root] = "DIR"
  BY <1>1, <1>2, <1>7, <1>9, TableSizes DEF Renewed, SameData, Sound, Typed
<1>14. ASSUME CountsOf(f) PROVE CountsOf(g)
  <2>1. Vacant(g) = Vacant(f) \cup {i} /\ i \notin Vacant(f)
    BY <1>1, <1>13 DEF Vacant, Typed
  <2>2. IsFiniteSet(Vacant(f)) /\ Cardinality(Vacant(f)) \in Nat
    BY Finite DEF Vacant
  <2>3. Cardinality(Vacant(g)) = Cardinality(Vacant(f)) + 1
    BY <2>1, <2>2, FS_AddElement
  <2>4. g.super = s /\ g.used = f.used \ Owned(f, i)
    BY <1>4, <1>7, <1>9 DEF SameData, Renewed
  <2>5. IsFiniteSet(f.used) /\ Cardinality(f.used) \in Nat
    BY <1>1, Finite DEF Typed
  <2>6. Cardinality(f.used \ Owned(f, i)) = Cardinality(f.used) - Cardinality(f.used \cap Owned(f, i))
    BY <2>5, FS_Difference
  <2>7. f.used \cap Owned(f, i) = Owned(f, i) \cap f.used
    OBVIOUS
  <2>8. Cardinality(g.used) = Cardinality(f.used) - a
    BY <2>4, <2>6, <2>7 DEF a
  <2>9. f.super.free_blocks \in Int
    BY <1>1 DEF Typed, Super
  <2> QED BY <1>3, <1>6, <1>14, <2>3, <2>4, <2>5, <2>8, <2>9 DEF CountsOf
<1>15. ASSUME NEW j \in Inodes \ {i}, NEW q \in Positions PROVE UnitKept(f, g, j, q)
  <2>1. UnitKept(c, h, j, q)
    BY <1>1, <1>2, <1>7, RenewUnits
  <2>2. UnitKept(f, h, j, q)
    BY <1>2, <2>1, DataKept DEF UnitKept
  <2> QED BY <1>9, <2>2, AllKept
<1>16. Sound(g)
  BY <1>9, <1>10, <1>12, <1>13 DEF Sound
<1>17. Gone(f, g, i)
  BY <1>13, <1>14, <1>15, <1>16 DEF Gone
<1> QED BY <1>5, <1>17 DEF g

(* An entry is cleared.                                                    *)
Cleared(f, h, d, p) ==
    /\ Sound(h) /\ (CountsOf(f) => CountsOf(h)) /\ h.type = f.type
    /\ \A j \in Inodes \ {d}, q \in Positions : UnitKept(f, h, j, q)
    /\ \A e \in Inodes, q \in Positions, j \in Inodes :
          Lists(h, e, q, j) => Lists(f, e, q, j) /\ ~(e = d /\ q = p)

LEMMA Clear ==
    ASSUME JfsAssumption, NEW f, Sound(f), NEW d \in Inodes, NEW p \in Positions, p \in Backed(f, d),
           NEW h, h = [f EXCEPT !.disk[f.ptrs[d][p \div SLOTS]][p % SLOTS] = ZeroUnit]
    PROVE  Cleared(f, h, d, p)
<1> DEFINE k == p \div SLOTS
           b == f.ptrs[d][k]
           c == [f.disk[b] EXCEPT ![p % SLOTS] = ZeroUnit]
<1>0. f \in FsState /\ Owners(f)
  BY DEF Sound
<1>1. k \in Pointers /\ p % SLOTS \in Room /\ b \in Blocks /\ b # 0
  <2>1. Placed(f, d, p)
    BY <1>0, Reads
  <2> QED BY <2>1, Places DEF Placed
<1>2. f.disk \in [Blocks -> [Room -> Unit]]
  BY <1>0, Fields DEF Typed
<1>3. ZeroUnit \in Unit /\ ZeroUnit.ino = 0
  BY TableSizes DEF ZeroUnit, Unit
<1>4. c \in [Room -> Unit] /\ \A r \in Room : c[r] = IF r = p % SLOTS THEN ZeroUnit ELSE f.disk[b][r]
  BY <1>1, <1>2, <1>3
<1>5. h = [f EXCEPT !.disk[b] = c]
  BY <1>0 DEF FsState
<1> HIDE DEF c, k, b
<1>6. Rewritten(f, h, b, c)
  BY <1>0, <1>1, <1>4, <1>5, Rewrite
<1>7. h \in FsState /\ h.type = f.type
  BY <1>6 DEF Rewritten
<1>8. Owners(h) /\ (CountsOf(f) => CountsOf(h)) /\ LogTrue(h)
  BY <1>0, <1>6, RewriteOwns DEF Sound
<1>9. ASSUME NEW j \in Inodes, NEW q \in Positions PROVE Replaced(f, h, d, k, c, j, q)
  BY <1>0, <1>1, <1>4, <1>6, RewriteUnits DEF b
<1>10. ASSUME NEW e \in Inodes, NEW q \in Positions, NEW j, Lists(h, e, q, j)
       PROVE  Lists(f, e, q, j) /\ ~(e = d /\ q = p)
  <2>1. CASE ~(e = d /\ q \div SLOTS = k)
    <3>1. UnitKept(f, h, e, q)
      BY <1>9, <2>1 DEF Replaced
    <3> QED BY <1>7, <1>10, <2>1, <3>1, ListsKept DEF k
  <2>2. CASE e = d /\ q \div SLOTS = k
    <3>1. /\ q \in Backed(f, e) /\ UnitAt(h, e, q) = c[q % SLOTS] /\ q % SLOTS \in Room
          /\ UnitAt(f, e, q) = f.disk[b][q % SLOTS]
      BY <1>9, <2>2, Places DEF Replaced, b
    <3>2. UnitAt(h, e, q).ino = j /\ j # 0 /\ h.type[e] = "DIR"
      BY <1>10 DEF Lists
    <3>3. q % SLOTS # p % SLOTS
      BY <1>3, <1>4, <3>1, <3>2
    <3>4. UnitAt(h, e, q) = UnitAt(f, e, q)
      BY <1>4, <3>1, <3>3
    <3> QED BY <1>7, <3>1, <3>2, <3>3, <3>4 DEF Lists
  <2> QED BY <2>1, <2>2
<1>11. Entries(h)
  <2> SUFFICES ASSUME NEW x \in Inodes, NEW y \in Positions, NEW j \in Inodes, Lists(h, x, y, j)
               PROVE  /\ h.type[j] # "FREE"
                      /\ \A e \in Inodes, q \in Positions : Lists(h, e, q, j) => e = x /\ q = y
    BY DEF Entries
  <2>1. Lists(f, x, y, j)
    BY <1>10
  <2>2. \A e \in Inodes, q \in Positions : Lists(h, e, q, j) => Lists(f, e, q, j)
    BY <1>10
  <2>3. /\ f.type[j] # "FREE"
        /\ \A e \in Inodes, q \in Positions : Lists(f, e, q, j) => e = x /\ q = y
    BY <2>1 DEF Sound, Entries
  <2> QED BY <1>7, <2>2, <2>3
<1>12. Sound(h)
  BY <1>7, <1>8, <1>11 DEF Sound
<1>13. \A j \in Inodes \ {d}, q \in Positions : UnitKept(f, h, j, q)
  BY <1>9 DEF Replaced
<1> QED BY <1>7, <1>8, <1>10, <1>12, <1>13 DEF Cleared

LEMMA OpsUnlink ==
    ASSUME JfsAssumption, NEW f, Sound(f), NEW d \in Inodes, NEW n \in Names,
           jfs_dir_lookup(f, d, n) # NoInode
    PROVE  Follows(f, jfs_ops_unlink(f, d, n))
<1> DEFINE p == Min(Matches(f, d, n))
           i == UnitAt(f, d, p).ino
           h == [f EXCEPT !.disk[f.ptrs[d][p \div SLOTS]][p % SLOTS] = ZeroUnit]
           g == jfs_unlink(h, i)
<1>1. f.type[d] = "DIR" /\ Matches(f, d, n) # {} /\ jfs_dir_lookup(f, d, n) = i
  BY DEF jfs_dir_lookup
<1>2. p \in Matches(f, d, n)
  <2>1. Matches(f, d, n) \subseteq Positions /\ Matches(f, d, n) \subseteq Nat
    BY Places DEF Matches, Backed
  <2> QED BY <1>1, <2>1, SomeLeast
<1>3. p \in Positions /\ p \in Backed(f, d) /\ i # 0
  BY <1>2 DEF Matches, Backed
<1>4. i \in Inodes
  <2>1. Placed(f, d, p)
    BY <1>3, Reads DEF Sound
  <2> QED BY <2>1 DEF Placed, Unit
<1>5. Lists(f, d, p, i)
  BY <1>1, <1>3 DEF Lists
<1>6. jfs_ops_unlink(f, d, n) = g
  BY <1>1 DEF jfs_ops_unlink
<1> HIDE DEF p, i
<1>7. /\ Sound(h) /\ (CountsOf(f) => CountsOf(h)) /\ h.type = f.type
      /\ \A j \in Inodes \ {d}, q \in Positions : UnitKept(f, h, j, q)
      /\ \A e \in Inodes, q \in Positions, j \in Inodes :
            Lists(h, e, q, j) => Lists(f, e, q, j) /\ ~(e = d /\ q = p)
  <2>1. Cleared(f, h, d, p)
    BY <1>3, Clear
  <2> QED BY <2>1 DEF Cleared
<1> HIDE DEF h
<1>8. f.type[i] # "FREE" /\ Unlisted(h, i)
  BY <1>3, <1>4, <1>5, <1>7 DEF Sound, Entries, Unlisted
<1>9. Gone(h, g, i)
  BY <1>3, <1>4, <1>7, <1>8, UnlinkGone
<1> HIDE DEF g
<1>10. TextsStay(f, g)
  <2> SUFFICES ASSUME NEW j \in Inodes, g.type[j] = "FILE"
               PROVE  f.type[j] = "FILE" /\ \A q \in Positions : UnitKept(f, g, j, q)
    BY DEF TextsStay
  <2>1. j # i /\ f.type[j] = "FILE"
    BY <1>4, <1>7, <1>9, Fields DEF Gone, Sound, Typed
  <2>2. j # d
    BY <1>1, <2>1
  <2> QED BY <1>7, <1>9, <2>1, <2>2 DEF Gone, UnitKept
<1> QED BY <1>6, <1>7, <1>9, <1>10 DEF Gone, Follows

(* A name is added for the inode just made.                                *)
LEMMA AddedNew ==
    ASSUME JfsAssumption, NEW f, NEW h, NEW g, NEW t \in {"FILE", "DIR"}, NEW i, Born(f, h, i, t),
           NEW d \in Inodes, f.type[d] = "DIR", Sound(f), Added(h, g, d, i)
    PROVE  Follows(f, g)
<1>1. i \in Inodes \ {0} /\ f.type[i] = "FREE" /\ Sound(h) /\ h.type = [f.type EXCEPT ![i] = t] /\ d # i
  BY DEF Born
<1>2. PICK p \in Int : Listing(h, g, d, i, p)
  BY DEF Added
<1>3. Typed(f) /\ g.type = h.type
  BY Fields DEF Sound, Added
<1>4. Entries(g)
  <2> SUFFICES ASSUME NEW e \in Inodes, NEW q \in Positions, NEW j \in Inodes, Lists(g, e, q, j)
               PROVE  /\ g.type[j] # "FREE"
                      /\ \A x \in Inodes, y \in Positions : Lists(g, x, y, j) => x = e /\ y = q
    BY DEF Entries
  <2>1. \A x \in Inodes, y \in Positions : Lists(g, x, y, j) => Lists(h, x, y, j) \/ (x = d /\ y = p /\ j = i)
    BY <1>2 DEF Listing
  <2>2. CASE j = i
    <3>1. \A x \in Inodes, y \in Positions : ~Lists(h, x, y, j)
      BY <2>2 DEF Born, Unlisted
    <3>2. g.type[j] # "FREE"
      BY <1>1, <1>3, <2>2 DEF Typed
    <3> QED BY <2>1, <3>1, <3>2
  <2>3. CASE j # i
    BY <1>1, <1>3, <2>1, <2>3 DEF Sound, Entries
  <2> QED BY <2>2, <2>3
<1>5. Sound(g)
  BY <1>1, <1>3, <1>4 DEF Sound, Added
<1>6. TextsStay(f, g)
  <2> SUFFICES ASSUME NEW j \in Inodes, g.type[j] = "FILE"
               PROVE  \/ f.type[j] = "FILE" /\ \A q \in Positions : UnitKept(f, g, j, q)
                      \/ f.type[j] = "FREE" /\ \A q \in Positions : q \notin Backed(g, j)
    BY DEF TextsStay
  <2>1. j # d
    BY <1>1, <1>3 DEF Typed
  <2>2. \A q \in Positions : UnitKept(h, g, j, q)
    BY <1>2, <2>1 DEF Listing
  <2>3. CASE j = i
    BY <1>1, <2>2, <2>3 DEF Born, UnitKept
  <2>4. CASE j # i
    BY <1>1, <1>3, <2>2, <2>4 DEF Born, UnitKept, Typed
  <2> QED BY <2>3, <2>4
<1> QED BY <1>5, <1>6 DEF Follows, Added, Born

LEMMA OpsCreate ==
    ASSUME JfsAssumption, NEW f, Sound(f), NEW d \in Inodes, f.type[d] = "DIR", NEW n \in Names
    PROVE  Follows(f, jfs_ops_create(f, d, n).fs)
<1> DEFINE m == jfs_make(f, "CREATE", "FILE")
           a == jfs_dir_add(m.fs, d, n, m.ino)
           g == jfs_ops_create(f, d, n).fs
<1>0. Follows(f, f)
  BY DEF Follows, TextsStay, UnitKept
<1>1. \/ m.ino = NoInode /\ m.fs = f
      \/ m.ino # NoInode /\ Born(f, m.fs, m.ino, "FILE")
  BY Make
<1>2. CASE m.ino = NoInode
  BY <1>0, <1>2 DEF jfs_ops_create
<1>3. CASE m.ino # NoInode
  <2> DEFINE i == m.ino
             h == m.fs
  <2>1. Born(f, h, i, "FILE")
    BY <1>1, <1>3
  <2>2. g = IF ~a.ok THEN jfs_unlink(a.fs, i) ELSE a.fs
    BY <1>3 DEF jfs_ops_create
  <2> HIDE DEF i, h, m, g
  <2>3. i \in Inodes \ {0} /\ f.type[i] = "FREE" /\ Sound(h) /\ h.type = [f.type EXCEPT ![i] = "FILE"]
    BY <2>1 DEF Born
  <2>4. d # i /\ h \in FsState /\ Owners(h) /\ Typed(f) /\ h.type[d] = "DIR" /\ h.type[i] = "FILE"
    BY <2>3, Fields DEF Sound, Typed
  <2>5. \/ a.ok = FALSE /\ a.fs = h
        \/ a.ok = TRUE /\ Added(h, a.fs, d, i)
    BY <2>3, <2>4, DirAdd DEF h, i
  <2> HIDE DEF a
  <2>6. CASE a.ok = TRUE
    BY <2>1, <2>2, <2>5, <2>6, AddedNew DEF g
  <2>7. CASE a.ok = FALSE
    <3>1. g = jfs_unlink(h, i) /\ Unlisted(h, i)
      BY <2>1, <2>2, <2>5, <2>7 DEF Born
    <3>2. Gone(h, g, i)
      BY <2>3, <2>4, <3>1, UnlinkGone
    <3>3. TextsStay(f, g)
      <4> SUFFICES ASSUME NEW j \in Inodes, g.type[j] = "FILE"
                   PROVE  f.type[j] = "FILE" /\ \A q \in Positions : UnitKept(f, g, j, q)
        BY DEF TextsStay
      <4>1. j # i
        BY <2>3, <2>4, <3>2, Fields DEF Gone, Typed, Sound
      <4> QED BY <2>1, <2>3, <2>4, <3>2, <4>1 DEF Born, Gone, UnitKept, Typed
    <3>4. Follows(f, g)
      BY <2>1, <3>2, <3>3 DEF Follows, Gone, Born
    <3> QED BY <3>4 DEF g
  <2> QED BY <2>5, <2>6, <2>7
<1> QED BY <1>2, <1>3

LEMMA OpsMkdir ==
    ASSUME JfsAssumption, NEW f, Sound(f), NEW d \in Inodes, f.type[d] = "DIR", NEW n \in Names
    PROVE  Follows(f, jfs_ops_mkdir(f, d, n))
<1> DEFINE m == jfs_make(f, "MKDIR", "DIR")
           a == jfs_dir_add(m.fs, d, n, m.ino)
           g == jfs_ops_mkdir(f, d, n)
<1>0. Follows(f, f)
  BY DEF Follows, TextsStay, UnitKept
<1>1. \/ m.ino = NoInode /\ m.fs = f
      \/ m.ino # NoInode /\ Born(f, m.fs, m.ino, "DIR")
  BY Make
<1>2. CASE m.ino = NoInode
  BY <1>0, <1>2 DEF jfs_ops_mkdir
<1>3. CASE m.ino # NoInode
  <2> DEFINE i == m.ino
             h == m.fs
  <2>1. Born(f, h, i, "DIR")
    BY <1>1, <1>3
  <2>2. g = a.fs
    BY <1>3 DEF jfs_ops_mkdir
  <2> HIDE DEF i, h, m, g
  <2>3. i \in Inodes \ {0} /\ f.type[i] = "FREE" /\ Sound(h) /\ h.type = [f.type EXCEPT ![i] = "DIR"]
    BY <2>1 DEF Born
  <2>4. d # i /\ h \in FsState /\ Owners(h) /\ Typed(f) /\ h.type[d] = "DIR"
    BY <2>3, Fields DEF Sound, Typed
  <2>5. \/ a.ok = FALSE /\ a.fs = h
        \/ a.ok = TRUE /\ Added(h, a.fs, d, i)
    BY <2>3, <2>4, DirAdd DEF h, i
  <2> HIDE DEF a
  <2>6. CASE a.ok = TRUE
    BY <2>1, <2>2, <2>5, <2>6, AddedNew DEF g
  <2>7. CASE a.ok = FALSE
    <3>1. TextsStay(f, h)
      BY <2>1, <2>3, <2>4 DEF Born, TextsStay, Typed
    <3>2. Follows(f, g)
      BY <2>1, <2>2, <2>5, <2>7, <3>1 DEF Follows, Born
    <3> QED BY <3>2 DEF g
  <2> QED BY <2>5, <2>6, <2>7
<1> QED BY <1>2, <1>3

-----------------------------------------------------------------------------
(* What the part of a write of v to the range D of file i does that falls  *)
(* into the blocks K: of the units the file has there afterwards those in  *)
(* D hold v, the others what they held, or zero if there was no block.     *)
UnitWritten(f, g, i, K, D, v, q) ==
    /\ q \div SLOTS \notin K => UnitKept(f, g, i, q)
    /\ q \div SLOTS \in K =>
         /\ q \in Backed(f, i) => q \in Backed(g, i)
         /\ q \in Backed(g, i) =>
              UnitAt(g, i, q).what = IF q \in D THEN v
                                     ELSE IF q \in Backed(f, i) THEN UnitAt(f, i, q).what
                                     ELSE "zero"
Partly(f, g, i, K, D, v) ==
    /\ Sound(g) /\ (CountsOf(f) => CountsOf(g)) /\ g.type = f.type
    /\ \A j \in Inodes \ {i}, q \in Positions : UnitKept(f, g, j, q)
    /\ \A q \in Positions : UnitWritten(f, g, i, K, D, v, q)

LEMMA NoPart ==
    ASSUME NEW f, Sound(f), NEW i, NEW D, NEW v PROVE Partly(f, f, i, {}, D, v)
BY DEF Partly, UnitKept, UnitWritten

LEMMA PartsJoin ==
    ASSUME NEW f, NEW g, NEW h, NEW i, NEW v, NEW D, NEW K, NEW L,
           Partly(f, g, i, K, D, v), Partly(g, h, i, L, D, v), K \cap L = {}
    PROVE  Partly(f, h, i, K \cup L, D, v)
<1>1. \A j \in Inodes \ {i}, q \in Positions : UnitKept(f, h, j, q)
  BY DEF Partly, UnitKept
<1>2. ASSUME NEW q \in Positions PROVE UnitWritten(f, h, i, K \cup L, D, v, q)
  <2>1. UnitWritten(f, g, i, K, D, v, q) /\ UnitWritten(g, h, i, L, D, v, q)
    BY DEF Partly
  <2> QED BY <2>1 DEF UnitWritten, UnitKept
<1> QED BY <1>1, <1>2 DEF Partly

(* Only the data and the journal of file i change.                         *)
LEMMA PartSound ==
    ASSUME NEW f, Sound(f), NEW h, NEW i \in Inodes, f.type[i] = "FILE",
           h \in FsState, h.type = f.type, Owners(h), LogTrue(h),
           \A j \in Inodes \ {i}, q \in Positions : UnitKept(f, h, j, q)
    PROVE  Sound(h)
<1>1. ASSUME NEW e \in Inodes, NEW q \in Positions, NEW j, Lists(h, e, q, j) PROVE Lists(f, e, q, j)
  <2>1. e # i
    BY <1>1 DEF Lists
  <2> QED BY <1>1, <2>1, ListsKept
<1>2. Entries(h)
  <2> SUFFICES ASSUME NEW x \in Inodes, NEW y \in Positions, NEW j \in Inodes, Lists(h, x, y, j)
               PROVE  /\ h.type[j] # "FREE"
                      /\ \A e \in Inodes, q \in Positions : Lists(h, e, q, j) => e = x /\ q = y
    BY DEF Entries
  <2>1. Lists(f, x, y, j)
    BY <1>1
  <2>2. \A e \in Inodes, q \in Positions : Lists(h, e, q, j) => Lists(f, e, q, j)
    BY <1>1
  <2>3. /\ f.type[j] # "FREE"
        /\ \A e \in Inodes, q \in Positions : Lists(f, e, q, j) => e = x /\ q = y
    BY <2>1 DEF Sound, Entries
  <2> QED BY <2>2, <2>3
<1> QED BY <1>2 DEF Sound

(* The journal may still be written.                                       *)
LEMMA PartLogged ==
    ASSUME JfsAssumption, NEW f, NEW h, NEW g, NEW i, NEW K, NEW D, NEW v, Partly(f, h, i, K, D, v),
           g \in FsState, SameData(h, g), LogTrue(h) => LogTrue(g)
    PROVE  Partly(f, g, i, K, D, v)
<1>1. Sound(g) /\ (CountsOf(f) => CountsOf(g)) /\ g.type = f.type
  BY DataKept DEF Partly, Sound, SameData
<1>2. \A j \in Inodes \ {i}, q \in Positions : UnitKept(f, g, j, q)
  BY AllKept DEF Partly
<1>3. ASSUME NEW q \in Positions PROVE UnitWritten(f, g, i, K, D, v, q)
  <2>1. UnitWritten(f, h, i, K, D, v, q)
    BY DEF Partly
  <2>2. (q \in Backed(g, i) <=> q \in Backed(h, i)) /\ UnitAt(g, i, q) = UnitAt(h, i, q)
    BY DEF SameData, Backed, UnitAt
  <2> QED BY <2>1, <2>2 DEF UnitWritten, UnitKept
<1> QED BY <1>1, <1>2, <1>3 DEF Partly

(* The part of a write that falls into one block.                          *)
Here(k, range) == {p \in range : p \div SLOTS = k}
Stored(f, i, k, b, c, range, v) ==
    \A r \in Room : c[r] = IF k * SLOTS + r \in Here(k, range) THEN Piece(v)
                           ELSE IF f.ptrs[i][k] = 0 THEN ZeroUnit ELSE f.disk[b][r]

LEMMA InHere ==
    ASSUME JfsAssumption, NEW q \in Positions, NEW range
    PROVE  /\ q % SLOTS \in Room
           /\ (q \div SLOTS) * SLOTS + (q % SLOTS) \in Here(q \div SLOTS, range) <=> q \in range
BY Places DEF Here

LEMMA IntoNew ==
    ASSUME JfsAssumption, NEW f, Sound(f), NEW i \in Inodes, f.type[i] = "FILE",
           NEW k \in Pointers, f.ptrs[i][k] = 0, NEW b \in Blocks \ f.used, NEW range,
           NEW v \in Values, NEW c \in [Room -> Unit], Stored(f, i, k, b, c, range, v),
           NEW h, Extended(f, h, i, k, b, c)
    PROVE  Partly(f, h, i, {k}, range, v)
<1>1. f \in FsState /\ Owners(f) /\ LogTrue(f) /\ h \in FsState /\ h.type = f.type
  BY DEF Sound, Extended
<1>2. Owners(h) /\ (CountsOf(f) => CountsOf(h)) /\ LogTrue(h)
  BY <1>1, ExtendOwns
<1>3. ASSUME NEW j \in Inodes, NEW q \in Positions PROVE Grown(f, h, i, k, b, c, j, q)
  BY <1>1, ExtendUnits
<1>4. \A j \in Inodes \ {i}, q \in Positions : UnitKept(f, h, j, q)
  BY <1>3 DEF Grown
<1>5. ASSUME NEW q \in Positions PROVE UnitWritten(f, h, i, {k}, range, v, q)
  <2>1. Grown(f, h, i, k, b, c, i, q)
    BY <1>3
  <2>2. CASE q \div SLOTS = k /\ b # 0
    <3>1. q \in Backed(h, i) /\ q \notin Backed(f, i) /\ UnitAt(h, i, q) = c[q % SLOTS]
      BY <2>1, <2>2 DEF Grown
    <3>2. c[q % SLOTS] = IF q \in range THEN Piece(v) ELSE ZeroUnit
      BY <2>2, InHere DEF Stored
    <3> QED BY <2>2, <3>1, <3>2 DEF UnitWritten, Piece, ZeroUnit
  <2>3. CASE ~(q \div SLOTS = k /\ b # 0)
    <3>1. UnitKept(f, h, i, q)
      BY <2>1, <2>3 DEF Grown
    <3>2. q \div SLOTS = k => q \notin Backed(f, i)
      <4>1. Placed(f, i, q)
        BY <1>1, Reads
      <4> QED BY <4>1 DEF Placed
    <3> QED BY <3>1, <3>2 DEF UnitWritten, UnitKept
  <2> QED BY <2>2, <2>3
<1>6. Sound(h)
  BY <1>1, <1>2, <1>4, PartSound
<1> QED BY <1>1, <1>2, <1>4, <1>5, <1>6 DEF Partly

LEMMA IntoOld ==
    ASSUME JfsAssumption, NEW f, Sound(f), NEW i \in Inodes, f.type[i] = "FILE",
           NEW k \in Pointers, f.ptrs[i][k] # 0, NEW range,
           NEW v \in Values, NEW c \in [Room -> Unit], Stored(f, i, k, f.ptrs[i][k], c, range, v),
           NEW h, Rewritten(f, h, f.ptrs[i][k], c)
    PROVE  Partly(f, h, i, {k}, range, v)
<1>1. f \in FsState /\ Owners(f) /\ LogTrue(f) /\ h \in FsState /\ h.type = f.type
  BY DEF Sound, Rewritten
<1>2. Owners(h) /\ (CountsOf(f) => CountsOf(h)) /\ LogTrue(h)
  BY <1>1, RewriteOwns
<1>3. ASSUME NEW j \in Inodes, NEW q \in Positions PROVE Replaced(f, h, i, k, c, j, q)
  BY <1>1, RewriteUnits
<1>4. \A j \in Inodes \ {i}, q \in Positions : UnitKept(f, h, j, q)
  BY <1>3 DEF Replaced
<1>5. ASSUME NEW q \in Positions PROVE UnitWritten(f, h, i, {k}, range, v, q)
  <2>1. Replaced(f, h, i, k, c, i, q)
    BY <1>3
  <2>2. CASE q \div SLOTS = k
    <3>1. /\ q \in Backed(h, i) /\ q \in Backed(f, i) /\ UnitAt(h, i, q) = c[q % SLOTS]
          /\ UnitAt(f, i, q) = f.disk[f.ptrs[i][k]][q % SLOTS]
      BY <2>1, <2>2 DEF Replaced
    <3>2. c[q % SLOTS] = IF q \in range THEN Piece(v) ELSE UnitAt(f, i, q)
      BY <2>2, <3>1, InHere DEF Stored
    <3> QED BY <2>2, <3>1, <3>2 DEF UnitWritten, Piece
  <2>3. CASE q \div SLOTS # k
    <3>1. UnitKept(f, h, i, q)
      BY <2>1, <2>3 DEF Replaced
    <3> QED BY <2>3, <3>1 DEF UnitWritten, UnitKept
  <2> QED BY <2>2, <2>3
<1>6. Sound(h)
  BY <1>1, <1>2, <1>4, PartSound
<1> QED BY <1>1, <1>2, <1>4, <1>5, <1>6 DEF Partly

LEMMA BlockWritten ==
    ASSUME JfsAssumption, NEW f, Sound(f), NEW i \in Inodes, f.type[i] = "FILE",
           NEW k \in Nat, NEW range, NEW v \in Values
    PROVE  LET w == WriteBlock(f, i, k, range, v)
           IN  \/ w.full = TRUE /\ w.fs = f
               \/ w.full = FALSE /\ Partly(f, w.fs, i, {k}, range, v)
<1> DEFINE w == WriteBlock(f, i, k, range, v)
           needs == k < PTRS /\ f.ptrs[i][k] = 0
           l == jfs_alloc_block(f)
           a == IF needs THEN l ELSE [blk |-> f.ptrs[i][k], fs |-> f]
           b == a.blk
           c == [s \in 0 .. SLOTS - 1 |->
                   IF k * SLOTS + s \in {p \in range : p \div SLOTS = k} THEN Piece(v)
                   ELSE a.fs.disk[b][s]]
           h == [a.fs EXCEPT !.ptrs[i][k] = b, !.disk[b] = c]
<1>0. f \in FsState /\ Typed(f) /\ Owners(f) /\ Piece(v) \in Unit
  BY Fields, TableSizes DEF Sound, Piece, Unit
<1>1. CASE k >= PTRS
  <2> DEFINE g == jfs_journal_commit(f, "WRITE", i)
  <2>1. w.full = FALSE /\ w.fs = g
    BY <1>1 DEF WriteBlock
  <2>2. g \in FsState /\ SameData(f, g) /\ (LogTrue(f) => LogTrue(g))
    BY <1>0, CommitKeeps
  <2> HIDE DEF g, w
  <2>3. Partly(f, f, i, {k}, range, v)
    <3>1. ASSUME NEW q \in Positions PROVE UnitWritten(f, f, i, {k}, range, v, q)
      <4>1. q \div SLOTS # k
        BY <1>1, Places, TableSizes DEF Pointers
      <4> QED BY <4>1 DEF UnitWritten, UnitKept
    <3> QED BY <3>1 DEF Partly, UnitKept
  <2>4. Partly(f, g, i, {k}, range, v)
    BY <2>2, <2>3, PartLogged
  <2> QED BY <2>1, <2>4 DEF w
<1>2. CASE k < PTRS /\ b = NoBlock
  <2>1. ~(k >= PTRS) /\ a.blk = NoBlock
    BY <1>2, TableSizes
  <2>2. w = [full |-> TRUE, fs |-> f]
    BY <2>1 DEF WriteBlock
  <2> QED BY <2>2
<1>3. CASE k < PTRS /\ b # NoBlock
  <2> DEFINE g == jfs_journal_commit(h, "WRITE", i)
  <2>0. ~(k >= PTRS) /\ a.blk # NoBlock
    BY <1>3, TableSizes
  <2>1. w = [full |-> FALSE, fs |-> g]
    BY <2>0 DEF WriteBlock
  <2>2. k \in Pointers
    BY <1>3, TableSizes DEF Pointers
  <2>3. Partly(f, h, i, {k}, range, v)
    <3>1. CASE f.ptrs[i][k] = 0
      <4>1. a = l
        BY <1>3, <3>1
      <4>2. /\ b \in Blocks \ f.used
            /\ a.fs = [f EXCEPT !.used = f.used \cup {b},
                                !.super.free_blocks = f.super.free_blocks - 1,
                                !.disk[b] = ZeroBlock]
        BY <1>0, <1>3, <4>1, Alloc
      <4> HIDE DEF a, b, l
      <4>3. a.fs.disk[b] = ZeroBlock
        BY <1>0, <4>2 DEF FsState
      <4>4. c \in [Room -> Unit] /\ Stored(f, i, k, b, c, range, v)
        BY <1>0, <3>1, <4>3, TableSizes DEF Room, Stored, Here, ZeroBlock, ZeroUnit, Unit
      <4> HIDE DEF c
      <4>5. Extended(f, h, i, k, b, c)
        BY <1>0, <2>2, <4>2, <4>4, Extend
      <4> HIDE DEF h
      <4> QED BY <2>2, <3>1, <4>2, <4>4, <4>5, IntoNew
    <3>2. CASE f.ptrs[i][k] # 0
      <4>1. a = [blk |-> f.ptrs[i][k], fs |-> f] /\ b = f.ptrs[i][k] /\ a.fs = f
        BY <3>2
      <4> HIDE DEF a, b, l
      <4>2. b \in Blocks
        BY <1>0, <2>2, <4>1 DEF Typed
      <4>3. c \in [Room -> Unit] /\ Stored(f, i, k, b, c, range, v)
        BY <1>0, <3>2, <4>1, <4>2 DEF Room, Stored, Here, Typed
      <4> HIDE DEF c
      <4>4. h = [f EXCEPT !.disk[b] = c]
        <5>1. [f.ptrs EXCEPT ![i][k] = b] = f.ptrs
          BY <1>0, <2>2, <4>1 DEF Typed
        <5> QED BY <1>0, <4>1, <5>1 DEF FsState
      <4>5. Rewritten(f, h, b, c)
        BY <1>0, <4>2, <4>3, <4>4, Rewrite
      <4> HIDE DEF h
      <4> QED BY <2>2, <3>2, <4>1, <4>3, <4>5, IntoOld
    <3> QED BY <3>1, <3>2
  <2> HIDE DEF h, w
  <2>4. h \in FsState
    BY <2>3 DEF Partly, Sound
  <2>5. g \in FsState /\ SameData(h, g) /\ (LogTrue(h) => LogTrue(g))
    BY <2>4, CommitKeeps
  <2> HIDE DEF g
  <2>6. Partly(f, g, i, {k}, range, v)
    BY <2>3, <2>5, PartLogged
  <2> QED BY <2>1, <2>6 DEF w
<1>4. k >= PTRS \/ k < PTRS
  BY TableSizes
<1> QED BY <1>1, <1>2, <1>3, <1>4

(* The loop of jfs_write.                                                  *)
LEMMA NatSetInduction ==
    ASSUME NEW S, 0 \in S, \A n \in Nat : n \in S => n + 1 \in S
    PROVE  Nat \subseteq S
<1> SUFFICES ASSUME Nat \ S # {} PROVE FALSE
  OBVIOUS
<1> DEFINE n == Min(Nat \ S)
<1>1. n \in Nat \ S /\ \A m \in Nat \ S : n <= m
  BY SomeLeast
<1> HIDE DEF n
<1>2. n - 1 \in Nat /\ n - 1 \in S
  BY <1>1
<1> QED BY <1>1, <1>2

(* What a function on D gives when it is applied again and again.          *)
Iterates(f, D, a, G, N) ==
    f \in [0 .. N -> D] /\ f[0] = a /\ \A n \in 1 .. N : f[n] = G[f[n - 1]]
LEMMA Iteration ==
    ASSUME NEW D, NEW a \in D, NEW G \in [D -> D], NEW N \in Nat
    PROVE  \E f : Iterates(f, D, a, G, N)
<1> DEFINE Good(f, n) == f[0] = a /\ \A i \in 1 .. n : f[i] = G[f[i - 1]]
           S == {n \in Nat : \E f \in [0 .. n -> D] : Good(f, n)}
<1>1. 0 \in S
  <2> DEFINE f == [i \in 0 .. 0 |-> a]
  <2>1. f \in [0 .. 0 -> D] /\ Good(f, 0)
    OBVIOUS
  <2> QED BY <2>1
<1>2. ASSUME NEW n \in Nat, n \in S PROVE n + 1 \in S
  <2>1. PICK f \in [0 .. n -> D] : Good(f, n)
    BY <1>2
  <2> DEFINE g == [i \in 0 .. n + 1 |-> IF i = n + 1 THEN G[f[n]] ELSE f[i]]
  <2>2. g \in [0 .. n + 1 -> D] /\ g[0] = a
    BY <2>1
  <2>3. ASSUME NEW i \in 1 .. n + 1 PROVE g[i] = G[g[i - 1]]
    <3>1. i - 1 \in 0 .. n /\ g[i - 1] = f[i - 1]
      OBVIOUS
    <3> QED BY <2>1, <3>1
  <2>4. Good(g, n + 1)
    BY <2>2, <2>3
  <2> HIDE DEF g, Good
  <2> QED BY <2>2, <2>4
<1>3. Nat \subseteq S
  <2> HIDE DEF S
  <2> QED BY <1>1, <1>2, NatSetInduction
<1> QED BY <1>3 DEF Iterates

LEMMA Monotone ==
    ASSUME NEW d \in Nat \ {0}, NEW p \in Int, NEW q \in Int
    PROVE  /\ p <= q => p \div d <= q \div d
           /\ p \div d < q <=> p < d * q
<1> DEFINE k == p \div d
           l == q \div d
<1>1. k \in Int /\ p % d \in 0 .. d - 1 /\ p = d * k + (p % d)
  BY Divided
<1>2. l \in Int /\ q % d \in 0 .. d - 1 /\ q = d * l + (q % d)
  BY Divided
<1> HIDE DEF k, l
<1>3. d * k \in Int /\ d * l \in Int /\ d * q \in Int
  BY <1>1, <1>2
<1>4. l < k => d * l + d <= d * k
  BY <1>1, <1>2, Product
<1>5. k < q => d * k + d <= d * q
  BY <1>1, Product
<1>6. q < k => d * q + d <= d * k
  BY <1>1, Product
<1>7. p <= q => k <= l
  BY <1>1, <1>2, <1>3, <1>4
<1>8. k < q <=> p < d * q
  BY <1>1, <1>3, <1>5, <1>6
<1> QED BY <1>7, <1>8 DEF k, l

(* The loop of jfs_write: after r, the blocks before r.next are written.   *)
MoveOn(i, range, v, r) ==
    LET w == WriteBlock(r.fs, i, r.next, range, v)
    IN  IF r.full \/ w.full THEN [r EXCEPT !.full = TRUE]
        ELSE [full |-> FALSE, next |-> r.next + 1, fs |-> w.fs]
Progress(f, i, range, v, first) ==
    {r \in [full : BOOLEAN, next : Nat, fs : FsState] :
       r.next >= first /\ Partly(f, r.fs, i, first .. r.next - 1, range, v)}

LEMMA StepOn ==
    ASSUME JfsAssumption, NEW f, NEW i \in Inodes, f.type[i] = "FILE",
           NEW range, NEW v \in Values, NEW first \in Nat, NEW r \in Progress(f, i, range, v, first)
    PROVE  /\ MoveOn(i, range, v, r) \in Progress(f, i, range, v, first)
           /\ MoveOn(i, range, v, r).full \/ MoveOn(i, range, v, r).next = r.next + 1
<1> DEFINE w == WriteBlock(r.fs, i, r.next, range, v)
           x == MoveOn(i, range, v, r)
<1>1. /\ r \in [full : BOOLEAN, next : Nat, fs : FsState]
      /\ r.next >= first /\ Partly(f, r.fs, i, first .. r.next - 1, range, v)
      /\ r.full \in BOOLEAN /\ r.next \in Nat /\ r.fs \in FsState
  BY DEF Progress
<1>2. Sound(r.fs) /\ r.fs.type[i] = "FILE"
  BY <1>1 DEF Partly
<1>3. \/ w.full = TRUE /\ w.fs = r.fs
      \/ w.full = FALSE /\ Partly(r.fs, w.fs, i, {r.next}, range, v)
  BY <1>1, <1>2, BlockWritten
<1> HIDE DEF w
<1>4. CASE r.full \/ w.full
  <2>1. x = [r EXCEPT !.full = TRUE]
    BY <1>4 DEF MoveOn, w
  <2>2. /\ x \in [full : BOOLEAN, next : Nat, fs : FsState]
        /\ x.full = TRUE /\ x.next = r.next /\ x.fs = r.fs
    BY <1>1, <2>1
  <2> HIDE DEF x
  <2>3. x \in Progress(f, i, range, v, first)
    BY <1>1, <2>2 DEF Progress
  <2> QED BY <2>2, <2>3 DEF x
<1>5. CASE ~(r.full \/ w.full)
  <2>1. x = [full |-> FALSE, next |-> r.next + 1, fs |-> w.fs]
    BY <1>5 DEF MoveOn, w
  <2>2. Partly(r.fs, w.fs, i, {r.next}, range, v)
    BY <1>3, <1>5
  <2>3. /\ (first .. r.next - 1) \cap {r.next} = {}
        /\ (first .. r.next - 1) \cup {r.next} = first .. (r.next + 1) - 1
    BY <1>1
  <2>4. Partly(f, w.fs, i, first .. (r.next + 1) - 1, range, v)
    BY <1>1, <2>2, <2>3, PartsJoin
  <2>5. w.fs \in FsState
    BY <2>2 DEF Partly, Sound
  <2>6. /\ x \in [full : BOOLEAN, next : Nat, fs : FsState]
        /\ x.next = r.next + 1 /\ x.fs = w.fs /\ x.next >= first
    BY <1>1, <2>1, <2>5
  <2> HIDE DEF x
  <2>7. x \in Progress(f, i, range, v, first)
    BY <2>4, <2>6 DEF Progress
  <2> QED BY <2>6, <2>7 DEF x
<1> QED BY <1>4, <1>5

Loop(f, i, range, v, first, N) ==
    CHOOSE u : u = [n \in 0 .. N |->
                      IF n = 0 THEN [full |-> FALSE, next |-> first, fs |-> f]
                      ELSE MoveOn(i, range, v, u[n - 1])]

LEMMA LoopEnds ==
    ASSUME JfsAssumption, NEW f, Sound(f), NEW i \in Inodes, f.type[i] = "FILE",
           NEW range, NEW v \in Values, NEW first \in Nat, NEW N \in Nat
    PROVE  LET end == Loop(f, i, range, v, first, N)[N]
           IN  /\ end \in Progress(f, i, range, v, first)
               /\ end.full \/ end.next = first + N
<1> DEFINE D == Progress(f, i, range, v, first)
           a == [full |-> FALSE, next |-> first, fs |-> f]
           G == [r \in D |-> MoveOn(i, range, v, r)]
           Is(u) == u = [n \in 0 .. N |-> IF n = 0 THEN a ELSE MoveOn(i, range, v, u[n - 1])]
           u == Loop(f, i, range, v, first, N)
<1>1. a \in D
  <2>1. first .. first - 1 = {}
    OBVIOUS
  <2>2. Partly(f, f, i, first .. first - 1, range, v)
    BY <2>1, NoPart
  <2> QED BY <2>2 DEF Progress, Sound
<1>2. G \in [D -> D]
  BY StepOn
<1>3. \E g : Is(g)
  <2>1. PICK g : Iterates(g, D, a, G, N)
    <3> HIDE DEF D, a, G
    <3> QED BY <1>1, <1>2, Iteration
  <2> HIDE DEF D, a
  <2>2. ASSUME NEW n \in 1 .. N PROVE g[n] = MoveOn(i, range, v, g[n - 1])
    <3>1. n - 1 \in 0 .. N
      OBVIOUS
    <3> QED BY <2>1, <3>1 DEF Iterates
  <2>3. Is(g)
    <3>1. g \in [0 .. N -> D] /\ g[0] = a
      BY <2>1 DEF Iterates
    <3> HIDE DEF D, a, G
    <3>2. \A n \in 0 .. N : g[n] = IF n = 0 THEN a ELSE MoveOn(i, range, v, g[n - 1])
      BY <2>2, <3>1
    <3> QED BY <3>1, <3>2
  <2> QED BY <2>3
<1>4. Is(u)
  <2>1. u = CHOOSE g : Is(g)
    BY DEF Loop
  <2> HIDE DEF u, Is
  <2> QED BY <1>3, <2>1
<1> HIDE DEF u
<1>5. u[0] = a /\ \A n \in 0 .. N - 1 : u[n + 1] = MoveOn(i, range, v, u[n])
  <2> HIDE DEF a
  <2>1. u[0] = a
    BY <1>4
  <2>2. ASSUME NEW n \in 0 .. N - 1 PROVE u[n + 1] = MoveOn(i, range, v, u[n])
    <3>1. n + 1 \in 0 .. N /\ n + 1 # 0 /\ (n + 1) - 1 = n
      OBVIOUS
    <3>2. u[n + 1] = MoveOn(i, range, v, u[(n + 1) - 1])
      BY <1>4, <3>1
    <3> QED BY <3>1, <3>2
  <2> QED BY <2>1, <2>2
<1> DEFINE Right(r, n) == r \in D /\ (r.full \/ r.next = first + n)
           S == {n \in Nat : n <= N => Right(u[n], n)}
<1>6. 0 \in S
  BY <1>1, <1>5
<1>7. ASSUME NEW n \in Nat, n \in S PROVE n + 1 \in S
  <2> SUFFICES ASSUME n + 1 <= N PROVE Right(u[n + 1], n + 1)
    OBVIOUS
  <2>1. n \in 0 .. N - 1 /\ Right(u[n], n)
    BY <1>7
  <2>2. u[n + 1] = MoveOn(i, range, v, u[n])
    BY <1>5, <2>1
  <2>3. /\ MoveOn(i, range, v, u[n]) \in D
        /\ MoveOn(i, range, v, u[n]).full \/ MoveOn(i, range, v, u[n]).next = u[n].next + 1
    BY <2>1, StepOn
  <2>4. u[n].full => MoveOn(i, range, v, u[n]).full
    BY <2>1 DEF MoveOn, Progress
  <2> QED BY <2>1, <2>2, <2>3, <2>4
<1>8. Nat \subseteq S
  <2> HIDE DEF S
  <2> QED BY <1>6, <1>7, NatSetInduction
<1> QED BY <1>8 DEF u

(* A write: of what it reports as written nothing but v is found, and the  *)
(* rest of the file is as before.                                          *)
UnitStored(f, g, i, D, v, q) ==
    /\ q \in Backed(f, i) => q \in Backed(g, i)
    /\ q \in Backed(g, i) =>
         UnitAt(g, i, q).what = IF q \in D THEN v
                                ELSE IF q \in Backed(f, i) THEN UnitAt(f, i, q).what
                                ELSE "zero"
Wrote(f, g, i, D, v) ==
    /\ Sound(g) /\ (CountsOf(f) => CountsOf(g)) /\ g.type = f.type
    /\ \A j \in Inodes \ {i}, q \in Positions : UnitKept(f, g, j, q)
    /\ \A q \in Positions : UnitStored(f, g, i, D, v, q)

LEMMA PartWrote ==
    ASSUME NEW f, NEW g, NEW i, NEW K, NEW range, NEW v, Partly(f, g, i, K, range, v)
    PROVE  Wrote(f, g, i, {p \in range : p \div SLOTS \in K}, v)
<1> DEFINE D == {p \in range : p \div SLOTS \in K}
<1>1. ASSUME NEW q \in Positions PROVE UnitStored(f, g, i, D, v, q)
  <2>1. UnitWritten(f, g, i, K, range, v, q)
    BY DEF Partly
  <2> QED BY <2>1 DEF UnitStored, UnitWritten, UnitKept
<1> QED BY <1>1 DEF Partly, Wrote

LEMMA Sized ==
    ASSUME JfsAssumption, NEW f \in FsState, NEW i \in Inodes, NEW n \in Nat, NEW h,
           h = [f EXCEPT !.size[i] = n]
    PROVE  h \in FsState /\ SameData(f, h) /\ SameJournal(f, h)
<1> DEFINE z == [f.size EXCEPT ![i] = n]
<1>1. Typed(f)
  BY Fields
<1>2. /\ f.disk \in [Blocks -> [Room -> Unit]] /\ f.super \in Super /\ f.ptrs \in [Inodes -> [Pointers -> Blocks]]
      /\ f.used \in SUBSET Blocks /\ f.type \in [Inodes -> Kinds] /\ z \in [Inodes -> Nat]
  BY <1>1 DEF Typed
<1>3. h = [f EXCEPT !.super = f.super, !.type = f.type, !.ptrs = f.ptrs, !.size = z,
                    !.used = f.used, !.disk = f.disk]
  BY DEF FsState
<1> HIDE DEF z
<1>4. [f EXCEPT !.super = f.super, !.type = f.type, !.ptrs = f.ptrs, !.size = z,
                !.used = f.used, !.disk = f.disk] \in FsState
  BY ONLY <1>2, SetData, f \in FsState
<1> QED BY <1>3, <1>4 DEF FsState, SameData, SameJournal

(* The units of a range that lie in the blocks before n.                   *)
Reached(offset, total, n) ==
    LET range == offset .. offset + total - 1
        D == {p \in range : p \div SLOTS \in offset \div SLOTS .. n - 1}
    IN  /\ D = {p \in range : p \div SLOTS < n}
        /\ n > (offset + total - 1) \div SLOTS => D = range
        /\ offset .. offset + Cardinality(D) - 1 = D

LEMMA Prefix ==
    ASSUME JfsAssumption, NEW offset \in Nat, NEW total \in Nat \ {0}, NEW n \in Nat,
           n >= offset \div SLOTS
    PROVE  Reached(offset, total, n)
<1> DEFINE range == offset .. offset + total - 1
           D == {p \in range : p \div SLOTS \in offset \div SLOTS .. n - 1}
           m == SLOTS * n
<1>0. SLOTS \in Nat \ {0} /\ m \in Int /\ offset + total - 1 \in Int
  BY TableSizes
<1>1. ASSUME NEW p \in range
      PROVE  /\ p \div SLOTS \in Int /\ offset \div SLOTS <= p \div SLOTS
             /\ p \div SLOTS <= (offset + total - 1) \div SLOTS
             /\ p \div SLOTS < n <=> p < m
  BY <1>0, Monotone, Divided
<1>2. D = {p \in range : p \div SLOTS < n}
  <2>1. offset \div SLOTS \in Int
    BY <1>0, Divided
  <2> QED BY <1>1, <2>1
<1>3. n > (offset + total - 1) \div SLOTS => D = range
  <2>1. (offset + total - 1) \div SLOTS \in Int
    BY <1>0, Divided
  <2> QED BY <1>1, <1>2, <2>1
<1>4. D = {p \in range : p < m}
  BY <1>1, <1>2
<1> HIDE DEF D, m
<1>5. offset .. offset + Cardinality(D) - 1 = D
  <2>1. CASE m <= offset
    <3>1. D = {}
      BY <1>0, <1>4, <2>1
    <3>2. Cardinality(D) = 0
      BY <3>1, FS_EmptySet
    <3> QED BY <3>1, <3>2
  <2>2. CASE offset < m /\ m <= offset + total
    <3>0. m - 1 \in Int /\ m - 1 >= offset
      BY <1>0, <2>2
    <3>1. D = offset .. m - 1
      <4>1. ASSUME NEW p PROVE p \in D <=> p \in offset .. m - 1
        BY <1>0, <1>4, <2>2
      <4> QED BY <4>1
    <3>2. Cardinality(D) = m - offset
      <4>1. Cardinality(offset .. m - 1) = (m - 1) - offset + 1
        BY <3>0, FS_Interval
      <4> QED BY <1>0, <3>1, <4>1
    <3> QED BY <1>0, <3>1, <3>2
  <2>3. CASE offset + total < m
    <3>1. D = offset .. offset + total - 1
      BY SMTT(40), <1>0, <1>4, <2>3
    <3>2. Cardinality(D) = total
      <4>1. offset + total - 1 \in Int /\ offset + total - 1 >= offset
        BY <1>0
      <4>2. Cardinality(offset .. offset + total - 1)
              = (offset + total - 1) - offset + 1
        BY <1>0, <4>1, FS_Interval
      <4> QED BY <1>0, <3>1, <4>2
    <3> QED BY <3>1, <3>2
  <2> QED BY <1>0, <2>1, <2>2, <2>3
<1> QED BY <1>2, <1>3, <1>5 DEF D, Reached

LEMMA OpsWrite ==
    ASSUME JfsAssumption, NEW f, Sound(f), NEW i \in Inodes, f.type[i] = "FILE", NEW v \in Values,
           NEW offset \in Nat, NEW total \in Nat \ {0}
    PROVE  LET w == jfs_write(f, i, v, offset, total)
           IN  Wrote(f, w.fs, i, offset .. offset + w.done - 1, v)
<1> DEFINE w == jfs_write(f, i, v, offset, total)
           range == offset .. offset + total - 1
           first == offset \div SLOTS
           last == (offset + total - 1) \div SLOTS
           end == Loop(f, i, range, v, first, last - first + 1)[last - first + 1]
           K == first .. end.next - 1
           D == {p \in range : p \div SLOTS \in K}
           D2 == {p \in range : p \div SLOTS < end.next}
           size == end.fs.size[i]
           h == [end.fs EXCEPT !.size[i] = IF offset + total > size THEN offset + total ELSE size]
           g == jfs_journal_flush(h)
<1>1. first \in Nat /\ last \in Nat /\ first <= last
  <2>1. SLOTS \in Nat \ {0} /\ offset \in Int /\ offset + total - 1 \in Int /\ offset <= offset + total - 1
    BY TableSizes
  <2>2. first \in Int /\ last \in Int /\ first <= last
    BY <2>1, Divided, Monotone
  <2>3. ~(first < 0)
    BY <2>1, Monotone
  <2> QED BY <2>2, <2>3
<1>2. w = IF end.full THEN [done |-> Cardinality(D2), fs |-> end.fs]
          ELSE [done |-> total, fs |-> g]
  BY DEF jfs_write, Loop, MoveOn
<1> HIDE DEF w, first, last, end
<1>3. /\ end \in Progress(f, i, range, v, first)
      /\ end.full \/ end.next = first + (last - first + 1)
  <2>1. last - first + 1 \in Nat
    BY <1>1
  <2> QED BY <1>1, <2>1, LoopEnds DEF end
<1>4. end.next \in Nat /\ end.next >= first /\ end.full \in BOOLEAN /\ Partly(f, end.fs, i, K, range, v)
  BY <1>3 DEF Progress
<1>5. /\ D = D2
      /\ end.next > last => D = range
      /\ offset .. offset + Cardinality(D) - 1 = D
  <2>1. Reached(offset, total, end.next)
    BY <1>4, Prefix DEF first
  <2> QED BY <2>1 DEF Reached, first, last
<1>6. CASE end.full
  <2>1. w.fs = end.fs /\ w.done = Cardinality(D)
    BY <1>2, <1>5, <1>6
  <2>2. Wrote(f, end.fs, i, D, v)
    BY <1>4, PartWrote
  <2> QED BY <1>5, <2>1, <2>2 DEF w
<1>7. CASE ~ end.full
  <2>1. w.fs = g /\ w.done = total /\ D = range
    BY <1>1, <1>2, <1>3, <1>5, <1>7
  <2> DEFINE n == IF offset + total > size THEN offset + total ELSE size
  <2>2. end.fs \in FsState /\ size \in Nat
    BY <1>3, Fields DEF Progress, Typed
  <2>3. n \in Nat
    BY <2>2
  <2> HIDE DEF n
  <2>4. h \in FsState /\ SameData(end.fs, h) /\ SameJournal(end.fs, h)
    BY <2>2, <2>3, Sized DEF n
  <2> HIDE DEF h
  <2>5. g \in FsState /\ SameData(h, g) /\ (LogTrue(h) => LogTrue(g))
    BY <2>4, FlushKeeps
  <2> HIDE DEF g
  <2>6. SameData(end.fs, g) /\ (LogTrue(end.fs) => LogTrue(g))
    BY <2>4, <2>5, JournalKept DEF SameData
  <2>7. Partly(f, g, i, K, range, v)
    BY <1>4, <2>5, <2>6, PartLogged
  <2>8. Wrote(f, g, i, D, v)
    BY <2>7, PartWrote
  <2> QED BY <2>1, <2>8 DEF w
<1> QED BY <1>6, <1>7

-----------------------------------------------------------------------------
(* The history and the volume.                                             *)
LEMMA TextsForget ==
    ASSUME JfsAssumption, NEW f, NEW g, NEW w, NEW x, Texts(f, w), Follows(f, g), Sound(f),
           x = [i \in Inodes |-> IF g.type[i] = "FILE" THEN w[i] ELSE <<>>]
    PROVE  DOMAIN x = Inodes /\ Texts(g, x)
<1> SUFFICES ASSUME NEW i \in Inodes
             PROVE  /\ g.type[i] # "FILE" => DOMAIN x[i] = {}
                    /\ g.type[i] = "FILE" =>
                         /\ DOMAIN x[i] \subseteq Backed(g, i)
                         /\ \A p \in Backed(g, i) :
                               UnitAt(g, i, p).what = IF p \in DOMAIN x[i] THEN x[i][p] ELSE "zero"
  BY DEF Texts
<1>1. CASE g.type[i] # "FILE"
  <2>1. x[i] = << >>
    BY <1>1
  <2> QED BY <1>1, <2>1
<1>2. CASE g.type[i] = "FILE"
  <2>1. x[i] = w[i] /\ Backed(g, i) \subseteq Positions /\ Backed(f, i) \subseteq Positions
    BY <1>2 DEF Backed
  <2>2. CASE f.type[i] = "FILE" /\ \A q \in Positions : UnitKept(f, g, i, q)
    BY <1>2, <2>1, <2>2 DEF UnitKept, Texts
  <2>3. CASE f.type[i] = "FREE" /\ \A q \in Positions : q \notin Backed(g, i)
    <3>1. DOMAIN x[i] = {} /\ Backed(g, i) = {}
      BY <2>1, <2>3 DEF Texts
    <3> QED BY <1>2, <3>1
  <2> QED BY <1>2, <2>2, <2>3 DEF Follows, TextsStay
<1> QED BY <1>1, <1>2

Noted(w, i, new, v) ==
    [w EXCEPT ![i] = [p \in new \cup DOMAIN w[i] |-> IF p \in new THEN v ELSE w[i][p]]]
LEMMA TextsWritten ==
    ASSUME NEW f, NEW g, NEW w, NEW i \in Inodes, NEW D, NEW v, NEW new,
           Texts(f, w), DOMAIN w = Inodes, Wrote(f, g, i, D, v), f.type[i] = "FILE",
           new = D \cap Backed(g, i)
    PROVE  DOMAIN Noted(w, i, new, v) = Inodes /\ Texts(g, Noted(w, i, new, v))
<1> DEFINE x == Noted(w, i, new, v)
<1>0. DOMAIN x = Inodes
  BY DEF Noted
<1> SUFFICES ASSUME NEW j \in Inodes
             PROVE  /\ g.type[j] # "FILE" => DOMAIN x[j] = {}
                    /\ g.type[j] = "FILE" =>
                         /\ DOMAIN x[j] \subseteq Backed(g, j)
                         /\ \A p \in Backed(g, j) :
                               UnitAt(g, j, p).what = IF p \in DOMAIN x[j] THEN x[j][p] ELSE "zero"
  BY <1>0 DEF Texts
<1>1. CASE j # i
  <2>1. x[j] = w[j] /\ g.type[j] = f.type[j] /\ \A q \in Positions : UnitKept(f, g, j, q)
    BY <1>1 DEF Wrote, Noted
  <2>2. Backed(g, j) \subseteq Positions /\ Backed(f, j) \subseteq Positions
    BY DEF Backed
  <2> QED BY <2>1, <2>2 DEF UnitKept, Texts
<1>2. CASE j = i
  <2> DEFINE y == [p \in new \cup DOMAIN w[i] |-> IF p \in new THEN v ELSE w[i][p]]
  <2>1. x[i] = y
    BY DEF Noted
  <2>2. Backed(g, i) \subseteq Positions /\ Backed(f, i) \subseteq Positions
    BY DEF Backed
  <2>3. /\ g.type[i] = "FILE" /\ DOMAIN w[i] \subseteq Backed(f, i)
        /\ \A q \in Positions : UnitStored(f, g, i, D, v, q)
    BY DEF Texts, Wrote
  <2>4. DOMAIN y = new \cup DOMAIN w[i] /\ \A p \in DOMAIN y : y[p] = IF p \in new THEN v ELSE w[i][p]
    OBVIOUS
  <2> HIDE DEF y
  <2>5. DOMAIN y \subseteq Backed(g, i)
    BY <2>2, <2>3, <2>4 DEF UnitStored
  <2>6. ASSUME NEW p \in Backed(g, i)
        PROVE  UnitAt(g, i, p).what = IF p \in DOMAIN y THEN y[p] ELSE "zero"
    <3>1. UnitStored(f, g, i, D, v, p) /\ (p \in D <=> p \in new)
      BY <2>2, <2>3
    <3>2. p \in Backed(f, i) =>
            UnitAt(f, i, p).what = IF p \in DOMAIN w[i] THEN w[i][p] ELSE "zero"
      BY DEF Texts
    <3>3. p \notin Backed(f, i) => p \notin DOMAIN w[i]
      BY <2>3
    <3> QED BY <2>4, <3>1, <3>2, <3>3 DEF UnitStored
  <2> QED BY <1>2, <2>1, <2>3, <2>5, <2>6
<1> QED BY <1>1, <1>2

-----------------------------------------------------------------------------
(* A file system that has just been mounted is empty.                      *)
LEMMA MountSound ==
    ASSUME JfsAssumption, NEW s \in Super, NEW d \in [Blocks -> [Room -> Unit]],
           NEW l \in [Turn -> Entry], NEW x, x = [i \in Inodes |-> <<>>]
    PROVE  Sound(Mounted(s, d, l)) /\ Texts(Mounted(s, d, l), x)
<1> DEFINE f == Mounted(s, d, l)
<1>1. f \in FsState
  BY TableSizes DEF Mounted, FsState, Room, Turn, Entry, NoEntry, JournalEntry
<1>2. /\ f.type = [i \in Inodes |-> IF i = Root THEN "DIR" ELSE "FREE"]
      /\ f.ptrs = [i \in Inodes |-> [k \in Pointers |-> 0]]
      /\ f.used = {} /\ f.head = 0 /\ f.tail = 0 /\ f.count = 0
      /\ f.entries = [j \in Turn |-> NoEntry]
  BY DEF Mounted, Pointers, Turn
<1> HIDE DEF f
<1>3. \A i \in Inodes, k \in Pointers : f.ptrs[i][k] = 0
  BY <1>2
<1>4. Owners(f)
  BY <1>2, <1>3 DEF Owners, Exclusive, InUse, Unowned
<1>5. ASSUME NEW i \in Inodes, NEW p \in Positions PROVE p \notin Backed(f, i)
  BY <1>3, Places DEF Backed
<1>6. Entries(f)
  BY <1>5 DEF Entries, Lists
<1>7. LogTrue(f)
  <2>1. f.tail = (f.head + f.count) % JOURNAL
    BY <1>2, Stays, TableSizes
  <2>2. Last(f) \in Turn
    BY <1>1, Fields, TableSizes DEF Typed, Last, Turn
  <2> QED BY <1>2, <2>1, <2>2 DEF LogTrue
<1>8. f.type[Root] = "DIR"
  BY <1>2, TableSizes
<1>9. Texts(f, x)
  <2> SUFFICES ASSUME NEW i \in Inodes
               PROVE  f.type[i] # "FILE" /\ DOMAIN x[i] = {}
    BY DEF Texts
  <2>1. f.type[i] # "FILE" /\ x[i] = << >>
    BY <1>2
  <2> QED BY <2>1
<1> QED BY <1>1, <1>4, <1>6, <1>7, <1>8, <1>9 DEF Sound, f

LEMMA JfsInitInv == ASSUME JfsAssumption, JfsInit PROVE JfsInv
<1> DEFINE d == [b \in Blocks |-> ZeroBlock]
           l == [j \in 0 .. JOURNAL - 1 |-> IF j = 0 THEN SuperSector ELSE NoEntry]
<1>1. FreshSuper \in Super
  BY TableSizes DEF FreshSuper, Super
<1>2. d \in [Blocks -> [Room -> Unit]]
  BY TableSizes DEF ZeroBlock, Room, ZeroUnit, Unit
<1>3. l \in [Turn -> Entry]
  BY TableSizes DEF Turn, Entry, SuperSector, NoEntry, JournalEntry
<1>4. fs = Mounted(FreshSuper, d, l) /\ boots = 0 /\ written = [i \in Inodes |-> <<>>]
  BY DEF JfsInit
<1> HIDE DEF d, l
<1>5. Sound(fs) /\ Texts(fs, written)
  BY <1>1, <1>2, <1>3, <1>4, MountSound
<1>6. CountsOf(fs)
  <2>1. Vacant(fs) = 1 .. JFS_MAX_INODES - 1 /\ fs.used = {} /\ fs.super = FreshSuper
    BY <1>4, TableSizes DEF Mounted, Vacant, Inodes, Root
  <2>2. Cardinality(1 .. JFS_MAX_INODES - 1) = JFS_MAX_INODES - 1
    <3>1. 1 \in Int /\ JFS_MAX_INODES - 1 \in Int
      BY TableSizes
    <3>2. Cardinality(1 .. JFS_MAX_INODES - 1) =
            IF 1 > JFS_MAX_INODES - 1 THEN 0 ELSE (JFS_MAX_INODES - 1) - 1 + 1
      BY <3>1, FS_Interval
    <3> QED BY <3>2, TableSizes
  <2>3. Cardinality(fs.used) = 0
    BY <2>1, FS_EmptySet
  <2> QED BY <2>1, <2>2, <2>3, TableSizes DEF CountsOf, FreshSuper
<1> QED BY <1>4, <1>5, <1>6, TableSizes DEF JfsInv

-----------------------------------------------------------------------------
LEMMA LookupIs ==
    ASSUME JfsAssumption, NEW f, Sound(f), NEW d \in Inodes, NEW n,
           jfs_dir_lookup(f, d, n) # NoInode
    PROVE  jfs_dir_lookup(f, d, n) \in Inodes
<1> DEFINE p == Min(Matches(f, d, n))
<1>1. Matches(f, d, n) # {} /\ jfs_dir_lookup(f, d, n) = UnitAt(f, d, p).ino
  BY DEF jfs_dir_lookup
<1>2. p \in Matches(f, d, n)
  <2>1. Matches(f, d, n) \subseteq Positions /\ Matches(f, d, n) \subseteq Nat
    BY Places DEF Matches, Backed
  <2> QED BY <1>1, <2>1, SomeLeast
<1> HIDE DEF p
<1>3. p \in Positions
  BY <1>2 DEF Matches, Backed
<1>4. Placed(f, d, p)
  BY <1>3, Reads DEF Sound
<1> QED BY <1>1, <1>4 DEF Placed, Unit

LEMMA Reachable ==
    ASSUME JfsAssumption, Sound(fs)
    PROVE  /\ \A d \in Dirs : d \in Inodes /\ fs.type[d] = "DIR"
           /\ \A i \in Files : i \in Inodes /\ fs.type[i] = "FILE"
<1>1. ASSUME NEW d \in Dirs PROVE d \in Inodes /\ fs.type[d] = "DIR"
  BY TableSizes, LookupIs DEF Dirs, Sound
<1>2. ASSUME NEW i \in Files PROVE i \in Inodes /\ fs.type[i] = "FILE"
  BY <1>1, LookupIs DEF Files
<1> QED BY <1>1, <1>2

LEMMA CallKeeps ==
    ASSUME JfsAssumption, JfsInv, Follows(fs, fs'), written' = Forget(fs'), UNCHANGED boots
    PROVE  JfsInv'
<1>1. DOMAIN written' = Inodes /\ Texts(fs', written')
  BY TextsForget DEF JfsInv, Forget
<1> QED BY <1>1 DEF JfsInv, Follows

LEMMA JfsWriteKeeps ==
    ASSUME JfsAssumption, JfsInv, NEW i \in Files, NEW v \in Values, NEW r \in Ranges,
           Write(i, v, r[1], r[2]), UNCHANGED boots
    PROVE  JfsInv'
<1> DEFINE w == jfs_write(fs, i, v, r[1], r[2])
           D == r[1] .. r[1] + w.done - 1
           new == D \cap Backed(w.fs, i)
<1>1. i \in Inodes /\ fs.type[i] = "FILE" /\ Sound(fs)
  BY Reachable DEF JfsInv
<1>2. r[1] \in Nat /\ r[2] \in Nat \ {0}
  BY DEF JfsAssumption
<1>3. Wrote(fs, w.fs, i, D, v)
  BY <1>1, <1>2, OpsWrite
<1>4. /\ fs' = w.fs
      /\ written' = Noted(written, i, new, v) /\ new = D \cap Backed(fs', i)
  BY DEF Write, Noted
<1> HIDE DEF w, D, new
<1>5. DOMAIN written' = Inodes /\ Texts(fs', written')
  <2>1. Wrote(fs, fs', i, D, v) /\ Texts(fs, written) /\ DOMAIN written = Inodes
    BY <1>3, <1>4 DEF JfsInv
  <2> QED BY <1>1, <1>4, <2>1, TextsWritten
<1> QED BY <1>3, <1>4, <1>5 DEF JfsInv, Wrote

LEMMA RestartKeeps ==
    ASSUME JfsAssumption, JfsInv, NEW lost \in BOOLEAN, Restart(lost)
    PROVE  JfsInv'
<1> DEFINE s == IF lost THEN FreshSuper ELSE fs.super_disk
<1>1. Typed(fs) /\ s \in Super
  BY TableSizes, Fields DEF JfsInv, Sound, Typed, FreshSuper, Super
<1>2. fs' = Mounted(s, fs.disk, fs.log) /\ written' = [i \in Inodes |-> <<>>] /\ boots' = boots + 1
      /\ boots < MaxBoots
  BY DEF Restart
<1> HIDE DEF s
<1>3. Sound(fs') /\ Texts(fs', written')
  BY <1>1, <1>2, MountSound DEF Typed
<1>4. boots' \in 0 .. MaxBoots /\ boots' # 0
  BY <1>2, TableSizes DEF JfsInv
<1>5. DOMAIN written' = Inodes
  BY <1>2
<1> QED BY <1>3, <1>4, <1>5 DEF JfsInv

LEMMA JfsStep == ASSUME JfsAssumption, JfsInv, [JfsNext]_jfsVars PROVE JfsInv'
<1>0. Sound(fs)
  BY DEF JfsInv
<1>1. ASSUME NEW d \in Dirs, NEW n \in Names, Create(d, n), UNCHANGED boots PROVE JfsInv'
  <2>1. Follows(fs, fs')
    BY <1>0, <1>1, Reachable, OpsCreate DEF Create
  <2> QED BY <1>1, <2>1, CallKeeps DEF Create
<1>2. ASSUME NEW d \in Dirs, NEW n \in Names, Mkdir(d, n), UNCHANGED boots PROVE JfsInv'
  <2>1. Follows(fs, fs')
    BY <1>0, <1>2, Reachable, OpsMkdir DEF Mkdir
  <2> QED BY <1>2, <2>1, CallKeeps DEF Mkdir
<1>3. ASSUME NEW d \in Dirs, NEW n \in Names, Unlink(d, n), UNCHANGED boots PROVE JfsInv'
  <2>1. Follows(fs, fs')
    BY <1>0, <1>3, Reachable, OpsUnlink DEF Unlink, Found
  <2> QED BY <1>3, <2>1, CallKeeps DEF Unlink
<1>4. CASE UNCHANGED jfsVars
  BY <1>4 DEF jfsVars, JfsInv
<1> QED BY <1>1, <1>2, <1>3, <1>4, JfsWriteKeeps, RestartKeeps DEF JfsNext, JfsCall

LEMMA JfsAlways == ASSUME JfsAssumption PROVE JfsSpec => []JfsInv
BY JfsInitInv, JfsStep, PTL DEF JfsSpec

-----------------------------------------------------------------------------
(* JfsTypeOK (Jfs) holds for file systems of every size.                   *)
THEOREM JfsTyped == ASSUME JfsAssumption PROVE JfsSpec => []JfsTypeOK
<1>1. ASSUME JfsInv PROVE JfsTypeOK
  <2>1. ASSUME NEW i \in Inodes PROVE DOMAIN written[i] \subseteq Positions
    BY <1>1 DEF JfsInv, Texts, Backed
  <2> QED BY <1>1, <2>1 DEF JfsInv, Sound, JfsTypeOK
<1> QED BY <1>1, JfsAlways, PTL

(* OneOwner (Jfs) holds for file systems of every size, whatever calls are *)
(* made and wherever the power fails: no two places share a block, and the *)
(* bitmap calls no block free that a pointer names.                        *)
THEOREM BlocksHaveOneOwner == ASSUME JfsAssumption PROVE JfsSpec => []OneOwner
<1>1. ASSUME JfsInv PROVE OneOwner
  <2>1. Owners(fs) /\ fs \in FsState
    BY <1>1 DEF JfsInv, Sound
  <2>2. ASSUME NEW b \in Blocks \ {0}
        PROVE  LET owners == {p \in Inodes \X (0 .. PTRS - 1) : fs.ptrs[p[1]][p[2]] = b}
               IN  Cardinality(owners) = IF b \in fs.used THEN 1 ELSE 0
    <3> DEFINE owners == {p \in Inodes \X (0 .. PTRS - 1) : fs.ptrs[p[1]][p[2]] = b}
    <3>1. CASE b \in fs.used
      <4>1. PICK i \in Inodes, k \in Pointers : fs.ptrs[i][k] = b
        BY <2>1, <3>1 DEF Owners, InUse
      <4>2. \A j \in Inodes, l \in Pointers : fs.ptrs[j][l] = b => j = i /\ l = k
        BY <2>1, <4>1 DEF Owners, Exclusive
      <4>3. owners = {<<i, k>>}
        BY <4>1, <4>2 DEF Pointers
      <4>4. Cardinality(owners) = 1
        BY <4>3, FS_Singleton
      <4> QED BY <3>1, <4>4
    <3>2. CASE b \notin fs.used
      <4>1. owners = {}
        BY <2>1, <3>2 DEF Owners, InUse, Pointers
      <4>2. Cardinality(owners) = 0
        BY <4>1, FS_EmptySet
      <4> QED BY <3>2, <4>2
    <3> QED BY <3>1, <3>2
  <2>3. ASSUME NEW i \in Inodes, fs.type[i] = "FREE" PROVE Owned(fs, i) = {}
    BY <2>1, <2>3 DEF Owners, Unowned, Owned, Pointers
  <2> QED BY <2>2, <2>3 DEF OneOwner
<1> QED BY <1>1, JfsAlways, PTL

(* EntriesLive (Jfs) holds for file systems of every size: a directory     *)
(* lists only what exists, and each of it once.                            *)
THEOREM NamesAreLive == ASSUME JfsAssumption PROVE JfsSpec => []EntriesLive
<1>1. ASSUME JfsInv PROVE EntriesLive
  <2> DEFINE entries == {e \in Dirs \X Positions :
                           e[2] \in Backed(fs, e[1]) /\ UnitAt(fs, e[1], e[2]).ino # 0}
             target(e) == UnitAt(fs, e[1], e[2]).ino
  <2>1. Sound(fs) /\ fs \in FsState
    BY <1>1 DEF JfsInv, Sound
  <2>2. ASSUME NEW e \in entries
        PROVE  /\ e[1] \in Inodes /\ e[2] \in Positions /\ e = <<e[1], e[2]>>
               /\ target(e) \in Inodes /\ Lists(fs, e[1], e[2], target(e))
    <3>1. e[1] \in Inodes /\ e[2] \in Positions /\ fs.type[e[1]] = "DIR" /\ e = <<e[1], e[2]>>
      BY <2>1, Reachable
    <3>2. Placed(fs, e[1], e[2])
      BY <2>1, <3>1, Reads
    <3>3. target(e) \in Inodes
      BY <3>2 DEF Placed, Unit
    <3> QED BY <3>1, <3>3 DEF Lists
  <2>3. \A e \in entries : fs.type[target(e)] # "FREE"
    BY <2>1, <2>2 DEF Sound, Entries
  <2>4. ASSUME NEW e1 \in entries, NEW e2 \in entries, target(e1) = target(e2) PROVE e1 = e2
    <3> DEFINE t == target(e1)
    <3>1. Lists(fs, e1[1], e1[2], t) /\ Lists(fs, e2[1], e2[2], t) /\ t \in Inodes
      BY <2>2, <2>4
    <3> HIDE DEF t
    <3>2. e1[1] = e2[1] /\ e1[2] = e2[2]
      BY <2>1, <2>2, <3>1 DEF Sound, Entries
    <3> QED BY <2>2, <3>2
  <2> QED BY <2>3, <2>4 DEF EntriesLive
<1> QED BY <1>1, JfsAlways, PTL

(* CountsTrue (Jfs) holds for file systems of every size.                  *)
THEOREM CountsAreTrue == ASSUME JfsAssumption PROVE JfsSpec => []CountsTrue
<1>1. JfsInv => CountsTrue
  BY DEF JfsInv, CountsOf, Vacant, CountsTrue
<1> QED BY <1>1, JfsAlways, PTL

(* ContentsKept (Jfs) holds for file systems of every size and writes of   *)
(* every length, also those that stop half-way.                            *)
THEOREM TextsAreKept == ASSUME JfsAssumption PROVE JfsSpec => []ContentsKept
<1>1. ASSUME JfsInv PROVE ContentsKept
  BY <1>1 DEF JfsInv, Texts, ContentsKept, jfs_read
<1> QED BY <1>1, JfsAlways, PTL

(* LogHoldsRest (Jfs) holds for journals of every length.                  *)
THEOREM LogIsWhole == ASSUME JfsAssumption PROVE JfsSpec => []LogHoldsRest
<1>1. JfsInv => LogHoldsRest
  BY DEF JfsInv, Sound, LogTrue, Last, LogHoldsRest
<1> QED BY <1>1, JfsAlways, PTL

-----------------------------------------------------------------------------
(* Vfs                                                                     *)

(* The least element of a set of numbers is one of it.                     *)
LEMMA MinFits ==
    ASSUME NEW S, S \subseteq Nat, S # {}
    PROVE  Min(S) \in S
<1> DEFINE Below == {0 .. x : x \in S}
<1>1. Below \subseteq FiniteSubsetsOf(Nat) /\ Below # {}
  <2>1. \A x \in S : 0 .. x \in FiniteSubsetsOf(Nat)
    BY FS_Interval DEF FiniteSubsetsOf
  <2> QED BY <2>1
<1>2. PICK A \in Below : \A B \in Below : <<B, A>> \notin StrictSubsetOrdering(Nat)
  <2> HIDE DEF Below
  <2> QED BY <1>1, FS_StrictSubsetOrderingWellFounded, WFMin
<1>3. PICK x \in S : A = 0 .. x
  OBVIOUS
<1>4. \A y \in S : x <= y
  <2> SUFFICES ASSUME NEW y \in S, y < x PROVE FALSE
    OBVIOUS
  <2>1. 0 .. y \in Below /\ 0 .. y \subseteq 0 .. x
    OBVIOUS
  <2>2. x \in 0 .. x /\ x \notin 0 .. y
    OBVIOUS
  <2>3. <<0 .. y, 0 .. x>> \in StrictSubsetOrdering(Nat)
    BY <2>1, <2>2 DEF StrictSubsetOrdering
  <2> QED BY <1>2, <1>3, <2>1, <2>3
<1> QED BY <1>4 DEF Min

-----------------------------------------------------------------------------
(* The kinds of entries.                                                   *)
EntryFields == {"in_use", "type", "inode", "pipe_data", "offset"}
EntryOf(e, i) ==
    DOMAIN e = EntryFields /\ e.in_use \in BOOLEAN /\ e.in_use /\ e.inode = i
SlotOf(m) ==
    /\ DOMAIN m = {"valid", "refcount", "ino"}
    /\ m.valid \in BOOLEAN /\ m.refcount \in Int

(* The entries of both tables, as far as references depend on them.        *)
FdShape(t) ==
    /\ DOMAIN t = Fds
    /\ \A d \in Fds :
         /\ DOMAIN t[d] = EntryFields
         /\ t[d].in_use \in BOOLEAN /\ t[d].inode \in Slots \cup {NULL}
InodeShape(n) ==
    /\ DOMAIN n = Slots
    /\ \A s \in Slots :
         /\ DOMAIN n[s] = {"valid", "refcount", "ino"}
         /\ n[s].valid \in BOOLEAN /\ n[s].refcount \in Int

Users(t, s) == {d \in Fds : t[d].in_use /\ t[d].inode = s}
Counted(t, n) ==
    \A s \in Slots :
        /\ n[s].valid <=> Cardinality(Users(t, s)) > 0
        /\ n[s].valid => n[s].refcount = Cardinality(Users(t, s))
RefsInv ==
    FdShape(fd_table) /\ InodeShape(inode_table) /\ Counted(fd_table, inode_table)

(* From table t to u, the inode in slot i gains the user d, and any inode  *)
(* loses it.                                                               *)
Gains(t, u, i, d) ==
    /\ Users(u, i) = Users(t, i) \cup {d}
    /\ \A s \in Slots \ {i} : Users(u, s) = Users(t, s)
Loses(t, u, d) == \A s \in Slots : Users(u, s) = Users(t, s) \ {d}

LEMMA UsersFinite ==
    ASSUME VfsAssumption, NEW t, NEW s
    PROVE  /\ IsFiniteSet(Users(t, s)) /\ Cardinality(Users(t, s)) \in Nat
           /\ Cardinality(Users(t, s)) > 0 <=> Users(t, s) # {}
<1>1. IsFiniteSet(Fds)
  <2>1. 0 \in Int /\ FD_MAX - 1 \in Int
    BY DEF VfsAssumption
  <2> QED BY <2>1, FS_Interval DEF Fds
<1>2. IsFiniteSet(Users(t, s))
  <2>1. Users(t, s) \in SUBSET Fds
    BY DEF Users
  <2> QED BY <1>1, <2>1, FS_Subset
<1> QED BY <1>2, FS_CardinalityType, FS_EmptySet

(* One reference less: the slot is freed with the last one.                *)
LEMMA DropSlot ==
    ASSUME NEW n, NEW i \in Slots, InodeShape(n)
    PROVE  /\ InodeShape(Drop(n, i))
           /\ \A s \in Slots \ {i} : Drop(n, i)[s] = n[s]
           /\ IF n[i].refcount > 1
              THEN /\ Drop(n, i)[i].valid = n[i].valid
                   /\ Drop(n, i)[i].refcount = n[i].refcount - 1
              ELSE ~Drop(n, i)[i].valid
<1>1. i # NULL
  BY DEF Slots, NULL
<1>2. CASE n[i].refcount > 1
  <2>1. Drop(n, i) = [n EXCEPT ![i].refcount = n[i].refcount - 1]
    BY <1>1, <1>2 DEF Drop
  <2> QED BY <1>2, <2>1 DEF InodeShape
<1>3. CASE ~(n[i].refcount > 1)
  <2>1. Drop(n, i) = [n EXCEPT ![i] = NoOpenInode]
    BY <1>1, <1>3 DEF Drop
  <2>2. /\ DOMAIN NoOpenInode = {"valid", "refcount", "ino"}
        /\ NoOpenInode.valid \in BOOLEAN /\ ~NoOpenInode.valid
        /\ NoOpenInode.refcount \in Int
    BY DEF NoOpenInode
  <2>3. \A s \in Slots : Drop(n, i)[s] = IF s = i THEN NoOpenInode ELSE n[s]
    BY <2>1 DEF InodeShape
  <2>4. DOMAIN Drop(n, i) = Slots
    BY <2>1 DEF InodeShape
  <2> HIDE DEF NoOpenInode
  <2>5. ASSUME NEW s \in Slots
        PROVE  /\ DOMAIN Drop(n, i)[s] = {"valid", "refcount", "ino"}
               /\ Drop(n, i)[s].valid \in BOOLEAN /\ Drop(n, i)[s].refcount \in Int
    <3>1. CASE s = i
      <4>1. Drop(n, i)[s] = NoOpenInode
        BY <2>3, <3>1
      <4> QED BY <2>2, <4>1, Zenon
    <3>2. CASE s # i
      BY <2>3, <3>2 DEF InodeShape
    <3> QED BY <3>1, <3>2
  <2>6. ~Drop(n, i)[i].valid
    BY <2>2, <2>3
  <2>7. \A s \in Slots \ {i} : Drop(n, i)[s] = n[s]
    BY <2>3
  <2>8. InodeShape(Drop(n, i))
    BY <2>4, <2>5 DEF InodeShape
  <2> QED BY <1>3, <2>6, <2>7, <2>8
<1> QED BY <1>2, <1>3
(* One reference more.                                                     *)
LEMMA ReferSlot ==
    ASSUME NEW n, NEW i \in Slots, InodeShape(n)
    PROVE  /\ InodeShape(Refer(n, i))
           /\ \A s \in Slots \ {i} : Refer(n, i)[s] = n[s]
           /\ Refer(n, i)[i].valid = n[i].valid
           /\ Refer(n, i)[i].refcount = n[i].refcount + 1
<1>1. i # NULL
  BY DEF Slots, NULL
<1>2. Refer(n, i) = [n EXCEPT ![i] = [n[i] EXCEPT !.refcount = n[i].refcount + 1]]
  BY <1>1 DEF Refer
<1> QED BY <1>2 DEF InodeShape

(* The counts stay right when a descriptor lets go of its inode, and       *)
(* inode_deref is told.                                                    *)
LEMMA OneLess ==
    ASSUME VfsAssumption, NEW t, NEW u, NEW n, NEW d \in Fds,
           NEW i \in Slots \cup {NULL}, t[d].in_use, t[d].inode = i,
           InodeShape(n), Counted(t, n),
           Loses(t, u, d)
    PROVE  InodeShape(Drop(n, i)) /\ Counted(u, Drop(n, i))
<1>1. NULL \notin Slots
  BY DEF Slots, NULL
<1>2. \A s \in Slots \ {i} : Users(u, s) = Users(t, s)
  BY DEF Users, Loses
<1>3. CASE i = NULL
  BY <1>1, <1>2, <1>3 DEF Drop, Counted
<1>4. CASE i \in Slots
  <2>1. d \in Users(t, i)
    BY DEF Users
  <2>2. Cardinality(Users(u, i)) = Cardinality(Users(t, i)) - 1
        /\ Cardinality(Users(u, i)) \in Nat
    BY <1>4, <2>1, UsersFinite, FS_RemoveElement DEF Loses
  <2>3. n[i].valid /\ n[i].refcount = Cardinality(Users(t, i))
    BY <1>4, <2>1, UsersFinite DEF Counted
  <2>4. /\ \A s \in Slots \ {i} : Drop(n, i)[s] = n[s]
        /\ IF n[i].refcount > 1
           THEN /\ Drop(n, i)[i].valid = n[i].valid
                /\ Drop(n, i)[i].refcount = n[i].refcount - 1
           ELSE ~Drop(n, i)[i].valid
    BY <1>4, DropSlot
  <2>5. Cardinality(Users(t, i)) \in Int
    BY UsersFinite
  <2> QED BY <1>2, <1>4, <2>2, <2>3, <2>4, <2>5, DropSlot DEF Counted
<1> QED BY <1>3, <1>4

(* And when another descriptor gets an inode that is open, and inode_ref   *)
(* is told.                                                                *)
LEMMA OneMore ==
    ASSUME VfsAssumption, NEW t, NEW u, NEW n, NEW d \in Fds,
           NEW i \in Slots \cup {NULL}, ~t[d].in_use,
           InodeShape(n), Counted(t, n), i # NULL => n[i].valid,
           Gains(t, u, i, d)
    PROVE  InodeShape(Refer(n, i)) /\ Counted(u, Refer(n, i))
<1>1. NULL \notin Slots
  BY DEF Slots, NULL
<1>2. CASE i = NULL
  BY <1>1, <1>2 DEF Refer, Counted, Gains
<1>3. CASE i \in Slots
  <2>1. d \notin Users(t, i) /\ Users(u, i) = Users(t, i) \cup {d}
    BY <1>3 DEF Users, Gains
  <2>2. Cardinality(Users(u, i)) = Cardinality(Users(t, i)) + 1
        /\ Cardinality(Users(t, i)) \in Nat
    BY <2>1, UsersFinite, FS_AddElement
  <2>3. n[i].valid /\ n[i].refcount = Cardinality(Users(t, i))
    BY <1>1, <1>3 DEF Counted
  <2>4. /\ \A s \in Slots \ {i} : Refer(n, i)[s] = n[s]
        /\ Refer(n, i)[i].valid = n[i].valid
        /\ Refer(n, i)[i].refcount = n[i].refcount + 1
    BY <1>3, ReferSlot
  <2>5. InodeShape(Refer(n, i))
    BY <1>3, ReferSlot
  <2>6. Counted(u, Refer(n, i))
    <3> SUFFICES ASSUME NEW s \in Slots
                 PROVE  /\ Refer(n, i)[s].valid <=> Cardinality(Users(u, s)) > 0
                        /\ Refer(n, i)[s].valid =>
                             Refer(n, i)[s].refcount = Cardinality(Users(u, s))
      BY DEF Counted
    <3>1. CASE s = i
      <4>1. Refer(n, i)[i].valid
        BY <2>3, <2>4
      <4>2. Refer(n, i)[i].refcount = Cardinality(Users(u, i))
        BY <2>2, <2>3, <2>4
      <4>3. Cardinality(Users(u, i)) > 0
        BY <2>2
      <4> QED BY <3>1, <4>1, <4>2, <4>3
    <3>2. CASE s # i
      <4>1. Refer(n, i)[s] = n[s] /\ Users(u, s) = Users(t, s)
        BY <2>4, <3>2 DEF Gains
      <4> QED BY <4>1 DEF Counted
    <3> QED BY <3>1, <3>2
  <2> QED BY <2>5, <2>6
<1> QED BY <1>2, <1>3
-----------------------------------------------------------------------------
LEMMA EntryKinds ==
    /\ EntryOf(Console, NULL)
    /\ DOMAIN Closed = EntryFields /\ Closed.in_use \in BOOLEAN
    /\ ~Closed.in_use /\ Closed.inode = NULL
    /\ \A s, t : EntryOf(OnInode(s, t), s)
    /\ \A p : EntryOf(OnPipe(p), NULL) /\ OnPipe(p).pipe_data = p
<1>1. /\ DOMAIN Closed = EntryFields /\ Closed.in_use \in BOOLEAN
      /\ ~Closed.in_use /\ Closed.inode = NULL
  BY DEF Closed, EntryFields
<1> HIDE DEF NULL
<1>2. EntryOf(Console, NULL)
  BY <1>1 DEF Console, EntryOf, Closed, EntryFields
<1>3. \A s, t : EntryOf(OnInode(s, t), s)
  BY <1>2 DEF OnInode, EntryOf, EntryFields
<1>4. \A p : EntryOf(OnPipe(p), NULL) /\ OnPipe(p).pipe_data = p
  BY <1>2 DEF OnPipe, EntryOf, EntryFields
<1> QED BY <1>1, <1>2, <1>3, <1>4

(* At start the console's descriptors lead to no inode.                    *)
LEMMA RefsInit == ASSUME VfsAssumption, VfsInit PROVE RefsInv
<1>1. NULL \notin Slots /\ NULL \in {NULL}
  BY DEF Slots, NULL
<1>2. \A e \in {Console, Closed} :
          DOMAIN e = EntryFields /\ e.in_use \in BOOLEAN /\ e.inode = NULL
  BY EntryKinds, Zenon DEF EntryOf
<1>3. DOMAIN fd_table = Fds /\ \A d \in Fds : fd_table[d] \in {Console, Closed}
  BY DEF VfsInit, FdInit
<1>4. FdShape(fd_table)
  BY <1>2, <1>3 DEF FdShape
<1>5. InodeShape(inode_table) /\ \A s \in Slots : ~inode_table[s].valid
  <2>1. /\ DOMAIN NoOpenInode = {"valid", "refcount", "ino"}
        /\ NoOpenInode.valid \in BOOLEAN /\ ~NoOpenInode.valid
        /\ NoOpenInode.refcount \in Int
    BY DEF NoOpenInode
  <2>2. DOMAIN inode_table = Slots /\ \A s \in Slots : inode_table[s] = NoOpenInode
    BY DEF VfsInit, FdInit
  <2> QED BY <2>1, <2>2, Zenon DEF InodeShape
<1>6. \A s \in Slots : Cardinality(Users(fd_table, s)) = 0
  <2> SUFFICES ASSUME NEW s \in Slots PROVE Cardinality(Users(fd_table, s)) = 0
    OBVIOUS
  <2>1. Users(fd_table, s) = {}
    BY <1>1, <1>2, <1>3 DEF Users
  <2> QED BY <2>1, FS_EmptySet
<1>7. Counted(fd_table, inode_table)
  BY <1>5, <1>6 DEF Counted
<1> QED BY <1>4, <1>5, <1>7 DEF RefsInv

(* Reading, writing and seeking move the offset of a descriptor only.      *)
LEMMA OffsetMoves ==
    ASSUME RefsInv, NEW d \in Fds, NEW o,
           fd_table' = [fd_table EXCEPT ![d].offset = o], UNCHANGED inode_table
    PROVE  RefsInv'
<1>1. /\ DOMAIN fd_table' = Fds
      /\ \A e \in Fds : /\ DOMAIN fd_table'[e] = DOMAIN fd_table[e]
                        /\ fd_table'[e].in_use = fd_table[e].in_use
                        /\ fd_table'[e].inode = fd_table[e].inode
  BY DEF RefsInv, FdShape
<1>2. \A s \in Slots : Users(fd_table', s) = Users(fd_table, s)
  BY <1>1 DEF Users
<1>3. FdShape(fd_table')
  BY <1>1 DEF RefsInv, FdShape
<1> QED BY <1>2, <1>3 DEF RefsInv, Counted

(* The table after an entry was set or closed.                             *)
LEMMA EntryOpened ==
    ASSUME NEW t, NEW d \in Fds, NEW i \in Slots \cup {NULL}, NEW e,
           NEW u, u = [t EXCEPT ![d] = e],
           FdShape(t), ~t[d].in_use, EntryOf(e, i)
    PROVE  /\ FdShape(u)
           /\ Gains(t, u, i, d)
<1>1. DOMAIN u = Fds /\ u[d] = e /\ \A f \in Fds \ {d} : u[f] = t[f]
  BY DEF FdShape
<1>2. FdShape(u)
  BY <1>1 DEF FdShape, EntryOf
<1>3. Users(u, i) = Users(t, i) \cup {d}
  BY <1>1 DEF Users, EntryOf
<1>4. ASSUME NEW s \in Slots \ {i} PROVE Users(u, s) = Users(t, s)
  BY <1>1 DEF Users, EntryOf
<1> QED BY <1>2, <1>3, <1>4 DEF Gains

LEMMA EntryShut ==
    ASSUME NEW t, FdShape(t), NEW d \in Fds, NEW u, u = [t EXCEPT ![d] = Closed]
    PROVE  FdShape(u) /\ Loses(t, u, d)
<1>1. DOMAIN u = Fds /\ u[d] = Closed /\ \A f \in Fds \ {d} : u[f] = t[f]
  BY DEF FdShape
<1>2. FdShape(u)
  BY <1>1, EntryKinds DEF FdShape
<1>3. ASSUME NEW s \in Slots PROVE Users(u, s) = Users(t, s) \ {d}
  BY <1>1, EntryKinds DEF Users
<1> QED BY <1>2, <1>3 DEF Loses

(* The descriptor that fd_alloc finds is one that is not in use, and so    *)
(* for the slot that inode_alloc finds.                                    *)
LEMMA AllocFree ==
    /\ FreeFds(fd_table) # {} => /\ Min(FreeFds(fd_table)) \in Fds
                                 /\ ~fd_table[Min(FreeFds(fd_table))].in_use
    /\ FreeSlots # {} => Min(FreeSlots) \in Slots /\ ~inode_table[Min(FreeSlots)].valid
<1>1. FreeFds(fd_table) \subseteq Nat /\ FreeSlots \subseteq Nat
  BY DEF FreeFds, FreeSlots, Fds, Slots
<1>2. FreeFds(fd_table) # {} => Min(FreeFds(fd_table)) \in FreeFds(fd_table)
  BY <1>1, MinFits
<1>3. FreeSlots # {} => Min(FreeSlots) \in FreeSlots
  BY <1>1, MinFits
<1> QED BY <1>2, <1>3 DEF FreeFds, FreeSlots

(* A slot gets its first user.                                             *)
LEMMA FirstUser ==
    ASSUME VfsAssumption, NEW t, NEW n, FdShape(t), InodeShape(n), Counted(t, n),
           NEW d \in Fds, ~t[d].in_use, NEW s \in Slots, ~n[s].valid,
           NEW e, EntryOf(e, s), NEW m, SlotOf(m), m.valid, m.refcount = 1,
           NEW u, u = [t EXCEPT ![d] = e], NEW k, k = [n EXCEPT ![s] = m]
    PROVE  FdShape(u) /\ InodeShape(k) /\ Counted(u, k)
<1>1. /\ FdShape(u)
      /\ Gains(t, u, s, d)
  BY EntryOpened
<1>2. Users(t, s) = {}
  BY UsersFinite DEF Counted
<1>3. Cardinality(Users(u, s)) = 1
  <2>1. Users(u, s) = {d}
    BY <1>1, <1>2 DEF Gains
  <2> QED BY <2>1, FS_Singleton
<1>4. /\ DOMAIN k = Slots /\ k[s] = m /\ \A r \in Slots \ {s} : k[r] = n[r]
  BY DEF InodeShape
<1>5. InodeShape(k)
  BY <1>4 DEF InodeShape, SlotOf
<1>6. Counted(u, k)
  <2> SUFFICES ASSUME NEW r \in Slots
               PROVE  /\ k[r].valid <=> Cardinality(Users(u, r)) > 0
                      /\ k[r].valid => k[r].refcount = Cardinality(Users(u, r))
    BY DEF Counted
  <2>1. CASE r = s
    BY <1>3, <1>4, <2>1
  <2>2. CASE r # s
    BY <1>1, <1>4, <2>2 DEF Counted, Gains
  <2> QED BY <2>1, <2>2
<1> QED BY <1>1, <1>5, <1>6

(* vfs_open and vfs_create: the new slot has one user.                     *)
LEMMA InstallCounts ==
    ASSUME VfsAssumption, RefsInv, NEW i, Install(i)
    PROVE  RefsInv'
<1>1. CASE FreeFds(fd_table) = {} \/ FreeSlots = {}
  BY <1>1 DEF Install, RefsInv, FdShape, InodeShape, Counted, Users
<1>2. CASE ~(FreeFds(fd_table) = {} \/ FreeSlots = {})
  <2>1. PICK d \in Fds, s \in Slots :
            /\ ~fd_table[d].in_use /\ ~inode_table[s].valid
            /\ fd_table' = [fd_table EXCEPT ![d] = OnInode(s, fs'.type[i])]
            /\ inode_table' = [inode_table EXCEPT ![s] = OpenInode(i)]
    BY <1>2, AllocFree DEF Install
  <2>2. EntryOf(OnInode(s, fs'.type[i]), s)
    BY EntryKinds
  <2>3. SlotOf(OpenInode(i)) /\ OpenInode(i).valid /\ OpenInode(i).refcount = 1
    BY DEF OpenInode, SlotOf
  <2>4. FdShape(fd_table') /\ InodeShape(inode_table') /\ Counted(fd_table', inode_table')
    BY <2>1, <2>2, <2>3, FirstUser DEF RefsInv
  <2> QED BY <2>4 DEF RefsInv
<1> QED BY <1>1, <1>2

LEMMA CloseCounts ==
    ASSUME VfsAssumption, RefsInv, NEW d \in Fds, vfs_close(d)
    PROVE  RefsInv'
<1>1. fd_table[d].in_use /\ fd_table[d].inode \in Slots \cup {NULL}
  BY DEF vfs_close, IsOpen, RefsInv, FdShape
<1>2. FdShape(fd_table') /\ Loses(fd_table, fd_table', d)
  BY EntryShut DEF vfs_close, RefsInv
<1>3. inode_table' = Drop(inode_table, fd_table[d].inode)
  BY DEF vfs_close, AfterClose
<1>4. InodeShape(inode_table') /\ Counted(fd_table', inode_table')
  BY <1>1, <1>2, <1>3, OneLess DEF RefsInv
<1> QED BY <1>2, <1>4 DEF RefsInv

(* An entry in use leads to an inode in use.                               *)
LEMMA OpenIsValid ==
    ASSUME VfsAssumption, NEW t, NEW n, FdShape(t), Counted(t, n),
           NEW d \in Fds, t[d].in_use
    PROVE  /\ t[d].inode \in Slots \cup {NULL} /\ EntryOf(t[d], t[d].inode)
           /\ t[d].inode # NULL => n[t[d].inode].valid
<1>1. t[d].inode \in Slots \cup {NULL} /\ EntryOf(t[d], t[d].inode)
  BY DEF FdShape, EntryOf
<1>2. ASSUME t[d].inode # NULL PROVE n[t[d].inode].valid
  <2>1. t[d].inode \in Slots /\ d \in Users(t, t[d].inode)
    BY <1>1, <1>2 DEF Users
  <2> QED BY <2>1, UsersFinite DEF Counted
<1> QED BY <1>1, <1>2

LEMMA DupCounts ==
    ASSUME VfsAssumption, RefsInv, NEW d \in Fds, vfs_dup(d)
    PROVE  RefsInv'
<1>1. PICK f \in Fds : /\ ~fd_table[f].in_use
                       /\ fd_table' = [fd_table EXCEPT ![f] = fd_table[d]]
  BY AllocFree DEF vfs_dup
<1> DEFINE i == fd_table[d].inode
<1>2. /\ i \in Slots \cup {NULL} /\ EntryOf(fd_table[d], i)
      /\ i # NULL => inode_table[i].valid
  BY OpenIsValid DEF vfs_dup, IsOpen, RefsInv
<1>3. inode_table' = Refer(inode_table, i)
  BY DEF vfs_dup
<1> HIDE DEF i
<1>4. FdShape(fd_table') /\ Gains(fd_table, fd_table', i, f)
  BY <1>1, <1>2, EntryOpened DEF RefsInv
<1>5. InodeShape(inode_table') /\ Counted(fd_table', inode_table')
  BY <1>1, <1>2, <1>3, <1>4, OneMore DEF RefsInv
<1> QED BY <1>4, <1>5 DEF RefsInv

(* dup2 closes its target first, if that is open.                          *)
LEMMA Dup2Counts ==
    ASSUME VfsAssumption, RefsInv, NEW d \in Fds, NEW e \in Fds, vfs_dup2(d, e)
    PROVE  RefsInv'
<1> DEFINE i == fd_table[d].inode
           t == [fd_table EXCEPT ![e] = Closed]
           n == IF IsOpen(e) THEN Drop(inode_table, fd_table[e].inode)
                ELSE inode_table
<1>1. FdShape(t) /\ Loses(fd_table, t, e)
  BY EntryShut DEF RefsInv
<1>2. InodeShape(n) /\ Counted(t, n)
  <2>1. CASE IsOpen(e)
    <3>1. fd_table[e].inode \in Slots \cup {NULL} /\ fd_table[e].in_use
      BY <2>1 DEF IsOpen, RefsInv, FdShape
    <3>2. n = Drop(inode_table, fd_table[e].inode)
      BY <2>1
    <3> HIDE DEF t, n
    <3> QED BY <1>1, <3>1, <3>2, OneLess DEF RefsInv
  <2>2. CASE ~IsOpen(e)
    <3>1. n = inode_table
      BY <2>2
    <3>2. \A s \in Slots : e \notin Users(fd_table, s)
      BY <2>2 DEF Users, IsOpen
    <3> HIDE DEF t, n
    <3>3. \A s \in Slots : Users(t, s) = Users(fd_table, s)
      BY <1>1, <3>2 DEF Loses
    <3> QED BY <3>1, <3>3 DEF RefsInv, Counted
  <2> QED BY <2>1, <2>2
<1>3. d # e /\ fd_table[d].in_use /\ inode_table' = Refer(n, i)
      /\ fd_table' = [fd_table EXCEPT ![e] = fd_table[d]]
  BY DEF vfs_dup2, AfterClose, IsOpen
<1>4. /\ t[d] = fd_table[d] /\ ~t[e].in_use
      /\ fd_table' = [t EXCEPT ![e] = fd_table[d]]
  BY <1>3, EntryKinds DEF RefsInv, FdShape
<1>5. /\ i \in Slots \cup {NULL} /\ EntryOf(fd_table[d], i)
      /\ i # NULL => n[i].valid
  <2> HIDE DEF t, n
  <2> QED BY <1>1, <1>2, <1>3, <1>4, OpenIsValid
<1> HIDE DEF t, n, i
<1>6. FdShape(fd_table') /\ Gains(t, fd_table', i, e)
  BY <1>1, <1>4, <1>5, EntryOpened
<1>7. InodeShape(inode_table') /\ Counted(fd_table', inode_table')
  BY <1>2, <1>3, <1>4, <1>5, <1>6, OneMore
<1> QED BY <1>6, <1>7 DEF RefsInv

(* The ends of a new pipe lead to no inode.                                *)
LEMMA TwoFree ==
    ASSUME VfsAssumption, Cardinality(FreeFds(fd_table)) >= 2
    PROVE  LET r == Min(FreeFds(fd_table))
               w == Min(FreeFds(fd_table) \ {r})
           IN  /\ r \in Fds /\ ~fd_table[r].in_use /\ w # r
               /\ w \in Fds /\ ~fd_table[w].in_use
<1> DEFINE F == FreeFds(fd_table)
           r == Min(F)
<1>1. F \subseteq Fds /\ F \subseteq Nat /\ \A d \in F : ~fd_table[d].in_use
  BY DEF FreeFds, Fds
<1>2. F # {}
  BY FS_EmptySet
<1>3. r \in F
  <2> HIDE DEF F
  <2> QED BY <1>1, <1>2, MinFits
<1>4. F \ {r} # {}
  <2> SUFFICES ASSUME F \ {r} = {} PROVE FALSE
    OBVIOUS
  <2>1. F = {r}
    BY <1>3
  <2>2. Cardinality(F) = 1
    <3> HIDE DEF F
    <3> QED BY <2>1, FS_Singleton
  <2> QED BY <2>2
<1>5. Min(F \ {r}) \in F \ {r}
  <2> HIDE DEF F, r
  <2> QED BY <1>1, <1>4, MinFits
<1> QED BY <1>1, <1>3, <1>5

LEMMA PipeCounts ==
    ASSUME VfsAssumption, RefsInv, sys_pipe
    PROVE  RefsInv'
<1> DEFINE p == Min(Pipes \ pipes)
<1>1. PICK r \in Fds, w \in Fds :
          /\ ~fd_table[r].in_use /\ ~fd_table[w].in_use /\ r # w
          /\ fd_table' = [fd_table EXCEPT ![r] = OnPipe(p), ![w] = OnPipe(p)]
  BY TwoFree DEF sys_pipe
<1> HIDE DEF p
<1>2. inode_table' = inode_table
  BY DEF sys_pipe
<1> DEFINE t == [fd_table EXCEPT ![r] = OnPipe(p)]
<1>3. EntryOf(OnPipe(p), NULL) /\ NULL \in Slots \cup {NULL} /\ NULL \notin Slots
  BY EntryKinds DEF Slots, NULL
<1>4. FdShape(t) /\ Gains(fd_table, t, NULL, r)
  BY <1>1, <1>3, EntryOpened DEF RefsInv
<1>5. fd_table' = [t EXCEPT ![w] = OnPipe(p)] /\ ~t[w].in_use
  BY <1>1 DEF RefsInv, FdShape
<1> HIDE DEF t
<1>6. FdShape(fd_table') /\ Gains(t, fd_table', NULL, w)
  BY <1>1, <1>3, <1>4, <1>5, EntryOpened
<1>7. \A s \in Slots : Users(fd_table', s) = Users(fd_table, s)
  BY <1>3, <1>4, <1>6 DEF Gains
<1> QED BY <1>2, <1>6, <1>7 DEF RefsInv, Counted

LEMMA RefsKept == ASSUME RefsInv, UNCHANGED <<fd_table, inode_table>> PROVE RefsInv'
BY DEF RefsInv, FdShape, InodeShape, Counted, Users

LEMMA RefsNext == ASSUME VfsAssumption, RefsInv, VfsNext PROVE RefsInv'
<1>1. ASSUME NEW dir \in Dirs, NEW n \in Names,
             vfs_open(dir, n) \/ vfs_create(dir, n) \/ vfs_mkdir(dir, n) \/ vfs_unlink(dir, n)
      PROVE  RefsInv'
  <2>1. CASE vfs_open(dir, n)
    BY <2>1, InstallCounts DEF vfs_open
  <2>2. CASE vfs_create(dir, n)
    <3> DEFINE made == jfs_ops_create(fs, dir, n)
    <3>1. Install(made.ino) \/ UNCHANGED <<fd_table, inode_table>>
      BY <2>2 DEF vfs_create
    <3> HIDE DEF made
    <3>2. CASE Install(made.ino)
      BY <3>2, InstallCounts
    <3>3. CASE UNCHANGED <<fd_table, inode_table>>
      BY <3>3, RefsKept
    <3> QED BY <3>1, <3>2, <3>3
  <2>3. CASE vfs_mkdir(dir, n)
    BY <2>3, RefsKept DEF vfs_mkdir, fdVars
  <2>4. CASE vfs_unlink(dir, n)
    BY <2>4, RefsKept DEF vfs_unlink
  <2> QED BY <1>1, <2>1, <2>2, <2>3, <2>4
<1>2. ASSUME NEW d \in Fds,
             \/ \E r \in Ranges, v \in Values : vfs_write(d, v, r[2])
             \/ \E r \in Ranges : vfs_read(d, r[2]) \/ vfs_seek(d, r[1])
      PROVE  RefsInv'
  <2>1. inode_table' = inode_table
    BY <1>2 DEF vfs_write, vfs_read, vfs_seek
  <2>2. PICK o : fd_table' = [fd_table EXCEPT ![d].offset = o]
    BY <1>2 DEF vfs_write, vfs_read, vfs_seek
  <2> QED BY <2>1, <2>2, OffsetMoves
<1>3. ASSUME NEW d \in Fds, vfs_close(d) \/ vfs_dup(d) \/ \E e \in Fds : vfs_dup2(d, e)
      PROVE  RefsInv'
  BY <1>3, CloseCounts, DupCounts, Dup2Counts
<1> QED BY <1>1, <1>2, <1>3, PipeCounts DEF VfsNext

(* RefsMatch (Vfs) holds for every size of the tables: an inode is in use  *)
(* exactly while descriptors lead to it, and its reference count is their  *)
(* number.                                                                 *)
THEOREM ReferencesCounted == ASSUME VfsAssumption PROVE VfsSpec => []RefsMatch
<1>1. VfsInit => RefsInv
  BY RefsInit
<1>2. RefsInv /\ [VfsNext]_vfsVars => RefsInv'
  BY RefsNext, RefsKept DEF vfsVars, fdVars
<1>3. RefsInv => RefsMatch
  BY DEF RefsInv, Counted, Users, RefsMatch, IsOpen
<1> QED BY <1>1, <1>2, <1>3, PTL DEF VfsSpec

-----------------------------------------------------------------------------
PipesInv == RefsInv /\ NoPipeLeak

(* What keeps the pipes that are left, and a descriptor of each, keeps     *)
(* NoPipeLeak.                                                             *)
LEMMA LeakKept ==
    ASSUME NoPipeLeak,
           \A p \in pipes' : p \in pipes =>
             \A d \in Fds : IsOpen(d) /\ fd_table[d].pipe_data = p =>
               IsOpen(d)' /\ fd_table'[d].pipe_data = p,
           pipes' \subseteq pipes
    PROVE  NoPipeLeak'
BY DEF NoPipeLeak

LEMMA InstallLeaks ==
    ASSUME PipesInv, NEW i, Install(i), UNCHANGED pipes PROVE NoPipeLeak'
<1>1. CASE FreeFds(fd_table) = {} \/ FreeSlots = {}
  BY <1>1 DEF Install, PipesInv, NoPipeLeak, IsOpen
<1>2. CASE ~(FreeFds(fd_table) = {} \/ FreeSlots = {})
  <2>1. PICK d \in Fds : /\ ~IsOpen(d)
                         /\ \A f \in Fds \ {d} : fd_table'[f] = fd_table[f]
    BY <1>2, AllocFree DEF Install, IsOpen, PipesInv, RefsInv, FdShape
  <2> QED BY <2>1, LeakKept DEF PipesInv, IsOpen
<1> QED BY <1>1, <1>2

LEMMA LeakNext == ASSUME VfsAssumption, PipesInv, VfsNext PROVE NoPipeLeak'
<1>1. ASSUME NEW dir \in Dirs, NEW n \in Names,
             vfs_open(dir, n) \/ vfs_create(dir, n) \/ vfs_mkdir(dir, n) \/ vfs_unlink(dir, n)
      PROVE  NoPipeLeak'
  <2>1. CASE vfs_open(dir, n)
    BY <2>1, InstallLeaks DEF vfs_open
  <2>2. CASE vfs_create(dir, n)
    <3> DEFINE made == jfs_ops_create(fs, dir, n)
    <3>1. (Install(made.ino) \/ UNCHANGED <<fd_table, inode_table>>) /\ UNCHANGED pipes
      BY <2>2 DEF vfs_create
    <3> HIDE DEF made
    <3> QED BY <3>1, InstallLeaks DEF PipesInv, NoPipeLeak, IsOpen
  <2>3. CASE vfs_mkdir(dir, n) \/ vfs_unlink(dir, n)
    BY <2>3 DEF vfs_mkdir, vfs_unlink, fdVars, PipesInv, NoPipeLeak, IsOpen
  <2> QED BY <1>1, <2>1, <2>2, <2>3
<1>2. ASSUME NEW d \in Fds,
             \/ \E r \in Ranges, v \in Values : vfs_write(d, v, r[2])
             \/ \E r \in Ranges : vfs_read(d, r[2]) \/ vfs_seek(d, r[1])
      PROVE  NoPipeLeak'
  <2>1. pipes' = pipes
    BY <1>2 DEF vfs_write, vfs_read, vfs_seek
  <2>2. PICK o : fd_table' = [fd_table EXCEPT ![d].offset = o]
    BY <1>2 DEF vfs_write, vfs_read, vfs_seek
  <2>3. \A f \in Fds : /\ fd_table'[f].in_use = fd_table[f].in_use
                       /\ fd_table'[f].pipe_data = fd_table[f].pipe_data
    BY <2>2 DEF PipesInv, RefsInv, FdShape, EntryFields
  <2> QED BY <2>1, <2>3, LeakKept DEF PipesInv, IsOpen
<1>3. ASSUME NEW d \in Fds, vfs_close(d) PROVE NoPipeLeak'
  <2>1. \A f \in Fds \ {d} : fd_table'[f] = fd_table[f]
    BY <1>3 DEF vfs_close, PipesInv, RefsInv, FdShape
  <2>2. pipes' = pipes \ {fd_table[d].pipe_data}
    BY <1>3 DEF vfs_close, AfterClose
  <2> QED BY <2>1, <2>2, LeakKept DEF PipesInv, IsOpen
<1>4. ASSUME NEW d \in Fds, vfs_dup(d) PROVE NoPipeLeak'
  <2>1. PICK f \in Fds : /\ ~IsOpen(f)
                         /\ \A g \in Fds \ {f} : fd_table'[g] = fd_table[g]
    BY <1>4, AllocFree DEF vfs_dup, IsOpen, PipesInv, RefsInv, FdShape
  <2>2. pipes' = pipes
    BY <1>4 DEF vfs_dup
  <2> QED BY <2>1, <2>2, LeakKept DEF PipesInv, IsOpen
<1>5. ASSUME NEW d \in Fds, NEW e \in Fds, vfs_dup2(d, e) PROVE NoPipeLeak'
  <2>1. \A f \in Fds \ {e} : fd_table'[f] = fd_table[f]
    BY <1>5 DEF vfs_dup2, PipesInv, RefsInv, FdShape
  <2>2. pipes' = IF IsOpen(e) THEN pipes \ {fd_table[e].pipe_data} ELSE pipes
    BY <1>5 DEF vfs_dup2, AfterClose
  <2> QED BY <2>1, <2>2, LeakKept DEF PipesInv, IsOpen
<1>6. ASSUME sys_pipe PROVE NoPipeLeak'
  <2> DEFINE p == Min(Pipes \ pipes)
  <2>1. PICK r \in Fds, w \in Fds :
            /\ ~IsOpen(r) /\ ~IsOpen(w) /\ r # w
            /\ fd_table' = [fd_table EXCEPT ![r] = OnPipe(p), ![w] = OnPipe(p)]
            /\ pipes' = pipes \cup {p}
    BY <1>6, TwoFree DEF sys_pipe, IsOpen
  <2> HIDE DEF p
  <2>2. /\ \A f \in Fds \ {r, w} : fd_table'[f] = fd_table[f]
        /\ fd_table'[r] = OnPipe(p)
    BY <2>1 DEF PipesInv, RefsInv, FdShape
  <2>3. fd_table'[r].pipe_data = p /\ fd_table'[r].in_use
    BY <2>2, EntryKinds DEF EntryOf
  <2>4. ASSUME NEW q \in pipes
        PROVE  \E f \in Fds : fd_table'[f].in_use /\ fd_table'[f].pipe_data = q
    <3>1. PICK f \in Fds : IsOpen(f) /\ fd_table[f].pipe_data = q
      BY DEF PipesInv, NoPipeLeak
    <3>2. fd_table'[f] = fd_table[f]
      BY <2>1, <2>2, <3>1
    <3> QED BY <3>1, <3>2 DEF IsOpen
  <2> QED BY <2>1, <2>3, <2>4 DEF NoPipeLeak, IsOpen
<1> QED BY <1>1, <1>2, <1>3, <1>4, <1>5, <1>6 DEF VfsNext

(* NoPipeLeak (Vfs) holds for every number of descriptors and pipes: the   *)
(* last close that could reach a pipe has freed it.                        *)
THEOREM NoPipeIsLost == ASSUME VfsAssumption PROVE VfsSpec => []NoPipeLeak
<1>1. VfsInit => PipesInv
  BY RefsInit DEF VfsInit, FdInit, PipesInv, NoPipeLeak
<1>2. PipesInv /\ [VfsNext]_vfsVars => PipesInv'
  <2>1. PipesInv /\ UNCHANGED vfsVars => NoPipeLeak'
    BY DEF vfsVars, fdVars, PipesInv, NoPipeLeak, IsOpen
  <2>2. PipesInv /\ UNCHANGED vfsVars => RefsInv'
    BY RefsKept DEF vfsVars, fdVars, PipesInv
  <2> QED BY <2>1, <2>2, RefsNext, LeakNext DEF PipesInv
<1>3. PipesInv => NoPipeLeak
  BY DEF PipesInv
<1> QED BY <1>1, <1>2, <1>3, PTL DEF VfsSpec

-----------------------------------------------------------------------------
(* Ahci                                                                    *)

(* The ports that are counted lead to drives, and between calls the slot   *)
(* is idle.                                                                *)
Port == [drive: Drives \cup {0}, present: BOOLEAN, sector_count: {0, LBAS}]
Slot == [write: BOOLEAN, prdt: 0 .. MAX_SECTORS, op: Ops \cup {"none"},
         lba: Lba, n: 0 .. MAX_SECTORS]
Call == [op: Ops \cup {"none"}, port: 0 .. MAX_PORTS - 1, lba: Lba,
         n: 0 .. MAX_SECTORS, disk: BOOLEAN, val: Data]
Line == [ci: BOOLEAN, err: BOOLEAN, moved: 0 .. MAX_SECTORS]
Content == [Drives -> [Lba -> Data]]
Possible == [Drives -> [Lba -> SUBSET Data]]

DriverTyped ==
    /\ probe \in 1 .. Cardinality(Drives) + 1
    /\ num_ports \in 0 .. MAX_PORTS
    /\ ports \in [0 .. MAX_PORTS - 1 -> Port]
    /\ slot \in Slot /\ call \in Call /\ line \in Line
    /\ data_buf \in [Idx -> Data \cup {Ident}]
    /\ cache \in Content /\ media \in Content
    /\ live \in Possible /\ kept \in Possible
    /\ pio \in [Lba -> Data]

PortsLead ==
    /\ \A i \in 0 .. num_ports - 1 : ports[i].drive \in Drives
    /\ call = Idle => line = Quiet

(* While a call waits, the slot holds its command and nothing else; the    *)
(* sectors moved so far are the first ones.                                *)
CommandHeld ==
    call # Idle =>
        /\ Ready /\ call.op \in Ops /\ call.port \in 0 .. num_ports - 1
        /\ call.lba + call.n <= LBAS
        /\ slot = Filled(call.op, call.lba, call.n)
        /\ line.moved <= call.n
        /\ ~line.ci /\ ~line.err => line.moved = call.n

Written ==
    call.op = "write" =>
        /\ \A x \in 0 .. call.n - 1 : data_buf[x] = call.val
        /\ \A l \in Span(call.lba, call.n) : call.val \in live[Own][l]
        /\ \A l \in Span(call.lba, line.moved) : cache[Own][l] = call.val
Fetched ==
    call.op = "read" =>
        \A x \in 0 .. line.moved - 1 : data_buf[x] \in live[Own][call.lba + x]
Flushed ==
    call.op = "flush" /\ ~line.ci /\ ~line.err => cache[Own] = media[Own]

(* What a sector may read as is what it may be after a power cut, or a     *)
(* part of it.                                                             *)
LiveKept == \A d \in Drives, l \in Lba : live[d][l] \subseteq kept[d][l]

DiskInv ==
    /\ DriverTyped /\ PortsLead /\ CommandHeld
    /\ Written /\ Fetched /\ Flushed
    /\ LiveKept /\ SectorsKept /\ ReadsOwn

LEMMA Bounds ==
    ASSUME AhciAssumption
    PROVE  /\ LBAS \in Nat /\ LBAS > 0 /\ MAX_SECTORS \in Nat /\ MAX_SECTORS > 0
           /\ MAX_PORTS \in Nat /\ MAX_PORTS > 0 /\ 0 \in Data
           /\ 0 \in Lba /\ Lba \subseteq Nat /\ 0 \in 0 .. MAX_SECTORS /\ 0 \in 0 .. MAX_PORTS - 1
           /\ Drives = 1 .. Cardinality(Drives) /\ Cardinality(Drives) \in Nat
BY FS_CardinalityType DEF AhciAssumption, Lba

LEMMA CallsDiffer == Idle.op = "none" /\ "none" \notin Ops
BY DEF Idle, Ops

LEMMA DiskInit == ASSUME AhciAssumption, AhciInit PROVE DiskInv
<1> USE Bounds
<1>1. Idle \in Call /\ Quiet \in Line /\ Empty \in Slot /\ NoPort \in Port
  BY DEF Idle, Call, Quiet, Line, Empty, Slot, NoPort, Port
<1>2. Whole(0) \in Content /\ Whole({0}) \in Possible
  BY DEF Whole, Content, Possible
<1>3. probe \in 1 .. Cardinality(Drives) + 1
  BY DEF AhciInit
<1>4. DriverTyped
  BY <1>1, <1>2, <1>3 DEF AhciInit, DriverTyped
<1>5. Written /\ Fetched /\ Flushed /\ CommandHeld /\ PortsLead
  BY CallsDiffer DEF AhciInit, Written, Fetched, Flushed, CommandHeld, PortsLead, Ops, Idle
<1>6. LiveKept /\ SectorsKept /\ ReadsOwn
  BY DEF AhciInit, LiveKept, SectorsKept, ReadsOwn, Whole
<1> QED BY <1>4, <1>5, <1>6 DEF DiskInv

(* A call fills the slot of its port.                                      *)
LEMMA IssueHolds ==
    ASSUME AhciAssumption, DiskInv, NEW op \in Ops, NEW i \in 0 .. num_ports - 1,
           NEW a \in Lba, NEW n \in 0 .. MAX_SECTORS, a + n <= LBAS,
           NEW v \in Data, NEW disk \in BOOLEAN, Issue(op, i, a, n, v, disk)
    PROVE  /\ call' = [op |-> op, port |-> i, lba |-> a, n |-> n, disk |-> disk, val |-> v]
           /\ line' = [ci |-> TRUE, err |-> FALSE, moved |-> 0]
           /\ UNCHANGED <<cache, media, got>>
           /\ slot' \in Slot /\ call' \in Call /\ line' \in Line
           /\ PortsLead' /\ CommandHeld' /\ Own' \in Drives /\ Own' = Drive(i)
           /\ UNCHANGED <<probe, num_ports, ports, pio>>
<1> USE Bounds
<1>1. /\ call' = [op |-> op, port |-> i, lba |-> a, n |-> n, disk |-> disk, val |-> v]
      /\ line' = [ci |-> TRUE, err |-> FALSE, moved |-> 0]
      /\ slot' = Filled(op, a, n)
      /\ UNCHANGED <<probe, num_ports, ports, cache, media, pio, got>> /\ Ready
  BY DEF Issue
<1>2. num_ports \in 0 .. MAX_PORTS /\ i \in 0 .. MAX_PORTS - 1
  BY DEF DiskInv, DriverTyped
<1>3. slot' \in Slot /\ call' \in Call /\ line' \in Line
  BY <1>1, <1>2 DEF Slot, Call, Line, Filled
<1>4. call'.op = op /\ call'.port = i /\ call'.lba = a /\ call'.n = n
  BY <1>1
<1>5. call' # Idle
  BY <1>4, CallsDiffer
<1>6. Ready'
  BY <1>1 DEF Ready
<1>7. slot' = Filled(call'.op, call'.lba, call'.n)
  BY <1>1, <1>4
<1>8. line'.moved = 0 /\ line'.ci
  BY <1>1
<1>9. CommandHeld'
  BY <1>1, <1>4, <1>6, <1>7, <1>8 DEF CommandHeld, Filled
<1>10. PortsLead'
  BY <1>1, <1>5 DEF PortsLead, DiskInv
<1>11. Own' = Drive(i) /\ Own' \in Drives
  BY <1>1, <1>4 DEF Own, Drive, DiskInv, PortsLead
<1> QED BY <1>1, <1>3, <1>9, <1>10, <1>11

LEMMA ReadStarts ==
    ASSUME AhciAssumption, DiskInv, NEW op \in Ops \ {"write"}, NEW i \in 0 .. num_ports - 1,
           NEW a \in Lba, NEW n \in 0 .. MAX_SECTORS, a + n <= LBAS,
           NEW disk \in BOOLEAN, Issue(op, i, a, n, 0, disk), UNCHANGED <<data_buf, live, kept>>
    PROVE  DiskInv'
<1>0. 0 \in Data
  BY Bounds
<1>1. /\ call' = [op |-> op, port |-> i, lba |-> a, n |-> n, disk |-> disk, val |-> 0]
      /\ line' = [ci |-> TRUE, err |-> FALSE, moved |-> 0]
      /\ UNCHANGED <<cache, media, got>>
      /\ slot' \in Slot /\ call' \in Call /\ line' \in Line
      /\ PortsLead' /\ CommandHeld'
      /\ UNCHANGED <<probe, num_ports, ports, pio>>
  BY <1>0, IssueHolds
<1>2. DriverTyped'
  BY <1>1 DEF DiskInv, DriverTyped
<1>3. call'.op # "write" /\ line'.ci /\ line'.moved = 0
  BY <1>1
<1>4. Written' /\ Fetched' /\ Flushed'
  BY <1>3 DEF Written, Fetched, Flushed
<1>5. LiveKept' /\ SectorsKept' /\ ReadsOwn'
  BY <1>1 DEF DiskInv, LiveKept, SectorsKept, ReadsOwn
<1> QED BY <1>1, <1>2, <1>4, <1>5 DEF DiskInv

(* What a write puts on its sectors they may read as from now on.          *)
Aimed(s, t, d, a, n, v) ==
    \A e \in Drives, l \in Lba :
        /\ s[e][l] \subseteq t[e][l] /\ t[e][l] \subseteq s[e][l] \cup {v}
        /\ e = d /\ l \in Span(a, n) => v \in t[e][l]
        /\ ~(e = d /\ l \in Span(a, n)) => t[e][l] = s[e][l]

LEMMA Widens ==
    ASSUME NEW s \in Possible, NEW d \in Drives, NEW a \in Lba, NEW n \in Nat, NEW v \in Data
    PROVE  Widened(s, d, a, n, v) \in Possible /\ Aimed(s, Widened(s, d, a, n, v), d, a, n, v)
BY DEF Possible, Widened, Aimed

LEMMA WriteStarts ==
    ASSUME AhciAssumption, DiskInv, NEW i \in 0 .. num_ports - 1, NEW a \in Lba,
           NEW n \in 0 .. MAX_SECTORS, NEW v \in Data, NEW disk \in BOOLEAN, Writing(i, a, n, v, disk)
    PROVE  DiskInv'
<1> USE Bounds
<1>0. "write" \in Ops /\ a + n <= LBAS /\ Issue("write", i, a, n, v, disk) /\ n \in Nat
  BY DEF Writing, InRange, Ops
<1>1. /\ call' = [op |-> "write", port |-> i, lba |-> a, n |-> n, disk |-> disk, val |-> v]
      /\ line' = [ci |-> TRUE, err |-> FALSE, moved |-> 0]
      /\ UNCHANGED <<cache, media, got>>
      /\ slot' \in Slot /\ call' \in Call /\ line' \in Line
      /\ PortsLead' /\ CommandHeld' /\ Own' \in Drives /\ Own' = Drive(i)
      /\ UNCHANGED <<probe, num_ports, ports, pio>>
  BY <1>0, IssueHolds
<1>2. /\ data_buf' = [x \in Idx |-> IF x < n THEN v ELSE data_buf[x]]
      /\ live' = Widened(live, Drive(i), a, n, v)
      /\ kept' = Widened(kept, Drive(i), a, n, v)
  BY DEF Writing
<1>3. live \in Possible /\ kept \in Possible /\ Drive(i) \in Drives
  BY <1>1 DEF DiskInv, DriverTyped
<1>4. live' \in Possible /\ kept' \in Possible
  BY <1>0, <1>2, <1>3, Widens
<1>a. Aimed(live, live', Drive(i), a, n, v) /\ Aimed(kept, kept', Drive(i), a, n, v)
  BY <1>0, <1>2, <1>3, Widens
<1>5. DriverTyped'
  <2>1. data_buf' \in [Idx -> Data \cup {Ident}]
    BY <1>2 DEF DiskInv, DriverTyped
  <2> QED BY <1>1, <1>4, <2>1 DEF DiskInv, DriverTyped
<1>6. Written'
  <2>1. /\ call'.op = "write" /\ call'.lba = a /\ call'.n = n /\ call'.val = v
        /\ line'.moved = 0
    BY <1>1
  <2>2. \A x \in 0 .. n - 1 : data_buf'[x] = v
    BY <1>2 DEF Idx
  <2>3. \A l \in Span(a, n) : l \in Lba
    BY <1>0 DEF Span, Lba
  <2>4. \A l \in Span(a, n) : v \in live'[Own'][l]
    BY <1>1, <1>a, <2>3 DEF Aimed
  <2>5. Span(a, 0) = {}
    BY DEF Span
  <2> QED BY <2>1, <2>2, <2>4, <2>5 DEF Written
<1>7. Fetched' /\ Flushed'
  BY <1>1 DEF Fetched, Flushed
<1>8. LiveKept'
  <2> SUFFICES ASSUME NEW d \in Drives, NEW l \in Lba PROVE live'[d][l] \subseteq kept'[d][l]
    BY DEF LiveKept
  <2>1. live[d][l] \subseteq kept[d][l]
    BY DEF DiskInv, LiveKept
  <2> QED BY <1>a, <2>1 DEF Aimed
<1>9. SectorsKept'
  <2> SUFFICES ASSUME NEW d \in Drives, NEW l \in Lba
               PROVE cache'[d][l] \in live'[d][l] /\ media'[d][l] \in kept'[d][l]
    BY DEF SectorsKept
  <2>1. cache[d][l] \in live[d][l] /\ media[d][l] \in kept[d][l]
    BY DEF DiskInv, SectorsKept
  <2> QED BY <1>1, <1>a, <2>1 DEF Aimed
<1>10. ReadsOwn'
  BY <1>1 DEF DiskInv, ReadsOwn
<1> QED BY <1>1, <1>5, <1>6, <1>7, <1>8, <1>9, <1>10 DEF DiskInv

(***************************************************************************)
(* The steps of ahci_init and of the drive.                                *)
(***************************************************************************)
LEMMA ProbeKeeps == ASSUME AhciAssumption, DiskInv, Probe PROVE DiskInv'
<1> USE Bounds
<1>1. PICK ok \in {TRUE} \cup {f # "memory" : f \in Faults} :
         /\ ports' = [ports EXCEPT ![num_ports] =
               [drive |-> probe, present |-> TRUE,
                sector_count |->
                   IF ok /\ Present(num_ports) THEN LBAS ELSE 0]]
         /\ num_ports' = IF ok THEN num_ports + 1 ELSE num_ports
  BY DEF Probe
<1>2. /\ probe \in Drives /\ num_ports < MAX_PORTS /\ probe' = probe + 1
      /\ UNCHANGED <<slot, data_buf, call, line, cache, media, pio, live, kept, got>>
  BY DEF Probe
<1>3. call = Idle
  <2>1. ~Ready
    BY <1>2 DEF Ready, DiskInv, DriverTyped
  <2> QED BY <2>1 DEF DiskInv, CommandHeld
<1>4. num_ports \in 0 .. MAX_PORTS - 1 /\ ports \in [0 .. MAX_PORTS - 1 -> Port] /\ probe \in Nat
  BY <1>2 DEF DiskInv, DriverTyped
<1>5. /\ num_ports' \in 0 .. MAX_PORTS /\ num_ports' \in {num_ports, num_ports + 1}
      /\ probe' \in 1 .. Cardinality(Drives) + 1
  BY <1>1, <1>2, <1>4
<1>6. ports' \in [0 .. MAX_PORTS - 1 -> Port] /\ ports'[num_ports].drive = probe
  <2> DEFINE p == [drive |-> probe, present |-> TRUE,
                   sector_count |-> IF ok /\ Present(num_ports) THEN LBAS ELSE 0]
  <2>1. p \in Port /\ p.drive = probe
    BY <1>2 DEF Port
  <2>2. ports' = [ports EXCEPT ![num_ports] = p]
    BY <1>1
  <2> HIDE DEF p
  <2> QED BY <1>4, <2>1, <2>2
<1>7. DriverTyped'
  BY <1>2, <1>5, <1>6 DEF DiskInv, DriverTyped
<1>8. PortsLead'
  <2>1. \A j \in 0 .. num_ports' - 1 : j = num_ports \/ j \in 0 .. num_ports - 1
    <3>1. CASE num_ports' = num_ports
      BY <3>1
    <3>2. CASE num_ports' = num_ports + 1
      BY <1>4, <3>2
    <3> QED BY <1>5, <3>1, <3>2
  <2>2. \A j \in 0 .. num_ports - 1 : ports'[j] = ports[j]
    BY <1>1, <1>4
  <2> QED BY <1>2, <1>6, <2>1, <2>2 DEF DiskInv, PortsLead
<1>9. CommandHeld' /\ Written' /\ Fetched' /\ Flushed'
  BY <1>2, <1>3, CallsDiffer DEF CommandHeld, Written, Fetched, Flushed, Ops
<1>10. LiveKept' /\ SectorsKept' /\ ReadsOwn'
  BY <1>2 DEF DiskInv, LiveKept, SectorsKept, ReadsOwn
<1> QED BY <1>7, <1>8, <1>9, <1>10 DEF DiskInv

(* The drive works on the command of the call that waits.                  *)
LEMMA Commanded ==
    ASSUME AhciAssumption, DiskInv, line.ci
    PROVE  /\ call # Idle /\ call.op \in Ops /\ Own \in Drives
           /\ slot.op = call.op /\ slot.lba = call.lba /\ Limit = call.n
           /\ call.n \in 0 .. MAX_SECTORS /\ call.lba \in Lba /\ call.lba + call.n <= LBAS
           /\ call.port \in 0 .. num_ports - 1
<1> USE Bounds
<1>1. call # Idle
  BY DEF DiskInv, PortsLead, Quiet
<1>2. /\ call.op \in Ops /\ call.port \in 0 .. num_ports - 1
      /\ slot = Filled(call.op, call.lba, call.n) /\ call.lba + call.n <= LBAS
  BY <1>1 DEF DiskInv, CommandHeld
<1>3. call.n \in 0 .. MAX_SECTORS /\ call.lba \in Lba
  BY DEF DiskInv, DriverTyped, Call
<1>4. slot.op = call.op /\ slot.lba = call.lba /\ slot.n = call.n /\ slot.prdt = call.n
  BY <1>2 DEF Filled
<1>5. Limit = call.n
  BY <1>4 DEF Limit
<1>6. Own \in Drives
  BY <1>2 DEF DiskInv, PortsLead, Own, Drive
<1> QED BY <1>1, <1>2, <1>3, <1>4, <1>5, <1>6

LEMMA MoveKeeps == ASSUME AhciAssumption, DiskInv, Move PROVE DiskInv'
<1> USE Bounds
<1> DEFINE m == line.moved
           l == call.lba + m
<1>1. /\ line.ci /\ ~line.err /\ m < Limit
      /\ line' = [line EXCEPT !.moved = @ + 1]
      /\ UNCHANGED <<probe, num_ports, ports, slot, call, media, pio, live, kept, got>>
  BY DEF Move
<1>2. /\ call # Idle /\ call.op \in Ops /\ Own \in Drives
      /\ slot.op = call.op /\ slot.lba = call.lba /\ Limit = call.n
      /\ call.n \in 0 .. MAX_SECTORS /\ call.lba \in Lba /\ call.lba + call.n <= LBAS
      /\ call.port \in 0 .. num_ports - 1
  BY <1>1, Commanded
<1>3. m \in 0 .. MAX_SECTORS /\ line \in Line
  BY DEF DiskInv, DriverTyped, Line
<1>4. m \in Idx /\ l \in Lba /\ m < call.n
  BY SMTT(40), <1>1, <1>2, <1>3 DEF Idx, Lba
<1>5. line'.moved = m + 1 /\ line'.ci /\ line' \in Line
  <2>1. line'.moved = m + 1 /\ line'.ci
    BY <1>1, <1>3 DEF Line
  <2>2. m + 1 \in 0 .. MAX_SECTORS
    BY SMTT(40), <1>2, <1>3, <1>4
  <2> QED BY <1>1, <1>3, <2>1, <2>2 DEF Line
<1>6. Own' = Own
  BY <1>1 DEF Own, Drive
<1>7. \/ /\ call.op = "write" /\ UNCHANGED data_buf
         /\ cache' = [cache EXCEPT ![Own][l] = data_buf[m]]
      \/ /\ call.op = "read" /\ UNCHANGED cache
         /\ data_buf' = [data_buf EXCEPT ![m] = cache[Own][l]]
      \/ /\ call.op \notin {"write", "read"} /\ UNCHANGED cache
         /\ data_buf' = [data_buf EXCEPT ![m] = Ident]
  BY <1>2 DEF Move
<1> HIDE DEF l
<1>8. cache \in Content /\ data_buf \in [Idx -> Data \cup {Ident}]
  BY DEF DiskInv, DriverTyped
<1>9. PortsLead' /\ CommandHeld'
  <2>1. m + 1 <= call.n
    BY <1>2, <1>3, <1>4
  <2>2. PortsLead'
    BY <1>1, <1>2 DEF DiskInv, PortsLead
  <2>3. Ready' <=> Ready
    BY <1>1 DEF Ready
  <2>4. slot' = Filled(call'.op, call'.lba, call'.n)
    BY <1>1, <1>2 DEF DiskInv, CommandHeld, Filled
  <2>5. CommandHeld'
    BY <1>1, <1>2, <1>5, <2>1, <2>3, <2>4 DEF DiskInv, CommandHeld
  <2> QED BY <2>2, <2>5
<1>10. LiveKept' /\ ReadsOwn' /\ Flushed'
  BY <1>1, <1>5 DEF DiskInv, LiveKept, ReadsOwn, Flushed
<1>11. CASE call.op = "write"
  <2>1. UNCHANGED data_buf /\ cache' = [cache EXCEPT ![Own][l] = data_buf[m]]
    BY <1>7, <1>11
  <2>2. data_buf[m] = call.val /\ call.val \in live[Own][l] /\ call.val \in Data
    <3>1. l \in Span(call.lba, call.n) /\ m \in 0 .. call.n - 1
      BY SMTT(40), <1>2, <1>3, <1>4 DEF Span, l, Lba
    <3> QED BY <1>11, <3>1 DEF DiskInv, Written, DriverTyped, Call
  <2>3. cache' \in Content
    BY <1>2, <1>4, <1>8, <2>1, <2>2 DEF Content
  <2>4. \A d \in Drives, k \in Lba :
           cache'[d][k] = IF d = Own /\ k = l THEN call.val ELSE cache[d][k]
    BY <1>2, <1>4, <1>8, <2>1, <2>2 DEF Content
  <2>5. DriverTyped'
    BY <1>1, <1>5, <2>1, <2>3 DEF DiskInv, DriverTyped
  <2>6. Written'
    <3>1. \A k \in Span(call.lba, m + 1) : k \in Lba /\ (k = l \/ k \in Span(call.lba, m))
      BY SMTT(40), <1>2, <1>3, <1>4 DEF Span, Lba, l
    <3>2. \A k \in Span(call.lba, m + 1) : cache'[Own][k] = call.val
      BY <1>2, <1>11, <2>4, <3>1 DEF DiskInv, Written
    <3> QED BY <1>1, <1>5, <1>6, <2>1, <3>2 DEF DiskInv, Written
  <2>7. Fetched'
    BY <1>1, <1>11 DEF Fetched
  <2>8. SectorsKept'
    BY <1>1, <2>2, <2>4 DEF DiskInv, SectorsKept
  <2> QED BY <1>9, <1>10, <2>5, <2>6, <2>7, <2>8 DEF DiskInv
<1>12. CASE call.op # "write"
  <2>1. UNCHANGED cache
    BY <1>7, <1>12
  <2>2. cache[Own][l] \in Data /\ cache[Own][l] \in live[Own][l]
    BY <1>2, <1>4, <1>8 DEF Content, DiskInv, SectorsKept
  <2>3. data_buf' \in [Idx -> Data \cup {Ident}]
    BY <1>4, <1>7, <1>8, <2>2
  <2>4. DriverTyped'
    BY <1>1, <1>5, <2>1, <2>3 DEF DiskInv, DriverTyped
  <2>5. Written' /\ SectorsKept'
    BY <1>1, <1>12, <2>1 DEF DiskInv, Written, SectorsKept
  <2>6. Fetched'
    <3> SUFFICES ASSUME call'.op = "read", NEW x \in 0 .. line'.moved - 1
                 PROVE  data_buf'[x] \in live'[Own'][call'.lba + x]
      BY DEF Fetched
    <3>1. call.op = "read" /\ call' = call /\ live' = live
      BY <1>1
    <3>2. data_buf' = [data_buf EXCEPT ![m] = cache[Own][l]]
      BY <1>7, <3>1
    <3>3. x \in Idx /\ (x = m \/ x \in 0 .. m - 1)
      BY <1>2, <1>3, <1>4, <1>5 DEF Idx
    <3>4. CASE x = m
      BY <1>4, <1>6, <1>8, <2>2, <3>1, <3>2, <3>4 DEF l
    <3>5. CASE x # m
      <4>1. data_buf'[x] = data_buf[x] /\ data_buf[x] \in live[Own][call.lba + x]
        BY <1>8, <3>1, <3>2, <3>3, <3>5 DEF DiskInv, Fetched
      <4> QED BY <1>6, <3>1, <4>1
    <3> QED BY <3>4, <3>5
  <2> QED BY <1>9, <1>10, <2>4, <2>5, <2>6 DEF DiskInv
<1> QED BY <1>11, <1>12

LEMMA CompleteKeeps == ASSUME AhciAssumption, DiskInv, Complete PROVE DiskInv'
<1> USE Bounds
<1>1. /\ line.ci /\ ~line.err /\ line.moved = Limit
      /\ slot.op = "flush" => cache[Own] = media[Own]
      /\ line' = [line EXCEPT !.ci = FALSE]
      /\ UNCHANGED <<probe, num_ports, ports, slot, data_buf, call, cache, media, pio, live, kept, got>>
  BY DEF Complete
<1>2. call # Idle /\ slot.op = call.op /\ Limit = call.n
  BY <1>1, Commanded
<1>3. line \in Line
  BY DEF DiskInv, DriverTyped
<1>4. line' \in Line /\ line'.moved = line.moved /\ ~line'.ci /\ line'.err = line.err
  BY <1>1, <1>3 DEF Line
<1>5. DriverTyped'
  BY <1>1, <1>4 DEF DiskInv, DriverTyped
<1>6. PortsLead' /\ CommandHeld'
  BY <1>1, <1>2, <1>4 DEF DiskInv, PortsLead, CommandHeld, Ready, Filled
<1>7. Own' = Own
  BY <1>1 DEF Own, Drive
<1>8. Written' /\ Fetched' /\ Flushed'
  BY <1>1, <1>2, <1>4, <1>7 DEF DiskInv, Written, Fetched, Flushed
<1>9. LiveKept' /\ SectorsKept' /\ ReadsOwn'
  BY <1>1 DEF DiskInv, LiveKept, SectorsKept, ReadsOwn
<1> QED BY <1>5, <1>6, <1>8, <1>9 DEF DiskInv

LEMMA BreakKeeps == ASSUME AhciAssumption, DiskInv, Break PROVE DiskInv'
<1> USE Bounds
<1>1. /\ line.ci /\ ~line.err /\ line' = [line EXCEPT !.err = TRUE]
      /\ UNCHANGED <<probe, num_ports, ports, slot, data_buf, call, cache, media, pio, live, kept, got>>
  BY DEF Break
<1>2. call # Idle
  BY <1>1, Commanded
<1>3. line \in Line
  BY DEF DiskInv, DriverTyped
<1>4. line' \in Line /\ line'.moved = line.moved /\ line'.err
  BY <1>1, <1>3 DEF Line
<1>5. DriverTyped'
  BY <1>1, <1>4 DEF DiskInv, DriverTyped
<1>6. PortsLead' /\ CommandHeld'
  BY <1>1, <1>2, <1>4 DEF DiskInv, PortsLead, CommandHeld, Ready, Filled
<1>7. Own' = Own
  BY <1>1 DEF Own, Drive
<1>8. Written' /\ Fetched' /\ Flushed'
  BY <1>1, <1>4, <1>7 DEF DiskInv, Written, Fetched, Flushed
<1>9. LiveKept' /\ SectorsKept' /\ ReadsOwn'
  BY <1>1 DEF DiskInv, LiveKept, SectorsKept, ReadsOwn
<1> QED BY <1>5, <1>6, <1>8, <1>9 DEF DiskInv

LEMMA DestageKeeps ==
    ASSUME AhciAssumption, DiskInv, NEW d \in Drives, NEW l \in Lba, Destage(d, l) PROVE DiskInv'
<1>1. /\ media' = [media EXCEPT ![d][l] = cache[d][l]]
      /\ UNCHANGED <<probe, num_ports, ports, slot, data_buf, call, line, cache, pio, live, kept, got>>
  BY DEF Destage
<1>2. cache \in Content /\ media \in Content
  BY DEF DiskInv, DriverTyped
<1>3. /\ media' \in Content
      /\ \A e \in Drives, k \in Lba :
            media'[e][k] = IF e = d /\ k = l THEN cache[e][k] ELSE media[e][k]
  BY <1>1, <1>2 DEF Content
<1>4. DriverTyped'
  BY <1>1, <1>3 DEF DiskInv, DriverTyped
<1>5. PortsLead' /\ CommandHeld'
  BY <1>1 DEF DiskInv, PortsLead, CommandHeld, Ready, Filled
<1>6. Own' = Own
  BY <1>1 DEF Own, Drive
<1>7. Written' /\ Fetched'
  BY <1>1, <1>6 DEF DiskInv, Written, Fetched
<1>8. Flushed'
  <2> SUFFICES ASSUME call.op = "flush", ~line.ci, ~line.err PROVE cache[Own] = media'[Own]
    BY <1>1, <1>6 DEF Flushed
  <2>1. cache[Own] = media[Own]
    BY DEF DiskInv, Flushed
  <2>2. Own # d => media'[Own] = media[Own]
    BY <1>1, <1>2 DEF Content
  <2>3. Own = d => media'[Own] = media[Own]
    BY <1>1, <1>2, <2>1 DEF Content
  <2> QED BY <2>1, <2>2, <2>3
<1>9. LiveKept' /\ ReadsOwn'
  BY <1>1 DEF DiskInv, LiveKept, ReadsOwn
<1>10. SectorsKept'
  BY <1>1, <1>3 DEF DiskInv, LiveKept, SectorsKept
<1> QED BY <1>4, <1>5, <1>7, <1>8, <1>9, <1>10 DEF DiskInv

(***************************************************************************)
(* How a call ends.                                                        *)
(***************************************************************************)
LEMMA Idles ==
    ASSUME AhciAssumption, call' = Idle, line' = Quiet
    PROVE  CommandHeld' /\ Written' /\ Fetched' /\ Flushed' /\ call' \in Call /\ line' \in Line
<1>1. call' \in Call /\ line' \in Line
  BY Bounds DEF Idle, Call, Quiet, Line
<1>2. CommandHeld' /\ Written' /\ Fetched' /\ Flushed'
  BY CallsDiffer DEF CommandHeld, Written, Fetched, Flushed, Ops
<1> QED BY <1>1, <1>2

LEMMA AnsweredKeeps == ASSUME AhciAssumption, DiskInv, Answered PROVE DiskInv'
<1> USE Bounds
<1>1. /\ call # Idle /\ ~line.ci /\ ~line.err /\ call' = Idle /\ line' = Quiet
      /\ UNCHANGED <<probe, num_ports, ports, slot, data_buf, cache, media, pio>>
  BY DEF Answered, Finished
<1>2. /\ call.port \in 0 .. num_ports - 1 /\ line.moved = call.n
      /\ call.n \in 0 .. MAX_SECTORS /\ call.lba \in Lba /\ call.val \in Data
  BY <1>1 DEF DiskInv, CommandHeld, DriverTyped, Call
<1>3. Own \in Drives
  BY <1>2 DEF DiskInv, PortsLead, Own, Drive
<1>4. CommandHeld' /\ Written' /\ Fetched' /\ Flushed' /\ call' \in Call /\ line' \in Line
  BY <1>1, Idles
<1>5. PortsLead'
  BY <1>1 DEF DiskInv, PortsLead
<1>6. live \in Possible /\ kept \in Possible /\ cache \in Content /\ media \in Content
  BY DEF DiskInv, DriverTyped
<1>7. ReadsOwn'
  <2>1. CASE call.op = "read"
    <3>1. \A x \in 0 .. call.n - 1 : data_buf[x] \in live[Own][call.lba + x]
      BY <1>2, <2>1 DEF DiskInv, Fetched
    <3> QED BY <2>1, <3>1 DEF Answered, ReadsOwn
  <2>2. CASE call.op # "read"
    BY <2>2 DEF Answered, ReadsOwn, DiskInv
  <2> QED BY <2>1, <2>2
<1>8. CASE call.op = "write"
  <2>1. kept' = kept /\ live' = [live EXCEPT ![Own] =
            [l \in Lba |-> IF l \in Span(call.lba, call.n) THEN {call.val} ELSE @[l]]]
    BY <1>8 DEF Answered
  <2>2. live' \in Possible
    BY <1>2, <1>3, <1>6, <2>1 DEF Possible
  <2>3. \A d \in Drives, l \in Lba :
           live'[d][l] = IF d = Own /\ l \in Span(call.lba, call.n) THEN {call.val} ELSE live[d][l]
    BY <1>3, <1>6, <2>1 DEF Possible
  <2>4. \A l \in Span(call.lba, call.n) : call.val \in live[Own][l] /\ cache[Own][l] = call.val
    BY <1>2, <1>8 DEF DiskInv, Written
  <2>5. LiveKept' /\ SectorsKept'
    BY <1>1, <2>1, <2>3, <2>4 DEF DiskInv, LiveKept, SectorsKept
  <2>6. DriverTyped'
    BY <1>1, <1>4, <2>1, <2>2 DEF DiskInv, DriverTyped
  <2> QED BY <1>4, <1>5, <1>7, <2>5, <2>6 DEF DiskInv
<1>9. CASE call.op = "flush"
  <2>1. live' = live /\ kept' = [kept EXCEPT ![Own] = live[Own]]
    BY <1>9 DEF Answered
  <2>2. kept' \in Possible
    BY <1>3, <1>6, <2>1 DEF Possible
  <2>3. \A d \in Drives, l \in Lba : kept'[d][l] = IF d = Own THEN live[d][l] ELSE kept[d][l]
    BY <1>3, <1>6, <2>1 DEF Possible
  <2>4. cache[Own] = media[Own]
    BY <1>1, <1>9 DEF DiskInv, Flushed
  <2>5. LiveKept' /\ SectorsKept'
    BY <1>1, <2>1, <2>3, <2>4 DEF DiskInv, LiveKept, SectorsKept
  <2>6. DriverTyped'
    BY <1>1, <1>4, <2>1, <2>2 DEF DiskInv, DriverTyped
  <2> QED BY <1>4, <1>5, <1>7, <2>5, <2>6 DEF DiskInv
<1>10. CASE call.op \notin {"write", "flush"}
  <2>1. live' = live /\ kept' = kept
    BY <1>10 DEF Answered
  <2>2. LiveKept' /\ SectorsKept'
    BY <1>1, <2>1 DEF DiskInv, LiveKept, SectorsKept
  <2>3. DriverTyped'
    BY <1>1, <1>4, <2>1 DEF DiskInv, DriverTyped
  <2> QED BY <1>4, <1>5, <1>7, <2>2, <2>3 DEF DiskInv
<1> QED BY <1>8, <1>9, <1>10

LEMMA FellKeeps == ASSUME AhciAssumption, DiskInv, Fell PROVE DiskInv'
<1> USE Bounds
<1>1. /\ line' = Quiet /\ call' = Idle
      /\ pio' = IF call.disk /\ call.op = "write" /\ Legacy
                THEN [pio EXCEPT ![call.lba] = call.val] ELSE pio
      /\ UNCHANGED <<probe, num_ports, ports, slot, data_buf, cache, media, live, kept, got>>
  BY DEF Fell, port_reset
<1>2. CommandHeld' /\ Written' /\ Fetched' /\ Flushed' /\ call' \in Call /\ line' \in Line
  BY <1>1, Idles
<1>3. call.lba \in Lba /\ call.val \in Data /\ pio \in [Lba -> Data]
  BY DEF DiskInv, DriverTyped, Call
<1>4. pio' \in [Lba -> Data]
  BY <1>1, <1>3
<1>5. DriverTyped'
  BY <1>1, <1>2, <1>4 DEF DiskInv, DriverTyped
<1>6. PortsLead' /\ LiveKept' /\ SectorsKept' /\ ReadsOwn'
  BY <1>1 DEF DiskInv, PortsLead, LiveKept, SectorsKept, ReadsOwn
<1> QED BY <1>2, <1>5, <1>6 DEF DiskInv

LEMMA PowerCutKeeps == ASSUME AhciAssumption, DiskInv, PowerCut PROVE DiskInv'
<1> USE Bounds
<1>1. /\ cache' = media /\ live' = kept /\ probe' = 1 /\ num_ports' = 0
      /\ ports' = [i \in 0 .. MAX_PORTS - 1 |-> NoPort]
      /\ slot' = Empty /\ data_buf' = [i \in Idx |-> 0]
      /\ call' = Idle /\ line' = Quiet /\ UNCHANGED <<media, pio, kept, got>>
  BY DEF PowerCut
<1>2. CommandHeld' /\ Written' /\ Fetched' /\ Flushed' /\ call' \in Call /\ line' \in Line
  BY <1>1, Idles
<1>3. /\ ports' \in [0 .. MAX_PORTS - 1 -> Port] /\ slot' \in Slot
      /\ data_buf' \in [Idx -> Data \cup {Ident}] /\ probe' \in 1 .. Cardinality(Drives) + 1
      /\ num_ports' \in 0 .. MAX_PORTS
  BY <1>1 DEF NoPort, Port, Empty, Slot
<1>4. DriverTyped'
  BY <1>1, <1>2, <1>3 DEF DiskInv, DriverTyped
<1>5. PortsLead' /\ LiveKept' /\ SectorsKept' /\ ReadsOwn'
  BY <1>1 DEF DiskInv, PortsLead, LiveKept, SectorsKept, ReadsOwn
<1> QED BY <1>2, <1>4, <1>5 DEF DiskInv

(***************************************************************************)
(* Every step.                                                             *)
(***************************************************************************)
LEMMA DiskStep == ASSUME AhciAssumption, DiskInv, [AhciNext]_ahciVars PROVE DiskInv'
<1> USE Bounds
<1>1. CASE Probe
  BY <1>1, ProbeKeeps
<1>2. ASSUME NEW i \in 0 .. num_ports - 1, NEW a \in Lba, NEW n \in 1 .. MAX_SECTORS,
             \/ ahci_read_sectors(i, a, n)
             \/ \E v \in Data : ahci_write_sectors(i, a, n, v)
      PROVE DiskInv'
  <2>1. n \in 0 .. MAX_SECTORS /\ "read" \in Ops \ {"write"}
    BY DEF Ops
  <2>2. CASE ahci_read_sectors(i, a, n)
    BY <2>1, <2>2, ReadStarts DEF ahci_read_sectors, InRange
  <2>3. CASE \E v \in Data : ahci_write_sectors(i, a, n, v)
    BY <2>1, <2>3, WriteStarts DEF ahci_write_sectors
  <2> QED BY <1>2, <2>2, <2>3
<1>3. ASSUME NEW i \in 0 .. num_ports - 1, ahci_flush(i) \/ ahci_identify(i) PROVE DiskInv'
  <2>1. /\ 0 + 0 <= LBAS /\ 0 + 1 <= LBAS /\ 1 \in 0 .. MAX_SECTORS
        /\ "flush" \in Ops \ {"write"} /\ "identify" \in Ops \ {"write"}
    BY DEF Ops
  <2>2. CASE ahci_flush(i)
    BY <2>1, <2>2, ReadStarts DEF ahci_flush
  <2>3. CASE ahci_identify(i)
    BY <2>1, <2>3, ReadStarts DEF ahci_identify
  <2> QED BY <1>3, <2>2, <2>3
<1>4. ASSUME NEW a \in Lba, ata_read_sector(a) PROVE DiskInv'
  <2>1. a + 1 <= LBAS /\ 1 \in 0 .. MAX_SECTORS /\ "read" \in Ops \ {"write"}
    BY DEF Ops, Lba
  <2>2. Issue("read", 0, a, 1, 0, TRUE) /\ UNCHANGED <<data_buf, live, kept>>
    BY <1>4 DEF ata_read_sector
  <2>3. 0 \in 0 .. num_ports - 1
    BY <2>2 DEF Issue, Present
  <2> QED BY <2>1, <2>2, <2>3, ReadStarts
<1>5. ASSUME NEW a \in Lba, NEW v \in Data, ata_write_sector(a, v) PROVE DiskInv'
  <2>1. Writing(0, a, 1, v, TRUE)
    BY <1>5 DEF ata_write_sector
  <2>3. 1 \in 0 .. MAX_SECTORS
    OBVIOUS
  <2>2. 0 \in 0 .. num_ports - 1
    BY <2>1 DEF Writing, Issue, Present
  <2> QED BY <2>1, <2>2, <2>3, WriteStarts
<1>6. CASE Move
  BY <1>6, MoveKeeps
<1>7. CASE Complete
  BY <1>7, CompleteKeeps
<1>8. CASE Break
  BY <1>8, BreakKeeps
<1>9. ASSUME NEW d \in Drives, NEW l \in Lba, Destage(d, l) PROVE DiskInv'
  BY <1>9, DestageKeeps
<1>10. CASE Answered
  BY <1>10, AnsweredKeeps
<1>11. CASE Failed \/ GiveUp
  BY <1>11, FellKeeps DEF Failed, GiveUp
<1>12. CASE PowerCut
  BY <1>12, PowerCutKeeps
<1>13. CASE UNCHANGED ahciVars
  BY <1>13 DEF ahciVars, DiskInv, DriverTyped, PortsLead, CommandHeld, Written, Fetched, Flushed,
         LiveKept, SectorsKept, ReadsOwn, Ready, Filled, Own, Drive
<1> QED BY <1>1, <1>2, <1>3, <1>4, <1>5, <1>6, <1>7, <1>8, <1>9, <1>10, <1>11, <1>12, <1>13
        DEF AhciNext

LEMMA DiskHolds == ASSUME AhciAssumption PROVE AhciSpec => []DiskInv
<1>1. AhciInit => DiskInv
  BY DiskInit
<1>2. DiskInv /\ [AhciNext]_ahciVars => DiskInv'
  BY DiskStep
<1> QED BY <1>1, <1>2, PTL DEF AhciSpec

(* Ports, command slot, transfer buffer and the bytes of every drive keep   *)
(* their forms, whatever fails or loses power (ahci_init, ahci_rw, hcwait). *)
THEOREM AhciTyping == ASSUME AhciAssumption PROVE AhciSpec => []AhciTypeOK
<1>1. ASSUME DiskInv PROVE AhciTypeOK
  <2>1. DriverTyped
    BY <1>1 DEF DiskInv
  <2>2. /\ probe \in 1 .. Cardinality(Drives) + 1 /\ num_ports \in 0 .. MAX_PORTS
        /\ pio \in [Lba -> Data]
    BY <2>1 DEF DriverTyped
  <2>3. ASSUME NEW i \in 0 .. MAX_PORTS - 1
        PROVE  /\ ports[i].drive \in Drives \cup {0} /\ ports[i].present \in BOOLEAN
               /\ ports[i].sector_count \in {0, LBAS}
    <3>1. ports[i] \in Port
      BY <2>1 DEF DriverTyped
    <3> QED BY <3>1 DEF Port
  <2>4. /\ slot.op \in Ops \cup {"none"} /\ slot.prdt \in 0 .. MAX_SECTORS
        /\ call.op \in Ops \cup {"none"} /\ call.n \in 0 .. MAX_SECTORS
        /\ line.ci \in BOOLEAN /\ line.err \in BOOLEAN
        /\ line.moved \in 0 .. MAX_SECTORS
    BY <2>1 DEF DriverTyped, Slot, Call, Line
  <2>5. ASSUME NEW i \in Idx PROVE data_buf[i] \in Data \/ data_buf[i] = Ident
    BY <2>1 DEF DriverTyped
  <2>6. ASSUME NEW d \in Drives, NEW l \in Lba
        PROVE  /\ cache[d][l] \in Data /\ media[d][l] \in Data
               /\ live[d][l] \subseteq Data /\ kept[d][l] \subseteq Data
    <3>1. cache[d][l] \in Data /\ media[d][l] \in Data
      BY <2>1 DEF DriverTyped, Content
    <3>2. live[d][l] \in SUBSET Data /\ kept[d][l] \in SUBSET Data
      BY <2>1 DEF DriverTyped, Possible
    <3> QED BY <3>1, <3>2
  <2> QED BY <2>2, <2>3, <2>4, <2>5, <2>6 DEF AhciTypeOK
<1> QED BY <1>1, DiskHolds, PTL

(* Through failed calls, calls given up on and power cuts, every sector    *)
(* holds what the latest answered write put there, or what a failed one    *)
(* since may have, and the media nothing older than the latest answered    *)
(* flush (ahci_write_sectors, ahci_flush, port_reset).                     *)
THEOREM WritesAreKept == ASSUME AhciAssumption PROVE AhciSpec => []SectorsKept
<1>1. DiskInv => SectorsKept
  BY DEF DiskInv
<1> QED BY <1>1, DiskHolds, PTL

(* A read that succeeds returns what its sectors may hold, every one of    *)
(* them, for any number of sectors a command moves (ahci_read_sectors).    *)
THEOREM ReadsAreOwn == ASSUME AhciAssumption PROVE AhciSpec => []ReadsOwn
<1>1. DiskInv => ReadsOwn
  BY DEF DiskInv
<1> QED BY <1>1, DiskHolds, PTL
=============================================================================
