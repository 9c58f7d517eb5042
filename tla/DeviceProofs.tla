---------------------------- MODULE DeviceProofs ----------------------------
(***************************************************************************)
(* Proofs about devices: the rings of the E1000, of every size and for     *)
(* frames of any contents, are two bounded queues (module Mailbox); the    *)
(* RTL8139 driver forgets no frame (Nic); the driver of Nvme takes no      *)
(* completion for another, and without timeouts the drive holds what was   *)
(* written; the mixer of Sound takes the samples of a sound in order and   *)
(* from their owner; the windows of Gui stay where and whose they should   *)
(* be; the rings of Input hold the latest of what came in; a command to a  *)
(* disk on the USB (Msc) takes no answer of another; the rings of Xhci     *)
(* keep the order of commands and events; enumeration (Usb) overlooks no   *)
(* device, and its entries stay true as long as addresses are distinct.    *)
(***************************************************************************)
EXTENDS Nic, Nvme, Sound, Gui, Input, Msc, Xhci, Usb, SequenceTheorems,
        FiniteSetTheorems, WellFoundedInduction, TLAPS

-----------------------------------------------------------------------------
(* Steps round a ring without the modulus.                                 *)
LEMMA Turn ==
    ASSUME E1000Assumption, NEW n \in Nat, n < RING + RING
    PROVE  /\ n % RING = IF n < RING THEN n ELSE n - RING
           /\ n % RING \in Descs
<1>1. RING \in Nat /\ RING > 1
  BY DEF E1000Assumption
<1>2. n % RING = IF n < RING THEN n ELSE n - RING
  BY <1>1
<1>3. (IF n < RING THEN n ELSE n - RING) \in Descs
  BY <1>1 DEF Descs
<1> QED BY <1>2, <1>3

(* How far place b of a ring is ahead of place a.                          *)
Gap(a, b) == (b + RING - a) % RING

LEMMA Steps ==
    ASSUME E1000Assumption, NEW a \in Descs
    PROVE  /\ After(a) \in Descs
           /\ After(a) = IF a = RING - 1 THEN 0 ELSE a + 1
           /\ \A b \in Descs : /\ Gap(a, b) \in Descs
                               /\ Gap(a, b) = IF b >= a THEN b - a ELSE b + RING - a
<1>1. RING \in Nat /\ RING > 1 /\ a \in 0 .. RING - 1
  BY DEF E1000Assumption, Descs
<1>2. a + 1 \in Nat /\ a + 1 < RING + RING
  BY <1>1
<1>3. After(a) \in Descs /\ After(a) = IF a + 1 < RING THEN a + 1 ELSE a + 1 - RING
  <2>1. PICK n \in Nat : n = a + 1
    BY <1>2
  <2>2. n % RING \in Descs /\ n % RING = IF n < RING THEN n ELSE n - RING
    BY <1>2, <2>1, Turn
  <2>3. After(a) = n % RING
    BY <2>1, Zenon DEF After
  <2>4. After(a) \in Descs /\ After(a) = IF n < RING THEN n ELSE n - RING
    BY <2>2, <2>3, Zenon
  <2> QED BY <1>1, <2>1, <2>4
<1>4. ASSUME NEW b \in Descs
      PROVE  /\ Gap(a, b) \in Descs
             /\ Gap(a, b) = IF b >= a THEN b - a ELSE b + RING - a
  <2> DEFINE n == b + RING - a
  <2>1. n \in Nat /\ n < RING + RING /\ b \in Int
    BY <1>1 DEF Descs
  <2>2. Gap(a, b) = n % RING
    BY DEF Gap
  <2>3. n = b + RING - a
    OBVIOUS
  <2> HIDE DEF n
  <2>4. /\ Gap(a, b) = IF n < RING THEN n ELSE n - RING
        /\ Gap(a, b) \in Descs
    BY <2>1, <2>2, Turn
  <2> QED BY <1>1, <2>1, <2>3, <2>4
<1>5. After(a) = IF a = RING - 1 THEN 0 ELSE a + 1
  <2> DEFINE c == After(a)
  <2>1. c = IF a + 1 < RING THEN a + 1 ELSE a + 1 - RING
    BY <1>3
  <2> HIDE DEF c
  <2>2. c = IF a = RING - 1 THEN 0 ELSE a + 1
    BY <1>1, <2>1
  <2> QED BY <2>2 DEF c
<1> QED BY <1>3, <1>4, <1>5

-----------------------------------------------------------------------------
(* n frames of a ring are a sequence; the k-th lies k - 1 places behind    *)
(* the first.                                                              *)
LEMMA FramesFrom ==
    ASSUME E1000Assumption, NEW r \in Ring, NEW a \in Descs, NEW n \in 0 .. RING
    PROVE  /\ From(r, a, n) \in Seq(Frames) /\ Len(From(r, a, n)) = n
           /\ \A k \in 1 .. n :
                 /\ From(r, a, n)[k] = r.desc[(a + k - 1) % RING].frame
                 /\ (a + k - 1) % RING \in Descs
                 /\ (a + k - 1) % RING = IF a + k - 1 < RING THEN a + k - 1
                                         ELSE a + k - 1 - RING
<1>1. RING \in Nat /\ RING > 1 /\ a \in 0 .. RING - 1 /\ n \in Nat
  BY DEF E1000Assumption, Descs
<1>2. ASSUME NEW k \in 1 .. n
      PROVE  /\ (a + k - 1) % RING \in Descs
             /\ (a + k - 1) % RING = IF a + k - 1 < RING THEN a + k - 1
                                     ELSE a + k - 1 - RING
  <2> DEFINE p == (a + k - 1) % RING
  <2>1. a + k - 1 \in Nat /\ a + k - 1 < RING + RING
    BY <1>1
  <2>2. PICK m \in Nat : m = a + k - 1
    BY <2>1
  <2>3. m % RING \in Descs /\ m % RING = IF m < RING THEN m ELSE m - RING
    BY <2>1, <2>2, Turn
  <2>4. p = m % RING
    BY <2>2, Zenon
  <2> HIDE DEF p
  <2>5. p \in Descs /\ p = IF m < RING THEN m ELSE m - RING
    BY <2>3, <2>4, Zenon
  <2>6. p \in Descs /\ p = IF a + k - 1 < RING THEN a + k - 1 ELSE a + k - 1 - RING
    BY <1>1, <2>2, <2>5
  <2> QED BY <2>6 DEF p
<1>3. \A k \in 1 .. n : r.desc[(a + k - 1) % RING].frame \in Frames
  <2> SUFFICES ASSUME NEW k \in 1 .. n
               PROVE  r.desc[(a + k - 1) % RING].frame \in Frames
    OBVIOUS
  <2> DEFINE p == (a + k - 1) % RING
  <2>1. p \in Descs
    BY <1>2
  <2> HIDE DEF p
  <2>2. r.desc[p].frame \in Frames
    BY <2>1 DEF Ring, Desc
  <2> QED BY <2>2 DEF p
<1> DEFINE F(k) == r.desc[(a + k - 1) % RING].frame
<1>4. From(r, a, n) = [k \in 1 .. n |-> F(k)]
  BY DEF From
<1>5. \A k \in 1 .. n : F(k) \in Frames
  BY <1>3
<1>6. \A k \in 1 .. n : From(r, a, n)[k] = F(k)
  <2> HIDE DEF F
  <2> QED BY <1>4
<1>7. From(r, a, n) \in Seq(Frames) /\ Len(From(r, a, n)) = n
  <2> HIDE DEF F
  <2> QED BY <1>1, <1>4, <1>5
<1> QED BY <1>2, <1>6, <1>7

(* Equal sequences.                                                        *)
LEMMA SameFrames ==
    ASSUME NEW s \in Seq(Frames), NEW t \in Seq(Frames), Len(s) = Len(t),
           \A k \in 1 .. Len(s) : s[k] = t[k]
    PROVE  s = t
  BY SeqEqual

(* What waits depends on the contents of the slots between the two places. *)
LEMMA FromSame ==
    ASSUME E1000Assumption, NEW r \in Ring, NEW s \in Ring, NEW a \in Descs,
           NEW n \in 0 .. RING,
           \A i \in Descs : s.desc[i].frame = r.desc[i].frame
    PROVE  From(s, a, n) = From(r, a, n)
<1>1. \A k \in 1 .. n : From(s, a, n)[k] = From(r, a, n)[k]
  BY SMTT(40), FramesFrom
<1> QED BY <1>1, FramesFrom, SameFrames

(* A frame stored behind n others is appended to them.                     *)
LEMMA FromAppends ==
    ASSUME E1000Assumption, NEW r \in Ring, NEW s \in Ring, NEW a \in Descs,
           NEW b \in Descs, NEW n \in 0 .. RING - 1, n = Gap(a, b),
           NEW f \in Frames, s.desc[b].frame = f,
           \A i \in Descs \ {b} : s.desc[i].frame = r.desc[i].frame
    PROVE  From(s, a, n + 1) = Append(From(r, a, n), f)
<1>1. /\ RING \in Nat /\ RING > 1 /\ a \in 0 .. RING - 1 /\ b \in 0 .. RING - 1
      /\ n \in 0 .. RING - 1 /\ n + 1 \in 0 .. RING /\ n \in 0 .. RING
  BY DEF E1000Assumption, Descs
<1>2. n = IF b >= a THEN b - a ELSE b + RING - a
  BY Steps
<1> DEFINE new == From(s, a, n + 1)
           old == From(r, a, n)
           P(k) == (a + k - 1) % RING
<1>3. /\ new \in Seq(Frames) /\ Len(new) = n + 1
      /\ \A k \in 1 .. n + 1 :
            /\ new[k] = s.desc[P(k)].frame /\ P(k) \in Descs
            /\ P(k) = IF a + k - 1 < RING THEN a + k - 1 ELSE a + k - 1 - RING
  BY ZenonT(60), <1>1, FramesFrom
<1>4. /\ old \in Seq(Frames) /\ Len(old) = n
      /\ \A k \in 1 .. n : old[k] = r.desc[P(k)].frame
  BY <1>1, FramesFrom
<1> HIDE DEF new, old, P
<1>5. /\ Append(old, f) \in Seq(Frames) /\ Len(Append(old, f)) = n + 1
      /\ \A k \in 1 .. n : Append(old, f)[k] = old[k]
      /\ Append(old, f)[n + 1] = f
  BY <1>4, AppendProperties
<1>6. ASSUME NEW k \in 1 .. n + 1 PROVE new[k] = Append(old, f)[k]
  <2>1. CASE k = n + 1
    <3>1. P(k) = b
      BY <1>1, <1>2, <1>3, <2>1
    <3> QED BY <1>3, <1>5, <2>1, <3>1
  <2>2. CASE k # n + 1
    <3>1. k \in 1 .. n
      BY <1>1, <2>2
    <3>2. P(k) \in Descs /\ P(k) # b
      BY <1>1, <1>2, <1>3, <3>1
    <3> QED BY <1>3, <1>4, <1>5, <3>1, <3>2
  <2> QED BY <2>1, <2>2
<1>7. new = Append(old, f)
  BY <1>1, <1>3, <1>5, <1>6, SameFrames
<1> QED BY <1>7 DEF new, old

(* Without the first of n frames the others begin one place later.         *)
LEMMA FromTakes ==
    ASSUME E1000Assumption, NEW r \in Ring, NEW a \in Descs, NEW n \in 1 .. RING
    PROVE  /\ From(r, a, n) # <<>> /\ Head(From(r, a, n)) = r.desc[a].frame
           /\ From(r, After(a), n - 1) = Tail(From(r, a, n))
<1>1. /\ RING \in Nat /\ RING > 1 /\ a \in 0 .. RING - 1
      /\ n \in Nat /\ n \in 0 .. RING /\ n - 1 \in 0 .. RING /\ 1 \in 1 .. n
  BY DEF E1000Assumption, Descs
<1> DEFINE all == From(r, a, n)
           rest == From(r, After(a), n - 1)
           P(k) == (a + k - 1) % RING
           Q(k) == (After(a) + k - 1) % RING
<1>2. After(a) \in Descs /\ After(a) = IF a = RING - 1 THEN 0 ELSE a + 1
  BY Steps
<1>3. /\ all \in Seq(Frames) /\ Len(all) = n
      /\ \A k \in 1 .. n :
            /\ all[k] = r.desc[P(k)].frame
            /\ P(k) = IF a + k - 1 < RING THEN a + k - 1 ELSE a + k - 1 - RING
  BY <1>1, FramesFrom
<1>4. /\ rest \in Seq(Frames) /\ Len(rest) = n - 1
      /\ \A k \in 1 .. n - 1 :
            /\ rest[k] = r.desc[Q(k)].frame
            /\ Q(k) = IF After(a) + k - 1 < RING THEN After(a) + k - 1
                      ELSE After(a) + k - 1 - RING
  <2> DEFINE c == After(a)
  <2>1. c \in Descs
    BY <1>2
  <2> HIDE DEF c
  <2>2. /\ From(r, c, n - 1) \in Seq(Frames) /\ Len(From(r, c, n - 1)) = n - 1
        /\ \A k \in 1 .. n - 1 :
              /\ From(r, c, n - 1)[k] = r.desc[(c + k - 1) % RING].frame
              /\ (c + k - 1) % RING = IF c + k - 1 < RING THEN c + k - 1
                                      ELSE c + k - 1 - RING
    BY <1>1, <2>1, FramesFrom
  <2> QED BY <2>2 DEF c
<1> HIDE DEF all, rest, P, Q
<1>5. all # <<>> /\ Head(all) = all[1] /\ P(1) = a
  BY <1>1, <1>3
<1>6. /\ Tail(all) \in Seq(Frames) /\ Len(Tail(all)) = n - 1
      /\ \A k \in 1 .. n - 1 : Tail(all)[k] = all[k + 1]
  BY <1>3, <1>5, HeadTailProperties
<1>7. ASSUME NEW k \in 1 .. n - 1 PROVE rest[k] = Tail(all)[k]
  <2>1. k + 1 \in 1 .. n /\ k \in Int
    BY <1>1
  <2>2. P(k + 1) = IF a + (k + 1) - 1 < RING THEN a + (k + 1) - 1
                   ELSE a + (k + 1) - 1 - RING
    BY <1>3, <2>1
  <2> DEFINE c == After(a)
  <2>3. /\ c = IF a = RING - 1 THEN 0 ELSE a + 1
        /\ Q(k) = IF c + k - 1 < RING THEN c + k - 1 ELSE c + k - 1 - RING
    BY <1>2, <1>4
  <2> HIDE DEF c
  <2>4. Q(k) = P(k + 1)
    BY <1>1, <2>1, <2>2, <2>3
  <2> QED BY <1>3, <1>4, <1>6, <2>1, <2>4
<1>8. rest = Tail(all)
  BY <1>4, <1>6, <1>7, SameFrames
<1>9. Head(all) = r.desc[a].frame
  BY <1>1, <1>3, <1>5
<1> QED BY <1>5, <1>8, <1>9 DEF all, rest
-----------------------------------------------------------------------------
(* The frames that wait in a ring; the transmit ring may be full.          *)
RxCount == Gap(After(rx.tail), rx.head)
TxCount == IF tx.head = tx.tail /\ ~tx.desc[tx.head].dd THEN RING
           ELSE Gap(tx.head, tx.tail)

(* The done bit of a receive slot says that a frame waits in it, that of a *)
(* transmit slot that none does; e1000_send waits for the slot at the tail.*)
RxMarked == \A i \in Descs : rx.desc[i].dd <=> Gap(After(rx.tail), i) < RxCount
TxMarked == \A i \in Descs : tx.desc[i].dd <=> TxCount <= Gap(tx.head, i)

RingInv ==
    /\ NicTypeOK
    /\ RxMarked
    /\ TxMarked
    /\ sending.at = "wait" => sending.slot = tx.tail

LEMMA RingParts ==
    ASSUME E1000Assumption, NEW r \in Ring
    PROVE  /\ RING \in Nat /\ RING > 1 /\ Descs = 0 .. RING - 1
           /\ r.head \in Descs /\ r.tail \in Descs
           /\ r.desc \in [Descs -> Desc]
  BY DEF E1000Assumption, Ring, Descs

LEMMA Rings ==
    ASSUME RingInv
    PROVE  rx \in Ring /\ tx \in Ring /\ sending \in Sending
  BY DEF RingInv, NicTypeOK

(* Neither ring holds more than it has slots.                              *)
LEMMA Counts ==
    ASSUME E1000Assumption, RingInv
    PROVE  /\ RxCount \in Descs
           /\ TxCount \in 0 .. RING
           /\ Received = From(rx, After(rx.tail), RxCount)
           /\ Waiting = From(tx, tx.head, TxCount)
<1>1. RxCount \in Descs /\ Gap(tx.head, tx.tail) \in Descs
  BY Rings, RingParts, Steps DEF RxCount
<1>2. TxCount \in 0 .. RING
  BY <1>1, Rings, RingParts DEF TxCount
<1>3. Received = From(rx, After(rx.tail), RxCount)
  BY DEF Received, RxCount, Gap
<1>4. Waiting = From(tx, tx.head, TxCount)
  BY DEF Waiting, TxCount, Gap
<1> QED BY <1>1, <1>2, <1>3, <1>4

LEMMA RingInit ==
    ASSUME E1000Assumption, NicInit
    PROVE  RingInv /\ Received = <<>> /\ Waiting = <<>>
<1>1. RING \in Nat /\ RING > 1 /\ Descs = 0 .. RING - 1
  BY DEF E1000Assumption, Descs
<1>2. AnyFrame \in Frames
  BY DEF E1000Assumption, AnyFrame
<1>3. 0 \in Descs /\ RING - 1 \in Descs
  BY <1>1
<1>4. rx \in Ring /\ tx \in Ring
  BY <1>2, <1>3 DEF NicInit, Ring, Desc
<1>5. NicTypeOK
  BY <1>2, <1>3, <1>4 DEF NicInit, NicTypeOK, Sending, NotSending
<1>6. After(rx.tail) = 0 /\ rx.head = 0 /\ tx.head = 0 /\ tx.tail = 0
  BY <1>3, Steps DEF NicInit
<1>7. \A i \in Descs : ~rx.desc[i].dd /\ tx.desc[i].dd
  BY DEF NicInit
<1>8. \A b \in Descs : Gap(0, b) = b
  BY <1>1, <1>3, Steps
<1>9. RxCount = 0 /\ TxCount = 0
  BY <1>3, <1>6, <1>7, <1>8 DEF RxCount, TxCount
<1>10. RxMarked /\ TxMarked
  BY <1>1, <1>6, <1>7, <1>8, <1>9 DEF RxMarked, TxMarked
<1>11. RingInv
  BY <1>5, <1>10 DEF RingInv, NicInit, NotSending
<1>12. From(rx, After(rx.tail), 0) = <<>> /\ From(tx, tx.head, 0) = <<>>
  BY DEF From
<1> QED BY <1>9, <1>11, <1>12, Counts

-----------------------------------------------------------------------------
(* The card puts a frame into a receive slot.                              *)
LEMMA Arrives ==
    ASSUME E1000Assumption, RingInv, NEW f \in Frames, Arrive(f)
    PROVE  /\ RingInv' /\ Len(Received) < RING
           /\ Received' = Append(Received, f) /\ Waiting' = Waiting
<1> DEFINE t == rx.tail
           h == rx.head
           a == After(t)
           n == RxCount
<1>1. /\ h # t /\ UNCHANGED <<tx, sending, delivered>>
      /\ rx' = [rx EXCEPT !.desc[rx.head] = [dd |-> TRUE, frame |-> f],
                          !.head = After(@)]
  BY DEF Arrive
<1>2. /\ RING \in Nat /\ RING > 1 /\ Descs = 0 .. RING - 1
      /\ h \in Descs /\ t \in Descs /\ rx.desc \in [Descs -> Desc]
  BY Rings, RingParts
<1>3. /\ rx' \in Ring /\ rx'.tail = t /\ rx'.head = After(h)
      /\ rx'.desc = [rx.desc EXCEPT ![h] = [dd |-> TRUE, frame |-> f]]
  <2>1. After(h) \in Descs
    BY <1>2, Steps
  <2>2. rx'.desc = [rx.desc EXCEPT ![h] = [dd |-> TRUE, frame |-> f]]
    BY <1>1, Rings DEF Ring
  <2>3. rx'.tail = t /\ rx'.head = After(h)
    BY <1>1, Rings DEF Ring
  <2>4. rx'.desc \in [Descs -> Desc]
    BY <1>2, <2>2 DEF Desc
  <2>5. rx' = [desc |-> rx'.desc, head |-> rx'.head, tail |-> rx'.tail]
    BY <1>1, Rings DEF Ring
  <2> QED BY <1>2, <2>1, <2>2, <2>3, <2>4, <2>5 DEF Ring
<1>4. a \in Descs /\ a = IF t = RING - 1 THEN 0 ELSE t + 1
  BY <1>2, Steps
<1>5. n = IF h >= a THEN h - a ELSE h + RING - a
  BY <1>2, <1>4, Steps DEF RxCount
<1>6. RxCount' = Gap(a, After(h))
  BY <1>3 DEF RxCount
<1> HIDE DEF h, t, a, n
<1>7. RxCount' = n + 1 /\ n \in 0 .. RING - 2
  <2> DEFINE g == After(h)
  <2>1. g \in Descs /\ g = IF h = RING - 1 THEN 0 ELSE h + 1
    BY <1>2, Steps
  <2>2. RxCount' = IF g >= a THEN g - a ELSE g + RING - a
    BY <1>4, <1>6, <2>1, Steps
  <2> HIDE DEF g
  <2> USE <1>1, <1>2, <1>4
  <2>3. CASE h = RING - 1
    <3>1. g = 0 /\ a # 0
      BY <2>1, <2>3
    <3>2. n = RING - 1 - a /\ RxCount' = RING - a
      BY <1>5, <2>2, <2>3, <3>1
    <3> QED BY <3>1, <3>2
  <2>4. CASE h # RING - 1 /\ h >= a
    <3>1. g = h + 1 /\ g >= a
      BY <2>1, <2>4
    <3>2. n = h - a /\ RxCount' = h + 1 - a
      BY <1>5, <2>2, <2>4, <3>1
    <3> QED BY <2>4, <3>2
  <2>5. CASE h # RING - 1 /\ ~(h >= a)
    <3>1. g = h + 1 /\ ~(g >= a)
      BY <2>1, <2>5
    <3>2. n = h + RING - a /\ RxCount' = h + 1 + RING - a
      BY <1>5, <2>2, <2>5, <3>1
    <3> QED BY <2>5, <3>1, <3>2
  <2> QED BY <2>3, <2>4, <2>5
<1>8. \A i \in Descs : Gap(a, i) < n + 1 <=> Gap(a, i) < n \/ i = h
  <2> SUFFICES ASSUME NEW i \in Descs
               PROVE  Gap(a, i) < n + 1 <=> Gap(a, i) < n \/ i = h
    OBVIOUS
  <2> DEFINE d == Gap(a, i)
  <2>1. d = IF i >= a THEN i - a ELSE i + RING - a
    BY <1>4, Steps
  <2> HIDE DEF d
  <2>2. d < n + 1 <=> d < n \/ i = h
    BY <1>2, <1>4, <1>5, <2>1
  <2> QED BY <2>2 DEF d
<1>9. RxMarked'
  <2>1. \A i \in Descs : rx.desc[i].dd <=> Gap(a, i) < n
    BY DEF RingInv, RxMarked, a, n, t
  <2>2. \A i \in Descs : rx'.desc[i].dd <=> rx.desc[i].dd \/ i = h
    BY <1>2, <1>3
  <2>3. After(rx'.tail) = a
    BY <1>3 DEF a
  <2> QED BY <1>7, <1>8, <2>1, <2>2, <2>3 DEF RxMarked
<1>10. RingInv'
  BY <1>1, <1>3, <1>9 DEF RingInv, NicTypeOK, TxMarked, TxCount
<1>11. Received = From(rx, a, n) /\ Received' = From(rx', a, n + 1)
  <2>1. Received = From(rx, a, n)
    BY Counts DEF a, n, t
  <2>2. Received' = From(rx', After(rx'.tail), RxCount')
    BY DEF Received, RxCount, Gap
  <2> QED BY <1>3, <1>7, <2>1, <2>2 DEF a
<1>12. From(rx', a, n + 1) = Append(From(rx, a, n), f)
  <2>1. rx'.desc[h].frame = f /\ \A i \in Descs \ {h} : rx'.desc[i].frame = rx.desc[i].frame
    BY <1>2, <1>3
  <2>2. n \in 0 .. RING - 1 /\ n = Gap(a, h)
    BY <1>2, <1>7 DEF n, a, h, t, RxCount
  <2>3. rx \in Ring /\ rx' \in Ring /\ a \in Descs /\ h \in Descs
    BY <1>2, <1>3, <1>4, Rings
  <2> QED BY <2>1, <2>2, <2>3, FromAppends
<1>13. Len(Received) < RING
  <2>1. n \in 0 .. RING /\ n < RING
    BY <1>2, <1>7
  <2> QED BY <1>4, <1>11, <2>1, Rings, FramesFrom
<1>14. Waiting' = Waiting
  BY <1>1 DEF Waiting, From
<1> QED BY <1>10, <1>11, <1>12, <1>13, <1>14
(* e1000_poll takes the oldest frame, if there is one.                     *)
LEMMA Polls ==
    ASSUME E1000Assumption, RingInv, Poll
    PROVE  /\ RingInv' /\ Received # <<>> /\ delivered' = <<"rx", Head(Received)>>
           /\ Received' = Tail(Received) /\ Waiting' = Waiting
<1> DEFINE t == rx.tail
           h == rx.head
           a == After(t)
           n == RxCount
<1>1. /\ rx.desc[a].dd /\ UNCHANGED <<tx, sending>>
      /\ delivered' = <<"rx", rx.desc[a].frame>>
      /\ rx' = [rx EXCEPT !.desc[a].dd = FALSE, !.tail = a]
  BY DEF Poll, GiveBack
<1>2. /\ RING \in Nat /\ RING > 1 /\ Descs = 0 .. RING - 1
      /\ h \in Descs /\ t \in Descs /\ rx.desc \in [Descs -> Desc]
  BY Rings, RingParts
<1>3. a \in Descs /\ a = IF t = RING - 1 THEN 0 ELSE t + 1
  BY <1>2, Steps
<1>4. n = IF h >= a THEN h - a ELSE h + RING - a
  BY <1>2, <1>3, Steps DEF RxCount
<1>5. \A i \in Descs : rx.desc[i].dd <=> Gap(a, i) < n
  BY DEF RingInv, RxMarked
<1> HIDE DEF a
<1>6. /\ rx' \in Ring /\ rx'.tail = a /\ rx'.head = h
      /\ rx'.desc = [rx.desc EXCEPT ![a] = [rx.desc[a] EXCEPT !.dd = FALSE]]
  <2>1. rx'.desc = [rx.desc EXCEPT ![a] = [rx.desc[a] EXCEPT !.dd = FALSE]]
    BY <1>1, <1>2, <1>3, Rings DEF Ring, Desc
  <2>2. rx'.tail = a /\ rx'.head = h
    BY <1>1, Rings DEF Ring
  <2>3. rx'.desc \in [Descs -> Desc]
    BY ZenonT(60), <1>2, <1>3, <2>1 DEF Desc
  <2>4. rx' = [desc |-> rx'.desc, head |-> rx'.head, tail |-> rx'.tail]
    BY <1>1, Rings DEF Ring
  <2> QED BY <1>2, <1>3, <2>1, <2>2, <2>3, <2>4 DEF Ring
<1>7. RxCount' = Gap(After(a), h)
  BY <1>6 DEF RxCount
<1>8. Gap(a, a) = 0 /\ Gap(a, a) < n
  <2> DEFINE z == Gap(a, a)
  <2>1. z = IF a >= a THEN a - a ELSE a + RING - a
    BY <1>3, Steps
  <2>2. z < n
    BY <1>1, <1>3, <1>5
  <2> HIDE DEF z, n
  <2>3. z = 0 /\ z < n
    BY <1>2, <1>3, <2>1, <2>2
  <2> QED BY <2>3 DEF z, n
<1> DEFINE g == After(a)
<1>9. g \in Descs /\ g = IF a = RING - 1 THEN 0 ELSE a + 1
  BY <1>3, Steps
<1>10. RxCount' = IF h >= g THEN h - g ELSE h + RING - g
  BY <1>2, <1>7, <1>9, Steps
<1> HIDE DEF h, t, n, g
<1>11. RxCount' = n - 1 /\ n \in 1 .. RING - 1
  BY <1>2, <1>3, <1>4, <1>8, <1>9, <1>10
<1>12. \A i \in Descs : Gap(g, i) < n - 1 <=> Gap(a, i) < n /\ i # a
  <2> SUFFICES ASSUME NEW i \in Descs
               PROVE  Gap(g, i) < n - 1 <=> Gap(a, i) < n /\ i # a
    OBVIOUS
  <2> DEFINE d == Gap(a, i)
             e == Gap(g, i)
  <2>1. d = IF i >= a THEN i - a ELSE i + RING - a
    BY <1>3, Steps
  <2>2. e = IF i >= g THEN i - g ELSE i + RING - g
    BY <1>9, Steps
  <2> HIDE DEF d, e
  <2>3. e < n - 1 <=> d < n /\ i # a
    BY <1>2, <1>3, <1>9, <1>11, <2>1, <2>2
  <2> QED BY <2>3 DEF d, e
<1>13. RxMarked'
  <2>1. \A i \in Descs : rx'.desc[i].dd <=> rx.desc[i].dd /\ i # a
    BY <1>2, <1>3, <1>6 DEF Desc
  <2>2. After(rx'.tail) = g
    BY <1>6 DEF g
  <2>3. \A i \in Descs : rx'.desc[i].dd <=> Gap(g, i) < RxCount'
    BY <1>5, <1>11, <1>12, <2>1 DEF n
  <2> QED BY <2>2, <2>3 DEF RxMarked
<1>14. RingInv'
  <2>1. delivered' \in {"rx", "tx"} \X Frames
    BY <1>1, <1>2, <1>3 DEF Desc
  <2> QED BY <1>1, <1>6, <1>13, <2>1 DEF RingInv, NicTypeOK, TxMarked, TxCount
<1>15. Received = From(rx, a, n) /\ Received' = From(rx', g, n - 1)
  <2>1. Received = From(rx, a, n)
    BY Counts DEF a, n, t
  <2>2. Received' = From(rx', After(rx'.tail), RxCount')
    BY DEF Received, RxCount, Gap
  <2> QED BY <1>6, <1>11, <2>1, <2>2 DEF g
<1>16. From(rx', g, n - 1) = From(rx, g, n - 1)
  <2>1. \A i \in Descs : rx'.desc[i].frame = rx.desc[i].frame
    BY <1>2, <1>3, <1>6 DEF Desc
  <2>2. n - 1 \in 0 .. RING /\ rx \in Ring /\ rx' \in Ring
    BY <1>2, <1>6, <1>11, Rings
  <2> QED BY <1>9, <2>1, <2>2, FromSame
<1>17. /\ From(rx, a, n) # <<>> /\ Head(From(rx, a, n)) = rx.desc[a].frame
       /\ From(rx, g, n - 1) = Tail(From(rx, a, n))
  <2>1. n \in 1 .. RING /\ rx \in Ring
    BY <1>2, <1>11, Rings
  <2> QED BY <1>3, <2>1, FromTakes DEF g
<1>18. Waiting' = Waiting
  BY <1>1 DEF Waiting, From
<1> QED BY <1>1, <1>14, <1>15, <1>16, <1>17, <1>18

-----------------------------------------------------------------------------
(* e1000_send fills the slot at the tail: it is not one that waits.        *)
LEMMA Submits ==
    ASSUME E1000Assumption, RingInv, Submit
    PROVE  /\ RingInv' /\ sending.frame \in Frames /\ Len(Waiting) < RING
           /\ Waiting' = Append(Waiting, sending.frame) /\ Received' = Received
<1> DEFINE t == tx.tail
           h == tx.head
           n == TxCount
           f == sending.frame
           g == After(t)
<1>1. /\ sending.at = "wait" /\ tx.desc[t].dd /\ UNCHANGED <<rx, delivered>>
      /\ tx' = [tx EXCEPT !.desc[tx.tail] = [dd |-> FALSE, frame |-> sending.frame],
                          !.tail = After(@)]
      /\ sending' = [sending EXCEPT !.at = "sent"]
  BY DEF Submit, SlotFree, RingInv
<1>2. /\ RING \in Nat /\ RING > 1 /\ Descs = 0 .. RING - 1
      /\ h \in Descs /\ t \in Descs /\ tx.desc \in [Descs -> Desc]
      /\ f \in Frames
  BY Rings, RingParts DEF Sending
<1>3. g \in Descs /\ g = IF t = RING - 1 THEN 0 ELSE t + 1
  BY <1>2, Steps
<1>4. /\ tx' \in Ring /\ tx'.tail = g /\ tx'.head = h
      /\ tx'.desc = [tx.desc EXCEPT ![t] = [dd |-> FALSE, frame |-> f]]
  <2>1. tx'.desc = [tx.desc EXCEPT ![t] = [dd |-> FALSE, frame |-> f]]
    BY <1>1, Rings DEF Ring
  <2>2. tx'.tail = g /\ tx'.head = h
    BY <1>1, Rings DEF Ring
  <2>3. tx'.desc \in [Descs -> Desc]
    BY <1>2, <2>1 DEF Desc
  <2>4. tx' = [desc |-> tx'.desc, head |-> tx'.head, tail |-> tx'.tail]
    BY <1>1, Rings DEF Ring
  <2> QED BY <1>2, <1>3, <2>1, <2>2, <2>3, <2>4 DEF Ring
<1>5. \A i \in Descs : tx.desc[i].dd <=> n <= Gap(h, i)
  BY DEF RingInv, TxMarked
<1>6. \A i \in Descs : /\ Gap(h, i) \in Descs
                       /\ Gap(h, i) = IF i >= h THEN i - h ELSE i + RING - h
  BY <1>2, Steps
<1>7. n \in 0 .. RING /\ (n = RING \/ n = Gap(h, t))
  BY Counts DEF TxCount
<1> DEFINE e == Gap(h, t)
           m == Gap(h, g)
<1>8. /\ n <= e /\ e \in 0 .. RING - 1
      /\ e = IF t >= h THEN t - h ELSE t + RING - h
      /\ m = IF g >= h THEN g - h ELSE g + RING - h
  BY <1>1, <1>2, <1>3, <1>5, <1>6
<1> HIDE DEF g, h, t, n
<1>9. n = e /\ n < RING
  <2> HIDE DEF e, m
  <2>1. n = RING \/ n = e
    BY <1>7 DEF e
  <2> QED BY <1>2, <1>7, <1>8, <2>1
<1>10. TxCount' = n + 1
  <2>1. TxCount' = IF h = g /\ ~tx'.desc[h].dd THEN RING ELSE m
    BY <1>4 DEF TxCount
  <2>2. CASE h = g
    <3>1. t # h /\ n = RING - 1
      <4> HIDE DEF e, m
      <4> QED BY <1>2, <1>3, <1>8, <1>9, <2>2
    <3>2. Gap(h, h) < n
      <4> DEFINE z == Gap(h, h)
      <4>1. z = IF h >= h THEN h - h ELSE h + RING - h
        BY <1>2, <1>6
      <4> HIDE DEF z
      <4>2. z < n
        BY <1>2, <3>1, <4>1
      <4> QED BY <4>2 DEF z
    <3>3. ~tx.desc[h].dd
      <4> DEFINE z == Gap(h, h)
      <4>1. z < n /\ z \in Descs /\ (tx.desc[h].dd <=> n <= z)
        BY <1>2, <1>5, <1>6, <3>2
      <4> HIDE DEF z
      <4> QED BY <1>2, <1>7, <4>1
    <3>4. ~tx'.desc[h].dd
      BY <1>2, <1>4, <3>1, <3>3
    <3> QED BY <1>2, <2>1, <2>2, <3>1, <3>4
  <2>3. CASE h # g
    <3>1. TxCount' = m
      BY <2>1, <2>3
    <3> HIDE DEF e, m
    <3> QED BY <1>2, <1>3, <1>8, <1>9, <2>3, <3>1
  <2> QED BY <2>2, <2>3
<1>11. \A i \in Descs : n + 1 <= Gap(h, i) <=> n <= Gap(h, i) /\ i # t
  <2> SUFFICES ASSUME NEW i \in Descs
               PROVE  n + 1 <= Gap(h, i) <=> n <= Gap(h, i) /\ i # t
    OBVIOUS
  <2> DEFINE d == Gap(h, i)
  <2>1. d = IF i >= h THEN i - h ELSE i + RING - h
    BY <1>6
  <2> HIDE DEF d, e, m
  <2>2. n + 1 <= d <=> n <= d /\ i # t
    BY <1>2, <1>8, <1>9, <2>1
  <2> QED BY <2>2 DEF d
<1>12. TxMarked'
  <2>1. \A i \in Descs : tx'.desc[i].dd <=> tx.desc[i].dd /\ i # t
    BY <1>2, <1>4 DEF Desc
  <2>2. \A i \in Descs : tx'.desc[i].dd <=> n + 1 <= Gap(h, i)
    BY <1>5, <1>11, <2>1
  <2> QED BY <1>4, <1>10, <2>2 DEF TxMarked
<1>13. RingInv'
  <2>1. sending' \in Sending /\ sending'.at = "sent"
    BY <1>1, Rings DEF Sending
  <2> QED BY <1>1, <1>4, <1>12, <2>1 DEF RingInv, NicTypeOK, RxMarked, RxCount
<1>14. Waiting = From(tx, h, n) /\ Waiting' = From(tx', h, n + 1)
  <2>1. Waiting = From(tx, h, n)
    BY Counts DEF h, n
  <2>2. Waiting' = From(tx', tx'.head, TxCount')
    BY DEF Waiting, TxCount, Gap
  <2> QED BY <1>4, <1>10, <2>1, <2>2
<1>15. From(tx', h, n + 1) = Append(From(tx, h, n), f)
  <2>1. tx'.desc[t].frame = f /\ \A i \in Descs \ {t} : tx'.desc[i].frame = tx.desc[i].frame
    BY <1>2, <1>4
  <2>2. tx \in Ring /\ tx' \in Ring /\ h \in Descs /\ t \in Descs /\ f \in Frames
    BY <1>2, <1>4, Rings
  <2>3. n \in 0 .. RING - 1 /\ n = Gap(h, t)
    <3> HIDE DEF e
    <3> QED BY <1>2, <1>8, <1>9 DEF e
  <2> HIDE DEF f
  <2> QED BY <2>1, <2>2, <2>3, FromAppends
<1>16. Len(Waiting) < RING
  <2>1. n \in 0 .. RING /\ n < RING
    BY <1>7, <1>9
  <2> QED BY <1>2, <1>14, <2>1, Rings, FramesFrom
<1>17. Received' = Received
  BY <1>1 DEF Received, From
<1> QED BY <1>2, <1>13, <1>14, <1>15, <1>16, <1>17

(* The card sends the oldest frame that waits.                             *)
LEMMA Transmits ==
    ASSUME E1000Assumption, RingInv, Transmit
    PROVE  /\ RingInv' /\ Waiting # <<>> /\ delivered' = <<"tx", Head(Waiting)>>
           /\ Waiting' = Tail(Waiting) /\ Received' = Received
<1> DEFINE t == tx.tail
           h == tx.head
           n == TxCount
           g == After(h)
<1>1. /\ h # t /\ UNCHANGED <<rx, sending>>
      /\ delivered' = <<"tx", tx.desc[h].frame>>
      /\ tx' = [tx EXCEPT !.desc[tx.head].dd = TRUE, !.head = After(@)]
  BY DEF Transmit
<1>2. /\ RING \in Nat /\ RING > 1 /\ Descs = 0 .. RING - 1
      /\ h \in Descs /\ t \in Descs /\ tx.desc \in [Descs -> Desc]
  BY Rings, RingParts
<1>3. g \in Descs /\ g = IF h = RING - 1 THEN 0 ELSE h + 1
  BY <1>2, Steps
<1>4. /\ tx' \in Ring /\ tx'.tail = t /\ tx'.head = g
      /\ tx'.desc = [tx.desc EXCEPT ![h] = [tx.desc[h] EXCEPT !.dd = TRUE]]
  <2>1. tx'.desc = [tx.desc EXCEPT ![h] = [tx.desc[h] EXCEPT !.dd = TRUE]]
    BY <1>1, <1>2, Rings DEF Ring, Desc
  <2>2. tx'.tail = t /\ tx'.head = g
    BY <1>1, Rings DEF Ring
  <2>3. tx'.desc \in [Descs -> Desc]
    BY <1>2, <2>1 DEF Desc
  <2>4. tx' = [desc |-> tx'.desc, head |-> tx'.head, tail |-> tx'.tail]
    BY <1>1, Rings DEF Ring
  <2> QED BY <1>2, <1>3, <2>1, <2>2, <2>3, <2>4 DEF Ring
<1>5. \A i \in Descs : tx.desc[i].dd <=> n <= Gap(h, i)
  BY DEF RingInv, TxMarked
<1>6. n = IF t >= h THEN t - h ELSE t + RING - h
  BY <1>1, <1>2, Steps DEF TxCount
<1>7. \A i \in Descs : /\ Gap(h, i) = IF i >= h THEN i - h ELSE i + RING - h
                       /\ Gap(g, i) = IF i >= g THEN i - g ELSE i + RING - g
  BY <1>2, <1>3, Steps
<1> DEFINE e == Gap(g, t)
<1>8. e = IF t >= g THEN t - g ELSE t + RING - g
  BY <1>2, <1>7
<1> HIDE DEF g, h, t, n
<1>9. n \in 1 .. RING - 1 /\ n - 1 = e
  <2> HIDE DEF e
  <2> QED BY SMTT(40), <1>1, <1>2, <1>3, <1>6, <1>8
<1>10. \A i \in Descs : n - 1 <= Gap(g, i) <=> n <= Gap(h, i) \/ i = h
  <2> SUFFICES ASSUME NEW i \in Descs
               PROVE  n - 1 <= Gap(g, i) <=> n <= Gap(h, i) \/ i = h
    OBVIOUS
  <2> DEFINE d == Gap(h, i)
             c == Gap(g, i)
  <2>1. /\ d = IF i >= h THEN i - h ELSE i + RING - h
        /\ c = IF i >= g THEN i - g ELSE i + RING - g
    BY <1>7
  <2> HIDE DEF c, d, e
  <2>2. n - 1 <= c <=> n <= d \/ i = h
    BY <1>2, <1>3, <1>9, <2>1
  <2> QED BY <2>2 DEF c, d
<1>11. \A i \in Descs : tx'.desc[i].dd <=> n - 1 <= Gap(g, i)
  <2>1. \A i \in Descs : tx'.desc[i].dd <=> tx.desc[i].dd \/ i = h
    BY <1>2, <1>4 DEF Desc
  <2> QED BY <1>5, <1>10, <2>1
<1>12. TxCount' = n - 1
  <2>1. TxCount' = IF g = t /\ ~tx'.desc[g].dd THEN RING ELSE e
    BY <1>4 DEF TxCount
  <2>2. CASE g = t
    <3>1. n - 1 = 0 /\ Gap(g, g) = 0
      <4> DEFINE z == Gap(g, g)
      <4>1. z = IF g >= g THEN g - g ELSE g + RING - g
        BY <1>3, <1>7
      <4> HIDE DEF e, z
      <4>2. n - 1 = 0 /\ z = 0
        BY <1>2, <1>3, <1>8, <1>9, <2>2, <4>1
      <4> QED BY <4>2 DEF z
    <3>2. tx'.desc[g].dd
      <4>1. n - 1 <= Gap(g, g)
        BY <3>1
      <4>2. g \in Descs
        BY <1>3
      <4> QED BY <1>11, <4>1, <4>2
    <3> QED BY <1>9, <2>1, <3>2
  <2>3. CASE g # t
    BY <1>9, <2>1, <2>3
  <2> QED BY <2>2, <2>3
<1>13. TxMarked'
  BY <1>4, <1>11, <1>12 DEF TxMarked
<1>14. RingInv'
  <2>1. delivered' \in {"rx", "tx"} \X Frames
    BY <1>1, <1>2 DEF Desc
  <2>2. sending'.at = "wait" => sending'.slot = tx'.tail
    BY <1>1, <1>4 DEF RingInv, t
  <2> QED BY <1>1, <1>4, <1>13, <2>1, <2>2 DEF RingInv, NicTypeOK, RxMarked, RxCount
<1>15. Waiting = From(tx, h, n) /\ Waiting' = From(tx', g, n - 1)
  <2>1. Waiting = From(tx, h, n)
    BY Counts DEF h, n
  <2>2. Waiting' = From(tx', tx'.head, TxCount')
    BY DEF Waiting, TxCount, Gap
  <2> QED BY <1>4, <1>12, <2>1, <2>2
<1>16. From(tx', g, n - 1) = From(tx, g, n - 1)
  <2>1. \A i \in Descs : tx'.desc[i].frame = tx.desc[i].frame
    BY <1>2, <1>4 DEF Desc
  <2>2. n - 1 \in 0 .. RING /\ tx \in Ring /\ tx' \in Ring
    <3> HIDE DEF e
    <3> QED BY <1>2, <1>4, <1>9, Rings
  <2> QED BY <1>3, <2>1, <2>2, FromSame
<1>17. /\ From(tx, h, n) # <<>> /\ Head(From(tx, h, n)) = tx.desc[h].frame
       /\ From(tx, g, n - 1) = Tail(From(tx, h, n))
  <2>1. n \in 1 .. RING /\ tx \in Ring
    <3> HIDE DEF e
    <3> QED BY <1>2, <1>9, Rings
  <2> QED BY <1>2, <2>1, FromTakes DEF g
<1>18. Received' = Received
  BY <1>1 DEF Received, From
<1> QED BY <1>1, <1>14, <1>15, <1>16, <1>17, <1>18
-----------------------------------------------------------------------------
(* The rest of e1000_send moves no frame.                                  *)
LEMMA Waits ==
    ASSUME E1000Assumption, RingInv, NEW f \in Frames,
           Send(f) \/ Drop \/ SendReturns \/ UNCHANGED nicVars
    PROVE  RingInv' /\ UNCHANGED <<Received, Waiting, delivered>>
<1>1. UNCHANGED <<rx, tx, delivered>>
  BY DEF Send, Drop, SendReturns, nicVars
<1>2. NotSending \in Sending /\ NotSending.at = "idle"
  <2>1. AnyFrame \in Frames /\ 0 \in Descs
    BY DEF E1000Assumption, AnyFrame, Descs
  <2> QED BY <2>1 DEF NotSending, Sending
<1>3. sending' \in Sending /\ (sending'.at = "wait" => sending'.slot = tx.tail)
  <2>1. CASE Send(f)
    BY <2>1, Rings, RingParts DEF Send, Sending
  <2>2. CASE Drop \/ SendReturns
    BY <1>2, <2>2 DEF Drop, SendReturns
  <2>3. CASE UNCHANGED nicVars
    BY <2>3, Rings DEF nicVars, RingInv
  <2> QED BY <2>1, <2>2, <2>3
<1>4. RingInv'
  BY <1>1, <1>3 DEF RingInv, NicTypeOK, RxMarked, RxCount, TxMarked, TxCount
<1>5. UNCHANGED <<Received, Waiting>>
  BY <1>1 DEF Received, Waiting, From
<1> QED BY <1>1, <1>4, <1>5

LEMMA RingNext ==
    ASSUME E1000Assumption, RingInv, [NicNext]_nicVars
    PROVE  RingInv' /\ [Queues!MailNext]_(Queues!mailVars)
<1> DEFINE boxes == [b \in {"rx", "tx"} |-> IF b = "rx" THEN Received ELSE Waiting]
<1>1. ASSUME NEW f \in Frames, Arrive(f)
      PROVE  RingInv' /\ Queues!Put("rx", f)
  <2>1. /\ RingInv' /\ Len(Received) < RING /\ delivered' = delivered
        /\ Received' = Append(Received, f) /\ Waiting' = Waiting
    BY <1>1, Arrives DEF Arrive
  <2>2. boxes' = [boxes EXCEPT !["rx"] = Append(@, f)]
    BY <2>1
  <2> QED BY <2>1, <2>2 DEF Queues!Put
<1>2. ASSUME Poll PROVE RingInv' /\ Queues!Take("rx")
  <2>1. /\ RingInv' /\ Received # <<>> /\ delivered' = <<"rx", Head(Received)>>
        /\ Received' = Tail(Received) /\ Waiting' = Waiting
    BY <1>2, Polls
  <2>2. boxes' = [boxes EXCEPT !["rx"] = Tail(@)]
    BY <2>1
  <2> QED BY <2>1, <2>2 DEF Queues!Take
<1>3. ASSUME Submit PROVE RingInv' /\ \E f \in Frames : Queues!Put("tx", f)
  <2>1. /\ RingInv' /\ Len(Waiting) < RING /\ delivered' = delivered
        /\ sending.frame \in Frames
        /\ Waiting' = Append(Waiting, sending.frame) /\ Received' = Received
    BY <1>3, Submits DEF Submit
  <2>2. boxes' = [boxes EXCEPT !["tx"] = Append(@, sending.frame)]
    BY <2>1
  <2> QED BY <2>1, <2>2 DEF Queues!Put
<1>4. ASSUME Transmit PROVE RingInv' /\ Queues!Take("tx")
  <2>1. /\ RingInv' /\ Waiting # <<>> /\ delivered' = <<"tx", Head(Waiting)>>
        /\ Waiting' = Tail(Waiting) /\ Received' = Received
    BY <1>4, Transmits
  <2>2. boxes' = [boxes EXCEPT !["tx"] = Tail(@)]
    BY <2>1
  <2> QED BY <2>1, <2>2 DEF Queues!Take
<1>5. ASSUME NEW f \in Frames, Send(f) \/ Drop \/ SendReturns \/ UNCHANGED nicVars
      PROVE  RingInv' /\ UNCHANGED Queues!mailVars
  <2>1. RingInv' /\ UNCHANGED <<Received, Waiting, delivered>>
    BY <1>5, Waits
  <2>2. boxes' = boxes
    BY <2>1
  <2> QED BY <2>1, <2>2 DEF Queues!mailVars
<1>6. AnyFrame \in Frames
  BY DEF E1000Assumption, AnyFrame
<1> QED BY <1>1, <1>2, <1>3, <1>4, <1>5, <1>6 DEF NicNext, Queues!MailNext

(* The rings and what e1000_send works on stay in range, and a done bit    *)
(* says what the driver takes it for: a receive slot has one exactly while *)
(* a frame waits in it, a transmit slot exactly while none does, for every *)
(* size of the rings (e1000_poll, e1000_send).                             *)
THEOREM DoneBits ==
    ASSUME E1000Assumption PROVE NicSpec => [](NicTypeOK /\ RxMarked /\ TxMarked)
<1>1. NicInit => RingInv
  BY RingInit
<1>2. RingInv /\ [NicNext]_nicVars => RingInv'
  BY RingNext
<1>3. RingInv => NicTypeOK /\ RxMarked /\ TxMarked
  BY DEF RingInv
<1> QED BY <1>1, <1>2, <1>3, PTL DEF NicSpec

(* The descriptor rings implement two bounded first-in first-out queues: a *)
(* frame that found a descriptor is delivered once, in order and unchanged,*)
(* for every size of the rings, whatever the pace of the card and however  *)
(* often e1000_send gives up waiting.                                      *)
THEOREM RingsAreQueues == ASSUME E1000Assumption PROVE NicSpec => ImplementsQueues
<1>1. NicInit => RingInv /\ Queues!MailInit
  <2> SUFFICES ASSUME NicInit PROVE RingInv /\ Queues!MailInit
    OBVIOUS
  <2>1. RingInv /\ Received = <<>> /\ Waiting = <<>> /\ delivered = <<>>
    BY RingInit DEF NicInit
  <2>2. [b \in {"rx", "tx"} |-> IF b = "rx" THEN Received ELSE Waiting]
          = [b \in {"rx", "tx"} |-> <<>>]
    BY <2>1
  <2> QED BY <2>1, <2>2 DEF Queues!MailInit, Queues!None
<1>2. RingInv /\ [NicNext]_nicVars => RingInv' /\ [Queues!MailNext]_(Queues!mailVars)
  BY RingNext
<1> QED BY <1>1, <1>2, PTL DEF NicSpec, ImplementsQueues, Queues!MailSpec

-----------------------------------------------------------------------------
(* Why nothing is forgotten: the card raises the status with every frame,  *)
(* the driver lowers it before it asks how far the card has come, and what *)
(* comes after that answer raises it again.                                *)
DrainInv ==
    /\ drain = [at |-> drain.at, hw |-> drain.hw]
    /\ drain.at \in {"idle", "look", "ack"} /\ rx_ptr # cbr => isr
    /\ drain.at = "frames" /\ drain.hw # cbr => isr

(* At start the buffer is empty.                                           *)
LEMMA DrainInit == CardInit => DrainInv
BY DEF CardInit, rtl8139_init, DrainInv

(* Every step of card and driver keeps this.                               *)
LEMMA DrainNext == DrainInv /\ [CardNext]_cardVars => DrainInv'
<1> SUFFICES ASSUME DrainInv, [CardNext]_cardVars PROVE DrainInv'
  OBVIOUS
<1>1. CASE UNCHANGED rtlReceive
  BY <1>1 DEF rtlReceive, DrainInv
<1>2. ASSUME NEW f \in Frames, RtlArrive(f) PROVE DrainInv'
  BY <1>2 DEF RtlArrive, DrainInv
<1>3. CASE RtlPoll
  BY <1>3 DEF RtlPoll, DrainInv
<1>4. CASE Look
  BY <1>4 DEF Look, DrainInv
<1>5. CASE Acknowledge
  BY <1>5 DEF Acknowledge, DrainInv
<1>6. CASE ReadCbr
  BY <1>6 DEF ReadCbr, DrainInv
<1>7. CASE Deliver
  BY <1>7 DEF Deliver, DrainInv
<1>8. CASE Drained
  BY <1>8 DEF Drained, DrainInv
<1>9. ASSUME NEW f \in Frames, RtlSend(f) PROVE UNCHANGED rtlReceive
  BY <1>9 DEF RtlSend
<1>10. CASE Hand \/ RtlSent \/ RtlTransmit
  BY <1>1, <1>10 DEF Hand, RtlSent, RtlTransmit
<1>11. CASE UNCHANGED cardVars
  BY <1>1, <1>11 DEF cardVars
<1> QED BY <1>1, <1>2, <1>3, <1>4, <1>5, <1>6, <1>7, <1>8, <1>9, <1>10, <1>11
        DEF CardNext, RtlNext

(* rtl8139_poll acknowledges before it looks: a frame that arrives at any  *)
(* moment of a poll is either delivered by it or leaves the status set,    *)
(* for buffers and frames of every size.                                   *)
THEOREM FramesNoticed == CardSpec => []NothingForgotten
<1>1. DrainInv => NothingForgotten
  BY DEF DrainInv, NothingForgotten
<1> QED BY <1>1, DrainInit, DrainNext, PTL DEF CardSpec

-----------------------------------------------------------------------------

(* Shapes of the rings and of the controller.                              *)
QueueShape(r) ==
    /\ DOMAIN r = {"sq", "cq", "sq_tail", "cq_head", "cq_phase", "next_cid"}
    /\ DOMAIN r.sq = Entries /\ DOMAIN r.cq = Entries
    /\ r.sq_tail \in Entries /\ r.cq_head \in Entries /\ r.cq_phase \in {0, 1}
    /\ r.next_cid \in 0 .. MaxCid
DevShape(d) ==
    /\ DOMAIN d = {"head", "tail", "phase", "fetched", "done"}
    /\ d.head \in Entries /\ d.tail \in Entries

(* The identifiers in the queue of commands, in the controller and among   *)
(* those done have been issued.  A completion is of a command that is      *)
(* done, or the entry has never been posted: it lies ahead of the driver   *)
(* in its first lap, with the other phase.                                 *)
SqIssued(r) ==
    \A i \in Entries :
        r.sq[i].cid \in Nat /\ (r.sq[i].cid < r.next_cid \/ r.sq[i].cid = 0)
DevIssued(r, d) ==
    /\ r.next_cid = 0 => d.head = r.sq_tail
    /\ \A c \in d.fetched : c.cid \in Nat /\ c.cid < r.next_cid
    /\ \A k \in d.done : k \in Nat /\ k < r.next_cid
Answers(r, d) ==
    \A i \in Entries :
        \/ r.cq[i].cid \in d.done
        \/ r.cq[i].phase = 0 /\ r.cq_phase = 1 /\ i >= r.cq_head
GotShape(g) == "own" \in DOMAIN g
AnswerInv ==
    /\ QueueShape(ioq) /\ DevShape(dev)
    /\ SqIssued(ioq) /\ DevIssued(ioq, dev) /\ Answers(ioq, dev)
    /\ GotShape(got) /\ AnswerIsOwn

LEMMA NextEntry ==
    ASSUME NvmeAssumption, NEW i \in Entries
    PROVE  /\ Next1(i) \in Entries
           /\ Next1(i) = IF i = DEPTH - 1 THEN 0 ELSE i + 1
<1>1. DEPTH \in Nat /\ DEPTH > 1 /\ i \in Nat /\ i < DEPTH
  BY DEF NvmeAssumption, Entries
<1>2. CASE i = DEPTH - 1
  <2>1. (i + 1) % DEPTH = 0
    BY <1>1, <1>2
  <2> QED BY <1>1, <1>2, <2>1 DEF Next1, Entries
<1>3. CASE i # DEPTH - 1
  <2>1. (i + 1) % DEPTH = i + 1
    BY <1>1, <1>3
  <2> QED BY <1>1, <1>3, <2>1 DEF Next1, Entries
<1> QED BY <1>2, <1>3

LEMMA AnswerInit == ASSUME NvmeAssumption, NvmeInit PROVE AnswerInv
<1>1. 0 \in Entries /\ Entries \subseteq Nat
  BY DEF NvmeAssumption, Entries
<1>2. /\ ioq.sq = [i \in Entries |-> [opc |-> "read", cid |-> 0, block |-> 0]]
      /\ ioq.cq = [i \in Entries |-> [cid |-> 0, phase |-> 0, ok |-> TRUE]]
      /\ ioq.sq_tail = 0 /\ ioq.cq_head = 0 /\ ioq.cq_phase = 1 /\ ioq.next_cid = 0
      /\ DOMAIN ioq = {"sq", "cq", "sq_tail", "cq_head", "cq_phase", "next_cid"}
  BY DEF NvmeInit
<1>3. /\ dev.head = 0 /\ dev.tail = 0 /\ dev.fetched = {} /\ dev.done = {}
      /\ DOMAIN dev = {"head", "tail", "phase", "fetched", "done"}
  BY DEF NvmeInit
<1>4. QueueShape(ioq) /\ DevShape(dev)
  BY <1>1, <1>2, <1>3 DEF QueueShape, DevShape, NvmeAssumption
<1>5. SqIssued(ioq) /\ DevIssued(ioq, dev) /\ Answers(ioq, dev)
  BY <1>1, <1>2, <1>3 DEF SqIssued, DevIssued, Answers
<1>6. GotShape(got) /\ AnswerIsOwn
  BY DEF NvmeInit, AnswerIsOwn, GotShape
<1> QED BY <1>4, <1>5, <1>6 DEF AnswerInv

(* The entry the driver accepts is of a command that is done.              *)
LEMMA MatchIsDone == ASSUME AnswerInv, Matches PROVE Own
BY DEF AnswerInv, QueueShape, Answers, Matches, Own

(* The driver steps over the entry it has accepted.                        *)
LEMMA ConsumedKeeps ==
    ASSUME NvmeAssumption, AnswerInv, Matches
    PROVE  /\ QueueShape(Consumed) /\ SqIssued(Consumed)
           /\ DevIssued(Consumed, dev) /\ Answers(Consumed, dev)
           /\ Consumed.next_cid = ioq.next_cid
<1>1. /\ DOMAIN Consumed = DOMAIN ioq
      /\ Consumed.sq = ioq.sq /\ Consumed.cq = ioq.cq
      /\ Consumed.sq_tail = ioq.sq_tail /\ Consumed.next_cid = ioq.next_cid
      /\ Consumed.cq_head = Next1(ioq.cq_head)
      /\ Consumed.cq_phase = IF Next1(ioq.cq_head) = 0 THEN 1 - ioq.cq_phase
                             ELSE ioq.cq_phase
  BY DEF AnswerInv, QueueShape, Consumed
<1> DEFINE h == ioq.cq_head
<1>2. h \in Entries /\ ioq.cq_phase \in {0, 1}
  BY DEF AnswerInv, QueueShape
<1>3. Next1(h) \in Entries /\ Next1(h) = IF h = DEPTH - 1 THEN 0 ELSE h + 1
  BY <1>2, NextEntry
<1>4. ioq.cq[h].cid \in dev.done
  BY MatchIsDone DEF Own, Matches
<1>5. QueueShape(Consumed)
  BY <1>1, <1>2, <1>3 DEF AnswerInv, QueueShape
<1>6. ASSUME NEW i \in Entries, ioq.cq[i].cid \notin dev.done
      PROVE  ioq.cq[i].phase = 0 /\ Consumed.cq_phase = 1 /\ i >= Consumed.cq_head
  <2>1. ioq.cq[i].phase = 0 /\ ioq.cq_phase = 1 /\ i >= h /\ i # h
    BY <1>4, <1>6 DEF AnswerInv, Answers
  <2>2. i \in Nat /\ i < DEPTH /\ h \in Nat /\ DEPTH \in Nat
    BY <1>2 DEF Entries, NvmeAssumption
  <2>3. Next1(h) = h + 1 /\ h + 1 # 0
    BY <1>3, <2>1, <2>2
  <2> QED BY <1>1, <2>1, <2>2, <2>3
<1> QED BY <1>1, <1>5, <1>6 DEF AnswerInv, SqIssued, DevIssued, Answers

(* A command with a new identifier.                                        *)
LEMMA CommandKeeps ==
    ASSUME NvmeAssumption, MaxCid < CIDS, NEW r, QueueShape(r), SqIssued(r),
           DevIssued(r, dev), Answers(r, dev), DevShape(dev),
           r.next_cid = ioq.next_cid, CanIssue, NEW opc, NEW s,
           ioq' = Issued(r, opc, s), dev' = [dev EXCEPT !.done = @ \ {ioq.next_cid}]
    PROVE  /\ QueueShape(ioq') /\ DevShape(dev') /\ SqIssued(ioq')
           /\ DevIssued(ioq', dev') /\ Answers(ioq', dev')
<1> DEFINE n == r.next_cid
           e == [opc |-> opc, cid |-> n, block |-> BlockOf(s)]
<1>1. n \in Nat /\ n < MaxCid /\ (n + 1) % CIDS = n + 1 /\ n + 1 \in 0 .. MaxCid
  BY DEF NvmeAssumption, QueueShape, CanIssue
<1>2. /\ DOMAIN ioq' = DOMAIN r /\ ioq'.sq = [r.sq EXCEPT ![r.sq_tail] = e]
      /\ ioq'.cq = r.cq /\ ioq'.sq_tail = Next1(r.sq_tail) /\ ioq'.cq_head = r.cq_head
      /\ ioq'.cq_phase = r.cq_phase /\ ioq'.next_cid = n + 1
  BY <1>1 DEF Issued, QueueShape
<1>3. e.cid = n
  OBVIOUS
<1> HIDE DEF e
<1>4. /\ DOMAIN ioq'.sq = Entries
      /\ \A i \in Entries : ioq'.sq[i] = IF i = r.sq_tail THEN e ELSE r.sq[i]
  BY <1>2 DEF QueueShape
<1>5. Next1(r.sq_tail) \in Entries
  BY NextEntry DEF QueueShape
<1>6. QueueShape(ioq')
  BY <1>1, <1>2, <1>4, <1>5 DEF QueueShape
<1>7. dev.done \ {ioq.next_cid} = dev.done
  BY <1>1 DEF DevIssued
<1>8. /\ DOMAIN dev' = DOMAIN dev /\ dev'.head = dev.head /\ dev'.tail = dev.tail
      /\ dev'.fetched = dev.fetched /\ dev'.done = dev.done
  BY <1>7 DEF DevShape
<1>9. SqIssued(ioq')
  BY <1>1, <1>2, <1>3, <1>4 DEF SqIssued
<1>10. DevIssued(ioq', dev')
  BY <1>1, <1>2, <1>8 DEF DevIssued
<1> QED BY <1>2, <1>6, <1>8, <1>9, <1>10 DEF Answers, DevShape

LEMMA CommandAnswers ==
    ASSUME NvmeAssumption, MaxCid < CIDS, AnswerInv, NEW opc, NEW place, NEW s,
           NEW v, NEW data, Command(ioq, opc, place, s, v, data), UNCHANGED got
    PROVE  AnswerInv'
<1>1. /\ CanIssue /\ ioq' = Issued(ioq, opc, s)
      /\ dev' = [dev EXCEPT !.done = @ \ {ioq.next_cid}]
  BY DEF Command
<1> QED BY <1>1, CommandKeeps DEF AnswerInv, AnswerIsOwn

(* Steps of the driver that end a command.                                 *)
LEMMA EndAnswers ==
    ASSUME NvmeAssumption, AnswerInv, Matches, ioq' = Consumed, dev' = dev,
           GotShape(got'), got'.own = Own
    PROVE  AnswerInv'
<1>1. AnswerIsOwn'
  BY MatchIsDone DEF AnswerIsOwn
<1> QED BY <1>1, ConsumedKeeps DEF AnswerInv

LEMMA FillAnswers ==
    ASSUME NvmeAssumption, MaxCid < CIDS, AnswerInv, FillDone PROVE AnswerInv'
<1>1. /\ Matches /\ CanIssue
      /\ ioq' = Issued(Consumed, "write", call.sector)
      /\ dev' = [dev EXCEPT !.done = @ \ {ioq.next_cid}]
      /\ got' = [got EXCEPT !.own = Own]
  BY DEF FillDone, Command
<1>2. /\ QueueShape(Consumed) /\ SqIssued(Consumed)
      /\ DevIssued(Consumed, dev) /\ Answers(Consumed, dev)
      /\ Consumed.next_cid = ioq.next_cid
  BY <1>1, ConsumedKeeps
<1>3. /\ QueueShape(ioq') /\ DevShape(dev') /\ SqIssued(ioq')
      /\ DevIssued(ioq', dev') /\ Answers(ioq', dev')
  BY <1>1, <1>2, CommandKeeps DEF AnswerInv
<1>4. GotShape(got') /\ AnswerIsOwn'
  BY <1>1, MatchIsDone DEF AnswerInv, GotShape, AnswerIsOwn
<1> QED BY <1>3, <1>4 DEF AnswerInv

(* Steps of the controller.                                                *)
LEMMA FetchAnswers == ASSUME NvmeAssumption, AnswerInv, Fetch PROVE AnswerInv'
<1>1. /\ DOMAIN dev' = DOMAIN dev /\ dev'.tail = dev.tail /\ dev'.done = dev.done
      /\ dev'.fetched = dev.fetched \cup {ioq.sq[dev.head]}
      /\ dev'.head = Next1(dev.head)
  BY DEF Fetch, AnswerInv, DevShape
<1>2. dev.head \in Entries /\ dev.head # ioq.sq_tail /\ ioq.next_cid \in Nat
  BY DEF Fetch, AnswerInv, DevShape, QueueShape
<1>3. ioq.sq[dev.head].cid \in Nat /\ ioq.sq[dev.head].cid < ioq.next_cid
      /\ ioq.next_cid # 0
  BY <1>2 DEF AnswerInv, SqIssued, DevIssued
<1>4. DevShape(dev')
  BY <1>1, <1>2, NextEntry DEF AnswerInv, DevShape
<1>5. DevIssued(ioq, dev') /\ Answers(ioq, dev')
  BY <1>1, <1>3 DEF AnswerInv, DevIssued, Answers
<1>6. UNCHANGED <<ioq, got>>
  BY DEF Fetch
<1> QED BY <1>4, <1>5, <1>6 DEF AnswerInv, AnswerIsOwn

LEMMA ExecuteAnswers ==
    ASSUME NvmeAssumption, AnswerInv, NEW c \in dev.fetched, NEW ok, Execute(c, ok)
    PROVE  AnswerInv'
<1> DEFINE e == [cid |-> c.cid, phase |-> dev.phase, ok |-> ok]
<1>1. /\ DOMAIN dev' = DOMAIN dev /\ dev'.head = dev.head
      /\ dev'.tail = Next1(dev.tail) /\ dev'.fetched = dev.fetched \ {c}
      /\ dev'.done = dev.done \cup {c.cid}
  BY DEF Execute, AnswerInv, DevShape
<1>2. /\ DOMAIN ioq' = DOMAIN ioq /\ ioq'.cq = [ioq.cq EXCEPT ![dev.tail] = e]
      /\ ioq'.sq = ioq.sq /\ ioq'.sq_tail = ioq.sq_tail /\ ioq'.cq_head = ioq.cq_head
      /\ ioq'.cq_phase = ioq.cq_phase /\ ioq'.next_cid = ioq.next_cid
  BY DEF Execute, AnswerInv, QueueShape
<1>3. e.cid = c.cid
  OBVIOUS
<1> HIDE DEF e
<1>4. /\ DOMAIN ioq'.cq = Entries
      /\ \A i \in Entries : ioq'.cq[i] = IF i = dev.tail THEN e ELSE ioq.cq[i]
  BY <1>2 DEF AnswerInv, QueueShape
<1>5. QueueShape(ioq')
  BY <1>2, <1>4 DEF AnswerInv, QueueShape
<1>6. DevShape(dev')
  BY <1>1, NextEntry DEF AnswerInv, DevShape
<1>7. SqIssued(ioq') /\ DevIssued(ioq', dev')
  BY <1>1, <1>2 DEF AnswerInv, SqIssued, DevIssued
<1>8. Answers(ioq', dev')
  BY <1>1, <1>2, <1>3, <1>4 DEF AnswerInv, Answers
<1>9. GotShape(got') /\ AnswerIsOwn'
  BY DEF Execute, AnswerInv, AnswerIsOwn
<1> QED BY <1>5, <1>6, <1>7, <1>8, <1>9 DEF AnswerInv

LEMMA AnswerNext ==
    ASSUME NvmeAssumption, MaxCid < CIDS, AnswerInv, [NvmeNext]_nvmeVars
    PROVE  AnswerInv'
<1>1. ASSUME NEW s, nvme_read_sector(s) PROVE AnswerInv'
  BY <1>1, CommandAnswers DEF nvme_read_sector
<1>2. ASSUME NEW s, NEW v, nvme_write_sector(s, v) PROVE AnswerInv'
  BY <1>2, CommandAnswers DEF nvme_write_sector
<1>3. ASSUME Failed \/ WriteDone PROVE AnswerInv'
  <2>1. Matches /\ ioq' = Consumed /\ dev' = dev /\ got' = [got EXCEPT !.own = Own]
    BY <1>3 DEF Failed, WriteDone
  <2>2. GotShape(got') /\ got'.own = Own
    BY <2>1 DEF AnswerInv, GotShape
  <2> QED BY <2>1, <2>2, EndAnswers
<1>4. ASSUME ReadDone PROVE AnswerInv'
  <2>1. /\ Matches /\ ioq' = Consumed /\ dev' = dev /\ GotShape(got')
        /\ got'.own = Own
    BY <1>4 DEF ReadDone, GotShape
  <2> QED BY <2>1, EndAnswers
<1>5. ASSUME GiveUp \/ UNCHANGED nvmeVars PROVE AnswerInv'
  BY <1>5 DEF GiveUp, nvmeVars, AnswerInv, AnswerIsOwn
<1> QED BY <1>1, <1>2, <1>3, <1>4, <1>5, FillAnswers, FetchAnswers, ExecuteAnswers
        DEF NvmeNext

(* AnswerIsOwn (Nvme) holds for queues of every depth and blocks of every  *)
(* size, whatever the driver gives up on and the controller carries out    *)
(* late or fails, as long as the identifiers do not come round: a call     *)
(* takes only the completion of the command it sent.                       *)
THEOREM OwnCompletions ==
    ASSUME NvmeAssumption, MaxCid < CIDS PROVE NvmeSpec => []AnswerIsOwn
<1>1. AnswerInv => AnswerIsOwn
  BY DEF AnswerInv
<1> QED BY <1>1, AnswerInit, AnswerNext, PTL DEF NvmeSpec

-----------------------------------------------------------------------------
(* The mixer of Sound.  Its theorems are about what a recursive function   *)
(* computes, for every number of samples.  Induction over the numbers is   *)
(* derived here from the fact that inclusion of finite sets is well        *)
(* founded: of the sets 0 .. n with n outside S none is smallest.          *)
LEMMA NatSetInduction ==
    ASSUME NEW S, 0 \in S, \A n \in Nat : n \in S => n + 1 \in S
    PROVE  Nat \subseteq S
<1> DEFINE T == {0 .. n : n \in Nat \ S}
           R == StrictSubsetOrdering(Nat)
           F == FiniteSubsetsOf(Nat)
<1>1. SUFFICES ASSUME NEW k \in Nat, k \notin S PROVE FALSE
  OBVIOUS
<1>2. IsWellFoundedOn(R, F)
  BY FS_StrictSubsetOrderingWellFounded
<1>3. T \subseteq F
  <2>1. \A n \in Nat : 0 .. n \in F
    BY FS_Interval DEF FiniteSubsetsOf
  <2> QED BY <2>1
<1>4. T # {}
  BY <1>1
<1>5. \E x \in T : \A y \in T : ~ (<<y, x>> \in R)
  <2> HIDE DEF R, F, T
  <2> QED BY <1>2, <1>3, <1>4, WFMin
<1>6. PICK n \in Nat \ S : \A m \in Nat \ S : <<0 .. m, 0 .. n>> \notin R
  BY <1>5
<1>7. n - 1 \in Nat
  BY <1>6
<1>8. <<0 .. n - 1, 0 .. n>> \in R
  BY <1>7 DEF StrictSubsetOrdering
<1>9. n - 1 \in S
  BY <1>6, <1>7, <1>8
<1> QED BY <1>6, <1>7, <1>9

(* What a function on D gives when it is applied again and again.          *)
Iterates(f, D, a, G, N) ==
    f \in [0 .. N -> D] /\ f[0] = a /\ \A n \in 1 .. N : f[n] = G[f[n - 1]]
LEMMA Iteration ==
    ASSUME NEW D, NEW a \in D, NEW G \in [D -> D], NEW N \in Nat
    PROVE  \E f : Iterates(f, D, a, G, N)
<1> DEFINE Good(f, n) == f[0] = a /\ \A i \in 1 .. n : f[i] = G[f[i - 1]]
           S == {n \in Nat : \E f \in [0 .. n -> D] : Good(f, n)}
<1>1. 0 \in S
  <2> DEFINE f == [i \in 0 .. 0 |-> a]
  <2>1. f \in [0 .. 0 -> D] /\ Good(f, 0)
    OBVIOUS
  <2> QED BY <2>1
<1>2. ASSUME NEW n \in Nat, n \in S PROVE n + 1 \in S
  <2>0. n + 1 \in Nat
    OBVIOUS
  <2>1. PICK f \in [0 .. n -> D] : Good(f, n)
    BY <1>2
  <2> DEFINE g == [i \in 0 .. n + 1 |-> IF i = n + 1 THEN G[f[n]] ELSE f[i]]
  <2>2. g \in [0 .. n + 1 -> D]
    BY <2>1
  <2>3. g[0] = a
    BY <2>1
  <2>4. ASSUME NEW i \in 1 .. n + 1 PROVE g[i] = G[g[i - 1]]
    <3>1. i - 1 \in 0 .. n /\ g[i - 1] = f[i - 1]
      OBVIOUS
    <3>2. CASE i = n + 1
      BY <3>1, <3>2
    <3>3. CASE i # n + 1
      BY <2>1, <3>1, <3>3
    <3> QED BY <3>2, <3>3
  <2>5. Good(g, n + 1)
    BY <2>3, <2>4
  <2> HIDE DEF g, Good
  <2> QED BY <2>0, <2>2, <2>5
<1>3. Nat \subseteq S
  <2> HIDE DEF S
  <2> QED BY <1>1, <1>2, NatSetInduction
<1> QED BY <1>3 DEF Iterates

(* Multiples of d are at least d apart.                                    *)
LEMMA Product ==
    ASSUME NEW d \in Nat \ {0}, NEW p \in Int, NEW q \in Int, p < q
    PROVE  d * p + d <= d * q
<1>1. p + 1 <= q
  OBVIOUS
<1>2. d * (p + 1) = d * p + d
  BY SMTT(30)
<1>3. d * (q - (p + 1)) >= 0
  BY <1>1, SMTT(30)
<1>4. d * (q - (p + 1)) = d * q - d * (p + 1)
  BY SMTT(30)
<1> QED BY <1>2, <1>3, <1>4

(* A number has one remainder.                                             *)
LEMMA OneWay ==
    ASSUME NEW d \in Nat \ {0}, NEW p \in Int, NEW q \in Int,
           NEW r \in 0 .. d - 1, NEW s \in 0 .. d - 1, d * p + r = d * q + s
    PROVE  r = s
<1>0. d * p \in Int /\ d * q \in Int
  OBVIOUS
<1>1. CASE p < q
  BY <1>0, <1>1, Product
<1>2. CASE q < p
  BY <1>0, <1>2, Product
<1>3. CASE p = q
  BY <1>0, <1>3
<1> QED BY <1>1, <1>2, <1>3

(* Quotient and remainder.                                                 *)
LEMMA Divided ==
    ASSUME NEW d \in Nat \ {0}, NEW x \in Int
    PROVE  /\ x \div d \in Int /\ x % d \in 0 .. d - 1
           /\ x = d * (x \div d) + (x % d)
OBVIOUS

(* The place of the next sample in a sound of n samples.                   *)
LEMMA Round ==
    ASSUME NEW t \in Nat, NEW n \in Nat \ {0}
    PROVE  /\ t % n \in 0 .. n - 1
           /\ (t + 1) % n = IF (t % n) + 1 < n THEN (t % n) + 1 ELSE 0
<1> DEFINE q == t \div n
           r == t % n
           p == (t + 1) \div n
           s == (t + 1) % n
<1>1. q \in Int /\ r \in 0 .. n - 1 /\ t = n * q + r
  BY Divided
<1>2. p \in Int /\ s \in 0 .. n - 1 /\ t + 1 = n * p + s
  <2>1. t + 1 \in Int
    OBVIOUS
  <2> QED BY <2>1, Divided
<1> HIDE DEF q, r, p, s
<1>3. n * q \in Int /\ n * p \in Int /\ n * (q + 1) = n * q + n
  BY <1>1, <1>2, SMTT(30)
<1>4. CASE r + 1 < n
  <2>1. r + 1 \in 0 .. n - 1 /\ n * q + (r + 1) = n * p + s
    BY <1>1, <1>2, <1>3, <1>4
  <2> QED BY <1>1, <1>2, <1>4, <2>1, OneWay DEF r, s
<1>5. CASE ~(r + 1 < n)
  <2>1. 0 \in 0 .. n - 1 /\ n * (q + 1) + 0 = n * p + s /\ q + 1 \in Int
    BY <1>1, <1>2, <1>3, <1>5
  <2>2. s = 0
    BY <1>2, <2>1, OneWay
  <2> QED BY <1>1, <1>5, <2>2 DEF r, s
<1> QED BY <1>4, <1>5

-----------------------------------------------------------------------------
(* Where a sound is after t samples of it; and who started it, if programs *)
(* are careful.                                                            *)
ChannelOK(mc, t) ==
    /\ mc \in Channel
    /\ mc.active => mc.pos < mc.len
    /\ mc.active \/ t > 0 =>
          /\ mc.len > 0
          /\ IF mc.loop THEN mc.pos = t % mc.len ELSE mc.pos = t /\ t <= mc.len
    /\ Careful /\ mc.active => mc.buf = running

Mixer == [ch : [Ch -> Channel], taken : [Ch -> Nat], own : BOOLEAN, n : Nat]
MixOK(r) ==
    /\ r \in Mixer
    /\ \A c \in Ch : ChannelOK(r.ch[c], r.taken[c])
    /\ Careful => r.own

Now == [ch |-> mix_ch, taken |-> taken, own |-> own, n |-> pushed]
SoundInv == MixOK(Now) /\ running \in Programs

LEMMA StepOK ==
    ASSUME SoundAssumption, NEW mc, NEW t \in Nat, ChannelOK(mc, t), mc.active
    PROVE  ChannelOK(Stepped(mc), t + 1)
<1>1. /\ mc \in Channel /\ mc.len \in Nat \ {0} /\ mc.pos \in Nat /\ mc.pos < mc.len
      /\ mc.pos \in 0 .. MAX_LEN /\ mc.len \in 0 .. MAX_LEN
  BY DEF ChannelOK, Channel, SoundAssumption
<1>2. mc.loop => mc.pos = t % mc.len
  BY DEF ChannelOK
<1>3. ~ mc.loop => mc.pos = t /\ t <= mc.len
  BY DEF ChannelOK
<1>4. (t + 1) % mc.len = IF (t % mc.len) + 1 < mc.len THEN (t % mc.len) + 1 ELSE 0
  BY <1>1, Round
<1>5. CASE mc.pos + 1 < mc.len
  <2>1. Stepped(mc) = [mc EXCEPT !.pos = mc.pos + 1]
    BY <1>5 DEF Stepped
  <2>2. mc.pos + 1 \in 0 .. MAX_LEN
    BY <1>1, <1>5 DEF SoundAssumption
  <2> QED BY <1>1, <1>2, <1>3, <1>4, <1>5, <2>1, <2>2 DEF ChannelOK, Channel
<1>6. CASE ~(mc.pos + 1 < mc.len) /\ mc.loop
  <2>1. Stepped(mc) = [mc EXCEPT !.pos = 0]
    BY <1>6 DEF Stepped
  <2>2. 0 \in 0 .. MAX_LEN
    BY DEF SoundAssumption
  <2> QED BY <1>1, <1>2, <1>4, <1>6, <2>1, <2>2 DEF ChannelOK, Channel
<1>7. CASE ~(mc.pos + 1 < mc.len) /\ ~mc.loop
  <2>1. Stepped(mc) = [mc EXCEPT !.pos = mc.pos + 1, !.active = FALSE]
    BY <1>7 DEF Stepped
  <2>2. mc.pos + 1 \in 0 .. MAX_LEN
    BY <1>1, <1>7 DEF SoundAssumption
  <2> DEFINE m == Stepped(mc)
  <2>3. m \in Channel
    BY <1>1, <2>1, <2>2 DEF Channel
  <2>4. m.active = FALSE /\ m.loop = FALSE /\ m.pos = t + 1 /\ m.len = mc.len
    BY <1>1, <1>3, <1>7, <2>1 DEF Channel
  <2>5. t + 1 <= m.len /\ m.len > 0
    BY <1>1, <1>3, <1>7, <2>4
  <2> HIDE DEF m
  <2>6. ChannelOK(m, t + 1)
    BY <2>3, <2>4, <2>5 DEF ChannelOK
  <2> QED BY <2>6 DEF m
<1> QED BY <1>5, <1>6, <1>7

LEMMA SampleOK ==
    ASSUME SoundAssumption, NEW r, MixOK(r)
    PROVE  MixOK(Sample(r))
<1> DEFINE on == Playing(r.ch)
           ch == [c \in Ch |-> IF c \in on THEN Stepped(r.ch[c]) ELSE r.ch[c]]
           tk == [c \in Ch |-> IF c \in on THEN r.taken[c] + 1 ELSE r.taken[c]]
           ow == r.own /\ \A c \in on : r.ch[c].buf = running
<1>1. r \in Mixer /\ \A c \in Ch : r.taken[c] \in Nat /\ r.ch[c] \in Channel
  BY DEF MixOK, Mixer
<1>2. \A c \in Ch : ChannelOK(r.ch[c], r.taken[c])
  BY DEF MixOK
<1>3. ASSUME NEW c \in Ch PROVE ChannelOK(ch[c], tk[c]) /\ tk[c] \in Nat
  <2>1. CASE c \in on
    BY <1>1, <1>2, <2>1, StepOK DEF Playing
  <2>2. CASE c \notin on
    BY <1>1, <1>2, <2>2
  <2> QED BY <2>1, <2>2
<1>4. ch \in [Ch -> Channel]
  BY <1>3 DEF ChannelOK
<1>5. tk \in [Ch -> Nat]
  BY <1>3
<1>6. ow \in BOOLEAN /\ (Careful => ow)
  <2>1. ASSUME Careful, NEW c \in on PROVE r.ch[c].buf = running
    BY <1>2, <2>1 DEF ChannelOK, Playing
  <2>2. r.own \in BOOLEAN /\ (Careful => r.own)
    BY <1>1 DEF MixOK, Mixer
  <2> QED BY <2>1, <2>2
<1>7. CASE on = {}
  BY <1>7 DEF Sample
<1>8. CASE on # {}
  <2>1. Sample(r) = [ch |-> ch, taken |-> tk, own |-> ow, n |-> r.n + 1]
    BY <1>8 DEF Sample
  <2>2. r.n + 1 \in Nat
    BY <1>1 DEF Mixer
  <2> HIDE DEF ch, tk, ow, on
  <2>3. Sample(r) \in Mixer
    BY <1>4, <1>5, <1>6, <2>1, <2>2 DEF Mixer
  <2> QED BY <1>3, <1>6, <2>1, <2>3 DEF MixOK
<1> QED BY <1>7, <1>8

(* Any number of samples later.                                            *)
LEMMA MixedOK ==
    ASSUME SoundAssumption, SoundInv
    PROVE  MixOK(Mix[SAMPLES])
<1> DEFINE D == {r \in Mixer : MixOK(r)}
           G == [r \in D |-> Sample(r)]
           Is(f) == f = [n \in 0 .. SAMPLES |-> IF n = 0 THEN Now ELSE Sample(f[n - 1])]
<1>1. Now \in D
  BY DEF SoundInv, MixOK
<1>2. G \in [D -> D]
  BY SampleOK DEF MixOK
<1>3. SAMPLES \in Nat
  BY DEF SoundAssumption
<1>4. PICK f : Iterates(f, D, Now, G, SAMPLES)
  <2> HIDE DEF D, G, Is
  <2> QED BY <1>1, <1>2, <1>3, Iteration
<1>5. \A n \in 1 .. SAMPLES : n - 1 \in 0 .. SAMPLES
  BY <1>3
<1>6. f \in [0 .. SAMPLES -> D] /\ f[0] = Now /\ \A n \in 1 .. SAMPLES : f[n] = Sample(f[n - 1])
  BY <1>4, <1>5 DEF Iterates
<1>7. Is(f)
  <2> HIDE DEF D, G, Now
  <2> QED BY <1>3, <1>6
<1>8. Mix = CHOOSE g : Is(g)
  BY DEF Mix, Now
<1>9. Is(Mix)
  <2> HIDE DEF Is
  <2> QED BY <1>7, <1>8
<1> DEFINE S == {n \in Nat : n \in 0 .. SAMPLES => Mix[n] \in D}
<1>10. Nat \subseteq S
  <2>1. 0 \in S
    BY <1>1, <1>3, <1>9
  <2>2. ASSUME NEW n \in Nat, n \in S PROVE n + 1 \in S
    <3>1. CASE n + 1 \in 0 .. SAMPLES
      <4>1. n \in 0 .. SAMPLES /\ Mix[n] \in D
        BY <1>3, <2>2, <3>1
      <4>2. Mix[n + 1] = Sample(Mix[n])
        <5>1. n + 1 # 0 /\ (n + 1) - 1 = n
          OBVIOUS
        <5> QED BY <1>9, <3>1, <5>1
      <4>3. Sample(Mix[n]) \in D
        BY <4>1, SampleOK DEF MixOK
      <4> QED BY <4>2, <4>3
    <3>2. CASE n + 1 \notin 0 .. SAMPLES
      BY <3>2
    <3> QED BY <3>1, <3>2
  <2> HIDE DEF S
  <2> QED BY <2>1, <2>2, NatSetInduction
<1> QED BY <1>3, <1>10 DEF MixOK

LEMMA SoundInvInit == ASSUME SoundAssumption, SoundInit PROVE SoundInv
<1>1. Silent \in Programs
  BY DEF Silent, SoundAssumption
<1>2. [buf |-> Silent, len |-> 0, pos |-> 0, active |-> FALSE, loop |-> FALSE, vol |-> 0] \in Channel
  BY <1>1 DEF Channel, SoundAssumption
<1>3. \A c \in Ch : ChannelOK(mix_ch[c], taken[c])
  BY <1>2 DEF SoundInit, ChannelOK
<1>4. mix_ch \in [Ch -> Channel] /\ taken \in [Ch -> Nat]
  BY <1>2 DEF SoundInit
<1> QED
  BY <1>3, <1>4 DEF SoundInv, MixOK, Mixer, Now, SoundInit, SoundAssumption

(* A step of one channel.                                                  *)
LEMMA OneChannel ==
    ASSUME SoundInv, NEW c \in Ch, NEW mc, NEW t \in Nat,
           mix_ch' = [mix_ch EXCEPT ![c] = mc], taken' = [taken EXCEPT ![c] = t],
           ChannelOK(mc, t), UNCHANGED <<own, pushed, running>>
    PROVE  SoundInv'
<1>1. mix_ch \in [Ch -> Channel] /\ taken \in [Ch -> Nat] /\ mc \in Channel
  BY DEF SoundInv, MixOK, Mixer, Now, ChannelOK
<1>2. mix_ch' \in [Ch -> Channel] /\ taken' \in [Ch -> Nat]
  BY <1>1
<1>3. ASSUME NEW d \in Ch PROVE ChannelOK(mix_ch[d], taken[d])'
  <2>1. ChannelOK(mix_ch[d], taken[d])
    BY DEF SoundInv, MixOK, Now
  <2>2. \/ mix_ch'[d] = mix_ch[d] /\ taken'[d] = taken[d]
        \/ mix_ch'[d] = mc /\ taken'[d] = t
    BY <1>1
  <2> QED BY <2>1, <2>2 DEF ChannelOK, Channel
<1> QED BY <1>2, <1>3 DEF SoundInv, MixOK, Mixer, Now

LEMMA SoundInvNext == ASSUME SoundAssumption, SoundInv, [SoundNext]_soundVars PROVE SoundInv'
<1>1. /\ mix_ch \in [Ch -> Channel] /\ taken \in [Ch -> Nat] /\ running \in Programs
      /\ \A c \in Ch : ChannelOK(mix_ch[c], taken[c])
  BY DEF SoundInv, MixOK, Mixer, Now
<1>2. ASSUME UNCHANGED <<mix_ch, taken, own, pushed, running>> PROVE SoundInv'
  BY <1>2 DEF SoundInv, MixOK, Mixer, Now, ChannelOK, Channel
<1>3. ASSUME NEW c \in Ch, NEW len \in 1 .. MAX_LEN, NEW loop \in BOOLEAN,
             sys_snd_mix_play(c, len, loop)
      PROVE SoundInv'
  <2> DEFINE mc == [buf |-> running, len |-> len, pos |-> 0, active |-> TRUE,
                    loop |-> loop, vol |-> FULL]
  <2>1. mc \in Channel
    BY <1>1 DEF Channel, SoundAssumption
  <2>2. 0 % len = 0
    BY Round
  <2>3. ChannelOK(mc, 0)
    BY <2>1, <2>2 DEF ChannelOK
  <2>4. mix_ch' = [mix_ch EXCEPT ![c] = mc] /\ taken' = [taken EXCEPT ![c] = 0]
        /\ UNCHANGED <<own, pushed, running>>
    BY <1>3 DEF sys_snd_mix_play
  <2> HIDE DEF mc
  <2> QED BY <2>3, <2>4, OneChannel
<1>4. ASSUME NEW c \in Ch, sys_snd_mix_stop(c) PROVE SoundInv'
  <2> DEFINE mc == [mix_ch[c] EXCEPT !.active = FALSE]
  <2>1. ChannelOK(mc, taken[c])
    BY <1>1 DEF ChannelOK, Channel
  <2>2. mix_ch' = [mix_ch EXCEPT ![c] = mc] /\ taken' = [taken EXCEPT ![c] = taken[c]]
        /\ UNCHANGED <<own, pushed, running>>
    BY <1>1, <1>4 DEF sys_snd_mix_stop
  <2>3. taken[c] \in Nat
    BY <1>1
  <2> HIDE DEF mc
  <2> QED BY <2>1, <2>2, <2>3, OneChannel
<1>5. ASSUME NEW c \in Ch, NEW vol \in Volumes, sys_snd_mix_volume(c, vol) PROVE SoundInv'
  <2> DEFINE v == IF vol > FULL THEN FULL ELSE vol
             mc == [mix_ch[c] EXCEPT !.vol = v]
  <2>0. v \in 0 .. FULL
    BY DEF SoundAssumption
  <2>1. ChannelOK(mc, taken[c])
    BY <1>1, <2>0 DEF ChannelOK, Channel
  <2>2. mix_ch' = [mix_ch EXCEPT ![c] = mc] /\ taken' = [taken EXCEPT ![c] = taken[c]]
        /\ UNCHANGED <<own, pushed, running>>
    BY <1>1, <1>5 DEF sys_snd_mix_volume
  <2>3. taken[c] \in Nat
    BY <1>1
  <2> HIDE DEF mc
  <2> QED BY <2>1, <2>2, <2>3, OneChannel
<1>6. CASE sys_snd_mix_tick
  <2>1. MixOK(Mix[SAMPLES])
    BY MixedOK
  <2>2. Now' = Mix[SAMPLES] /\ running' = running
    <3> DEFINE r == Mix[SAMPLES]
    <3>1. r = [ch |-> r.ch, taken |-> r.taken, own |-> r.own, n |-> r.n]
      <4> HIDE DEF r
      <4>1. r \in Mixer
        BY <2>1 DEF MixOK, r
      <4> QED BY <4>1 DEF Mixer
    <3> QED BY <1>6, <3>1 DEF sys_snd_mix_tick, Now
  <2> QED BY <1>1, <2>1, <2>2 DEF SoundInv, MixOK, Mixer, ChannelOK, Channel
<1>7. ASSUME NEW p \in Programs, Exit(p) PROVE SoundInv'
  <2>1. Careful => \A c \in Ch : ~mix_ch[c].active
    BY <1>7 DEF Exit, Playing
  <2>2. UNCHANGED <<mix_ch, taken, own, pushed>> /\ running' \in Programs
    BY <1>7 DEF Exit
  <2> QED BY <2>1, <2>2 DEF SoundInv, MixOK, Mixer, Now, ChannelOK, Channel
<1> QED
  BY <1>2, <1>3, <1>4, <1>5, <1>6, <1>7 DEF SoundNext, soundVars, sb16_probe,
     sys_snd_opl_note, sys_snd_opl_reset

(* The mixer (sys_snd_mix_tick) takes the samples of every sound in order, *)
(* inside it and up to its end, whatever programs do.                      *)
THEOREM SoundsInOrder == ASSUME SoundAssumption PROVE SoundSpec => []SamplesInOrder
<1>1. ASSUME SoundInv PROVE SamplesInOrder
  BY <1>1 DEF SoundInv, MixOK, Now, ChannelOK, SamplesInOrder
<1> QED BY <1>1, SoundInvInit, SoundInvNext, PTL DEF SoundSpec

(* And it takes them from the program that started the sound, if programs  *)
(* keep to sound.h:100 and stop what they started before they exit.        *)
THEOREM SoundsOwn == ASSUME SoundAssumption, Careful PROVE SoundSpec => []SamplesOwn
<1>1. ASSUME SoundInv PROVE own
  BY <1>1 DEF SoundInv, MixOK, Mixer, Now
<1>2. SoundSpec => []own
  BY <1>1, SoundInvInit, SoundInvNext, PTL DEF SoundSpec
<1> QED BY <1>2, SoundsInOrder, PTL DEF SamplesOwn

-----------------------------------------------------------------------------
(* Gui                                                                     *)

(* The invariant of the desktop.  A slot keeps its title for good, so      *)
(* widgets and the terminal can go by slots; a window that is maximized    *)
(* goes back to a place on the screen; what is dragged is shown, and the   *)
(* button is down then.                                                    *)
Hold == [drag : Slots \cup {Nobody}, off : Int, size : {Nobody}, dir : Parts,
         px : Int, x : Int, w : Int]
Inside(x, w) == x >= 0 /\ w >= MinW /\ x + w <= SCR_W
Placed(win) ==
    win.visible => /\ win.title # Untitled /\ Inside(win.x, win.w)
                   /\ win.maximized => Inside(win.ox, win.ow)
WinsOK ==
    /\ wins \in [Slots -> Window]
    /\ \A i \in Slots : wins[i].w >= MinW /\ Placed(wins[i])
NamesOK ==
    /\ wgts \in Seq([win : Slots, of : Titles]) /\ Len(wgts) <= GUI_MAX_WIDGETS
    /\ \A k \in DOMAIN wgts : wins[wgts[k].win].title = wgts[k].of
    /\ shell \in [win : Slots \cup {Nobody}, pos : 0 .. LINE]
    /\ shell.win # Nobody => wins[shell.win].title = "T"
HoldOK ==
    /\ hold \in Hold /\ button \in BOOLEAN /\ moved = FALSE
    /\ hold.drag # Nobody => button /\ wins[hold.drag].visible
FrontOK ==
    /\ g_active \in Slots \cup {Nobody} /\ ActiveShown /\ cur \in 0 .. SCR_W - 1
    /\ menus \subseteq {"context", "launcher"}
GuiInv == WinsOK /\ NamesOK /\ HoldOK /\ FrontOK

Sizes == /\ GUI_MAX_WINDOWS \in Nat /\ GUI_MAX_WIDGETS \in Nat /\ SCR_W \in Nat
         /\ MinW \in Nat /\ MinW > 0 /\ GUI_MAX_WINDOWS > 1 /\ MinW < SCR_W
         /\ LINE \in Nat /\ "T" \in Titles /\ Untitled \notin Titles
         /\ Nobody \notin Slots

(* A set of numbers that is not empty has a least one.                     *)
LEMMA LeastOf ==
    ASSUME NEW S, S \subseteq Nat, S # {}
    PROVE  \E x \in S : \A y \in S : x <= y
<1> DEFINE T == {0 .. n : n \in S}
           R == StrictSubsetOrdering(Nat)
           F == FiniteSubsetsOf(Nat)
<1>1. IsWellFoundedOn(R, F)
  BY FS_StrictSubsetOrderingWellFounded
<1>2. T \subseteq F
  <2>1. \A n \in Nat : 0 .. n \in F
    BY FS_Interval DEF FiniteSubsetsOf
  <2> QED BY <2>1
<1>3. T # {}
  OBVIOUS
<1>4. PICK I \in T : \A J \in T : ~(<<J, I>> \in R)
  BY <1>1, <1>2, <1>3, WFMin
<1>5. PICK x \in S : I = 0 .. x
  OBVIOUS
<1>6. ASSUME NEW y \in S PROVE x <= y
  <2>1. ~(<<0 .. y, 0 .. x>> \in R)
    BY <1>4, <1>5
  <2>2. y < x => 0 .. y \subseteq 0 .. x /\ 0 .. y # 0 .. x
    BY <1>5
  <2>3. y < x => <<0 .. y, 0 .. x>> \in R
    BY <2>2 DEF StrictSubsetOrdering
  <2> QED BY <1>5, <2>1, <2>3
<1> QED BY <1>6

LEMMA GuiSizes == ASSUME GuiAssumption PROVE Sizes
<1>1. Nobody \notin Slots
  BY DEF Nobody, Slots
<1> QED BY <1>1 DEF GuiAssumption, Sizes

(* A new window, and what is left of one.                                  *)
LEMMA NewWindow ==
    ASSUME Sizes, NEW t \in Titles, NEW x \in Int, NEW w \in Nat, Inside(x, w),
           NEW win, win = WindowOf(t, x, w, TRUE)
    PROVE  /\ win \in Window /\ win.w >= MinW /\ Placed(win)
           /\ win.title = t /\ win.visible
<1>1. /\ win.title = t /\ win.x = x /\ win.w = w /\ win.visible /\ ~win.maximized
  BY DEF WindowOf
<1>2. win \in Window
  BY DEF WindowOf, Window, Sizes
<1>3. t # Untitled
  BY DEF Sizes
<1> QED BY <1>1, <1>2, <1>3 DEF Placed, Inside

LEMMA NoWindow ==
    ASSUME Sizes, NEW t \in Titles \cup {Untitled},
           NEW win, win = WindowOf(t, 0, MinW, FALSE)
    PROVE  /\ win \in Window /\ win.w >= MinW /\ Placed(win)
           /\ win.title = t /\ ~win.visible
<1>1. win.title = t /\ win.w = MinW /\ ~win.visible
  BY DEF WindowOf
<1>2. win \in Window
  BY DEF WindowOf, Window, Sizes
<1>3. Placed(win)
  BY <1>1 DEF Placed
<1>4. MinW >= MinW
  BY DEF Sizes
<1> QED BY <1>1, <1>2, <1>3, <1>4

LEMMA DesktopInit == ASSUME GuiAssumption, GuiInit PROVE GuiInv
<1>1. Sizes
  BY GuiSizes
<1> DEFINE t == CHOOSE t \in Titles : t # "T"
<1>2. t \in Titles /\ t # "T"
  <2>1. \E u \in Titles : u # "T"
    BY DEF GuiAssumption
  <2> QED BY <2>1
<1>3. /\ wins = [i \in Slots |->
              CASE i = 0 -> WindowOf(t, 0, MinW, TRUE)
                [] i = 1 -> WindowOf("T", SCR_W - MinW, MinW, TRUE)
                [] OTHER -> Free]
      /\ wgts = <<[win |-> 0, of |-> t]>>
  BY DEF GuiInit
<1> HIDE DEF t
<1>4. /\ g_active = 1 /\ hold = NoHold /\ cur = SCR_W \div 2 /\ button = FALSE
      /\ menus = {} /\ shell = [win |-> 1, pos |-> 0] /\ moved = FALSE
  BY DEF GuiInit
<1>5. 0 \in Slots /\ 1 \in Slots /\ cur \in 0 .. SCR_W - 1
  <2>1. SCR_W \in Nat /\ SCR_W > 0 /\ GUI_MAX_WINDOWS \in Nat /\ GUI_MAX_WINDOWS > 1
    BY <1>1 DEF Sizes
  <2>2. \A n \in Nat : n > 0 => n \div 2 \in 0 .. n - 1
    OBVIOUS
  <2> QED BY <1>4, <2>1, <2>2 DEF Slots
<1> DEFINE end == SCR_W - MinW
<1>a. /\ Inside(0, MinW) /\ Inside(end, MinW)
      /\ MinW \in Nat /\ end \in Int /\ 0 \in Int
  BY <1>1 DEF Inside, Sizes
<1>b. wins[0] = WindowOf(t, 0, MinW, TRUE) /\ wins[1] = WindowOf("T", end, MinW, TRUE)
  BY <1>3, <1>5
<1> HIDE DEF end
<1>c. /\ wins[0] \in Window /\ wins[0].w >= MinW /\ Placed(wins[0])
      /\ wins[0].title = t
  <2>1. t \in Titles /\ 0 \in Int /\ MinW \in Nat /\ Inside(0, MinW)
    BY <1>2, <1>a
  <2>2. wins[0] = WindowOf(t, 0, MinW, TRUE)
    BY <1>b
  <2> QED BY <1>1, <2>1, <2>2, NewWindow
<1>d. /\ wins[1] \in Window /\ wins[1].w >= MinW /\ Placed(wins[1])
      /\ wins[1].title = "T" /\ wins[1].visible
  <2>1. "T" \in Titles
    BY <1>1 DEF Sizes
  <2> QED BY <1>1, <1>a, <1>b, <2>1, NewWindow
<1>6. \A i \in Slots : wins[i] \in Window /\ wins[i].w >= MinW /\ Placed(wins[i])
  <2> TAKE i \in Slots
  <2>1. CASE i # 0 /\ i # 1
    <3>1. wins[i] = WindowOf(Untitled, 0, MinW, FALSE)
      BY <1>3, <2>1 DEF Free
    <3> QED BY <1>1, <3>1, NoWindow
  <2> QED BY <1>c, <1>d, <2>1
<1>7. wins \in [Slots -> Window]
  BY <1>3, <1>6
<1>9. /\ wgts \in Seq([win : Slots, of : Titles]) /\ Len(wgts) = 1
      /\ \A k \in DOMAIN wgts : wins[wgts[k].win].title = wgts[k].of
  <2>1. [win |-> 0, of |-> t] \in [win : Slots, of : Titles]
    BY <1>2, <1>5
  <2>2. DOMAIN wgts = {1} /\ wgts[1] = [win |-> 0, of |-> t]
    BY <1>3
  <2>3. wgts \in Seq([win : Slots, of : Titles]) /\ Len(wgts) = 1
    BY <1>3, <2>1
  <2> QED BY <1>c, <2>2, <2>3
<1>10. Len(wgts) <= GUI_MAX_WIDGETS
  BY <1>9 DEF GuiAssumption
<1>11. hold \in Hold
  BY <1>4 DEF NoHold, Hold, Parts
<1>12. shell \in [win : Slots \cup {Nobody}, pos : 0 .. LINE] /\ shell.win = 1
  BY <1>1, <1>4, <1>5 DEF Sizes
<1>14. hold.drag = Nobody
  BY <1>4 DEF NoHold
<1>15. WinsOK
  BY <1>6, <1>7 DEF WinsOK
<1>16. NamesOK
  BY <1>d, <1>9, <1>10, <1>12 DEF NamesOK
<1>17. HoldOK
  BY <1>4, <1>11, <1>14 DEF HoldOK
<1>18. FrontOK
  BY <1>4, <1>5, <1>d DEF FrontOK, ActiveShown
<1> QED BY <1>15, <1>16, <1>17, <1>18 DEF GuiInv

LEMMA Widget ==
    ASSUME wgts \in Seq([win : Slots, of : Titles]), NEW k \in DOMAIN wgts
    PROVE  wgts[k].win \in Slots /\ wgts[k].of \in Titles
<1>1. k \in 1 .. Len(wgts)
  OBVIOUS
<1>2. wgts[k] \in [win : Slots, of : Titles]
  BY <1>1, ElementOfSeq
<1> QED BY <1>2

(* Titles stay.                                                            *)
LEMMA NamesStay ==
    ASSUME NamesOK, \A i \in Slots : wins'[i].title = wins[i].title, wgts' = wgts,
           shell' \in [win : Slots \cup {Nobody}, pos : 0 .. LINE],
           shell'.win # Nobody => wins[shell'.win].title = "T"
    PROVE  NamesOK'
<1>1. wgts \in Seq([win : Slots, of : Titles])
  BY DEF NamesOK
<1>2. \A k \in DOMAIN wgts : wgts[k].win \in Slots
  BY <1>1, Widget
<1>3. \A k \in DOMAIN wgts' : wins'[wgts'[k].win].title = wgts'[k].of
  BY <1>2 DEF NamesOK
<1> QED BY <1>1, <1>3 DEF NamesOK

(* Nothing is held while the button is up.                                 *)
LEMMA HoldsNone == ASSUME HoldOK, ~button PROVE hold.drag = Nobody
BY DEF HoldOK

LEMMA HoldStays ==
    ASSUME HoldOK, UNCHANGED <<hold, moved>>, hold.drag = Nobody, button' \in BOOLEAN
    PROVE  HoldOK'
BY DEF HoldOK

(* A new window is in a slot that never had one: it has no widgets yet.    *)
LEMMA CreateOK ==
    ASSUME GuiAssumption, Tidy, GuiInv, NEW t \in Titles, NEW x \in {0, SCR_W - 1},
           NEW w \in {MinW, MinW + 1}, NEW n \in {1, 2}, Create(t, x, w, n),
           \/ shell' = shell
           \/ /\ t = "T"
              /\ shell' = IF Unused = {} THEN shell
                          ELSE [win |-> FirstUnused, pos |-> 0]
    PROVE  /\ WinsOK' /\ NamesOK'
           /\ g_active' \in Slots \cup {Nobody} /\ ActiveShown'
<1>1. Sizes
  BY GuiSizes
<1>2. CASE Unused = {}
  <2>1. UNCHANGED <<wins, g_active, wgts, shell>>
    BY <1>2 DEF Create
  <2> QED BY <2>1 DEF GuiInv, WinsOK, NamesOK, FrontOK, ActiveShown
<1>3. CASE Unused # {}
  <2> DEFINE i == FirstUnused
             wide == IF w < MinW THEN MinW ELSE w
             spot == IF x + wide > SCR_W THEN SCR_W - wide ELSE x
             new == WindowOf(t, spot, wide, TRUE)
  <2>1. i \in Slots
    <3>1. Unused \subseteq Slots /\ Slots \subseteq Nat
      BY <1>1 DEF Unused, Slots
    <3>2. \E a \in Unused : \A b \in Unused : a <= b
      BY <1>3, <3>1, LeastOf
    <3> QED BY <3>1, <3>2 DEF FirstUnused
  <2>2. /\ wins[i].title = Untitled /\ wins' = [wins EXCEPT ![i] = new]
        /\ g_active' = i /\ wgts' = WithWidgets(i, t, n)
    BY <1>3 DEF Create
  <2>3. /\ wide = w /\ spot >= 0 /\ spot \in Int /\ spot + wide <= SCR_W
        /\ w \in Nat /\ w >= MinW
    BY <1>1 DEF Sizes
  <2> HIDE DEF spot, wide
  <2> HIDE DEF new, i
  <2>5. /\ new \in Window /\ new.w >= MinW /\ new.title = t /\ new.visible
        /\ Placed(new)
    <3>1. Inside(spot, wide) /\ wide \in Nat
      BY <2>3 DEF Inside
    <3> QED BY <1>1, <2>3, <3>1, NewWindow DEF new
  <2>6. /\ wins \in [Slots -> Window] /\ wins'[i] = new
        /\ \A j \in Slots \ {i} : wins'[j] = wins[j]
    BY <2>1, <2>2 DEF GuiInv, WinsOK
  <2>7. WinsOK'
    BY <2>2, <2>5, <2>6 DEF GuiInv, WinsOK
  <2>8. /\ wgts \in Seq([win : Slots, of : Titles]) /\ Len(wgts) <= GUI_MAX_WIDGETS
        /\ \A k \in DOMAIN wgts : wins[wgts[k].win].title = wgts[k].of
    BY DEF GuiInv, NamesOK
  <2>9. /\ wgts' \in Seq([win : Slots, of : Titles]) /\ Len(wgts') <= GUI_MAX_WIDGETS
        /\ \A k \in DOMAIN wgts' :
              \/ k \in DOMAIN wgts /\ wgts'[k] = wgts[k]
              \/ wgts'[k] = [win |-> i, of |-> t]
    <3> DEFINE room == GUI_MAX_WIDGETS - Len(wgts)
               m == IF n < room THEN n ELSE room
               more == [k \in 1 .. m |-> [win |-> i, of |-> t]]
    <3>1. m \in Nat /\ m <= room /\ Len(wgts) \in Nat /\ GUI_MAX_WIDGETS \in Nat
      BY <1>1, <2>8 DEF Sizes
    <3>2. more \in Seq([win : Slots, of : Titles]) /\ Len(more) = m
      BY <2>1, <3>1
    <3>3. wgts' = wgts \o more
      BY <2>2 DEF WithWidgets
    <3>4. \A k \in 1 .. m : more[k] = [win |-> i, of |-> t]
      OBVIOUS
    <3> HIDE DEF m, more
    <3> QED BY <2>8, <3>1, <3>2, <3>3, <3>4
  <2>10. \A k \in DOMAIN wgts' : wins'[wgts'[k].win].title = wgts'[k].of
    <3> TAKE k \in DOMAIN wgts'
    <3>1. CASE wgts'[k] = [win |-> i, of |-> t]
      BY <2>5, <2>6, <3>1
    <3>2. CASE k \in DOMAIN wgts /\ wgts'[k] = wgts[k]
      <4>1. wgts[k].win \in Slots /\ wgts[k].of \in Titles
        BY <2>8, <3>2, Widget
      <4>2. wgts[k].win # i
        BY <1>1, <2>2, <2>8, <3>2, <4>1 DEF Sizes
      <4> QED BY <2>6, <2>8, <3>2, <4>1, <4>2
    <3> QED BY <2>9, <3>1, <3>2
  <2>11. shell' \in [win : Slots \cup {Nobody}, pos : 0 .. LINE]
         /\ (shell'.win # Nobody => wins'[shell'.win].title = "T")
    <3>1. /\ shell \in [win : Slots \cup {Nobody}, pos : 0 .. LINE]
          /\ shell.win # Nobody => wins[shell.win].title = "T"
      BY DEF GuiInv, NamesOK
    <3>2. CASE shell' = shell
      <4>1. ASSUME shell.win # Nobody PROVE shell.win # i /\ shell.win \in Slots
        BY <1>1, <2>2, <3>1, <4>1 DEF Sizes
      <4> QED BY <2>6, <3>1, <3>2, <4>1
    <3>3. CASE t = "T" /\ shell' = [win |-> i, pos |-> 0]
      <4>1. 0 \in 0 .. LINE
        BY <1>1 DEF Sizes
      <4> QED BY <2>1, <2>5, <2>6, <3>3, <4>1
    <3> QED BY <1>3, <3>2, <3>3 DEF i
  <2>12. NamesOK'
    BY <2>9, <2>10, <2>11 DEF NamesOK
  <2> QED BY <2>1, <2>2, <2>5, <2>6, <2>7, <2>12 DEF ActiveShown
<1> QED BY <1>2, <1>3

(* What comes to the front is shown.                                       *)
LEMMA RaiseOK ==
    ASSUME GuiInv, NEW i \in Slots, wins[i].visible, Raise(i), UNCHANGED shell
    PROVE  /\ WinsOK' /\ NamesOK'
           /\ g_active' \in Slots \cup {Nobody} /\ ActiveShown'
<1>1. wins' = wins /\ wgts' = wgts /\ shell' = shell /\ g_active' = i
  BY DEF Raise
<1> QED BY <1>1 DEF GuiInv, WinsOK, NamesOK, ActiveShown

LEMMA FirstTitled ==
    ASSUME GuiAssumption, NEW t, Titled(t) # {},
           NEW i, i = CHOOSE a \in Titled(t) : \A b \in Titled(t) : a <= b
    PROVE  i \in Slots /\ wins[i].visible /\ wins[i].title = t
<1>1. Titled(t) \subseteq Nat
  BY GuiSizes DEF Titled, Slots, Sizes
<1>2. \E a \in Titled(t) : \A b \in Titled(t) : a <= b
  BY <1>1, LeastOf
<1>3. i \in Titled(t)
  BY <1>2
<1> QED BY <1>3 DEF Titled

LEMMA OpenOK ==
    ASSUME GuiAssumption, Tidy, GuiInv, NEW t \in Titles, Open(t)
    PROVE  GuiInv'
<1>1. ~button /\ button' = TRUE /\ menus' = {} /\ UNCHANGED <<hold, cur, moved>>
  BY DEF Open, Press
<1>2. HoldOK'
  BY <1>1, HoldsNone, HoldStays DEF GuiInv
<1>3. PICK x \in {0, SCR_W - 1}, w \in {MinW, MinW + 1}, n \in {1, 2} :
        IF t = "T" THEN OpenShell(x, w, n) ELSE OpenTitle(t, x, w, n)
  BY DEF Open
<1>4. /\ WinsOK' /\ NamesOK'
      /\ g_active' \in Slots \cup {Nobody} /\ ActiveShown'
  <2>1. CASE t = "T" /\ shell.win # Nobody /\ wins[shell.win].visible
    <3>1. Raise(shell.win) /\ UNCHANGED shell
      BY <1>3, <2>1 DEF OpenShell
    <3>2. shell.win \in Slots
      BY <2>1 DEF GuiInv, NamesOK
    <3> QED BY <2>1, <3>1, <3>2, RaiseOK
  <2>2. CASE t = "T" /\ ~(shell.win # Nobody /\ wins[shell.win].visible)
    <3>1. Create(t, x, w, n)
          /\ shell' = IF Unused = {} THEN shell ELSE [win |-> FirstUnused, pos |-> 0]
      BY <1>3, <2>2 DEF OpenShell
    <3> QED BY <2>2, <3>1, CreateOK
  <2>3. CASE t # "T" /\ Titled(t) # {}
    <3> DEFINE i == CHOOSE a \in Titled(t) : \A b \in Titled(t) : a <= b
    <3>1. Raise(i) /\ UNCHANGED shell
      BY <1>3, <2>3 DEF OpenTitle
    <3>2. i \in Slots /\ wins[i].visible
      BY <2>3, FirstTitled
    <3> HIDE DEF i
    <3> QED BY <3>1, <3>2, RaiseOK
  <2>4. CASE t # "T" /\ Titled(t) = {}
    <3>1. Create(t, x, w, n) /\ shell' = shell
      BY <1>3, <2>4 DEF OpenTitle
    <3> QED BY <3>1, CreateOK
  <2> QED BY <2>1, <2>2, <2>3, <2>4
<1>5. FrontOK'
  BY <1>1, <1>4 DEF GuiInv, FrontOK
<1> QED BY <1>2, <1>4, <1>5 DEF GuiInv

LEMMA DockTerminalOK ==
    ASSUME GuiAssumption, GuiInv, DockTerminal
    PROVE  GuiInv'
<1> DEFINE i == CHOOSE a \in Titled("T") : \A b \in Titled("T") : a <= b
<1>1. /\ ~button /\ button' = TRUE /\ menus' = {} /\ UNCHANGED <<hold, cur, moved>>
      /\ g_active' = i /\ UNCHANGED <<wins, wgts>>
      /\ shell' = [shell EXCEPT !.win = i]
  BY DEF DockTerminal, Press, Raise
<1>2. i \in Slots /\ wins[i].visible /\ wins[i].title = "T"
  BY FirstTitled DEF DockTerminal
<1> HIDE DEF i
<1>3. HoldOK'
  BY <1>1, HoldsNone, HoldStays DEF GuiInv
<1>4. shell \in [win : Slots \cup {Nobody}, pos : 0 .. LINE]
  BY DEF GuiInv, NamesOK
<1>5. shell' \in [win : Slots \cup {Nobody}, pos : 0 .. LINE] /\ shell'.win = i
  BY <1>1, <1>2, <1>4
<1>6. NamesOK'
  BY <1>1, <1>2, <1>5, NamesStay DEF GuiInv
<1>7. WinsOK'
  BY <1>1 DEF GuiInv, WinsOK
<1>8. FrontOK'
  BY <1>1, <1>2 DEF GuiInv, FrontOK, ActiveShown
<1> QED BY <1>3, <1>6, <1>7, <1>8 DEF GuiInv

LEMMA LauncherOK ==
    ASSUME GuiInv, Launcher
    PROVE  GuiInv'
<1>1. /\ ~button /\ button' = TRUE /\ menus' \in {{}, {"launcher"}}
      /\ UNCHANGED <<wins, g_active, wgts, hold, cur, shell, moved>>
  BY DEF Launcher, Press
<1>2. HoldOK'
  BY <1>1, HoldsNone, HoldStays DEF GuiInv
<1>3. WinsOK' /\ NamesOK'
  BY <1>1 DEF GuiInv, WinsOK, NamesOK
<1>4. FrontOK'
  BY <1>1 DEF GuiInv, FrontOK, ActiveShown
<1> QED BY <1>2, <1>3, <1>4 DEF GuiInv

LEMMA RightClickOK ==
    ASSUME GuiInv, RightClick
    PROVE  GuiInv'
<1>1. /\ menus' = menus \cup {"context"}
      /\ UNCHANGED <<wins, g_active, wgts, hold, cur, button, shell, moved>>
  BY DEF RightClick
<1> QED BY <1>1 DEF GuiInv, WinsOK, NamesOK, HoldOK, FrontOK, ActiveShown

(* One window changes and keeps its title.                                 *)
LEMMA OneChanges ==
    ASSUME GuiInv, NEW i \in Slots, NEW win \in Window, win.w >= MinW, Placed(win),
           win.title = wins[i].title, wins' = [wins EXCEPT ![i] = win],
           UNCHANGED <<wgts, shell>>
    PROVE  /\ WinsOK' /\ NamesOK' /\ wins'[i] = win
           /\ \A j \in Slots \ {i} : wins'[j] = wins[j]
<1>1. /\ wins \in [Slots -> Window] /\ wins'[i] = win
      /\ \A j \in Slots \ {i} : wins'[j] = wins[j]
  BY DEF GuiInv, WinsOK
<1>2. WinsOK'
  BY <1>1 DEF GuiInv, WinsOK
<1>3. \A j \in Slots : wins'[j].title = wins[j].title
  BY <1>1
<1>4. NamesOK'
  BY <1>3, NamesStay DEF GuiInv, NamesOK
<1> QED BY <1>1, <1>2, <1>4

(* A slot whose window goes.                                               *)
LEMMA GoneOK ==
    ASSUME Sizes, GuiInv, NEW i \in Slots, wins' = Gone(i), UNCHANGED <<wgts, shell>>
    PROVE  /\ WinsOK' /\ NamesOK'
           /\ \A j \in Slots \ {i} : wins'[j] = wins[j]
<1> DEFINE win == WindowOf(wins[i].title, 0, MinW, FALSE)
<1>1. wins[i] \in Window
  BY DEF GuiInv, WinsOK
<1>2. wins[i].title \in Titles \cup {Untitled}
  BY <1>1 DEF Window
<1>3. wins' = [wins EXCEPT ![i] = win]
  BY DEF Gone
<1>4. win \in Window /\ win.w >= MinW /\ Placed(win) /\ win.title = wins[i].title
  BY <1>2, NoWindow
<1> HIDE DEF win
<1> QED BY <1>3, <1>4, OneChanges

LEMMA MaximizeOK ==
    ASSUME Sizes, GuiInv, NEW i \in Slots, wins[i].visible, Maximize(i),
           UNCHANGED <<wgts, shell>>
    PROVE  /\ WinsOK' /\ NamesOK' /\ wins'[i].visible
           /\ \A j \in Slots \ {i} : wins'[j] = wins[j]
<1>1. /\ wins[i] \in Window /\ wins[i].w >= MinW /\ wins[i].title # Untitled
      /\ Inside(wins[i].x, wins[i].w)
      /\ wins[i].maximized => Inside(wins[i].ox, wins[i].ow)
  BY DEF GuiInv, WinsOK, Placed
<1>2. CASE ~wins[i].maximized
  <2> DEFINE win == [wins[i] EXCEPT !.ox = wins[i].x, !.ow = wins[i].w,
                                    !.maximized = TRUE]
  <2>1. wins' = [wins EXCEPT ![i] = win]
    BY <1>2 DEF Maximize
  <2>2. /\ win.title = wins[i].title /\ win.x = wins[i].x /\ win.w = wins[i].w
        /\ win.visible = wins[i].visible /\ win.ox = wins[i].x /\ win.ow = wins[i].w
    BY <1>1 DEF Window
  <2>3. win \in Window
    BY <1>1 DEF Window
  <2> HIDE DEF win
  <2>4. win.w >= MinW /\ Placed(win)
    BY <1>1, <2>2 DEF Placed, Inside
  <2>5. win.visible
    BY <2>2
  <2> QED BY <2>1, <2>2, <2>3, <2>4, <2>5, OneChanges
<1>3. CASE wins[i].maximized
  <2> DEFINE win == [wins[i] EXCEPT !.x = wins[i].ox, !.w = wins[i].ow,
                                    !.ox = 0, !.ow = MinW, !.maximized = FALSE]
  <2>1. wins' = [wins EXCEPT ![i] = win]
    BY <1>3 DEF Maximize
  <2>2. /\ win.title = wins[i].title /\ win.x = wins[i].ox /\ win.w = wins[i].ow
        /\ win.visible = wins[i].visible /\ win.maximized = FALSE
    BY <1>1 DEF Window
  <2>3. win \in Window
    <3> DEFINE back == [wins[i] EXCEPT !.x = wins[i].ox, !.w = wins[i].ow]
    <3>1. back \in Window
      BY <1>1 DEF Window
    <3> DEFINE whole == [back EXCEPT !.ox = 0, !.ow = MinW]
    <3>2. win = [whole EXCEPT !.maximized = FALSE]
      BY <1>1 DEF Window
    <3> HIDE DEF back
    <3>3. whole \in Window
      <4> DEFINE there == [back EXCEPT !.ox = 0]
      <4>1. there \in Window
        BY <3>1 DEF Window
      <4>2. whole = [there EXCEPT !.ow = MinW]
        BY <3>1 DEF Window
      <4> HIDE DEF there
      <4>3. MinW \in Nat
        BY DEF Sizes
      <4> QED BY <4>1, <4>2, <4>3 DEF Window
    <3> HIDE DEF whole
    <3> QED BY <3>2, <3>3 DEF Window
  <2> HIDE DEF win
  <2>4. win.w >= MinW /\ Placed(win)
    BY <1>1, <1>3, <2>2 DEF Placed, Inside
  <2>5. win.visible
    BY <2>2
  <2> QED BY <2>1, <2>2, <2>3, <2>4, <2>5, OneChanges
<1> QED BY <1>2, <1>3

LEMMA TakeHold ==
    ASSUME hold \in Hold, NEW d \in Slots \cup {Nobody}, NEW o \in Int,
           NEW h, h = [hold EXCEPT !.drag = d, !.off = o]
    PROVE  h \in Hold /\ h.drag = d
<1> DEFINE g == [hold EXCEPT !.drag = d]
<1>1. g \in Hold /\ g.drag = d
  BY DEF Hold
<1>2. h = [g EXCEPT !.off = o]
  BY DEF Hold
<1> HIDE DEF g
<1> QED BY <1>1, <1>2 DEF Hold

LEMMA ClickOK ==
    ASSUME GuiAssumption, Tidy, GuiInv, NEW i \in Slots, NEW part \in Parts,
           Click(i, part)
    PROVE  GuiInv'
<1>1. Sizes
  BY GuiSizes
<1>2. /\ ~button /\ button' = TRUE /\ menus' = {} /\ wins[i].visible
      /\ UNCHANGED <<wgts, cur, shell, moved>>
  BY DEF Click, Press, Hit, Under
<1>3. hold.drag = Nobody
  BY <1>2, HoldsNone DEF GuiInv
<1>4. ASSUME UNCHANGED hold
      PROVE  HoldOK'
  BY <1>2, <1>3, <1>4, HoldStays DEF GuiInv
<1>5. ASSUME g_active' \in Slots \cup {Nobody}, ActiveShown'
      PROVE  FrontOK'
  BY <1>2, <1>5 DEF GuiInv, FrontOK
<1>6. CASE part = "close"
  <2>1. /\ wins' = Gone(i) /\ UNCHANGED hold
        /\ g_active' = IF g_active = i THEN Nobody ELSE g_active
    BY <1>6 DEF Click, Close
  <2>2. /\ WinsOK' /\ NamesOK'
        /\ \A j \in Slots \ {i} : wins'[j] = wins[j]
    BY <1>1, <1>2, <2>1, GoneOK
  <2>3. g_active' \in Slots \cup {Nobody} /\ ActiveShown'
    BY <2>1, <2>2 DEF GuiInv, FrontOK, ActiveShown
  <2> QED BY <1>4, <1>5, <2>1, <2>2, <2>3 DEF GuiInv
<1>7. CASE part = "min"
  <2>1. wins' = Gone(i) /\ g_active' = Nobody /\ UNCHANGED hold
    BY <1>7 DEF Click, Minimize
  <2>2. WinsOK' /\ NamesOK'
    BY <1>1, <1>2, <2>1, GoneOK
  <2>3. g_active' \in Slots \cup {Nobody} /\ ActiveShown'
    BY <2>1 DEF ActiveShown
  <2> QED BY <1>4, <1>5, <2>1, <2>2, <2>3 DEF GuiInv
<1>8. CASE part = "max"
  <2>1. Maximize(i) /\ g_active' = g_active /\ UNCHANGED hold
    BY <1>8 DEF Click, Maximize
  <2>2. /\ WinsOK' /\ NamesOK' /\ wins'[i].visible
        /\ \A j \in Slots \ {i} : wins'[j] = wins[j]
    BY <1>1, <1>2, <2>1, MaximizeOK
  <2>3. g_active' \in Slots \cup {Nobody} /\ ActiveShown'
    BY <2>1, <2>2 DEF GuiInv, FrontOK, ActiveShown
  <2> QED BY <1>4, <1>5, <2>1, <2>2, <2>3 DEF GuiInv
<1>9. CASE part \in {"title", "body"}
  <2>1. /\ g_active' = i /\ UNCHANGED wins
        /\ \/ hold' = hold
           \/ hold' = [hold EXCEPT !.drag = i, !.off = cur - wins[i].x]
    BY <1>9 DEF Click
  <2>2. WinsOK' /\ NamesOK'
    BY <1>2, <2>1 DEF GuiInv, WinsOK, NamesOK
  <2>3. g_active' \in Slots \cup {Nobody} /\ ActiveShown'
    BY <1>2, <2>1 DEF ActiveShown
  <2>4. CASE hold' = [hold EXCEPT !.drag = i, !.off = cur - wins[i].x]
    <3>1. wins[i] \in Window /\ cur \in Int /\ hold \in Hold /\ moved = FALSE
      BY <1>1 DEF GuiInv, WinsOK, HoldOK, FrontOK, Sizes
    <3>2. wins[i].x \in Int
      BY <3>1 DEF Window
    <3>3. cur - wins[i].x \in Int
      BY <3>1, <3>2
    <3>4. hold' \in Hold /\ hold'.drag = i
      BY <2>4, <3>1, <3>3, TakeHold
    <3>5. HoldOK'
      BY <1>2, <2>1, <3>1, <3>4 DEF HoldOK
    <3> QED BY <1>5, <2>2, <2>3, <3>5 DEF GuiInv
  <2> QED BY <1>4, <1>5, <2>1, <2>2, <2>3, <2>4 DEF GuiInv
<1>10. CASE part \in {"left", "right", "corner"}
  <2>1. Edge(i, part)
    BY <1>10 DEF Click
  <2> QED BY <2>1 DEF Edge
<1> QED BY <1>6, <1>7, <1>8, <1>9, <1>10 DEF Parts

LEMMA LiftOK ==
    ASSUME GuiInv, Lift
    PROVE  GuiInv'
<1>1. /\ button' = FALSE /\ hold' = [hold EXCEPT !.drag = Nobody, !.off = 0]
      /\ UNCHANGED <<wins, g_active, wgts, cur, menus, shell, moved>>
  BY DEF Lift, StopDrag
<1>2. hold \in Hold /\ moved = FALSE
  BY DEF GuiInv, HoldOK
<1>3. hold' \in Hold /\ hold'.drag = Nobody
  <2>1. 0 \in Int /\ Nobody \in Slots \cup {Nobody}
    OBVIOUS
  <2> QED BY <1>1, <1>2, <2>1, TakeHold
<1>4. HoldOK'
  BY <1>1, <1>2, <1>3 DEF HoldOK
<1> QED BY <1>1, <1>4 DEF GuiInv, WinsOK, NamesOK, FrontOK, ActiveShown

(* The window that is dragged follows the pointer and stays on the screen; *)
(* without one, nothing moves.                                             *)
LEMMA MoveCursorOK ==
    ASSUME GuiAssumption, GuiInv, NEW to \in 0 .. SCR_W - 1, MoveCursor(to)
    PROVE  GuiInv'
<1>1. Sizes
  BY GuiSizes
<1>2. /\ cur' = to /\ moved' = (moved \/ (~button /\ wins' # wins))
      /\ UNCHANGED <<g_active, wgts, hold, button, menus, shell>>
  BY DEF MoveCursor, LetGo
<1>3. /\ hold \in Hold /\ hold.size = Nobody /\ moved = FALSE /\ button \in BOOLEAN
      /\ hold.drag # Nobody => button /\ wins[hold.drag].visible
  BY DEF GuiInv, HoldOK, Hold
<1>4. CASE hold.drag = Nobody
  <2>1. wins' = wins /\ moved' = FALSE
    BY <1>2, <1>3, <1>4 DEF MoveCursor
  <2> QED BY <1>2, <2>1 DEF GuiInv, WinsOK, NamesOK, HoldOK, FrontOK, ActiveShown
<1>5. CASE hold.drag # Nobody
  <2> DEFINE i == hold.drag
             nx == to - hold.off
             low == IF nx < 0 THEN 0 ELSE nx
             x == IF low + wins[i].w > SCR_W THEN SCR_W - wins[i].w ELSE low
             win == [wins[i] EXCEPT !.x = x]
  <2>1. i \in Slots /\ hold.off \in Int
    BY <1>3, <1>5 DEF Hold
  <2>2. wins' = [wins EXCEPT ![i] = win]
    BY <1>5 DEF MoveCursor, Dragged
  <2>3. /\ wins[i] \in Window /\ wins[i].title # Untitled /\ wins[i].visible
        /\ Inside(wins[i].x, wins[i].w)
        /\ wins[i].maximized => Inside(wins[i].ox, wins[i].ow)
    BY <1>3, <1>5, <2>1 DEF GuiInv, WinsOK, Placed
  <2>4. wins[i].x \in Int /\ wins[i].w \in Nat /\ SCR_W \in Nat /\ to \in Int
    BY <1>1, <2>3 DEF Window, Sizes
  <2>5. x \in Int /\ Inside(x, wins[i].w)
    <3>1. low \in Int /\ low >= 0
      BY <2>1, <2>4
    <3> HIDE DEF low
    <3> QED BY <2>3, <2>4, <3>1 DEF Inside
  <2> HIDE DEF x
  <2>6. /\ win.title = wins[i].title /\ win.x = x /\ win.w = wins[i].w
        /\ win.visible = wins[i].visible /\ win.maximized = wins[i].maximized
        /\ win.ox = wins[i].ox /\ win.ow = wins[i].ow /\ win \in Window
    BY <2>3, <2>5 DEF Window
  <2> HIDE DEF win, i
  <2>7. win.w >= MinW /\ Placed(win) /\ win.visible
    BY <2>3, <2>5, <2>6 DEF Placed, Inside
  <2>8. /\ WinsOK' /\ NamesOK' /\ wins'[i] = win
        /\ \A j \in Slots \ {i} : wins'[j] = wins[j]
    BY <1>2, <2>1, <2>2, <2>6, <2>7, OneChanges
  <2>9. \A j \in Slots : wins[j].visible => wins'[j].visible
    BY <2>7, <2>8
  <2>10. moved' = FALSE
    BY <1>2, <1>3, <1>5
  <2>11. HoldOK'
    BY <1>2, <1>3, <1>5, <2>1, <2>9, <2>10 DEF HoldOK, i
  <2>12. FrontOK'
    BY <1>2, <2>9 DEF GuiInv, FrontOK, ActiveShown
  <2> QED BY <2>8, <2>11, <2>12 DEF GuiInv
<1> QED BY <1>4, <1>5

LEMMA KeyOK ==
    ASSUME GuiInv, NEW pos \in 0 .. LINE, Key(pos)
    PROVE  GuiInv'
<1>1. /\ shell' = [shell EXCEPT !.pos = pos]
      /\ UNCHANGED <<wins, g_active, wgts, hold, cur, button, menus, moved>>
  BY DEF Key
<1>2. /\ shell \in [win : Slots \cup {Nobody}, pos : 0 .. LINE]
      /\ shell.win # Nobody => wins[shell.win].title = "T"
  BY DEF GuiInv, NamesOK
<1>3. /\ shell' \in [win : Slots \cup {Nobody}, pos : 0 .. LINE]
      /\ shell'.win = shell.win
  BY <1>1, <1>2
<1>4. NamesOK'
  BY <1>1, <1>2, <1>3, NamesStay DEF GuiInv
<1> QED BY <1>1, <1>4 DEF GuiInv, WinsOK, HoldOK, FrontOK, ActiveShown

LEMMA GuiStep ==
    ASSUME GuiAssumption, Tidy, GuiInv, [GuiNext]_guiVars
    PROVE  GuiInv'
<1>1. CASE UNCHANGED guiVars
  BY <1>1 DEF guiVars, GuiInv, WinsOK, NamesOK, HoldOK, FrontOK, ActiveShown
<1>2. CASE GuiNext
  BY <1>2, OpenOK, DockTerminalOK, LauncherOK, RightClickOK, LiftOK, ClickOK,
     MoveCursorOK, KeyOK DEF GuiNext
<1> QED BY <1>1, <1>2

LEMMA InvSound == ASSUME GuiInv PROVE WindowsSound
<1>1. /\ wgts \in Seq([win : Slots, of : Titles]) /\ Len(wgts) <= GUI_MAX_WIDGETS
      /\ \A k \in DOMAIN wgts : wins[wgts[k].win].title = wgts[k].of
      /\ shell \in [win : Slots \cup {Nobody}, pos : 0 .. LINE]
      /\ shell.win # Nobody => wins[shell.win].title = "T"
  BY DEF GuiInv, NamesOK
<1>2. shell.win \in Slots \cup {Nobody} /\ shell.pos \in 0 .. LINE
  BY <1>1
<1>3. GuiTypeOK
  BY <1>1, <1>2 DEF GuiInv, WinsOK, HoldOK, FrontOK, GuiTypeOK
<1>4. WindowsOnScreen
  BY DEF GuiInv, WinsOK, Placed, Inside, WindowsOnScreen
<1>5. OwnWidgets /\ ShellIsTerminal
  BY <1>1 DEF OwnWidgets, ShellIsTerminal
<1>6. ActiveShown /\ MovesWhenHeld
  BY DEF GuiInv, FrontOK, HoldOK, MovesWhenHeld
<1> QED BY <1>3, <1>4, <1>5, <1>6 DEF WindowsSound

(* Where a window is only opened in a slot that never had one and nobody   *)
(* takes hold of an edge: windows stay on the screen, move only while they *)
(* are held, show the widgets of their own application, the one in front   *)
(* is shown and what is typed goes to a terminal (gui_handle_click,        *)
(* gui_cursor_move, gui_window_create, wgt_new).                           *)
THEOREM WindowsAreSound == ASSUME GuiAssumption, Tidy PROVE GuiSpec => []WindowsSound
<1>1. GuiInit => GuiInv
  BY DesktopInit
<1>2. GuiInv /\ [GuiNext]_guiVars => GuiInv'
  BY GuiStep
<1>3. GuiInv => WindowsSound
  BY InvSound
<1> QED BY <1>1, <1>2, <1>3, PTL DEF GuiSpec

-----------------------------------------------------------------------------
(* Input.                                                                  *)
(* Rings of any size: what lies between head and tail.                     *)
Wrap(n, size) == IF n < size THEN n ELSE n - size

LEMMA WrapIs ==
    ASSUME NEW size \in Nat, size > 0, NEW n \in Nat, n < size + size
    PROVE  n % size = Wrap(n, size) /\ Wrap(n, size) \in 0 .. size - 1
<1>1. n % size = IF n < size THEN n ELSE n - size
  OBVIOUS
<1>2. (IF n < size THEN n ELSE n - size) \in 0 .. size - 1
  OBVIOUS
<1> QED BY <1>1, <1>2 DEF Wrap

(* One more at the end, one more at the front.                             *)
Longer(s, e) == Append(s, e)
Led(e, s) == <<e>> \o s

(* How many there are.                                                     *)
Span(size, head, tail) == (tail - head + size) % size

LEMMA SpanIs ==
    ASSUME NEW size \in Nat, size > 0, NEW head \in 0 .. size - 1, NEW tail \in 0 .. size - 1
    PROVE  /\ Span(size, head, tail) = IF tail >= head THEN tail - head ELSE tail - head + size
           /\ Span(size, head, tail) \in 0 .. size - 1
<1>1. PICK n \in Nat : n = tail - head + size /\ n < size + size
  OBVIOUS
<1>2. n % size = Wrap(n, size) /\ Wrap(n, size) \in 0 .. size - 1
  BY <1>1, WrapIs
<1> QED BY <1>1, <1>2 DEF Span, Wrap

(* A ring, and what lies in it.                                            *)
RingOf(size, head, tail, S, ring) ==
    /\ size \in Nat /\ size > 0 /\ ring \in [0 .. size - 1 -> S]
    /\ head \in 0 .. size - 1 /\ tail \in 0 .. size - 1
At(size, head, i) == Wrap(head + i - 1, size)

LEMMA SpanNat ==
    ASSUME NEW size, NEW head, NEW tail, NEW S, NEW ring, RingOf(size, head, tail, S, ring)
    PROVE  Span(size, head, tail) \in Nat
BY SpanIs DEF RingOf

LEMMA BetweenIs ==
    ASSUME NEW size, NEW head, NEW tail, NEW S, NEW ring, RingOf(size, head, tail, S, ring)
    PROVE  /\ Between(ring, size, head, tail) \in Seq(S)
           /\ Len(Between(ring, size, head, tail)) = Span(size, head, tail)
           /\ Span(size, head, tail) \in 0 .. size - 1
           /\ \A i \in 1 .. Span(size, head, tail) :
                 /\ Between(ring, size, head, tail)[i] = ring[At(size, head, i)]
                 /\ At(size, head, i) \in 0 .. size - 1
<1> DEFINE n == Span(size, head, tail)
           b == Between(ring, size, head, tail)
<1>0. /\ size \in Nat /\ size > 0 /\ ring \in [0 .. size - 1 -> S]
      /\ head \in 0 .. size - 1 /\ tail \in 0 .. size - 1
  BY DEF RingOf
<1>1. n \in 0 .. size - 1
  BY <1>0, SpanIs
<1>2. b = [i \in 1 .. n |-> ring[(head + i - 1) % size]]
  BY DEF Between, Span
<1> HIDE DEF n, b
<1>3. ASSUME NEW i \in 1 .. n
      PROVE  b[i] = ring[At(size, head, i)] /\ At(size, head, i) \in 0 .. size - 1
  <2>1. PICK m \in Nat : m = head + i - 1 /\ m < size + size
    BY <1>0, <1>1
  <2>2. m % size = Wrap(m, size) /\ Wrap(m, size) \in 0 .. size - 1
    BY <1>0, <2>1, WrapIs
  <2>3. (head + i - 1) % size = m % size
    BY <2>1
  <2> QED BY <1>2, <2>1, <2>2, <2>3 DEF At
<1>4. b \in Seq(S) /\ Len(b) = n
  <2>1. \A i \in 1 .. n : b[i] \in S
    BY <1>0, <1>3
  <2>2. n \in Nat /\ DOMAIN b = 1 .. n /\ b = [i \in 1 .. n |-> b[i]]
    BY <1>1, <1>2
  <2> QED BY <2>1, <2>2, IsASeq
<1> QED BY <1>1, <1>3, <1>4 DEF b, n

LEMMA BetweenPush ==
    ASSUME NEW size, NEW head, NEW tail, NEW S, NEW ring, RingOf(size, head, tail, S, ring),
           NEW e \in S, NEW next, next = NextPlace(tail, size), next # head
    PROVE  /\ RingOf(size, head, next, S, [ring EXCEPT ![tail] = e])
           /\ Span(size, head, next) = Span(size, head, tail) + 1
           /\ Between([ring EXCEPT ![tail] = e], size, head, next)
                = Longer(Between(ring, size, head, tail), e)
<1> DEFINE n == Span(size, head, tail)
           m == Span(size, head, next)
           with == [ring EXCEPT ![tail] = e]
           a == Between(ring, size, head, tail)
           b == Between(with, size, head, next)
<1>0. /\ size \in Nat /\ size > 0 /\ ring \in [0 .. size - 1 -> S]
      /\ head \in 0 .. size - 1 /\ tail \in 0 .. size - 1
  BY DEF RingOf
<1>w. /\ with \in [0 .. size - 1 -> S] /\ with[tail] = e
      /\ \A j \in 0 .. size - 1 : j # tail => with[j] = ring[j]
  BY <1>0
<1> HIDE DEF n, m, a, b, with
<1>1. next = (IF tail + 1 < size THEN tail + 1 ELSE 0) /\ next \in 0 .. size - 1
  <2>1. tail + 1 \in Nat /\ tail + 1 < size + size
    BY <1>0
  <2>2. next = Wrap(tail + 1, size) /\ next \in 0 .. size - 1
    BY <1>0, <2>1, WrapIs DEF NextPlace
  <2> QED BY <1>0, <2>2 DEF Wrap
<1>r. RingOf(size, head, next, S, with)
  BY <1>0, <1>w, <1>1 DEF RingOf
<1>2. /\ n = (IF tail >= head THEN tail - head ELSE tail - head + size)
      /\ m = (IF next >= head THEN next - head ELSE next - head + size)
  BY <1>0, <1>1, SpanIs DEF n, m
<1>3. /\ m = n + 1 /\ At(size, head, n + 1) = tail
      /\ \A i \in 1 .. n : At(size, head, i) # tail
  BY <1>0, <1>1, <1>2 DEF At, Wrap
<1>6. /\ a \in Seq(S) /\ Len(a) = n /\ n \in 0 .. size - 1
      /\ \A i \in 1 .. n : a[i] = ring[At(size, head, i)]
  BY BetweenIs DEF a, n
<1>7. /\ b \in Seq(S) /\ Len(b) = m
      /\ \A i \in 1 .. m : b[i] = with[At(size, head, i)] /\ At(size, head, i) \in 0 .. size - 1
  BY <1>r, BetweenIs DEF b, m
<1>9. \A i \in 1 .. n : b[i] = a[i]
  <2> SUFFICES ASSUME NEW i \in 1 .. n PROVE b[i] = a[i]
    OBVIOUS
  <2>1. i \in 1 .. m
    BY <1>3, <1>6
  <2>2. with[At(size, head, i)] = ring[At(size, head, i)]
    BY <1>3, <1>7, <1>w, <2>1
  <2> QED BY <1>6, <1>7, <2>1, <2>2
<1>10. b[n + 1] = e
  <2>1. n + 1 \in 1 .. m
    BY <1>3, <1>6
  <2> QED BY <1>3, <1>7, <1>w, <2>1
<1>11. b = Append(a, e)
  BY <1>3, <1>6, <1>7, <1>9, <1>10
<1> QED BY <1>r, <1>3, <1>11 DEF a, b, n, m, with, Longer

LEMMA BetweenPop ==
    ASSUME NEW size, NEW head, NEW tail, NEW S, NEW ring, RingOf(size, head, tail, S, ring),
           head # tail, NEW next, next = NextPlace(head, size)
    PROVE  /\ RingOf(size, next, tail, S, ring) /\ ring[head] \in S
           /\ Span(size, next, tail) = Span(size, head, tail) - 1
           /\ Between(ring, size, head, tail)
                = Led(ring[head], Between(ring, size, next, tail))
<1> DEFINE n == Span(size, head, tail)
           m == Span(size, next, tail)
           a == Between(ring, size, head, tail)
           b == Between(ring, size, next, tail)
<1>0. /\ size \in Nat /\ size > 0 /\ ring \in [0 .. size - 1 -> S]
      /\ head \in 0 .. size - 1 /\ tail \in 0 .. size - 1 /\ ring[head] \in S
  BY DEF RingOf
<1> HIDE DEF n, m, a, b
<1>1. next = (IF head + 1 < size THEN head + 1 ELSE 0) /\ next \in 0 .. size - 1
  <2>1. head + 1 \in Nat /\ head + 1 < size + size
    BY <1>0
  <2>2. next = Wrap(head + 1, size) /\ next \in 0 .. size - 1
    BY <1>0, <2>1, WrapIs DEF NextPlace
  <2> QED BY <1>0, <2>2 DEF Wrap
<1>r. RingOf(size, next, tail, S, ring)
  BY <1>0, <1>1 DEF RingOf
<1>2. /\ n = (IF tail >= head THEN tail - head ELSE tail - head + size)
      /\ m = (IF tail >= next THEN tail - next ELSE tail - next + size)
  BY <1>0, <1>1, SpanIs DEF n, m
<1>3. /\ m = n - 1 /\ n > 0 /\ At(size, head, 1) = head
      /\ \A i \in 1 .. m : At(size, next, i) = At(size, head, i + 1)
  BY <1>0, <1>1, <1>2 DEF At, Wrap
<1>5. /\ a \in Seq(S) /\ Len(a) = n /\ n \in 0 .. size - 1
      /\ \A i \in 1 .. n : a[i] = ring[At(size, head, i)]
  BY BetweenIs DEF a, n
<1>6. b \in Seq(S) /\ Len(b) = m /\ \A i \in 1 .. m : b[i] = ring[At(size, next, i)]
  BY <1>r, BetweenIs DEF b, m
<1>7. a[1] = ring[head] /\ \A i \in 1 .. m : a[i + 1] = b[i]
  <2>2. 1 \in 1 .. n
    BY <1>3, <1>5
  <2>3. ASSUME NEW i \in 1 .. m PROVE a[i + 1] = b[i]
    <3>1. i + 1 \in 1 .. n
      BY <1>3, <1>5
    <3> QED BY <1>3, <1>5, <1>6, <3>1
  <2> QED BY <1>3, <1>5, <2>2, <2>3
<1>9. a = <<ring[head]>> \o b
  BY <1>0, <1>3, <1>5, <1>6, <1>7
<1> QED BY <1>0, <1>r, <1>3, <1>9 DEF a, b, n, m, Led

-----------------------------------------------------------------------------
(* The invariant of the input: each ring holds, from head to tail, the     *)
(* latest of what was put in, and every decoder has a piece of a packet.   *)
Events == [key : Keys \cup {"none"}, shift : BOOLEAN]
KeyBytes == [key : Keys \cup {"e0"}, up : BOOLEAN]
MouseBytes == [key : {"mouse"}, n : Nat, i : 1 .. Packet]
Bytes == KeyBytes \cup MouseBytes
Helds == [key : Keys \cup {"none"}, shift : BOOLEAN, since : Nat, last : Nat]

Passed(size, head, tail, S, ring, in, out) ==
    /\ RingOf(size, head, tail, S, ring) /\ in \in Seq(S) /\ out \in Seq(S)
    /\ out \o Between(ring, size, head, tail) = in
Latest(size, head, tail, ring, n, last) ==
    /\ RingOf(size, head, tail, Nat, ring)
    /\ n = Span(size, head, tail) /\ last \in Nat
    /\ \A i \in 1 .. n : Between(ring, size, head, tail)[i] = last - n + i
KeyRing(ring, head, tail, in, out) ==
    Passed(KEY_BUF_SIZE, head, tail, Events, ring, in, out)
KeysOK == KeyRing(keys, key_head, key_tail, stored, polled) /\ held \in Helds
MiceOK ==
    /\ packets \in Seq(Seq(MouseBytes))
    /\ Latest(MOUSE_BUF_SIZE, mou_head, mou_tail, mice, waiting, Len(packets))
PartsOK ==
    /\ part_pkt \in [Sides -> Seq(MouseBytes)]
    /\ \A d \in Sides : Len(part_pkt[d]) < IF d = "ps2" THEN Packet ELSE 3
LinesOK ==
    /\ wire \in Seq(Bytes) /\ Len(wire) <= MaxWire
    /\ flags \in [Sides -> [shift : BOOLEAN, e0 : BOOLEAN]] /\ shadow \in BOOLEAN
    /\ down \subseteq Keys /\ ticks \in 0 .. MaxTick /\ sent \in Nat
InputInv == KeysOK /\ MiceOK /\ PartsOK /\ LinesOK

(* One more event in the ring of keys, and one less.                       *)
LEMMA PassedIn ==
    ASSUME NEW K, NEW S, NEW r, NEW h, NEW t, NEW in, NEW out, NEW e \in S,
           Passed(K, h, t, S, r, in, out), NEW next, next = NextPlace(t, K), next # h
    PROVE  Passed(K, h, next, S, [r EXCEPT ![t] = e], Append(in, e), out)
<1> DEFINE b == Between(r, K, h, t)
<1>1. RingOf(K, h, t, S, r) /\ in \in Seq(S) /\ out \in Seq(S) /\ out \o b = in
  BY DEF Passed
<1>2. /\ RingOf(K, h, next, S, [r EXCEPT ![t] = e])
      /\ Between([r EXCEPT ![t] = e], K, h, next) = Longer(b, e)
  BY <1>1, BetweenPush
<1>3. b \in Seq(S)
  BY <1>1, BetweenIs
<1> HIDE DEF b
<1>5. Append(in, e) \in Seq(S) /\ out \o Longer(b, e) = Append(in, e)
  BY <1>1, <1>3 DEF Longer
<1> QED BY <1>1, <1>2, <1>5 DEF Passed

LEMMA PassedOut ==
    ASSUME NEW K, NEW S, NEW r, NEW h, NEW t, NEW in, NEW out,
           Passed(K, h, t, S, r, in, out), h # t, NEW next, next = NextPlace(h, K)
    PROVE  Passed(K, next, t, S, r, in, Append(out, r[h]))
<1> DEFINE b == Between(r, K, h, t)
           c == Between(r, K, next, t)
<1>1. RingOf(K, h, t, S, r) /\ in \in Seq(S) /\ out \in Seq(S) /\ out \o b = in
  BY DEF Passed
<1>2. RingOf(K, next, t, S, r) /\ r[h] \in S /\ b = Led(r[h], c)
  BY <1>1, BetweenPop
<1>3. c \in Seq(S)
  BY <1>2, BetweenIs
<1> HIDE DEF b, c
<1>5. Append(out, r[h]) \in Seq(S) /\ Append(out, r[h]) \o c = in
  <2> PICK x \in S : x = r[h]
    BY <1>2
  <2>1. <<x>> \in Seq(S) /\ Append(out, x) = out \o <<x>>
    BY <1>1
  <2>2. (out \o <<x>>) \o c = out \o (<<x>> \o c)
    BY <1>1, <1>3, <2>1, ConcatAssociative
  <2>3. Append(out, x) \in Seq(S)
    BY <1>1
  <2>4. <<x>> \o c = b
    BY <1>2 DEF Led
  <2>5. Append(out, x) \o c = in
    BY <1>1, <2>1, <2>2, <2>4
  <2> QED BY <2>3, <2>5
<1> QED BY <1>1, <1>2, <1>5 DEF Passed, c

(* One more packet in the ring of the mouse, and one less.                 *)
LEMMA LatestIn ==
    ASSUME NEW M, NEW h, NEW t, NEW r, NEW c, NEW n, Latest(M, h, t, r, n, c),
           NEW next, next = NextPlace(t, M), next # h
    PROVE  Latest(M, h, next, [r EXCEPT ![t] = c + 1], n + 1, c + 1)
<1> DEFINE a == Between(r, M, h, t)
           b == Between([r EXCEPT ![t] = c + 1], M, h, next)
<1>1. /\ RingOf(M, h, t, Nat, r) /\ c \in Nat /\ c + 1 \in Nat /\ n = Span(M, h, t)
      /\ \A i \in 1 .. n : a[i] = c - n + i
  BY DEF Latest
<1>3. /\ RingOf(M, h, next, Nat, [r EXCEPT ![t] = c + 1])
      /\ Span(M, h, next) = Span(M, h, t) + 1 /\ b = Longer(a, c + 1)
  BY <1>1, BetweenPush
<1>4. a \in Seq(Nat) /\ Len(a) = n /\ n \in Nat
  BY <1>1, BetweenIs, SpanNat
<1> HIDE DEF a, b
<1>5. \A i \in 1 .. n + 1 : b[i] = (c + 1) - (n + 1) + i
  <2> SUFFICES ASSUME NEW i \in 1 .. n + 1 PROVE b[i] = (c + 1) - (n + 1) + i
    OBVIOUS
  <2>1. CASE i \in 1 .. n
    <3>1. b[i] = a[i] /\ a[i] = c - n + i
      BY <1>1, <1>3, <1>4, <2>1 DEF Longer
    <3> QED BY <1>1, <1>4, <3>1
  <2>2. CASE i = n + 1
    <3>1. b[i] = c + 1
      BY <1>1, <1>3, <1>4, <2>2 DEF Longer
    <3> QED BY <1>1, <1>4, <2>2, <3>1
  <2> QED BY <1>4, <2>1, <2>2
<1> QED BY <1>1, <1>3, <1>5 DEF Latest, b

LEMMA LatestOut ==
    ASSUME NEW M, NEW h, NEW t, NEW r, NEW c, NEW n, Latest(M, h, t, r, n, c), h # t,
           NEW next, next = NextPlace(h, M)
    PROVE  Latest(M, next, t, r, n - 1, c)
<1> DEFINE a == Between(r, M, h, t)
           b == Between(r, M, next, t)
<1>1. /\ RingOf(M, h, t, Nat, r) /\ c \in Nat /\ n = Span(M, h, t)
      /\ \A i \in 1 .. n : a[i] = c - n + i
  BY DEF Latest
<1>2. /\ RingOf(M, next, t, Nat, r) /\ r[h] \in Nat
      /\ Span(M, next, t) = Span(M, h, t) - 1 /\ a = Led(r[h], b)
  BY <1>1, BetweenPop
<1>3. b \in Seq(Nat) /\ Len(b) = n - 1 /\ n \in Nat /\ n - 1 \in Nat
  <2>1. b \in Seq(Nat) /\ Len(b) = Span(M, next, t)
    BY <1>2, BetweenIs
  <2>2. Span(M, next, t) \in Nat /\ Span(M, h, t) \in Nat
    BY <1>1, <1>2, SpanNat
  <2> HIDE DEF b
  <2> QED BY <1>1, <1>2, <2>1, <2>2
<1> HIDE DEF a, b
<1>5. \A i \in 1 .. n - 1 : b[i] = c - (n - 1) + i
  <2> SUFFICES ASSUME NEW i \in 1 .. n - 1 PROVE b[i] = c - (n - 1) + i
    OBVIOUS
  <2>1. a[i + 1] = b[i] /\ i + 1 \in 1 .. n
    BY <1>2, <1>3 DEF Led
  <2>2. a[i + 1] = c - n + (i + 1)
    BY <1>1, <2>1
  <2> QED BY <1>1, <1>3, <2>1, <2>2
<1> QED BY <1>1, <1>2, <1>5 DEF Latest, b

LEMMA FullRing ==
    ASSUME NEW M, NEW h, NEW t, NEW S, NEW r, RingOf(M, h, t, S, r),
           NEW next, next = NextPlace(t, M), NEW after, after = NextPlace(h, M)
    PROVE  /\ next \in 0 .. M - 1 /\ (next = h <=> Span(M, h, t) = M - 1)
           /\ Span(M, h, t) \in 0 .. M - 1 /\ M \in Nat
           /\ (next = h /\ M # 1) => h # t /\ next # after
           /\ M = 1 => next = 0 /\ h = 0 /\ t = 0 /\ after = 0
<1>0. M \in Nat /\ M > 0 /\ h \in 0 .. M - 1 /\ t \in 0 .. M - 1
  BY DEF RingOf
<1>1. /\ t + 1 \in Nat /\ t + 1 < M + M
      /\ h + 1 \in Nat /\ h + 1 < M + M
  BY <1>0
<1>2. next = Wrap(t + 1, M) /\ after = Wrap(h + 1, M) /\ next \in 0 .. M - 1
  BY <1>0, <1>1, WrapIs DEF NextPlace
<1>3. Span(M, h, t) = IF t >= h THEN t - h ELSE t - h + M
  BY <1>0, SpanIs
<1> QED BY <1>0, <1>2, <1>3 DEF Wrap

(* A ring that is full makes room first.                                   *)
LEMMA LatestAdd ==
    ASSUME NEW M, NEW h, NEW t, NEW r, NEW c, NEW n, Latest(M, h, t, r, n, c),
           NEW next, next = NextPlace(t, M), NEW after, after = NextPlace(h, M)
    PROVE  Latest(M, IF next = h THEN after ELSE h, next, [r EXCEPT ![t] = c + 1],
                  IF n < M - 1 THEN n + 1 ELSE n, c + 1)
<1>1. RingOf(M, h, t, Nat, r) /\ c \in Nat /\ n = Span(M, h, t)
  BY DEF Latest
<1>2. /\ n \in 0 .. M - 1 /\ next \in 0 .. M - 1 /\ (next = h <=> n = M - 1)
      /\ (next = h /\ M # 1) => h # t /\ next # after
      /\ M = 1 => next = 0 /\ h = 0 /\ t = 0 /\ after = 0
      /\ M \in Nat
  BY <1>1, FullRing
<1>3. CASE next # h
  <2>1. Latest(M, h, next, [r EXCEPT ![t] = c + 1], n + 1, c + 1)
    BY <1>3, LatestIn
  <2>2. n < M - 1
    BY <1>2, <1>3
  <2> QED BY <1>3, <2>1, <2>2
<1>4. CASE next = h /\ M = 1
  <2>1. next = t /\ h = t /\ after = t /\ n = 0 /\ ~(n < M - 1)
    BY <1>2, <1>4
  <2>2. RingOf(M, h, t, Nat, [r EXCEPT ![t] = c + 1]) /\ c + 1 \in Nat
    BY <1>1 DEF RingOf
  <2>3. \A i \in 1 .. n : Between([r EXCEPT ![t] = c + 1], M, h, t)[i] = (c + 1) - n + i
    BY <2>1
  <2>4. Latest(M, h, t, [r EXCEPT ![t] = c + 1], n, c + 1)
    BY <1>1, <2>2, <2>3 DEF Latest
  <2> QED BY <1>4, <2>1, <2>4
<1>5. CASE next = h /\ M # 1
  <2>1. h # t /\ next # after /\ ~(n < M - 1) /\ (n - 1) + 1 = n
    BY <1>2, <1>5
  <2>2. Latest(M, after, t, r, n - 1, c)
    BY <2>1, LatestOut
  <2>3. Latest(M, after, next, [r EXCEPT ![t] = c + 1], (n - 1) + 1, c + 1)
    BY <2>1, <2>2, LatestIn
  <2> QED BY <1>5, <2>1, <2>3
<1> QED BY <1>3, <1>4, <1>5

LEMMA StoredOK ==
    ASSUME InputAssumption, KeysOK, ~KeyFull, NEW e \in Events, Stored(e)
    PROVE  KeyRing(keys', key_head, key_tail', stored', polled)
<1>1. /\ keys' = [keys EXCEPT ![key_tail] = e] /\ stored' = Append(stored, e)
      /\ key_tail' = NextPlace(key_tail, KEY_BUF_SIZE) /\ key_tail' # key_head
  BY DEF Stored, KeyFull
<1> QED BY <1>1, PassedIn DEF KeysOK, KeyRing

LEMMA RepeatOK ==
    ASSUME InputAssumption, KeysOK, LinesOK, Repeat
    PROVE  KeyRing(keys', key_head, key_tail', stored', polled) /\ held' \in Helds
<1>1. CASE UNCHANGED <<held, keys, key_tail, stored>>
  BY <1>1 DEF KeysOK
<1>2. CASE ~UNCHANGED <<held, keys, key_tail, stored>>
  <2>1. /\ held' = [held EXCEPT !.last = ticks]
        /\ IF KeyFull THEN UNCHANGED <<keys, key_tail, stored>>
           ELSE Stored(Event(held.key, held.shift))
    BY <1>2 DEF Repeat
  <2>2. held' \in Helds
    BY <2>1 DEF KeysOK, LinesOK, Helds
  <2>3. Event(held.key, held.shift) \in Events
    BY DEF KeysOK, Helds, Event, Events
  <2> QED BY <2>1, <2>2, <2>3, StoredOK DEF KeysOK
<1> QED BY <1>1, <1>2

LEMMA PollKeysOK ==
    ASSUME InputAssumption, InputInv, PollKeys \/ PollNoKeys
    PROVE  InputInv'
<1>1. /\ Repeat
      /\ UNCHANGED <<down, ticks, sent, wire, flags, shadow, mousering, pressed>>
      /\ \/ UNCHANGED <<key_head, polled>>
         \/ /\ key_head # key_tail' /\ polled' = Append(polled, keys'[key_head])
            /\ key_head' = NextPlace(key_head, KEY_BUF_SIZE)
  BY DEF PollKeys, PollNoKeys
<1>2. KeyRing(keys', key_head, key_tail', stored', polled) /\ held' \in Helds
  BY <1>1, RepeatOK DEF InputInv
<1>3. KeyRing(keys', key_head', key_tail', stored', polled')
  <2>1. CASE UNCHANGED <<key_head, polled>>
    BY <1>2, <2>1
  <2>2. CASE /\ key_head # key_tail' /\ polled' = Append(polled, keys'[key_head])
             /\ key_head' = NextPlace(key_head, KEY_BUF_SIZE)
    BY <1>2, <2>2, PassedOut DEF KeyRing
  <2> QED BY <1>1, <2>1, <2>2
<1> QED BY <1>1, <1>2, <1>3 DEF InputInv, KeysOK, MiceOK, PartsOK, LinesOK, mousering

LEMMA PushMouseOK ==
    ASSUME InputAssumption, MiceOK, NEW pkt \in Seq(MouseBytes),
           PushMouse(Len(packets) + 1), Counted(pkt)
    PROVE  MiceOK'
<1> DEFINE next == NextPlace(mou_tail, MOUSE_BUF_SIZE)
           after == NextPlace(mou_head, MOUSE_BUF_SIZE)
<1>1. Latest(MOUSE_BUF_SIZE, mou_head, mou_tail, mice, waiting, Len(packets))
  BY DEF MiceOK
<1>2. /\ mice' = [mice EXCEPT ![mou_tail] = Len(packets) + 1] /\ mou_tail' = next
      /\ mou_head' = IF next = mou_head THEN after ELSE mou_head
      /\ waiting' = IF waiting < MOUSE_BUF_SIZE - 1 THEN waiting + 1 ELSE waiting
      /\ packets' = Append(packets, pkt)
  BY DEF PushMouse, Counted
<1>3. packets' \in Seq(Seq(MouseBytes)) /\ Len(packets') = Len(packets) + 1
  BY <1>2 DEF MiceOK
<1>4. Latest(MOUSE_BUF_SIZE, mou_head', mou_tail', mice', waiting', Len(packets) + 1)
  BY <1>1, <1>2, LatestAdd
<1> QED BY <1>3, <1>4 DEF MiceOK

LEMMA LatestNone ==
    ASSUME NEW M, NEW h, NEW t, NEW r, NEW c, NEW n, Latest(M, h, t, r, n, c)
    PROVE  Latest(M, 0, 0, r, 0, c)
<1>1. RingOf(M, 0, 0, Nat, r) /\ c \in Nat
  BY DEF Latest, RingOf
<1>2. Span(M, 0, 0) = 0
  BY <1>1, SpanIs DEF RingOf
<1> QED BY <1>1, <1>2 DEF Latest

LEMMA PollMouseOK ==
    ASSUME InputAssumption, InputInv, PollMouse \/ Ungrab
    PROVE  InputInv'
<1>1. Latest(MOUSE_BUF_SIZE, mou_head, mou_tail, mice, waiting, Len(packets))
  BY DEF InputInv, MiceOK
<1>2. UNCHANGED <<down, ticks, sent, wire, flags, shadow, keyring, part_pkt,
                  mice, packets, pressed>>
  BY DEF PollMouse, Ungrab
<1>3. Latest(MOUSE_BUF_SIZE, mou_head', mou_tail', mice, waiting', Len(packets))
  <2>1. CASE PollMouse
    <3>1. /\ mou_head # mou_tail /\ mou_head' = NextPlace(mou_head, MOUSE_BUF_SIZE)
          /\ mou_tail' = mou_tail /\ waiting' = waiting - 1
      BY <2>1 DEF PollMouse
    <3> QED BY <1>1, <3>1, LatestOut
  <2>2. CASE Ungrab
    <3>1. mou_head' = 0 /\ mou_tail' = 0 /\ waiting' = 0
      BY <2>2 DEF Ungrab
    <3> QED BY <1>1, <3>1, LatestNone
  <2> QED BY <2>1, <2>2
<1> QED BY <1>2, <1>3 DEF InputInv, KeysOK, MiceOK, PartsOK, LinesOK, keyring

-----------------------------------------------------------------------------
(* The devices put bytes on the wire.                                      *)
LEMMA PutOK ==
    ASSUME LinesOK, NEW bytes \in Seq(Bytes), Put(bytes)
    PROVE  wire' \in Seq(Bytes) /\ Len(wire') <= MaxWire
BY DEF LinesOK, Put

LEMMA CodeOK ==
    ASSUME NEW k \in Keys, NEW up \in BOOLEAN
    PROVE  Code(k, up) \in Seq(Bytes)
<1>1. Byte(k, up) \in Bytes /\ Byte("e0", FALSE) \in Bytes
  BY DEF Byte, Bytes, KeyBytes
<1>2. PICK x, y \in Bytes : x = Byte(k, up) /\ y = Byte("e0", FALSE)
  BY <1>1
<1>3. /\ <<x>> \in Seq(Bytes) /\ <<y>> \in Seq(Bytes) /\ <<y>> \o <<x>> \in Seq(Bytes)
      /\ <<>> \o <<x>> \in Seq(Bytes)
  OBVIOUS
<1>4. Code(k, up) = <<y>> \o <<x>> \/ Code(k, up) = <<>> \o <<x>>
  BY <1>2 DEF Code
<1> QED BY <1>3, <1>4

LEMMA SlideOK ==
    ASSUME InputAssumption, LinesOK, NEW lost, Slide(lost)
    PROVE  wire' \in Seq(Bytes) /\ Len(wire') <= MaxWire /\ sent' \in Nat
<1> DEFINE whole == [i \in 1 .. Packet |-> MouseByte(sent', i)]
<1>1. /\ sent' \in Nat /\ Packet \in Nat /\ lost \in 0 .. Packet
      /\ Put(IF lost = 0 THEN whole ELSE RemoveAt(whole, lost))
  BY DEF Slide, LinesOK, InputAssumption
<1>2. whole \in Seq(Bytes) /\ Len(whole) = Packet
  <2>1. \A i \in 1 .. Packet : MouseByte(sent', i) \in Bytes
    BY <1>1 DEF MouseByte, Bytes, MouseBytes
  <2>2. \A i \in 1 .. Packet : whole[i] \in Bytes
    BY <2>1
  <2>3. DOMAIN whole = 1 .. Packet /\ whole = [i \in 1 .. Packet |-> whole[i]]
    OBVIOUS
  <2> HIDE DEF whole
  <2> QED BY <1>1, <2>2, <2>3, IsASeq
<1> HIDE DEF whole
<1>3. lost # 0 => RemoveAt(whole, lost) \in Seq(Bytes)
  BY <1>1, <1>2 DEF RemoveAt
<1> QED BY <1>1, <1>2, <1>3, PutOK

(* One byte is decoded.                                                    *)
LEMMA SideOK ==
    ASSUME InputAssumption, NEW r \in Readers
    PROVE  Side(r) \in Sides /\ (Side(r) = "ps2" <=> r = "ps2")
BY DEF InputAssumption, Side, Sides

LEMMA DecodeOK ==
    ASSUME InputAssumption, KeysOK, LinesOK, NEW r \in Readers, NEW b \in KeyBytes,
           Decode(r, b), UNCHANGED <<key_head, polled>>
    PROVE  /\ KeysOK' /\ shadow' \in BOOLEAN
           /\ flags' \in [Sides -> [shift : BOOLEAN, e0 : BOOLEAN]]
<1> DEFINE f == flags[Side(r)]
           same == UNCHANGED <<keys, key_tail, held, stored>>
           stray == r = "ps2" /\ f.e0
<1>1. /\ b.key \in Keys \cup {"e0"} /\ b.up \in BOOLEAN /\ Side(r) \in Sides
      /\ f \in [shift : BOOLEAN, e0 : BOOLEAN]
      /\ flags \in [Sides -> [shift : BOOLEAN, e0 : BOOLEAN]] /\ shadow \in BOOLEAN
  BY SideOK DEF LinesOK, KeyBytes
<1>2. \E s, e \in BOOLEAN : flags' = [flags EXCEPT ![Side(r)] = [shift |-> s, e0 |-> e]]
  BY <1>1 DEF Decode
<1>3. flags' \in [Sides -> [shift : BOOLEAN, e0 : BOOLEAN]]
  BY <1>1, <1>2
<1>4. shadow' \in BOOLEAN
  BY <1>1 DEF Decode
<1>5. \/ same
      \/ Released /\ UNCHANGED <<keys, key_tail, stored>>
      \/ PushKey(b.key) /\ b.key \in Keys
  BY <1>1 DEF Decode
<1>6. KeysOK'
  <2>1. CASE same
    BY <2>1 DEF KeysOK
  <2>2. CASE Released /\ UNCHANGED <<keys, key_tail, stored>>
    BY <2>2 DEF KeysOK, Released, NoKey, Helds
  <2>3. CASE PushKey(b.key) /\ b.key \in Keys
    <3>1. CASE KeyFull
      BY <2>3, <3>1 DEF PushKey, KeysOK
    <3>2. CASE ~KeyFull
      <4>1. /\ Stored(Event(b.key, shadow'))
            /\ held' = Holding(b.key)
        BY <2>3, <3>2 DEF PushKey
      <4>2. Event(b.key, shadow') \in Events
        BY <1>4, <2>3 DEF Event, Events
      <4>3. held' \in Helds
        BY <1>4, <2>3, <4>1 DEF LinesOK, Holding, Helds
      <4> QED BY <3>2, <4>1, <4>2, <4>3, StoredOK DEF KeysOK
    <3> QED BY <3>1, <3>2
  <2> QED BY <1>5, <2>1, <2>2, <2>3
<1> QED BY <1>3, <1>4, <1>6

LEMMA CollectOK ==
    ASSUME InputAssumption, MiceOK, PartsOK, NEW r \in Readers, NEW b \in MouseBytes,
           Collect(r, b)
    PROVE  MiceOK' /\ PartsOK'
<1> DEFINE d == Side(r)
           pkt == Append(part_pkt[d], b)
           left == IF Len(pkt) < Length(r) THEN pkt ELSE <<>>
<1>1. CASE UNCHANGED mousering
  BY <1>1 DEF mousering, MiceOK, PartsOK
<1>2. CASE ~UNCHANGED mousering
  <2>1. /\ part_pkt' = [part_pkt EXCEPT ![d] = left]
        /\ \/ UNCHANGED <<mice, mou_head, mou_tail, packets, waiting>>
           \/ PushMouse(Len(packets) + 1) /\ Counted(pkt)
    BY <1>2 DEF Collect
  <2>2. /\ d \in Sides /\ (d = "ps2" <=> r = "ps2") /\ Packet \in {3, 4}
    BY SideOK DEF InputAssumption
  <2>3. part_pkt[d] \in Seq(MouseBytes)
    BY <2>2 DEF PartsOK
  <2>4. pkt \in Seq(MouseBytes)
    BY <2>3
  <2>5. left \in Seq(MouseBytes) /\ Len(left) < IF d = "ps2" THEN Packet ELSE 3
    <3> HIDE DEF pkt, d
    <3> QED BY <2>2, <2>4 DEF Length
  <2> HIDE DEF left, pkt, d
  <2>6. PartsOK'
    BY <2>1, <2>2, <2>5 DEF PartsOK
  <2>7. MiceOK'
    <3>1. CASE UNCHANGED <<mice, mou_head, mou_tail, packets, waiting>>
      BY <3>1 DEF MiceOK
    <3>2. CASE PushMouse(Len(packets) + 1) /\ Counted(pkt)
      BY <2>4, <3>2, PushMouseOK
    <3> QED BY <2>1, <3>1, <3>2
  <2> QED BY <2>6, <2>7
<1> QED BY <1>1, <1>2

LEMMA ReadOK ==
    ASSUME InputAssumption, InputInv, NEW r \in Readers, Read(r)
    PROVE  InputInv'
<1> DEFINE b == Head(wire)
<1>1. /\ wire # <<>> /\ wire' = Tail(wire) /\ UNCHANGED <<down, ticks, sent, pressed>>
      /\ \/ b.key = "mouse" /\ Collect(r, b) /\ UNCHANGED <<flags, shadow, keyring>>
         \/ b.key # "mouse" /\ Decode(r, b) /\ UNCHANGED <<key_head, polled, mousering>>
  BY DEF Read
<1>2. b \in Bytes /\ wire' \in Seq(Bytes) /\ Len(wire') <= MaxWire
  BY <1>1 DEF InputInv, LinesOK, InputAssumption
<1> HIDE DEF b
<1>3. CASE b.key = "mouse" /\ Collect(r, b) /\ UNCHANGED <<flags, shadow, keyring>>
  <2>1. b \in MouseBytes
    BY <1>2, <1>3 DEF Bytes, KeyBytes, Keys, InputAssumption
  <2>2. MiceOK' /\ PartsOK'
    BY <1>3, <2>1, CollectOK DEF InputInv
  <2> QED BY <1>1, <1>2, <1>3, <2>2 DEF InputInv, KeysOK, LinesOK, keyring
<1>4. CASE b.key # "mouse" /\ Decode(r, b) /\ UNCHANGED <<key_head, polled, mousering>>
  <2>1. b \in KeyBytes
    BY <1>2, <1>4 DEF Bytes, MouseBytes
  <2>2. /\ KeysOK' /\ shadow' \in BOOLEAN
        /\ flags' \in [Sides -> [shift : BOOLEAN, e0 : BOOLEAN]]
    BY <1>4, <2>1, DecodeOK DEF InputInv
  <2> QED BY <1>1, <1>2, <1>4, <2>2 DEF InputInv, MiceOK, PartsOK, LinesOK, mousering
<1> QED BY <1>1, <1>3, <1>4

-----------------------------------------------------------------------------
LEMMA InputStarts == ASSUME InputAssumption, InputInit PROVE InputInv
<1>1. KeysOK
  <2>1. /\ RingOf(KEY_BUF_SIZE, 0, 0, Events, keys) /\ Span(KEY_BUF_SIZE, 0, 0) = 0
    BY SpanIs DEF InputAssumption, InputInit, RingOf, Event, Events
  <2>2. Between(keys, KEY_BUF_SIZE, 0, 0) = <<>>
    BY <2>1, BetweenIs
  <2> QED BY <2>1, <2>2 DEF InputInit, KeysOK, KeyRing, Passed, NoKey, Helds
<1>2. MiceOK
  <2>1. /\ RingOf(MOUSE_BUF_SIZE, 0, 0, Nat, mice) /\ Span(MOUSE_BUF_SIZE, 0, 0) = 0
    BY SpanIs DEF InputAssumption, InputInit, RingOf
  <2> QED BY <2>1 DEF InputInit, MiceOK, Latest
<1>3. PartsOK
  BY DEF InputAssumption, InputInit, PartsOK
<1>4. LinesOK
  <2>1. flags \in [Sides -> [shift : BOOLEAN, e0 : BOOLEAN]]
    BY DEF InputInit
  <2>2. wire \in Seq(Bytes) /\ Len(wire) <= MaxWire
    BY DEF InputAssumption, InputInit
  <2>3. shadow \in BOOLEAN
    BY Zenon DEF InputInit
  <2>4. down \subseteq Keys /\ ticks \in 0 .. MaxTick /\ sent \in Nat
    BY DEF InputAssumption, InputInit
  <2> QED BY <2>1, <2>2, <2>3, <2>4 DEF LinesOK
<1> QED BY <1>1, <1>2, <1>3, <1>4 DEF InputInv

LEMMA InputSteps == ASSUME InputAssumption, InputInv, InputNext PROVE InputInv'
<1>1. ASSUME NEW k \in Keys, PressKey(k) \/ ReleaseKey(k) PROVE InputInv'
  <2>1. /\ UNCHANGED <<ticks, sent, flags, shadow, keyring, mousering>>
        /\ \E up \in BOOLEAN : Put(Code(k, up))
        /\ down' = down \cup {k} \/ down' = down \ {k}
    BY <1>1 DEF PressKey, ReleaseKey
  <2>2. wire' \in Seq(Bytes) /\ Len(wire') <= MaxWire
    BY <2>1, CodeOK, PutOK DEF InputInv
  <2>3. down' \subseteq Keys
    BY <2>1 DEF InputInv, LinesOK
  <2> QED BY <2>1, <2>2, <2>3 DEF InputInv, KeysOK, MiceOK, PartsOK, LinesOK, keyring, mousering
<1>2. ASSUME NEW lost, Slide(lost) PROVE InputInv'
  <2>1. UNCHANGED <<down, ticks, flags, shadow, keyring, mousering>>
    BY <1>2 DEF Slide
  <2>2. wire' \in Seq(Bytes) /\ Len(wire') <= MaxWire /\ sent' \in Nat
    BY <1>2, SlideOK DEF InputInv
  <2> QED BY <2>1, <2>2 DEF InputInv, KeysOK, MiceOK, PartsOK, LinesOK, keyring, mousering
<1>3. CASE Tick
  <2>1. /\ ticks' \in 0 .. MaxTick
        /\ UNCHANGED <<down, sent, wire, flags, shadow, keyring, mousering>>
    BY <1>3 DEF Tick, InputInv, LinesOK, InputAssumption
  <2> QED BY <2>1 DEF InputInv, KeysOK, MiceOK, PartsOK, LinesOK, keyring, mousering
<1>4. CASE PollKeys \/ PollNoKeys
  BY <1>4, PollKeysOK
<1>5. CASE PollMouse \/ Ungrab
  BY <1>5, PollMouseOK
<1>6. ASSUME NEW r \in Readers, Read(r) PROVE InputInv'
  BY <1>6, ReadOK
<1> QED BY <1>1, <1>2, <1>3, <1>4, <1>5, <1>6 DEF InputNext

LEMMA InputStays == ASSUME InputInv, UNCHANGED inputVars PROVE InputInv'
BY DEF InputInv, KeysOK, MiceOK, PartsOK, LinesOK, inputVars

LEMMA InputShows == ASSUME InputAssumption, InputInv PROVE InputKept
<1>1. InputTypeOK
  <2>1. /\ held.key \in Keys \cup {"none"}
    BY DEF InputInv, KeysOK, Helds
  <2>2. \A d \in Sides : Len(part_pkt[d]) < Packet
    BY DEF InputInv, PartsOK, InputAssumption
  <2>3. /\ key_head \in 0 .. KEY_BUF_SIZE - 1 /\ key_tail \in 0 .. KEY_BUF_SIZE - 1
        /\ mou_head \in 0 .. MOUSE_BUF_SIZE - 1 /\ mou_tail \in 0 .. MOUSE_BUF_SIZE - 1
    BY DEF InputInv, KeysOK, KeyRing, Passed, MiceOK, Latest, RingOf
  <2> QED BY <2>1, <2>2, <2>3 DEF InputInv, LinesOK, InputTypeOK
<1>2. KeysInOrder
  BY DEF InputInv, KeysOK, KeyRing, Passed, KeysInOrder
<1>3. MiceLatest
  <2> DEFINE ring == Between(mice, MOUSE_BUF_SIZE, mou_head, mou_tail)
  <2>1. /\ RingOf(MOUSE_BUF_SIZE, mou_head, mou_tail, Nat, mice)
        /\ waiting = Span(MOUSE_BUF_SIZE, mou_head, mou_tail)
        /\ \A i \in 1 .. waiting : ring[i] = Len(packets) - waiting + i
    BY DEF InputInv, MiceOK, Latest
  <2>2. ring \in Seq(Nat) /\ Len(ring) = waiting
    BY <2>1, BetweenIs
  <2> HIDE DEF ring
  <2>3. ring = [i \in 1 .. waiting |-> Len(packets) - waiting + i]
    <3>1. DOMAIN ring = 1 .. waiting /\ ring = [i \in DOMAIN ring |-> ring[i]]
      BY <2>2
    <3> QED BY <2>1, <3>1
  <2> QED BY <2>3 DEF MiceLatest, ring
<1> QED BY <1>1, <1>2, <1>3 DEF InputKept

(* However large the rings are and whoever decodes the bytes, programs get *)
(* the keys that found room in order and each once, and the ring of the    *)
(* mouse holds the latest packets (input_push_key, sys_poll_keys,          *)
(* input_push_mouse, sys_poll_mouse, sys_set_mouse_grab).                  *)
THEOREM InputIsKept ==
    ASSUME InputAssumption PROVE InputSpec => []InputKept
<1>1. InputInit => InputInv
  BY InputStarts
<1>2. InputInv /\ [InputNext]_inputVars => InputInv'
  BY InputSteps, InputStays
<1>3. InputInv => InputKept
  BY InputShows
<1> QED BY <1>1, <1>2, <1>3, PTL DEF InputSpec

-----------------------------------------------------------------------------
(* Disks on the USB (Msc), of any size.  What the drive is in has a tag    *)
(* that was given; with the tag of the command that waits it is that       *)
(* command, so what is left of a failed one is never taken for it.         *)
CmdSteps == {"idle", "cbw", "data", "csw", "reset"}
Cmds == [step : CmdSteps, op : Ops \cup {"none"}, block : UsbBlocks \cup {0},
         val : UsbValues \cup {0}]
Drives == [phase : {"cbw", "data", "csw"}, op : Ops \cup {"none"},
           block : UsbBlocks \cup {0}, tag : Nat, status : {0, 1}]

Moves(op) == op \in {"read", "write"}
CallOK ==
    /\ cmd \in Cmds /\ tag \in 0 .. MaxTag /\ (cmd.step # "idle" => tag > 0)
    /\ Moves(cmd.op) => cmd.block \in UsbBlocks
    /\ probed \in {"new", "answered", "valid", "no"}
    /\ buf.kind \in {"nothing", "data", "csw"}
DriveOK ==
    /\ drive \in Drives /\ drive.tag <= tag /\ halted \subseteq {"in", "out"}
    /\ Moves(drive.op) => drive.block \in UsbBlocks
HoldsOK ==
    /\ platter \in [UsbBlocks -> UsbValues] /\ live \in [UsbBlocks -> SUBSET UsbValues]
    /\ BlocksKept
    /\ cmd.step # "idle" /\ cmd.op = "write" =>
          cmd.val \in UsbValues /\ cmd.val \in live[cmd.block]

(* The command that waits is carried out.                                  *)
HasIt == drive.tag = tag
Done ==
    IF cmd.op = "write" THEN platter[cmd.block] = cmd.val
    ELSE /\ buf.kind = "data"
         /\ IF cmd.op = "read" THEN buf.val \in live[cmd.block] ELSE buf.val = -1
InStep ==
    /\ cmd.step = "cbw" => ~HasIt
    /\ cmd.step = "data" =>
          /\ HasIt => drive.phase = "data"
          /\ drive.phase = "data" => HasIt \/ "out" \in halted
    /\ cmd.step \in {"data", "csw"} /\ HasIt /\ drive.phase # "cbw" =>
          drive.op = cmd.op /\ drive.block = cmd.block
    /\ cmd.step = "csw" /\ HasIt /\ drive.phase = "csw" /\ drive.status = 0 => Done
MscInv == CallOK /\ DriveOK /\ HoldsOK /\ InStep /\ mine = TRUE

-----------------------------------------------------------------------------
(* What a transfer may do.                                                 *)
Same(a) == a.drive = drive /\ a.platter = platter /\ a.in = Nothing
Fails(a) == /\ drive.phase = "data" /\ a.drive = Failing(drive)
            /\ a.platter = platter /\ a.in = Nothing
Answer(a) ==
    /\ a = As(a.rc, a.drive, a.halted, a.platter, a.in)
    /\ a.rc \in {0, -1} /\ a.halted \subseteq {"in", "out"}

LEMMA OutSends ==
    ASSUME MscInv, NEW t, NEW op, NEW b, NEW a \in Out(Wrapper(t, op, b))
    PROVE  /\ Answer(a)
           /\ \/ Same(a) /\ (a.rc = 0 => "out" \in a.halted)
              \/ Fails(a)
              \/ /\ a.drive = [phase |-> "data", op |-> op, block |-> b, tag |-> t, status |-> 0]
                 /\ a.platter = platter /\ a.in = Nothing
BY DEF Out, Wrapper, Answer, Same, Fails, NoAnswer, Stalled, As, If, MscInv, DriveOK, Drives

LEMMA OutData ==
    ASSUME MscInv, NEW v, NEW a \in Out(Content(v))
    PROVE  /\ Answer(a)
           /\ \/ Same(a)
              \/ Fails(a)
              \/ /\ drive.phase = "data" /\ drive.op = "write" /\ "out" \notin halted
                 /\ a.drive = Passing(drive) /\ a.in = Nothing
                 /\ a.platter = Written(v)
<1>1. Content(v).kind = "data" /\ Content(v).val = v
  BY DEF Content
<1>2. halted \subseteq {"in", "out"}
  BY DEF MscInv, DriveOK
<1>4. CASE "out" \in halted
  <2>1. a = Stalled(drive, {})
    BY <1>4 DEF Out
  <2> QED BY <1>2, <2>1 DEF As, Stalled, Answer, Same
<1>5. CASE "out" \notin halted /\ drive.phase = "data" /\ drive.op = "write"
  <2>1. CASE a = As(0, Passing(drive), halted, Written(v), Nothing)
    <3>1. Answer(a) /\ a.drive = Passing(drive) /\ a.in = Nothing /\ a.platter = Written(v)
      BY <1>2, <2>1 DEF As, Answer
    <3> QED BY <1>5, <3>1
  <2>2. CASE a = As(0, Failing(drive), halted, platter, Nothing)
    BY <1>2, <1>5, <2>2 DEF As, Answer, Fails
  <2>3. CASE a = Stalled(Failing(drive), {"out"})
    BY <1>2, <1>5, <2>3 DEF As, Stalled, Answer, Fails
  <2> QED BY <1>1, <1>5, <2>1, <2>2, <2>3 DEF Out, If
<1>6. CASE "out" \notin halted /\ ~(drive.phase = "data" /\ drive.op = "write")
  <2>1. a = NoAnswer \/ a = Stalled(drive, {"out"}) \/ a = Stalled(drive, {"in", "out"})
    BY <1>1, <1>6 DEF Out, If
  <2> QED BY <1>2, <2>1 DEF As, Stalled, NoAnswer, Answer, Same
<1> QED BY <1>4, <1>5, <1>6

LEMMA InData ==
    ASSUME MscInv, NEW a \in In
    PROVE  /\ Answer(a) /\ a.platter = platter
           /\ \/ Same(a)
              \/ Fails(a)
              \/ /\ drive.phase = "data" /\ drive.op # "write"
                 /\ a.drive = Passing(drive) /\ a.in = Content(Holds(drive))
              \/ /\ drive.phase = "csw" /\ a.drive = Ready
                 /\ a.in = Status(drive.tag, drive.status)
BY DEF In, Answer, Same, Fails, NoAnswer, Stalled, As, If, MscInv, DriveOK, Drives

(* A transfer that is given up may have been made.                         *)
LEMMA BulkIs ==
    ASSUME MscInv, NEW S, NEW a \in Bulk(S), \A x \in S : Answer(x)
    PROVE  \/ a \in S
           \/ a.rc = -1 /\ a.in = Nothing /\ Answer(a)
              /\ \/ Same(a)
                 \/ \E x \in S : a.drive = x.drive /\ a.platter = x.platter
<1>1. CASE a \in S
  BY <1>1
<1>2. CASE a = NoAnswer
  BY <1>2 DEF NoAnswer, As, Same, Answer, MscInv, DriveOK
<1>3. CASE \E x \in S : a = [x EXCEPT !.rc = -1, !.in = Nothing]
  <2>1. PICK x \in S : a = [x EXCEPT !.rc = -1, !.in = Nothing]
    BY <1>3
  <2>2. x = As(x.rc, x.drive, x.halted, x.platter, x.in) /\ x.halted \subseteq {"in", "out"}
    BY DEF Answer
  <2>3. a = As(-1, x.drive, x.halted, x.platter, Nothing)
    BY <2>1, <2>2 DEF As
  <2> QED BY <2>2, <2>3 DEF As, Answer
<1> QED BY <1>1, <1>2, <1>3 DEF Bulk, If

-----------------------------------------------------------------------------
(* What a step of the command does to the drive.                           *)
LEMMA TypesKept ==
    ASSUME MscInv, NEW d, d \in {drive, Passing(drive), Failing(drive), Ready}
    PROVE  /\ d \in Drives /\ d.tag <= tag
           /\ Moves(d.op) => d.block \in UsbBlocks
<1>1. drive \in Drives /\ drive.tag <= tag /\ (Moves(drive.op) => drive.block \in UsbBlocks)
  BY DEF MscInv, DriveOK
<1>2. Ready \in Drives /\ Ready.tag <= tag /\ ~Moves(Ready.op)
  BY DEF MscInv, CallOK, Drives, Ready, Moves
<1>3. /\ Failing(drive) \in Drives /\ Failing(drive).tag = drive.tag
      /\ Failing(drive).op = drive.op /\ Failing(drive).block = drive.block
      /\ Failing(drive).phase = "csw" /\ Failing(drive).status = 1
  BY <1>1 DEF Drives, Failing
<1>4. /\ Passing(drive) \in Drives /\ Passing(drive).tag = drive.tag
      /\ Passing(drive).op = drive.op /\ Passing(drive).block = drive.block
      /\ Passing(drive).phase = "csw" /\ Passing(drive).status = 0
  BY <1>1 DEF Drives, Passing
<1> QED BY <1>1, <1>2, <1>3, <1>4

LEMMA SendOK == ASSUME MscInv, SendWrapper PROVE MscInv'
<1> DEFINE w == Wrapper(tag, cmd.op, cmd.block)
           new == [phase |-> "data", op |-> cmd.op, block |-> cmd.block, tag |-> tag, status |-> 0]
<1>1. PICK a \in Bulk(Out(w)) : Took(a) /\ Goto(IF a.rc = 0 THEN "data" ELSE "reset")
  BY DEF SendWrapper
<1>2. cmd.step = "cbw" /\ UNCHANGED <<tag, buf, probed, live, mine>>
  BY DEF SendWrapper
<1>3. /\ Answer(a) /\ a.platter = platter
      /\ \/ Same(a) /\ (a.rc = 0 => "out" \in a.halted)
         \/ Fails(a)
         \/ a.drive = new
  <2>1. \A x \in Out(w) : Answer(x)
    BY OutSends
  <2>2. CASE a \in Out(w)
    BY <2>2, OutSends DEF Same, Fails
  <2>3. CASE a \notin Out(w)
    <3>1. /\ a.rc = -1 /\ a.in = Nothing /\ Answer(a)
          /\ Same(a) \/ \E x \in Out(w) : a.drive = x.drive /\ a.platter = x.platter
      BY <2>1, <2>3, BulkIs
    <3>2. CASE Same(a)
      BY <3>1, <3>2 DEF Same
    <3>3. CASE \E x \in Out(w) : a.drive = x.drive /\ a.platter = x.platter
      <4>1. PICK x \in Out(w) : a.drive = x.drive /\ a.platter = x.platter
        BY <3>3
      <4>2. \/ Same(x)
            \/ Fails(x)
            \/ x.drive = new /\ x.platter = platter
        <5> HIDE DEF w, new
        <5>1. x \in Out(Wrapper(tag, cmd.op, cmd.block))
          BY DEF w
        <5> QED BY <5>1, OutSends DEF new
      <4> QED BY <3>1, <4>1, <4>2 DEF Same, Fails
    <3> QED BY <3>1, <3>2, <3>3
  <2> QED BY <2>2, <2>3
<1>4. /\ cmd \in Cmds /\ cmd' = [cmd EXCEPT !.step = IF a.rc = 0 THEN "data" ELSE "reset"]
      /\ drive' = a.drive /\ halted' = a.halted /\ platter' = platter
      /\ drive \in Drives /\ tag > 0 /\ drive.tag # tag /\ drive.tag <= tag /\ tag \in Nat
      /\ cmd.op \in Ops \cup {"none"} /\ cmd.block \in UsbBlocks \cup {0}
  BY <1>1, <1>2, <1>3 DEF Took, Goto, MscInv, CallOK, DriveOK, InStep, HasIt, Cmds
<1>5. cmd' \in Cmds /\ cmd'.op = cmd.op /\ cmd'.block = cmd.block /\ cmd'.val = cmd.val
      /\ cmd'.step = IF a.rc = 0 THEN "data" ELSE "reset"
  BY <1>4 DEF Cmds, CmdSteps
<1>6. CallOK' /\ HoldsOK'
  BY <1>2, <1>4, <1>5 DEF MscInv, CallOK, HoldsOK, BlocksKept
<1>7. DriveOK'
  <2>1. /\ a.drive \in Drives /\ a.drive.tag <= tag
        /\ Moves(a.drive.op) => a.drive.block \in UsbBlocks
    <3>1. new \in Drives /\ (Moves(cmd.op) => cmd.block \in UsbBlocks)
      BY <1>4 DEF Drives, MscInv, CallOK
    <3>2. CASE a.drive = new
      BY <1>4, <3>1, <3>2
    <3>3. CASE Same(a) \/ Fails(a)
      BY <3>3, TypesKept DEF Same, Fails
    <3> QED BY <1>3, <3>2, <3>3
  <2> QED BY <1>2, <1>3, <1>4, <2>1 DEF DriveOK, Answer
<1>8. InStep'
  <2>1. CASE a.drive = new
    BY <1>2, <1>4, <1>5, <2>1 DEF InStep, HasIt
  <2>2. CASE Same(a) /\ (a.rc = 0 => "out" \in a.halted)
    BY <1>2, <1>4, <1>5, <2>2 DEF InStep, HasIt, Same
  <2>3. CASE Fails(a)
    <3>1. drive'.tag = drive.tag /\ drive'.phase = "csw"
      BY <1>4, <2>3 DEF Fails, Failing, Drives
    <3> QED BY <1>2, <1>4, <1>5, <3>1 DEF InStep, HasIt
  <2> QED BY <1>3, <2>1, <2>2, <2>3
<1> QED BY <1>2, <1>6, <1>7, <1>8 DEF MscInv

Left == {drive, Passing(drive), Failing(drive), Ready}
LEMMA BulkInIs ==
    ASSUME MscInv, NEW a \in Bulk(In)
    PROVE  /\ Answer(a) /\ a.platter = platter /\ a.drive \in Left
           /\ a.in.kind \in {"nothing", "data", "csw"} /\ (a.rc = 0 => a \in In)
<1>1. ASSUME NEW x \in In
      PROVE  /\ Answer(x) /\ x.platter = platter /\ x.drive \in Left
             /\ x.in.kind \in {"nothing", "data", "csw"}
  <2>1. Nothing.kind = "nothing" /\ Content(Holds(drive)).kind = "data"
        /\ Status(drive.tag, drive.status).kind = "csw"
    BY DEF Nothing, Content, Status
  <2> QED BY <2>1, InData DEF Same, Fails, Left
<1>2. CASE a \in In
  BY <1>1, <1>2
<1>3. CASE a \notin In
  <2>1. /\ a.rc = -1 /\ a.in = Nothing /\ Answer(a)
        /\ Same(a) \/ \E x \in In : a.drive = x.drive /\ a.platter = x.platter
    BY <1>1, <1>3, BulkIs
  <2>2. a.platter = platter /\ a.drive \in Left
    BY <1>1, <2>1 DEF Same, Left
  <2> QED BY <2>1, <2>2 DEF Nothing
<1> QED BY <1>2, <1>3

LEMMA BulkOutIs ==
    ASSUME MscInv, NEW v, NEW a \in Bulk(Out(Content(v)))
    PROVE  /\ Answer(a) /\ a.drive \in Left /\ a.in = Nothing
           /\ \/ a.platter = platter
              \/ /\ drive.phase = "data" /\ drive.op = "write" /\ "out" \notin halted
                 /\ a.platter = Written(v)
           /\ a.rc = 0 => a \in Out(Content(v))
<1> DEFINE S == Out(Content(v))
           Kept(p) == \/ p = platter
                      \/ /\ drive.phase = "data" /\ drive.op = "write"
                         /\ "out" \notin halted /\ p = Written(v)
<1>1. ASSUME NEW x \in S
      PROVE  Answer(x) /\ x.drive \in Left /\ x.in = Nothing /\ Kept(x.platter)
  BY OutData DEF Same, Fails, Left
<1>2. CASE a \in S
  BY <1>1, <1>2
<1>3. CASE a \notin S
  <2> HIDE DEF S, Kept
  <2>1. a \in Bulk(S)
    BY DEF S
  <2>2. /\ a.rc = -1 /\ a.in = Nothing /\ Answer(a)
        /\ Same(a) \/ \E x \in S : a.drive = x.drive /\ a.platter = x.platter
    BY <1>1, <1>3, <2>1, BulkIs
  <2>3. Kept(platter)
    BY DEF Kept
  <2>4. Kept(a.platter) /\ a.drive \in Left
    BY <1>1, <2>2, <2>3 DEF Same, Left
  <2> QED BY <2>2, <2>4 DEF Kept
<1> QED BY <1>2, <1>3

(* What is written is what the caller of the command wrote.                *)
LEMMA WritesOwn ==
    ASSUME MscInv, cmd.step = "data", cmd.op = "write", drive.phase = "data",
           drive.op = "write", "out" \notin halted
    PROVE  /\ HasIt /\ drive.block = cmd.block
           /\ Written(cmd.val) \in [UsbBlocks -> UsbValues]
           /\ Written(cmd.val)[cmd.block] = cmd.val
           /\ \A b \in UsbBlocks : Written(cmd.val)[b] \in live[b]
<1>1. HasIt /\ drive.block = cmd.block
  BY DEF MscInv, InStep
<1>2. cmd.block \in UsbBlocks /\ cmd.val \in UsbValues /\ cmd.val \in live[cmd.block]
      /\ platter \in [UsbBlocks -> UsbValues]
  BY DEF MscInv, CallOK, HoldsOK, Moves
<1> QED BY <1>1, <1>2 DEF Written, MscInv, HoldsOK, BlocksKept

LEMMA MoveDataOK == ASSUME MscInv, MoveData PROVE MscInv'
<1>1. PICK a \in Bulk(IF cmd.op = "write" THEN Out(Content(cmd.val)) ELSE In) :
        /\ Took(a) /\ buf' = (IF a.in = Nothing THEN buf ELSE a.in)
        /\ Goto(IF a.rc = 0 THEN "csw" ELSE "reset")
  BY DEF MoveData
<1>2. cmd.step = "data" /\ UNCHANGED <<tag, probed, live, mine>>
  BY DEF MoveData
<1>3. /\ Answer(a) /\ a.drive \in Left /\ a.in.kind \in {"nothing", "data", "csw"}
      /\ \/ a.platter = platter
         \/ /\ cmd.op = "write" /\ drive.phase = "data" /\ drive.op = "write"
            /\ "out" \notin halted /\ a.platter = Written(cmd.val)
      /\ a.rc = 0 => a \in IF cmd.op = "write" THEN Out(Content(cmd.val)) ELSE In
  <2>1. CASE cmd.op = "write"
    <3>1. a \in Bulk(Out(Content(cmd.val)))
      BY <1>1, <2>1
    <3>2. a.in.kind = "nothing"
      BY <3>1, BulkOutIs DEF Nothing
    <3> QED BY <3>1, <3>2, <2>1, BulkOutIs
  <2>2. CASE cmd.op # "write"
    <3>1. a \in Bulk(In)
      BY <1>1, <2>2
    <3> QED BY <3>1, <2>2, BulkInIs
  <2> QED BY <2>1, <2>2
<1>4. /\ cmd \in Cmds /\ cmd' = [cmd EXCEPT !.step = IF a.rc = 0 THEN "csw" ELSE "reset"]
      /\ drive' = a.drive /\ halted' = a.halted /\ platter' = a.platter
      /\ drive \in Drives /\ tag > 0 /\ tag \in Nat
  BY <1>1, <1>2 DEF Took, Goto, MscInv, CallOK, DriveOK
<1>5. cmd' \in Cmds /\ cmd'.op = cmd.op /\ cmd'.block = cmd.block /\ cmd'.val = cmd.val
      /\ cmd'.step = IF a.rc = 0 THEN "csw" ELSE "reset"
  BY <1>4 DEF Cmds, CmdSteps
<1>6. CallOK'
  <2>1. buf'.kind \in {"nothing", "data", "csw"}
    BY <1>1, <1>3 DEF MscInv, CallOK
  <2> QED BY <1>2, <1>4, <1>5, <2>1 DEF MscInv, CallOK
<1>7. HoldsOK'
  <2>1. platter' \in [UsbBlocks -> UsbValues] /\ \A b \in UsbBlocks : platter'[b] \in live[b]
    BY <1>2, <1>3, <1>4, WritesOwn DEF MscInv, HoldsOK, BlocksKept
  <2> QED BY <1>2, <1>5, <2>1 DEF MscInv, HoldsOK, BlocksKept
<1>8. DriveOK'
  BY <1>2, <1>3, <1>4, TypesKept DEF DriveOK, Answer, Left
<1>9. InStep'
  <2>1. CASE a.rc # 0
    BY <1>5, <2>1 DEF InStep
  <2>2. CASE a.rc = 0 /\ a.drive = drive /\ a.platter = platter
    <3>1. (HasIt => drive.phase = "data") /\ (HasIt => drive.op = cmd.op /\ drive.block = cmd.block)
      BY <1>2 DEF MscInv, InStep
    <3> QED BY <1>2, <1>4, <1>5, <2>2, <3>1 DEF InStep, HasIt
  <2>3. CASE a.rc = 0 /\ drive.phase = "data" /\ a.drive = Failing(drive)
    <3>1. HasIt => drive.op = cmd.op /\ drive.block = cmd.block
      BY <1>2, <2>3 DEF MscInv, InStep
    <3>2. /\ drive'.tag = drive.tag /\ drive'.phase = "csw" /\ drive'.status = 1
          /\ drive'.op = drive.op /\ drive'.block = drive.block
      BY <1>4, <2>3 DEF Failing, Drives
    <3> QED BY <1>2, <1>5, <2>3, <3>1, <3>2 DEF InStep, HasIt
  <2>4. CASE a.rc = 0 /\ a.drive = Ready
    BY <1>2, <1>4, <1>5, <2>4 DEF InStep, HasIt, Ready
  <2>5. CASE /\ a.rc = 0 /\ drive.phase = "data" /\ a.drive = Passing(drive)
             /\ IF cmd.op = "write" THEN /\ drive.op = "write" /\ "out" \notin halted
                                         /\ a.platter = Written(cmd.val)
                ELSE a.in = Content(Holds(drive)) /\ a.platter = platter
    <3>1. /\ drive'.tag = drive.tag /\ drive'.phase = "csw"
          /\ drive'.op = drive.op /\ drive'.block = drive.block
      BY <1>4, <2>5 DEF Passing, Drives
    <3>2. HasIt => drive.op = cmd.op /\ drive.block = cmd.block
      BY <1>2, <2>5 DEF MscInv, InStep
    <3>3. CASE cmd.op = "write"
      <4>1. platter'[cmd.block] = cmd.val
        BY <1>2, <1>4, <2>5, <3>3, WritesOwn
      <4> QED BY <1>2, <1>5, <2>5, <3>1, <3>2, <3>3, <4>1 DEF InStep, HasIt, Done
    <3>4. CASE cmd.op # "write"
      <4>1. buf' = Content(Holds(drive)) /\ buf'.kind = "data" /\ buf'.val = Holds(drive)
        BY <1>1, <2>5, <3>4 DEF Content, Nothing
      <4>2. HasIt => IF cmd.op = "read" THEN Holds(drive) \in live[cmd.block]
                   ELSE Holds(drive) = -1
        BY <3>2 DEF Holds, MscInv, CallOK, HoldsOK, BlocksKept, Moves
      <4> QED BY <1>2, <1>5, <2>5, <3>1, <3>2, <3>4, <4>1, <4>2 DEF InStep, HasIt, Done
    <3> QED BY <3>3, <3>4
  <2>6. CASE a.rc = 0
    <3>1. CASE cmd.op = "write"
      <4>1. a \in Out(Content(cmd.val))
        BY <1>3, <2>6, <3>1
      <4>2. \/ Same(a)
            \/ Fails(a)
            \/ /\ drive.phase = "data" /\ drive.op = "write" /\ "out" \notin halted
               /\ a.drive = Passing(drive) /\ a.platter = Written(cmd.val)
        BY <4>1, OutData
      <4> QED BY <2>6, <3>1, <4>2, <2>2, <2>3, <2>5 DEF Same, Fails
    <3>2. CASE cmd.op # "write"
      <4>1. a \in In
        BY <1>3, <2>6, <3>2
      <4>2. /\ a.platter = platter
            /\ \/ Same(a)
               \/ Fails(a)
               \/ /\ drive.phase = "data" /\ a.drive = Passing(drive)
                  /\ a.in = Content(Holds(drive))
               \/ a.drive = Ready
        BY <4>1, InData
      <4> QED BY <2>6, <3>2, <4>2, <2>2, <2>3, <2>4, <2>5 DEF Same, Fails
    <3> QED BY <3>1, <3>2
  <2> QED BY <2>1, <2>6
<1> QED BY <1>2, <1>6, <1>7, <1>8, <1>9 DEF MscInv

(* The end of a command.                                                   *)
LEMMA ReturnOK ==
    ASSUME MscInv, NEW rc, Return(rc), cmd.step # "idle", rc = 0 => Done,
           DriveOK', platter' = platter
    PROVE  MscInv'
<1>1. cmd' = Idle /\ UNCHANGED <<tag, buf>>
  BY DEF Return
<1>2. /\ cmd' \in Cmds /\ cmd'.step = "idle" /\ cmd'.op = "none"
  BY <1>1 DEF Idle, Cmds, CmdSteps
<1>3. CallOK'
  <2>1. probed' \in {"new", "answered", "valid", "no"}
    BY DEF Return, MscInv, CallOK
  <2> QED BY <1>1, <1>2, <2>1 DEF MscInv, CallOK, Moves
<1>4. HoldsOK'
  <2>1. CASE rc = 0 /\ cmd.op = "write"
    <3>1. live' = [live EXCEPT ![cmd.block] = {cmd.val}] /\ platter[cmd.block] = cmd.val
          /\ cmd.val \in UsbValues
      BY <2>1 DEF Return, Done, MscInv, HoldsOK
    <3> QED BY <1>2, <3>1 DEF MscInv, HoldsOK, BlocksKept
  <2>2. CASE ~(rc = 0 /\ cmd.op = "write")
    <3>1. live' = live
      BY <2>2 DEF Return
    <3> QED BY <1>2, <3>1 DEF MscInv, HoldsOK, BlocksKept
  <2> QED BY <2>1, <2>2
<1>5. InStep'
  BY <1>2 DEF InStep
<1>6. mine' = TRUE
  <2>1. CASE rc # 0 \/ cmd.op = "write"
    BY <2>1 DEF Return, MscInv
  <2>2. CASE rc = 0 /\ cmd.op # "write"
    <3>1. /\ buf.kind = "data"
          /\ IF cmd.op = "read" THEN buf.val \in live[cmd.block] ELSE buf.val = -1
      BY <2>2 DEF Done
    <3> QED BY <2>2, <3>1 DEF Return
  <2> QED BY <2>1, <2>2
<1> QED BY <1>3, <1>4, <1>5, <1>6 DEF MscInv

LEMMA GetStatusOK == ASSUME MscInv, GetStatus PROVE MscInv'
<1>1. PICK a \in Bulk(In) :
        /\ Took(a)
        /\ \/ a.rc = 0 /\ Return(Verdict(a.in))
           \/ a.rc # 0 /\ Goto("reset") /\ UNCHANGED <<tag, buf, probed, live, mine>>
  BY DEF GetStatus
<1>2. cmd.step = "csw"
  BY DEF GetStatus
<1>3. /\ Answer(a) /\ a.platter = platter /\ a.drive \in Left /\ (a.rc = 0 => a \in In)
  BY BulkInIs
<1>4. drive' = a.drive /\ halted' = a.halted /\ platter' = platter
  BY <1>1, <1>3 DEF Took
<1>5. tag' = tag
  BY <1>1 DEF Return
<1>6. DriveOK'
  BY <1>3, <1>4, <1>5, TypesKept DEF DriveOK, Answer, Left
<1>7. CASE a.rc = 0 /\ Return(Verdict(a.in))
  <2>1. ASSUME Verdict(a.in) = 0 PROVE Done
    <3>1. a.in.kind = "csw" /\ a.in.tag = tag /\ a.in.status = 0
      BY <2>1 DEF Verdict
    <3>2. drive.phase = "csw" /\ a.in = Status(drive.tag, drive.status)
      <4>1. Nothing.kind # "csw" /\ Content(Holds(drive)).kind # "csw"
        BY DEF Nothing, Content
      <4> QED BY <1>3, <1>7, <3>1, <4>1, InData DEF Same, Fails
    <3>3. HasIt /\ drive.status = 0
      BY <3>1, <3>2 DEF Status, HasIt
    <3> QED BY <1>2, <3>2, <3>3 DEF MscInv, InStep
  <2> DEFINE r == Verdict(a.in)
  <2> HIDE DEF r
  <2>2. Return(r) /\ (r = 0 => Done)
    BY <1>7, <2>1 DEF r
  <2> QED BY <1>2, <1>4, <1>6, <2>2, ReturnOK
<1>8. CASE a.rc # 0 /\ Goto("reset") /\ UNCHANGED <<tag, buf, probed, live, mine>>
  <2>1. cmd' \in Cmds /\ cmd'.op = cmd.op /\ cmd'.block = cmd.block /\ cmd'.val = cmd.val
        /\ cmd'.step = "reset"
    BY <1>8 DEF Goto, MscInv, CallOK, Cmds, CmdSteps
  <2>2. CallOK' /\ HoldsOK' /\ InStep'
    BY <1>2, <1>4, <1>8, <2>1 DEF MscInv, CallOK, HoldsOK, BlocksKept, InStep
  <2> QED BY <1>6, <1>8, <2>2 DEF MscInv
<1> QED BY <1>1, <1>7, <1>8

LEMMA ResetOK == ASSUME MscInv, msc_reset PROVE MscInv'
<1>1. Return(-1) /\ cmd.step = "reset" /\ platter' = platter /\ drive' \in {drive, Ready}
      /\ halted' \subseteq halted
  BY DEF msc_reset
<1>2. tag' = tag
  BY <1>1 DEF Return
<1>3. DriveOK'
  BY <1>1, <1>2, TypesKept DEF DriveOK, MscInv
<1> QED BY <1>1, <1>3, ReturnOK

(* A command starts with a tag no command had.                             *)
LEMMA CommandOK ==
    ASSUME MscInv, MscAssumption, NEW op \in Ops, NEW b, NEW v, msc_command(op, b, v),
           IF Moves(op) THEN b \in UsbBlocks ELSE b = 0,
           IF op = "write" THEN v \in UsbValues /\ live' = [live EXCEPT ![b] = @ \cup {v}]
           ELSE v = 0 /\ live' = live
    PROVE  MscInv'
<1>1. /\ cmd' = [step |-> "cbw", op |-> op, block |-> b, val |-> v] /\ tag' = tag + 1
      /\ tag < MaxTag /\ buf' = Nothing /\ UNCHANGED <<probed, drive, halted, platter, mine>>
  BY DEF msc_command
<1>2. /\ cmd' \in Cmds /\ cmd'.step = "cbw" /\ cmd'.op = op /\ cmd'.block = b /\ cmd'.val = v
  BY <1>1 DEF Cmds, CmdSteps
<1>3. tag \in Nat /\ tag' \in 0 .. MaxTag /\ tag' > 0 /\ tag' > tag
  BY <1>1 DEF MscInv, CallOK, MscAssumption
<1>4. CallOK'
  BY <1>1, <1>2, <1>3 DEF MscInv, CallOK, Nothing
<1>5. drive.tag \in Nat /\ drive.tag <= tag
  BY DEF MscInv, DriveOK, Drives
<1>6. DriveOK'
  BY <1>1, <1>3, <1>5 DEF MscInv, DriveOK
<1>7. InStep'
  BY <1>1, <1>2, <1>3, <1>5 DEF InStep, HasIt
<1>8. HoldsOK'
  <2>1. CASE op = "write"
    <3>1. b \in UsbBlocks /\ v \in UsbValues /\ live' = [live EXCEPT ![b] = live[b] \cup {v}]
      BY <2>1 DEF Moves
    <3>2. live' \in [UsbBlocks -> SUBSET UsbValues] /\ v \in live'[b]
          /\ \A c \in UsbBlocks : live[c] \subseteq live'[c]
      BY <3>1 DEF MscInv, HoldsOK
    <3> QED BY <1>1, <1>2, <3>1, <3>2 DEF MscInv, HoldsOK, BlocksKept
  <2>2. CASE op # "write"
    BY <1>1, <1>2, <2>2 DEF MscInv, HoldsOK, BlocksKept
  <2> QED BY <2>1, <2>2
<1> QED BY <1>1, <1>4, <1>6, <1>7, <1>8 DEF MscInv

LEMMA MscStarts == ASSUME MscAssumption, MscInit PROVE MscInv
<1>1. Idle \in Cmds /\ Idle.step = "idle" /\ Idle.op = "none" /\ Nothing.kind = "nothing"
  BY DEF Idle, Cmds, CmdSteps, Nothing
<1>2. Ready \in Drives /\ Ready.tag = 0 /\ ~Moves(Ready.op)
  BY DEF Ready, Drives, Moves
<1>3. CallOK
  BY <1>1 DEF MscInit, MscAssumption, CallOK, Moves
<1>4. DriveOK
  BY <1>2 DEF MscInit, DriveOK
<1>5. HoldsOK
  BY <1>1 DEF MscInit, HoldsOK, BlocksKept
<1>6. InStep /\ mine = TRUE
  BY <1>1 DEF MscInit, InStep
<1> QED BY <1>3, <1>4, <1>5, <1>6 DEF MscInv

LEMMA MscSteps == ASSUME MscAssumption, MscInv, [MscNext]_mscVars PROVE MscInv'
<1>1. CASE msc_inquiry
  BY <1>1, CommandOK DEF msc_inquiry, Ops, Moves
<1>2. CASE msc_read_capacity
  BY <1>2, CommandOK DEF msc_read_capacity, Ops, Moves
<1>3. ASSUME NEW b \in UsbBlocks, usb_msc_read(b) PROVE MscInv'
  BY <1>3, CommandOK DEF usb_msc_read, Ops, Moves
<1>4. ASSUME NEW b \in UsbBlocks, NEW v \in UsbValues, usb_msc_write(b, v) PROVE MscInv'
  BY <1>4, CommandOK DEF usb_msc_write, Ops, Moves
<1>5. CASE UNCHANGED mscVars
  BY <1>5 DEF mscVars, MscInv, CallOK, DriveOK, HoldsOK, BlocksKept, InStep, HasIt, Done
<1> QED BY <1>1, <1>2, <1>3, <1>4, <1>5, SendOK, MoveDataOK, GetStatusOK, ResetOK
        DEF MscNext

(* A command of a USB disk that returns 0 has its own answer, and a block  *)
(* holds what the latest write that returned 0 put there, or one that      *)
(* failed since may have (msc_command, usb_msc_write).                     *)
THEOREM UsbDiskIsSound ==
    ASSUME MscAssumption PROVE MscSpec => [](MscTypeOK /\ AnswersOwn /\ BlocksKept)
<1>1. MscInit => MscInv
  BY MscStarts
<1>2. MscInv /\ [MscNext]_mscVars => MscInv'
  BY MscSteps
<1>3. MscInv => AnswersOwn /\ BlocksKept
  BY DEF MscInv, HoldsOK, AnswersOwn
<1>4. MscInv => MscTypeOK
  BY DEF MscInv, CallOK, DriveOK, HoldsOK, Cmds, CmdSteps, Drives, MscTypeOK, MscAssumption
<1> QED BY <1>1, <1>2, <1>3, <1>4, PTL DEF MscSpec

-----------------------------------------------------------------------------
(* Nvme where the driver does not give up: one command is under way, and   *)
(* it is where the call that waits for it says.                            *)
RingsOK(r, d) ==
    /\ DOMAIN r = {"sq", "cq", "sq_tail", "cq_head", "cq_phase", "next_cid"}
    /\ DOMAIN r.sq = Entries /\ DOMAIN r.cq = Entries
    /\ r.sq_tail \in Entries /\ r.cq_head \in Entries /\ r.cq_phase \in {0, 1}
    /\ DOMAIN d = {"head", "tail", "phase", "fetched", "done"}
    /\ d.head \in Entries /\ d.tail \in Entries /\ d.phase \in {0, 1}

(* What has been posted in this lap has its phase, the rest the other one. *)
Laps(r, d) ==
    \A i \in Entries :
        r.cq[i].phase = IF i < d.tail THEN d.phase ELSE 1 - d.phase
Level(r, d) == d.tail = r.cq_head /\ d.phase = r.cq_phase
NoneSent(r, d) == d.head = r.sq_tail /\ d.fetched = {}
IsOf(c, k) ==
    c = [opc |-> IF k.at = "write" THEN "write" ELSE "read", cid |-> k.cid,
         block |-> BlockOf(k.sector)]
InQueue(r, d, k) ==
    /\ r.sq_tail = Next1(d.head) /\ d.fetched = {} /\ Level(r, d)
    /\ IsOf(r.sq[d.head], k)
InDrive(r, d, k) ==
    /\ d.head = r.sq_tail /\ (\E c : d.fetched = {c} /\ IsOf(c, k)) /\ Level(r, d)
Posting(r, d, k) ==
    /\ NoneSent(r, d) /\ d.tail = Next1(r.cq_head)
    /\ d.phase = IF d.tail = 0 THEN 1 - r.cq_phase ELSE r.cq_phase
    /\ r.cq[r.cq_head].phase = r.cq_phase /\ r.cq[r.cq_head].cid = k.cid
Stage(r, d, k) ==
    IF k.at = "idle" THEN NoneSent(r, d) /\ Level(r, d)
    ELSE InQueue(r, d, k) \/ InDrive(r, d, k) \/ Posting(r, d, k)
PlaceOK(r, d, k) == RingsOK(r, d) /\ Laps(r, d) /\ Stage(r, d, k)

LEMMA Numbers ==
    ASSUME NvmeAssumption
    PROVE  /\ DEPTH \in Nat /\ DEPTH > 1 /\ PerBlock \in Nat \ {0} /\ Blocks \in Nat \ {0}
           /\ Entries = 0 .. DEPTH - 1 /\ 0 \in Entries /\ Entries \subseteq Nat
           /\ \A i \in Entries : Next1(i) # i
<1>1. DEPTH \in Nat /\ DEPTH > 1 /\ PerBlock \in Nat \ {0} /\ Blocks \in Nat \ {0}
  BY DEF NvmeAssumption
<1>2. Entries = 0 .. DEPTH - 1 /\ 0 \in Entries /\ Entries \subseteq Nat
  BY <1>1 DEF Entries
<1> QED BY <1>1, <1>2, NextEntry

(* The driver sees an answer when the command has been carried out.        *)
LEMMA Seen ==
    ASSUME NvmeAssumption, PlaceOK(ioq, dev, call), call.at # "idle"
    PROVE  /\ Matches <=> NoneSent(ioq, dev)
           /\ Matches => Posting(ioq, dev, call)
           /\ dev.head # ioq.sq_tail => InQueue(ioq, dev, call)
           /\ dev.fetched # {} => InDrive(ioq, dev, call)
<1>1. RingsOK(ioq, dev) /\ Laps(ioq, dev) /\ Stage(ioq, dev, call)
  BY DEF PlaceOK
<1>2. CASE Level(ioq, dev)
  <2>1. ~(ioq.cq_head < dev.tail)
    BY <1>1, <1>2, Numbers DEF Level, RingsOK
  <2>2. ioq.cq[ioq.cq_head].phase = 1 - ioq.cq_phase
    BY <1>1, <1>2, <2>1 DEF Laps, Level, RingsOK
  <2>3. ~Matches
    BY <1>1, <2>2 DEF Matches, RingsOK
  <2>4. ~Posting(ioq, dev, call)
    BY <1>1, <1>2, Numbers DEF Posting, Level, RingsOK
  <2>5. InQueue(ioq, dev, call) => dev.head # ioq.sq_tail /\ dev.fetched = {}
    BY <1>1, Numbers DEF InQueue, RingsOK
  <2>6. InDrive(ioq, dev, call) => dev.head = ioq.sq_tail /\ dev.fetched # {}
    BY DEF InDrive
  <2> QED BY <1>1, <2>3, <2>4, <2>5, <2>6 DEF Stage, NoneSent
<1>3. CASE ~Level(ioq, dev)
  <2>1. Posting(ioq, dev, call)
    BY <1>1, <1>3 DEF Stage, InQueue, InDrive
  <2> QED BY <2>1 DEF Posting, Matches, NoneSent
<1> QED BY <1>2, <1>3

(* A command is sent by a driver that waits for no other.                  *)
LEMMA Sends ==
    ASSUME NvmeAssumption, NEW r, RingsOK(r, dev), Laps(r, dev), NoneSent(r, dev),
           Level(r, dev), NEW opc, NEW doing, NEW s, NEW v, NEW data,
           Command(r, opc, doing, s, v, data), r.next_cid = ioq.next_cid,
           opc = IF doing = "write" THEN "write" ELSE "read", doing # "idle"
    PROVE  PlaceOK(ioq', dev', call') /\ ~NoneSent(ioq', dev')
<1> DEFINE e == [opc |-> opc, cid |-> r.next_cid, block |-> BlockOf(s)]
<1>1. /\ DOMAIN ioq' = DOMAIN r /\ ioq'.sq = [r.sq EXCEPT ![r.sq_tail] = e]
      /\ ioq'.cq = r.cq /\ ioq'.sq_tail = Next1(r.sq_tail) /\ ioq'.cq_head = r.cq_head
      /\ ioq'.cq_phase = r.cq_phase
  BY DEF Command, Issued, RingsOK
<1>2. /\ DOMAIN dev' = DOMAIN dev /\ dev'.head = dev.head /\ dev'.tail = dev.tail
      /\ dev'.phase = dev.phase /\ dev'.fetched = dev.fetched
  BY DEF Command, RingsOK
<1>3. call'.at = doing /\ call'.cid = r.next_cid /\ call'.sector = s
  BY DEF Command
<1>4. ioq'.sq[dev'.head] = e /\ IsOf(e, call') /\ DOMAIN ioq'.sq = Entries
  BY <1>1, <1>2, <1>3 DEF RingsOK, NoneSent, IsOf
<1>5. Next1(r.sq_tail) \in Entries /\ Next1(r.sq_tail) # r.sq_tail
  BY NextEntry, Numbers DEF RingsOK
<1> HIDE DEF e
<1>6. RingsOK(ioq', dev')
  BY <1>1, <1>2, <1>4, <1>5 DEF RingsOK
<1>7. Laps(ioq', dev')
  BY <1>1, <1>2 DEF Laps
<1>8. InQueue(ioq', dev', call')
  BY <1>1, <1>2, <1>4 DEF InQueue, NoneSent, Level
<1>9. ~NoneSent(ioq', dev')
  BY <1>1, <1>2, <1>5 DEF NoneSent
<1> QED BY <1>3, <1>6, <1>7, <1>8, <1>9 DEF PlaceOK, Stage

(* The driver steps over the answer.                                       *)
LEMMA Consumes ==
    ASSUME NvmeAssumption, PlaceOK(ioq, dev, call), call.at # "idle", Matches
    PROVE  /\ RingsOK(Consumed, dev) /\ Laps(Consumed, dev) /\ NoneSent(Consumed, dev)
           /\ Level(Consumed, dev) /\ Consumed.next_cid = ioq.next_cid
<1>1. RingsOK(ioq, dev) /\ Laps(ioq, dev) /\ Posting(ioq, dev, call)
  BY Seen DEF PlaceOK
<1>2. /\ DOMAIN Consumed = DOMAIN ioq
      /\ Consumed.sq = ioq.sq /\ Consumed.cq = ioq.cq
      /\ Consumed.sq_tail = ioq.sq_tail /\ Consumed.next_cid = ioq.next_cid
      /\ Consumed.cq_head = Next1(ioq.cq_head)
      /\ Consumed.cq_phase = IF Next1(ioq.cq_head) = 0 THEN 1 - ioq.cq_phase
                             ELSE ioq.cq_phase
  BY <1>1 DEF RingsOK, Consumed
<1>3. Next1(ioq.cq_head) \in Entries
  BY <1>1, NextEntry DEF RingsOK
<1> QED BY <1>1, <1>2, <1>3 DEF RingsOK, Laps, NoneSent, Level, Posting

LEMMA Fetches ==
    ASSUME NvmeAssumption, PlaceOK(ioq, dev, call), Fetch
    PROVE  PlaceOK(ioq', dev', call') /\ call.at # "idle" /\ ~NoneSent(ioq', dev')
           /\ ~NoneSent(ioq, dev)
<1>1. RingsOK(ioq, dev) /\ Laps(ioq, dev) /\ Stage(ioq, dev, call) /\ dev.head # ioq.sq_tail
  BY DEF PlaceOK, Fetch
<1>2. call.at # "idle" /\ InQueue(ioq, dev, call)
  BY <1>1, Seen DEF Stage, NoneSent
<1>3. /\ DOMAIN dev' = DOMAIN dev /\ dev'.head = Next1(dev.head) /\ dev'.tail = dev.tail
      /\ dev'.phase = dev.phase /\ dev'.fetched = dev.fetched \cup {ioq.sq[dev.head]}
      /\ ioq' = ioq /\ call' = call
  BY <1>1 DEF Fetch, RingsOK
<1>4. dev'.fetched = {ioq.sq[dev.head]} /\ IsOf(ioq.sq[dev.head], call')
  BY <1>2, <1>3 DEF InQueue
<1>5. InDrive(ioq', dev', call')
  BY <1>2, <1>3, <1>4 DEF InDrive, InQueue, Level
<1>6. RingsOK(ioq', dev') /\ Laps(ioq', dev')
  BY <1>1, <1>2, <1>3 DEF RingsOK, Laps, InQueue
<1>7. ~NoneSent(ioq', dev') /\ ~NoneSent(ioq, dev)
  BY <1>1, <1>4 DEF NoneSent
<1> QED BY <1>2, <1>3, <1>5, <1>6, <1>7 DEF PlaceOK, Stage

LEMMA Executes ==
    ASSUME NvmeAssumption, PlaceOK(ioq, dev, call), NEW c \in dev.fetched, NEW ok,
           Execute(c, ok)
    PROVE  /\ PlaceOK(ioq', dev', call') /\ call.at # "idle" /\ IsOf(c, call)
           /\ ~NoneSent(ioq, dev) /\ NoneSent(ioq', dev')
           /\ ioq'.cq[ioq'.cq_head].ok = ok
<1>1. RingsOK(ioq, dev) /\ Laps(ioq, dev) /\ Stage(ioq, dev, call)
  BY DEF PlaceOK
<1>2. call.at # "idle" /\ InDrive(ioq, dev, call)
  BY <1>1, Seen DEF Stage, NoneSent
<1>3. dev.fetched = {c} /\ IsOf(c, call) /\ c.cid = call.cid /\ Level(ioq, dev)
      /\ dev.head = ioq.sq_tail
  BY <1>2 DEF InDrive, IsOf
<1> DEFINE e == [cid |-> c.cid, phase |-> dev.phase, ok |-> ok]
           t == dev.tail
<1>4. /\ DOMAIN dev' = DOMAIN dev /\ dev'.head = dev.head /\ dev'.tail = Next1(t)
      /\ dev'.phase = (IF Next1(t) = 0 THEN 1 - dev.phase ELSE dev.phase)
      /\ dev'.fetched = {} /\ call' = call
  BY <1>1, <1>3 DEF Execute, RingsOK
<1>5. /\ DOMAIN ioq' = DOMAIN ioq /\ ioq'.sq = ioq.sq /\ ioq'.sq_tail = ioq.sq_tail
      /\ ioq'.cq_head = ioq.cq_head /\ ioq'.cq_phase = ioq.cq_phase
      /\ ioq'.cq = [ioq.cq EXCEPT ![t] = e]
  BY <1>1 DEF Execute, RingsOK
<1>6. /\ t \in Entries /\ t = ioq.cq_head /\ dev.phase = ioq.cq_phase
      /\ dev.phase \in {0, 1} /\ DOMAIN ioq.cq = Entries
  BY <1>1, <1>3 DEF RingsOK, Level
<1>7. /\ DOMAIN ioq'.cq = Entries /\ ioq'.cq[t].phase = dev.phase
      /\ ioq'.cq[t].cid = call.cid /\ ioq'.cq[t].ok = ok
      /\ \A i \in Entries : i # t => ioq'.cq[i] = ioq.cq[i]
  BY <1>3, <1>5, <1>6
<1> HIDE DEF e
<1>8. Next1(t) \in Entries /\ Next1(t) = IF t = DEPTH - 1 THEN 0 ELSE t + 1
  BY <1>6, NextEntry
<1>9. RingsOK(ioq', dev')
  BY <1>1, <1>4, <1>5, <1>7, <1>8 DEF RingsOK
<1>10. Laps(ioq', dev')
  <2> SUFFICES ASSUME NEW i \in Entries
               PROVE  ioq'.cq[i].phase = IF i < dev'.tail THEN dev'.phase ELSE 1 - dev'.phase
    BY DEF Laps
  <2>1. i \in Nat /\ i < DEPTH /\ t \in Nat /\ t < DEPTH /\ DEPTH \in Nat
    BY <1>6, Numbers
  <2>2. CASE i = t
    BY <1>4, <1>6, <1>7, <1>8, <2>1, <2>2
  <2>3. CASE i # t
    <3>1. ioq'.cq[i].phase = IF i < t THEN dev.phase ELSE 1 - dev.phase
      BY <1>1, <1>7, <2>3 DEF Laps
    <3> QED BY <1>4, <1>6, <1>8, <2>1, <2>3, <3>1
  <2> QED BY <2>2, <2>3
<1>11. NoneSent(ioq', dev')
  BY <1>3, <1>4, <1>5 DEF NoneSent
<1>12. Posting(ioq', dev', call')
  BY <1>4, <1>5, <1>6, <1>7, <1>8, <1>11 DEF Posting
<1>13. ~NoneSent(ioq, dev)
  BY <1>3 DEF NoneSent
<1> QED BY <1>2, <1>3, <1>4, <1>5, <1>6, <1>7, <1>9, <1>10, <1>11, <1>12, <1>13
        DEF PlaceOK, Stage

(* The sectors of a block.                                                 *)
LEMMA InBlock ==
    ASSUME NvmeAssumption, NEW b \in 0 .. Blocks - 1, NEW i \in Within
    PROVE  b * PerBlock + i \in Sectors
<1>1. PerBlock \in Nat \ {0} /\ Blocks \in Nat \ {0}
  BY Numbers
<1>2. b \in Nat /\ b < Blocks /\ i \in 0 .. PerBlock - 1
  BY <1>1 DEF Within
<1>3. /\ Blocks * PerBlock \in Int /\ Blocks * PerBlock = PerBlock * Blocks
      /\ b * PerBlock \in Int /\ b * PerBlock = PerBlock * b
  BY <1>1, <1>2
<1>4. PerBlock * b + PerBlock <= PerBlock * Blocks
  BY <1>1, <1>2, Product
<1>5. PerBlock * b >= 0
  <2>1. CASE b = 0
    BY <1>1, <2>1
  <2>2. CASE 0 < b
    <3>1. PerBlock * 0 + PerBlock <= PerBlock * b
      BY <1>1, <1>2, <2>2, Product
    <3> QED BY <1>1, <1>3, <3>1
  <2> QED BY <1>2, <2>1, <2>2
<1> QED BY <1>1, <1>2, <1>3, <1>4, <1>5 DEF Sectors

LEMMA SectorsOf ==
    ASSUME NvmeAssumption, NEW s \in Sectors
    PROVE  /\ BlockOf(s) \in 0 .. Blocks - 1 /\ WriteOffset(s) \in Within
           /\ s = BlockOf(s) * PerBlock + WriteOffset(s)
           /\ \A i \in Within : BlockOf(s) * PerBlock + i \in Sectors
<1> DEFINE b == BlockOf(s)
           r == WriteOffset(s)
<1>1. PerBlock \in Nat \ {0} /\ Blocks \in Nat \ {0}
  BY Numbers
<1>2. Blocks * PerBlock \in Nat /\ Blocks * PerBlock = PerBlock * Blocks
  BY <1>1
<1>3. s \in Nat /\ s < PerBlock * Blocks
  BY <1>2 DEF Sectors
<1>4. b \in Int /\ r \in 0 .. PerBlock - 1 /\ s = PerBlock * b + r
  BY <1>1, <1>3, Divided DEF BlockOf, WriteOffset
<1> HIDE DEF b, r
<1>5. PerBlock * b \in Int /\ PerBlock * b = b * PerBlock
  BY <1>1, <1>4
<1>6. ~(Blocks <= b)
  <2>1. CASE Blocks = b
    BY <1>1, <1>2, <1>3, <1>4, <2>1
  <2>2. CASE Blocks < b
    <3>1. PerBlock * Blocks + PerBlock <= PerBlock * b
      BY <1>1, <1>4, <2>2, Product
    <3> QED BY <1>1, <1>2, <1>3, <1>4, <1>5, <3>1
  <2> QED BY <1>1, <1>4, <2>1, <2>2
<1>7. ~(b < 0)
  <2>1. SUFFICES ASSUME b < 0 PROVE FALSE
    OBVIOUS
  <2>2. PerBlock * b + PerBlock <= PerBlock * 0
    BY <1>1, <1>4, <2>1, Product
  <2> QED BY <1>1, <1>3, <1>4, <1>5, <2>2
<1>8. b \in 0 .. Blocks - 1
  BY <1>1, <1>4, <1>6, <1>7
<1>9. r \in Within /\ s = b * PerBlock + r
  BY <1>4, <1>5 DEF Within
<1> QED BY <1>8, <1>9, InBlock DEF b, r

(* What a block holds, and what it should hold when a sector is written.   *)
Held(m, s) == [i \in Within |-> m[BlockOf(s) * PerBlock + i]]
Merged(m, s, v) == [Held(m, s) EXCEPT ![WriteOffset(s)] = v]
LEMMA MergedLands ==
    ASSUME NvmeAssumption, NEW m \in [Sectors -> Values], NEW s \in Sectors,
           NEW v \in Values
    PROVE  /\ Held(m, s) \in [Within -> Values] /\ Merged(m, s, v) \in [Within -> Values]
           /\ [x \in Sectors |-> IF BlockOf(x) = BlockOf(s)
                                 THEN Merged(m, s, v)[x % PerBlock] ELSE m[x]]
              = [m EXCEPT ![s] = v]
<1>1. Held(m, s) \in [Within -> Values]
  BY SectorsOf DEF Held
<1>2. Merged(m, s, v) \in [Within -> Values]
  BY <1>1, SectorsOf DEF Merged
<1>3. ASSUME NEW x \in Sectors, BlockOf(x) = BlockOf(s)
      PROVE  Merged(m, s, v)[x % PerBlock] = [m EXCEPT ![s] = v][x]
  <2>1. /\ WriteOffset(x) \in Within /\ x = BlockOf(s) * PerBlock + WriteOffset(x)
        /\ WriteOffset(s) \in Within /\ s = BlockOf(s) * PerBlock + WriteOffset(s)
    BY <1>3, SectorsOf
  <2>2. Merged(m, s, v)[WriteOffset(x)]
          = IF WriteOffset(x) = WriteOffset(s) THEN v ELSE Held(m, s)[WriteOffset(x)]
    BY <1>1, <2>1 DEF Merged
  <2>3. Held(m, s)[WriteOffset(x)] = m[x]
    BY <2>1 DEF Held
  <2>4. WriteOffset(x) = WriteOffset(s) <=> x = s
    <3>1. WriteOffset(x) = WriteOffset(s) => x = s
      BY <2>1
    <3> QED BY <3>1
  <2>5. Merged(m, s, v)[WriteOffset(x)] = IF x = s THEN v ELSE m[x]
    BY <2>2, <2>3, <2>4
  <2> QED BY <2>5 DEF WriteOffset
<1>4. ASSUME NEW x \in Sectors, BlockOf(x) # BlockOf(s)
      PROVE  m[x] = [m EXCEPT ![s] = v][x]
  BY <1>4
<1> QED BY <1>1, <1>2, <1>3, <1>4

DataShape ==
    /\ media \in [Sectors -> Values] /\ disk \in [Sectors -> Values]
    /\ tmp \in [Within -> Values]
    /\ call.at \in {"idle", "read", "fill", "write"}
    /\ call.sector \in Sectors /\ call.val \in Values
    /\ DOMAIN got = {"own", "val", "was"}
DataOK ==
    /\ call.at = "write" /\ ~NoneSent(ioq, dev) => tmp = Merged(disk, call.sector, call.val)
    /\ call.at \in {"read", "fill"} /\ NoneSent(ioq, dev) /\ Ok =>
          tmp = Held(disk, call.sector)
    /\ media = IF call.at = "write" /\ NoneSent(ioq, dev) /\ Ok
               THEN [disk EXCEPT ![call.sector] = call.val] ELSE disk
    /\ PerBlock = 1 => got.val = got.was
NvmeInv == PlaceOK(ioq, dev, call) /\ DataShape /\ DataOK

LEMMA NvmeStarts == ASSUME NvmeAssumption, NvmeInit PROVE NvmeInv
<1>1. 0 \in Entries /\ Entries \subseteq Nat
  BY Numbers
<1>2. /\ ioq.sq = [i \in Entries |-> [opc |-> "read", cid |-> 0, block |-> 0]]
      /\ ioq.cq = [i \in Entries |-> [cid |-> 0, phase |-> 0, ok |-> TRUE]]
      /\ ioq.sq_tail = 0 /\ ioq.cq_head = 0 /\ ioq.cq_phase = 1 /\ ioq.next_cid = 0
      /\ DOMAIN ioq = {"sq", "cq", "sq_tail", "cq_head", "cq_phase", "next_cid"}
  BY DEF NvmeInit
<1>3. /\ dev.head = 0 /\ dev.tail = 0 /\ dev.fetched = {} /\ dev.done = {}
      /\ dev.phase = 1
      /\ DOMAIN dev = {"head", "tail", "phase", "fetched", "done"}
  BY DEF NvmeInit
<1>4. call.at = "idle" /\ call.sector = 0 /\ call.val = Some
  BY DEF NvmeInit, NoCall
<1>5. PlaceOK(ioq, dev, call)
  <2>1. Laps(ioq, dev)
    BY <1>1, <1>2, <1>3 DEF Laps
  <2> QED BY <1>1, <1>2, <1>3, <1>4, <2>1 DEF PlaceOK, RingsOK, Stage, NoneSent, Level
<1>6. Some \in Values
  BY DEF NvmeAssumption, Some
<1>7. 0 \in Sectors
  <2>1. Blocks * PerBlock >= 1
    <3>1. PerBlock \in Nat \ {0} /\ Blocks \in Nat \ {0}
      BY Numbers
    <3>2. 0 \in Int /\ Blocks \in Int /\ 0 < Blocks
      BY <3>1
    <3>3. PerBlock * 0 + PerBlock <= PerBlock * Blocks
      BY <3>1, <3>2, Product
    <3> QED BY <3>1, <3>3
  <2> QED BY <2>1, Numbers DEF Sectors
<1>8. DataShape
  BY <1>4, <1>6, <1>7 DEF NvmeInit, DataShape
<1>9. DataOK
  BY <1>4 DEF NvmeInit, DataOK
<1> QED BY <1>5, <1>8, <1>9 DEF NvmeInv

(* A read of a block, and a write of one whose other sectors are known.    *)
LEMMA CommandData ==
    ASSUME NvmeAssumption, NvmeInv, NEW r, RingsOK(r, dev), Laps(r, dev), NoneSent(r, dev),
           Level(r, dev), r.next_cid = ioq.next_cid,
           NEW opc, NEW doing \in {"read", "fill", "write"}, NEW s \in Sectors,
           NEW v \in Values, NEW data \in [Within -> Values],
           Command(r, opc, doing, s, v, data),
           opc = IF doing = "write" THEN "write" ELSE "read", media = disk,
           doing = "write" => data = Merged(disk, s, v),
           DOMAIN got' = {"own", "val", "was"}, got'.val = got.val, got'.was = got.was
    PROVE  NvmeInv'
<1>1. PlaceOK(ioq', dev', call') /\ ~NoneSent(ioq', dev')
  BY Sends
<1>2. /\ call'.at = doing /\ call'.sector = s /\ call'.val = v /\ tmp' = data
      /\ media' = media /\ disk' = disk
  BY DEF Command
<1>3. DataShape'
  BY <1>2 DEF NvmeInv, DataShape
<1>4. DataOK'
  BY <1>1, <1>2 DEF NvmeInv, DataOK
<1> QED BY <1>1, <1>3, <1>4 DEF NvmeInv

LEMMA StartsIdle ==
    ASSUME NvmeInv, call.at = "idle"
    PROVE  RingsOK(ioq, dev) /\ Laps(ioq, dev) /\ NoneSent(ioq, dev) /\ Level(ioq, dev)
           /\ media = disk
BY DEF NvmeInv, PlaceOK, Stage, DataOK

LEMMA ReadData ==
    ASSUME NvmeAssumption, NvmeInv, NEW s \in Sectors, nvme_read_sector(s) PROVE NvmeInv'
<1>1. call.at = "idle" /\ Command(ioq, "read", "read", s, Some, tmp) /\ got' = got
  BY DEF nvme_read_sector
<1>2. Some \in Values /\ tmp \in [Within -> Values] /\ DOMAIN got = {"own", "val", "was"}
  BY DEF NvmeAssumption, Some, NvmeInv, DataShape
<1> QED BY <1>1, <1>2, StartsIdle, CommandData

LEMMA WriteData ==
    ASSUME NvmeAssumption, NvmeInv, NEW s \in Sectors, NEW v \in Values,
           nvme_write_sector(s, v)
    PROVE  NvmeInv'
<1>1. call.at = "idle" /\ got' = got
  BY DEF nvme_write_sector
<1>2. tmp \in [Within -> Values] /\ DOMAIN got = {"own", "val", "was"}
  BY DEF NvmeInv, DataShape
<1>3. CASE PerBlock = 1
  <2> DEFINE data == [i \in Within |-> v]
  <2>1. Command(ioq, "write", "write", s, v, data)
    BY <1>3 DEF nvme_write_sector
  <2>2. Within = {0} /\ WriteOffset(s) = 0
    BY <1>3, SectorsOf DEF Within
  <2>3. data = Merged(disk, s, v) /\ data \in [Within -> Values]
    BY <2>2 DEF Merged, Held
  <2> HIDE DEF data
  <2> QED BY <1>1, <1>2, <2>1, <2>3, StartsIdle, CommandData
<1>4. CASE PerBlock # 1
  <2>1. Command(ioq, "read", "fill", s, v, tmp)
    BY <1>4 DEF nvme_write_sector
  <2> QED BY <1>1, <1>2, <2>1, StartsIdle, CommandData
<1> QED BY <1>3, <1>4

LEMMA FillData == ASSUME NvmeAssumption, NvmeInv, FillDone PROVE NvmeInv'
<1> DEFINE data == [tmp EXCEPT ![WriteOffset(call.sector)] = call.val]
<1>1. /\ call.at = "fill" /\ Matches /\ Ok /\ got' = [got EXCEPT !.own = Own]
      /\ Command(Consumed, "write", "write", call.sector, call.val, data)
  BY DEF FillDone
<1>2. NoneSent(ioq, dev)
  BY <1>1, Seen DEF NvmeInv
<1>3. call.sector \in Sectors /\ call.val \in Values /\ disk \in [Sectors -> Values]
  BY DEF NvmeInv, DataShape
<1>4. data = Merged(disk, call.sector, call.val)
  BY <1>1, <1>2 DEF NvmeInv, DataOK, Merged
<1> HIDE DEF data
<1>5. data \in [Within -> Values]
  BY <1>3, <1>4, MergedLands
<1>6. DOMAIN got' = {"own", "val", "was"} /\ got'.val = got.val /\ got'.was = got.was
  BY <1>1 DEF NvmeInv, DataShape
<1>7. media = disk
  BY <1>1 DEF NvmeInv, DataOK
<1>8. /\ RingsOK(Consumed, dev) /\ Laps(Consumed, dev) /\ NoneSent(Consumed, dev)
      /\ Level(Consumed, dev) /\ Consumed.next_cid = ioq.next_cid
  BY <1>1, Consumes DEF NvmeInv
<1> QED BY <1>1, <1>3, <1>4, <1>5, <1>6, <1>7, <1>8, CommandData

(* A call that ends with an answer.                                        *)
LEMMA EndData ==
    ASSUME NvmeAssumption, NvmeInv, call.at # "idle", Matches, ioq' = Consumed,
           call' = NoCall, UNCHANGED <<dev, media, tmp>>, disk' = media,
           DOMAIN got' = {"own", "val", "was"}, PerBlock = 1 => got'.val = got'.was
    PROVE  NvmeInv'
<1>1. /\ RingsOK(ioq', dev') /\ Laps(ioq', dev') /\ NoneSent(ioq', dev')
      /\ Level(ioq', dev')
  BY Consumes DEF NvmeInv
<1>2. call'.at = "idle" /\ call'.sector = 0 /\ call'.val = Some
  BY DEF NoCall
<1>3. Some \in Values
  BY DEF NvmeAssumption, Some
<1>4. 0 \in Sectors
  <2>1. call.sector \in Sectors
    BY DEF NvmeInv, DataShape
  <2>2. Blocks * PerBlock \in Int
    BY Numbers
  <2> QED BY <2>1, <2>2 DEF Sectors
<1>5. DataShape' /\ DataOK'
  BY <1>2, <1>3, <1>4 DEF NvmeInv, DataShape, DataOK
<1> QED BY <1>1, <1>2, <1>5 DEF NvmeInv, PlaceOK, Stage

LEMMA FailData == ASSUME NvmeAssumption, NvmeInv, Failed PROVE NvmeInv'
<1>1. /\ call.at # "idle" /\ Matches /\ ~Ok /\ ioq' = Consumed /\ call' = NoCall
      /\ got' = [got EXCEPT !.own = Own] /\ UNCHANGED <<dev, media, tmp, disk>>
  BY DEF Failed
<1>2. media = disk
  BY <1>1 DEF NvmeInv, DataOK
<1>3. DOMAIN got' = {"own", "val", "was"} /\ (PerBlock = 1 => got'.val = got'.was)
  BY <1>1 DEF NvmeInv, DataShape, DataOK
<1> QED BY <1>1, <1>2, <1>3, EndData

LEMMA ReadEnds == ASSUME NvmeAssumption, NvmeInv, ReadDone PROVE NvmeInv'
<1>1. /\ call.at = "read" /\ Matches /\ Ok /\ ioq' = Consumed /\ call' = NoCall
      /\ got' = [own |-> Own, val |-> tmp[ReadOffset(call.sector)],
                 was |-> disk[call.sector]]
      /\ UNCHANGED <<dev, media, tmp, disk>>
  BY DEF ReadDone
<1>2. media = disk
  BY <1>1 DEF NvmeInv, DataOK
<1>3. ASSUME PerBlock = 1 PROVE tmp[ReadOffset(call.sector)] = disk[call.sector]
  <2>1. NoneSent(ioq, dev)
    BY <1>1, Seen DEF NvmeInv
  <2>2. tmp = Held(disk, call.sector) /\ call.sector \in Sectors
    BY <1>1, <2>1 DEF NvmeInv, DataShape, DataOK
  <2>3. Within = {0} /\ WriteOffset(call.sector) = 0
    BY <1>3, <2>2, SectorsOf DEF Within
  <2> QED BY <2>2, <2>3, SectorsOf DEF Held, ReadOffset
<1>4. DOMAIN got' = {"own", "val", "was"} /\ (PerBlock = 1 => got'.val = got'.was)
  BY <1>1, <1>3
<1> QED BY <1>1, <1>2, <1>4, EndData

LEMMA WriteEnds == ASSUME NvmeAssumption, NvmeInv, WriteDone PROVE NvmeInv'
<1>1. /\ call.at = "write" /\ Matches /\ Ok /\ ioq' = Consumed /\ call' = NoCall
      /\ disk' = [disk EXCEPT ![call.sector] = call.val]
      /\ got' = [got EXCEPT !.own = Own] /\ UNCHANGED <<dev, media, tmp>>
  BY DEF WriteDone
<1>2. NoneSent(ioq, dev)
  BY <1>1, Seen DEF NvmeInv
<1>3. disk' = media
  BY <1>1, <1>2 DEF NvmeInv, DataOK
<1>4. DOMAIN got' = {"own", "val", "was"} /\ (PerBlock = 1 => got'.val = got'.was)
  BY <1>1 DEF NvmeInv, DataShape, DataOK
<1> QED BY <1>1, <1>3, <1>4, EndData

LEMMA FetchData == ASSUME NvmeAssumption, NvmeInv, Fetch PROVE NvmeInv'
<1>1. PlaceOK(ioq', dev', call') /\ ~NoneSent(ioq', dev') /\ ~NoneSent(ioq, dev)
  BY Fetches DEF NvmeInv
<1>2. UNCHANGED <<ioq, media, tmp, call, disk, got>>
  BY DEF Fetch
<1> QED BY <1>1, <1>2 DEF NvmeInv, DataShape, DataOK

LEMMA ExecuteData ==
    ASSUME NvmeAssumption, NvmeInv, NEW c \in dev.fetched, NEW ok \in BOOLEAN,
           Execute(c, ok)
    PROVE  NvmeInv'
<1>1. /\ PlaceOK(ioq', dev', call') /\ call.at # "idle" /\ IsOf(c, call)
      /\ ~NoneSent(ioq, dev) /\ NoneSent(ioq', dev') /\ (Ok' <=> ok)
  BY Executes DEF NvmeInv, Ok
<1>2. /\ tmp' = (IF ok /\ c.opc = "read"
                 THEN [i \in Within |-> media[c.block * PerBlock + i]] ELSE tmp)
      /\ media' = (IF ok /\ c.opc = "write"
                   THEN [s \in Sectors |-> IF BlockOf(s) = c.block
                                           THEN tmp[s % PerBlock] ELSE media[s]]
                   ELSE media)
      /\ UNCHANGED <<call, disk, got>>
  BY DEF Execute
<1>3. media = disk /\ (call.at = "write" => tmp = Merged(disk, call.sector, call.val))
  BY <1>1 DEF NvmeInv, DataOK
<1>4. c.opc = (IF call.at = "write" THEN "write" ELSE "read")
      /\ c.block = BlockOf(call.sector)
  BY <1>1 DEF IsOf
<1>5. /\ disk \in [Sectors -> Values] /\ call.sector \in Sectors /\ call.val \in Values
      /\ tmp \in [Within -> Values]
      /\ call.at \in {"idle", "read", "fill", "write"}
  BY DEF NvmeInv, DataShape
<1>6. CASE ~ok
  BY <1>1, <1>2, <1>3, <1>6 DEF NvmeInv, DataShape, DataOK
<1>7. CASE ok /\ call.at = "write"
  <2> DEFINE s == call.sector
             v == call.val
  <2>0. media' = [x \in Sectors |-> IF BlockOf(x) = BlockOf(s)
                                    THEN Merged(disk, s, v)[x % PerBlock] ELSE disk[x]]
        /\ tmp' = tmp
    BY <1>2, <1>3, <1>4, <1>7
  <2>1. media' = [disk EXCEPT ![s] = v] /\ tmp' = tmp
    <3> HIDE DEF s, v
    <3>1. disk \in [Sectors -> Values] /\ s \in Sectors /\ v \in Values
      BY <1>5 DEF s, v
    <3>2. [x \in Sectors |-> IF BlockOf(x) = BlockOf(s)
                             THEN Merged(disk, s, v)[x % PerBlock] ELSE disk[x]]
            = [disk EXCEPT ![s] = v]
      BY <3>1, MergedLands
    <3> QED BY <2>0, <3>2, Zenon
  <2>2. media' \in [Sectors -> Values]
    BY <1>5, <2>1
  <2> QED BY <1>1, <1>2, <1>7, <2>1, <2>2 DEF NvmeInv, DataShape, DataOK
<1>8. CASE ok /\ call.at # "write"
  <2>1. tmp' = Held(disk, call.sector) /\ media' = media
    BY <1>2, <1>3, <1>4, <1>8 DEF Held
  <2>2. tmp' \in [Within -> Values]
    BY <1>5, <2>1, MergedLands
  <2> QED BY <1>1, <1>2, <1>3, <1>8, <2>1, <2>2 DEF NvmeInv, DataShape, DataOK
<1> QED BY <1>6, <1>7, <1>8

LEMMA NvmeSteps ==
    ASSUME NvmeAssumption, "timeout" \notin Faults, NvmeInv, [NvmeNext]_nvmeVars
    PROVE  NvmeInv'
<1>1. ASSUME NEW c \in dev.fetched, NEW ok \in {TRUE} \cup {f # "error" : f \in Faults},
             Execute(c, ok)
      PROVE  NvmeInv'
  BY <1>1, ExecuteData
<1>2. ~GiveUp
  BY DEF GiveUp
<1>3. CASE UNCHANGED nvmeVars
  BY <1>3 DEF nvmeVars, NvmeInv, PlaceOK, RingsOK, Laps, Stage, InQueue, InDrive, Posting,
              NoneSent, Level, DataShape, DataOK, Ok
<1> QED BY <1>1, <1>2, <1>3, ReadData, WriteData, FailData, ReadEnds, FillData, WriteEnds,
           FetchData DEF NvmeNext

(* Where the driver does not give up, the answer to a command appears at   *)
(* the entry it looks at, lap after lap, and nothing there passes for one  *)
(* before; and a write changes its sector and no other of the block, read  *)
(* first where a block has several (cq_poll, nvme_write_sector).           *)
THEOREM WritesReachTheDrive ==
    ASSUME NvmeAssumption, "timeout" \notin Faults
    PROVE  NvmeSpec => [](AnswerInPlace /\ WritesLand)
<1>1. NvmeInit => NvmeInv
  BY NvmeStarts
<1>2. NvmeInv /\ [NvmeNext]_nvmeVars => NvmeInv'
  BY NvmeSteps
<1>3. NvmeInv => AnswerInPlace /\ WritesLand
  <2>1. NvmeInv => AnswerInPlace
    BY Seen DEF NvmeInv, AnswerInPlace, NoneSent
  <2>2. NvmeInv => WritesLand
    BY DEF NvmeInv, WritesLand, DataOK
  <2> QED BY <2>1, <2>2
<1> QED BY <1>1, <1>2, <1>3, PTL DEF NvmeSpec

(* A read returns the latest write, where a block is one sector: the       *)
(* driver returns the first sector of a block (nvme_read_sector).          *)
THEOREM ReadsReturnWrites ==
    ASSUME NvmeAssumption, "timeout" \notin Faults, PerBlock = 1
    PROVE  NvmeSpec => []ReadsBack
<1>1. NvmeInit => NvmeInv
  BY NvmeStarts
<1>2. NvmeInv /\ [NvmeNext]_nvmeVars => NvmeInv'
  BY NvmeSteps
<1>3. NvmeInv => ReadsBack
  BY DEF NvmeInv, DataOK, ReadsBack
<1> QED BY <1>1, <1>2, <1>3, PTL DEF NvmeSpec

(* Types, with timeouts as well (NvmeTypeOK).                              *)
LEMMA RingTypes ==
    ASSUME NvmeAssumption, ioq \in NvmeQueue
    PROVE  /\ Consumed \in NvmeQueue
           /\ \A p \in Entries, e \in Cqe : [ioq EXCEPT !.cq[p] = e] \in NvmeQueue
<1>1. Next1(ioq.cq_head) \in Entries
  BY NextEntry DEF NvmeQueue
<1>2. Consumed \in NvmeQueue
  <2> DEFINE f == IF Next1(ioq.cq_head) = 0 THEN 1 - ioq.cq_phase ELSE ioq.cq_phase
  <2>1. f \in 0 .. 1
    BY DEF NvmeQueue
  <2>2. Consumed = [ioq EXCEPT !.cq_head = Next1(ioq.cq_head), !.cq_phase = f]
    BY DEF Consumed
  <2> HIDE DEF f
  <2> QED BY <1>1, <2>1, <2>2 DEF NvmeQueue
<1>3. ASSUME NEW p \in Entries, NEW e \in Cqe
      PROVE  [ioq EXCEPT !.cq[p] = e] \in NvmeQueue
  <2>1. [ioq.cq EXCEPT ![p] = e] \in [Entries -> Cqe]
    BY DEF NvmeQueue
  <2> QED BY <2>1 DEF NvmeQueue
<1> QED BY <1>2, <1>3

NvmeTyped == NvmeTypeOK /\ dev \in Controller
LEMMA CommandTypes ==
    ASSUME NvmeAssumption, NvmeTyped, NEW r \in NvmeQueue, r.next_cid = ioq.next_cid,
           NEW opc \in {"read", "write"}, NEW doing \in {"read", "fill", "write"},
           NEW s \in Sectors, NEW v \in Values, NEW data \in [Within -> Values],
           Command(r, opc, doing, s, v, data), got' \in [own: BOOLEAN, val: Values, was: Values]
    PROVE  NvmeTyped'
<1> DEFINE n == r.next_cid
           e == [opc |-> opc, cid |-> n, block |-> BlockOf(s)]
<1>1. CIDS \in Nat \ {0} /\ n \in 0 .. CIDS - 1 /\ (n + 1) % CIDS \in 0 .. CIDS - 1
  BY DEF NvmeAssumption, NvmeQueue
<1>2. e \in Cmd
  BY <1>1, SectorsOf DEF Cmd
<1>3. ioq' = [r EXCEPT !.sq[r.sq_tail] = e, !.sq_tail = Next1(@),
                       !.next_cid = (n + 1) % CIDS]
  BY DEF Command, Issued, NvmeQueue
<1> HIDE DEF e
<1>4. ioq' \in NvmeQueue
  <2>1. Next1(r.sq_tail) \in Entries
    BY NextEntry DEF NvmeQueue
  <2> DEFINE m == (n + 1) % CIDS
  <2>2. m \in 0 .. CIDS - 1
    BY <1>1
  <2>3. ioq' = [r EXCEPT !.sq[r.sq_tail] = e, !.sq_tail = Next1(@), !.next_cid = m]
    BY <1>3
  <2> HIDE DEF m
  <2> QED BY <1>2, <2>1, <2>2, <2>3 DEF NvmeQueue
<1>5. call' \in Call
  BY <1>1 DEF Command, Call
<1>6. /\ dev'.head = dev.head /\ dev'.tail = dev.tail /\ dev'.phase = dev.phase
      /\ dev'.fetched = dev.fetched /\ dev'.done \subseteq dev.done
      /\ dev' \in Controller
  BY DEF Command, NvmeTyped, Controller
<1>7. tmp' = data /\ UNCHANGED <<media, disk>>
  BY DEF Command
<1> QED BY <1>4, <1>5, <1>6, <1>7 DEF NvmeTyped, NvmeTypeOK

LEMMA ExecuteTypes ==
    ASSUME NvmeAssumption, NvmeTyped, NEW c \in dev.fetched, NEW ok \in BOOLEAN,
           Execute(c, ok)
    PROVE  NvmeTyped'
<1>1. /\ c \in Cmd /\ c.cid \in 0 .. CIDS - 1 /\ c.block \in 0 .. Blocks - 1
      /\ dev \in Controller /\ dev.tail \in Entries /\ dev.phase \in 0 .. 1
      /\ ioq \in NvmeQueue /\ media \in [Sectors -> Values] /\ tmp \in [Within -> Values]
  BY DEF NvmeTyped, NvmeTypeOK, Cmd, Controller
<1> DEFINE e == [cid |-> c.cid, phase |-> dev.phase, ok |-> ok]
           f == IF Next1(dev.tail) = 0 THEN 1 - dev.phase ELSE dev.phase
<1>2. e \in Cqe /\ f \in 0 .. 1 /\ Next1(dev.tail) \in Entries
  BY <1>1, NextEntry DEF Cqe
<1>3. /\ dev' = [dev EXCEPT !.fetched = @ \ {c}, !.done = @ \cup {c.cid},
                            !.tail = Next1(@), !.phase = f]
      /\ ioq' = [ioq EXCEPT !.cq[dev.tail] = e]
  BY <1>1 DEF Execute, Controller
<1> HIDE DEF e, f
<1>4. ioq' \in NvmeQueue
  BY <1>1, <1>2, <1>3, RingTypes
<1>5. dev' \in Controller
  BY <1>1, <1>2, <1>3 DEF Controller
<1>6. tmp' \in [Within -> Values]
  <2>1. \A i \in Within : c.block * PerBlock + i \in Sectors
    BY <1>1, InBlock
  <2>2. [i \in Within |-> media[c.block * PerBlock + i]] \in [Within -> Values]
    BY <1>1, <2>1
  <2> QED BY <1>1, <2>2 DEF Execute
<1>7. media' \in [Sectors -> Values]
  <2>1. \A s \in Sectors : tmp[s % PerBlock] \in Values
    BY <1>1, SectorsOf DEF WriteOffset
  <2> QED BY <1>1, <2>1 DEF Execute
<1>8. UNCHANGED <<call, disk, got>>
  BY DEF Execute
<1> QED BY <1>4, <1>5, <1>6, <1>7, <1>8 DEF NvmeTyped, NvmeTypeOK, Controller

LEMMA NvmeTypesStart == ASSUME NvmeAssumption, NvmeInit PROVE NvmeTyped
<1>1. /\ 0 \in Entries /\ 0 \in 0 .. CIDS - 1 /\ 0 \in 0 .. Blocks - 1
  BY Numbers DEF NvmeAssumption
<1>2. Some \in Values
  BY DEF NvmeAssumption, Some
<1>3. 0 \in Within
  BY Numbers DEF Within
<1>4. 0 \in Sectors
  <2>1. 0 * PerBlock + 0 \in Sectors
    BY <1>1, <1>3, InBlock
  <2>2. 0 * PerBlock + 0 = 0
    BY Numbers
  <2> QED BY <2>1, <2>2
<1>5. ioq \in NvmeQueue
  BY <1>1 DEF NvmeInit, NvmeQueue, Cmd, Cqe
<1>6. dev \in Controller
  BY <1>1 DEF NvmeInit, Controller
<1>7. call \in Call
  BY <1>1, <1>2, <1>4 DEF NvmeInit, NoCall, Call
<1>8. /\ media \in [Sectors -> Values] /\ disk \in [Sectors -> Values]
      /\ tmp \in [Within -> Values] /\ got \in [own: BOOLEAN, val: Values, was: Values]
  BY <1>2 DEF NvmeInit
<1> QED BY <1>5, <1>6, <1>7, <1>8 DEF NvmeTyped, NvmeTypeOK, Controller

LEMMA NvmeTypesStep ==
    ASSUME NvmeAssumption, NvmeTyped, [NvmeNext]_nvmeVars PROVE NvmeTyped'
<1>1. /\ ioq \in NvmeQueue /\ Consumed \in NvmeQueue /\ Consumed.next_cid = ioq.next_cid
      /\ Some \in Values /\ tmp \in [Within -> Values] /\ disk \in [Sectors -> Values]
      /\ got \in [own: BOOLEAN, val: Values, was: Values]
      /\ call \in Call /\ call.sector \in Sectors /\ call.val \in Values
  BY RingTypes DEF NvmeTyped, NvmeTypeOK, NvmeAssumption, Some, Consumed, NvmeQueue, Call
<1>2. NoCall \in Call
  <2>1. 0 \in Sectors
    <3>1. Blocks * PerBlock \in Int
      BY Numbers
    <3> QED BY <1>1, <3>1 DEF Sectors
  <2> QED BY <1>1, <2>1 DEF NoCall, Call, NvmeAssumption
<1>3. Own \in BOOLEAN /\ [got EXCEPT !.own = Own] \in [own: BOOLEAN, val: Values, was: Values]
  <2>1. Own \in BOOLEAN
    BY DEF Own
  <2>2. ASSUME NEW o \in BOOLEAN
        PROVE  [got EXCEPT !.own = o] \in [own: BOOLEAN, val: Values, was: Values]
    BY <1>1
  <2> QED BY <2>1, <2>2, Zenon
<1>4. ASSUME NEW s \in Sectors, nvme_read_sector(s) PROVE NvmeTyped'
  BY <1>1, <1>4, CommandTypes DEF nvme_read_sector
<1>5. ASSUME NEW s \in Sectors, NEW v \in Values, nvme_write_sector(s, v) PROVE NvmeTyped'
  <2> DEFINE data == [i \in Within |-> v]
  <2>1. data \in [Within -> Values]
    OBVIOUS
  <2>2. \/ Command(ioq, "write", "write", s, v, data)
        \/ Command(ioq, "read", "fill", s, v, tmp)
    BY <1>5 DEF nvme_write_sector
  <2>3. got' = got
    BY <1>5 DEF nvme_write_sector
  <2> HIDE DEF data
  <2> QED BY <1>1, <2>1, <2>2, <2>3, CommandTypes
<1>6. CASE Failed
  BY <1>1, <1>2, <1>3, <1>6 DEF Failed, NvmeTyped, NvmeTypeOK
<1>7. CASE ReadDone
  <2>1. tmp[ReadOffset(call.sector)] \in Values /\ disk[call.sector] \in Values
    BY <1>1, Numbers DEF ReadOffset, Within
  <2>2. got' \in [own: BOOLEAN, val: Values, was: Values]
    BY <1>3, <1>7, <2>1 DEF ReadDone
  <2> QED BY <1>1, <1>2, <1>7, <2>2 DEF ReadDone, NvmeTyped, NvmeTypeOK
<1>8. CASE FillDone
  <2> DEFINE data == [tmp EXCEPT ![WriteOffset(call.sector)] = call.val]
  <2>1. data \in [Within -> Values]
    BY <1>1
  <2>2. Command(Consumed, "write", "write", call.sector, call.val, data)
        /\ got' = [got EXCEPT !.own = Own]
    BY <1>8 DEF FillDone
  <2> HIDE DEF data
  <2> QED BY <1>1, <1>3, <2>1, <2>2, CommandTypes
<1>9. CASE WriteDone
  <2>1. disk' \in [Sectors -> Values]
    BY <1>1, <1>9 DEF WriteDone
  <2> QED BY <1>1, <1>2, <1>3, <1>9, <2>1 DEF WriteDone, NvmeTyped, NvmeTypeOK
<1>10. CASE GiveUp
  BY <1>2, <1>10 DEF GiveUp, NvmeTyped, NvmeTypeOK
<1>11. CASE Fetch
  <2>1. dev' \in Controller
    <3>1. dev \in Controller /\ ioq.sq[dev.head] \in Cmd /\ Next1(dev.head) \in Entries
      BY <1>1, NextEntry DEF NvmeTyped, Controller, NvmeQueue
    <3> QED BY <1>11, <3>1 DEF Fetch, Controller
  <2> QED BY <1>11, <2>1 DEF Fetch, NvmeTyped, NvmeTypeOK, Controller
<1>12. ASSUME NEW c \in dev.fetched, NEW ok \in {TRUE} \cup {f # "error" : f \in Faults},
              Execute(c, ok)
       PROVE  NvmeTyped'
  BY <1>12, ExecuteTypes
<1>13. CASE UNCHANGED nvmeVars
  BY <1>13 DEF nvmeVars, NvmeTyped, NvmeTypeOK
<1> QED BY <1>4, <1>5, <1>6, <1>7, <1>8, <1>9, <1>10, <1>11, <1>12, <1>13 DEF NvmeNext

(* Places stay on the rings, identifiers in their width and sectors on the *)
(* disk, with timeouts as well (NvmeTypeOK of Nvme).                       *)
THEOREM NvmeTyping == ASSUME NvmeAssumption PROVE NvmeSpec => []NvmeTypeOK
<1>1. NvmeTyped => NvmeTypeOK
  BY DEF NvmeTyped
<1> QED BY <1>1, NvmeTypesStart, NvmeTypesStep, PTL DEF NvmeSpec

-----------------------------------------------------------------------------
(* Xhci                                                                    *)

(* The forms of commands, events, places and slots.                        *)
CmdPlaces == 0 .. CmdRing - 1
EvtPlaces == 0 .. EvtRing - 1
CmdForm == [cycle: {0, 1}, no: Nat, type: HcOps \cup {"none", "link"},
            slot: HcSlots \cup {0}, port: Ports \cup {0}]
EvtForm == [cycle: {0, 1}, no: Nat, type: {"none", "cmd", "port"}, cc: Nat,
            slot: HcSlots \cup {0}]
HcForm == [cmd: CmdPlaces, ccs: {0, 1}, evt: EvtPlaces, pcs: {0, 1},
           left: Nat, no: Nat]
SlotForm == [state: {"off", "enabled", "default", "addressed", "configured"},
             port: Ports \cup {0}]
EnumSteps == {"port", "enable", "enabling", "slot", "default", "defaulting",
              "address", "addressing", "configure", "configuring", "active"}
EnumForm == [pc: EnumSteps, port: Ports, slot: HcSlots \cup {0}]
Owning == {"default", "defaulting", "address", "addressing", "configure",
           "configuring"}

XhciTyped ==
    /\ cmd_ring \in [CmdPlaces -> CmdForm] /\ cmd_idx \in 0 .. CmdRing - 2
    /\ cmd_pcs \in {0, 1} /\ made \in Nat
    /\ evt_ring \in [EvtPlaces -> EvtForm] /\ evt_idx \in EvtPlaces
    /\ evt_ccs \in {0, 1}
    /\ hc \in HcForm /\ slots \in [HcSlots -> SlotForm]
    /\ enum \in EnumForm /\ hid \in Seq(HcSlots) /\ Len(hid) <= MAX_HID
    /\ done \in Nat \X BOOLEAN /\ seen \in Nat \X BOOLEAN

(* Only the last entry of the command ring is a link, a command about a    *)
(* slot names one, and an endpoint is set up when there is room for it.    *)
XhciForms ==
    /\ XhciTyped
    /\ cmd_ring[CmdRing - 1].type \notin HcOps
    /\ \A i \in 0 .. CmdRing - 2 :
          /\ cmd_ring[i].type # "link"
          /\ cmd_ring[i].type \in HcOps \ {"enable"} => cmd_ring[i].slot # 0
    /\ enum.pc \in Owning => enum.slot # 0
    /\ enum.pc \in {"configure", "configuring"} => Len(hid) < MAX_HID

LEMMA XhciBounds ==
    ASSUME XhciAssumption
    PROVE  /\ CmdRing \in Nat /\ CmdRing > 1 /\ EvtRing \in Nat /\ EvtRing > 1
           /\ MAX_HID \in Nat /\ 1 \in Ports /\ 0 \notin HcSlots
           /\ Ports \subseteq Nat /\ HcSlots \subseteq Nat
           /\ Cardinality(Ports) \in Nat
           /\ \A p \in Ports : p <= Cardinality(Ports)
<1>1. Cardinality(Ports) \in Nat /\ Cardinality(HcSlots) \in Nat
  BY FS_CardinalityType DEF XhciAssumption
<1> QED BY <1>1 DEF XhciAssumption

LEMMA XhciStart == ASSUME XhciAssumption, XhciInit PROVE XhciForms
<1>1. NoCmd \in CmdForm /\ NoEvent \in EvtForm /\ SlotOff \in SlotForm
  BY DEF NoCmd, CmdForm, NoEvent, EvtForm, SlotOff, SlotForm
<1>2. Scan(1) \in EnumForm /\ Scan(1).pc = "port"
  BY XhciBounds DEF Scan, EnumForm, EnumSteps
<1>3. hc \in HcForm
  BY XhciBounds DEF XhciAssumption, XhciInit, HcForm, CmdPlaces, EvtPlaces
<1>4. /\ cmd_ring \in [CmdPlaces -> CmdForm] /\ evt_ring \in [EvtPlaces -> EvtForm]
      /\ slots \in [HcSlots -> SlotForm] /\ enum \in EnumForm
  BY <1>1, <1>2 DEF XhciInit, CmdPlaces, EvtPlaces
<1>5. /\ cmd_idx \in 0 .. CmdRing - 2 /\ cmd_pcs \in {0, 1} /\ made \in Nat
      /\ evt_idx \in EvtPlaces /\ evt_ccs \in {0, 1}
  BY XhciBounds DEF XhciInit, EvtPlaces
<1>6. hid \in Seq(HcSlots) /\ Len(hid) <= MAX_HID
  BY XhciBounds DEF XhciInit
<1>7. done \in Nat \X BOOLEAN /\ seen \in Nat \X BOOLEAN
  BY DEF XhciInit
<1>8. XhciTyped
  BY <1>3, <1>4, <1>5, <1>6, <1>7 DEF XhciTyped
<1> QED BY <1>1, <1>2, <1>8, XhciBounds
        DEF XhciForms, XhciInit, NoCmd, CmdPlaces, HcOps, Owning

(* Steps round the event ring without the modulus.                         *)
PlaceAfter(i) == IF i + 1 = EvtRing THEN 0 ELSE i + 1
PlaceBefore(i) == IF i = 0 THEN EvtRing - 1 ELSE i - 1

LEMMA EvtTurn ==
    ASSUME XhciAssumption, NEW i \in EvtPlaces
    PROVE  /\ (i + 1) % EvtRing = PlaceAfter(i) /\ PlaceAfter(i) \in EvtPlaces
           /\ (i + EvtRing - 1) % EvtRing = PlaceBefore(i)
           /\ PlaceBefore(i) \in EvtPlaces /\ PlaceAfter(PlaceBefore(i)) = i
           /\ PlaceBefore(PlaceAfter(i)) = i
<1>1. i \in 0 .. EvtRing - 1 /\ EvtRing \in Nat /\ EvtRing > 1
  BY XhciBounds DEF EvtPlaces
<1>2. (i + 1) % EvtRing = PlaceAfter(i)
  BY <1>1 DEF PlaceAfter
<1>3. (i + EvtRing - 1) % EvtRing = PlaceBefore(i)
  BY <1>1 DEF PlaceBefore
<1> QED BY <1>1, <1>2, <1>3 DEF PlaceAfter, PlaceBefore, EvtPlaces

(* What a step does to the ring of commands and its two places: nothing,   *)
(* an entry is written, an entry is carried out, the link is followed.     *)
CmdSame == UNCHANGED <<cmd_ring, cmd_idx, cmd_pcs, made, done>>
           /\ hc'.cmd = hc.cmd /\ hc'.ccs = hc.ccs
CmdDone ==
    /\ cmd_ring[hc.cmd].cycle = hc.ccs /\ cmd_ring[hc.cmd].type \in HcOps
    /\ done' = <<cmd_ring[hc.cmd].no,
                 done[2] /\ cmd_ring[hc.cmd].no = done[1] + 1>>
    /\ hc'.cmd = hc.cmd + 1 /\ hc'.ccs = hc.ccs
    /\ UNCHANGED <<cmd_ring, cmd_idx, cmd_pcs, made>>

(* And to the ring of events: nothing, one is taken, one is added.         *)
EvtSame == /\ UNCHANGED <<evt_ring, evt_idx, evt_ccs, seen>>
           /\ hc'.evt = hc.evt /\ hc'.pcs = hc.pcs /\ hc'.no = hc.no
EvtTaken ==
    /\ Posted /\ UNCHANGED <<evt_ring, hc>>
    /\ evt_idx' = PlaceAfter(evt_idx)
    /\ evt_ccs' = IF evt_idx + 1 = EvtRing THEN 1 - evt_ccs ELSE evt_ccs
    /\ seen' = <<NextEvent.no, seen[2] /\ NextEvent.no = seen[1] + 1>>
EvtAdded(type, cc, slot) ==
    /\ PlaceAfter(hc.evt) # evt_idx
    /\ evt_ring' = [evt_ring EXCEPT ![hc.evt] =
          [cycle |-> hc.pcs, no |-> hc.no + 1, type |-> type, cc |-> cc,
           slot |-> slot]]
    /\ hc'.evt = PlaceAfter(hc.evt) /\ hc'.no = hc.no + 1
    /\ hc'.pcs = IF hc.evt + 1 = EvtRing THEN 1 - hc.pcs ELSE hc.pcs
    /\ UNCHANGED <<evt_idx, evt_ccs, seen>>

LEMMA Takes ==
    ASSUME XhciAssumption, XhciForms, Advance, Posted, UNCHANGED <<evt_ring, hc>>
    PROVE  /\ EvtTaken /\ evt_idx' \in EvtPlaces /\ evt_ccs' \in {0, 1}
           /\ seen' \in Nat \X BOOLEAN
<1>1. evt_idx \in EvtPlaces /\ evt_ccs \in {0, 1} /\ NextEvent \in EvtForm
  BY DEF XhciForms, XhciTyped, NextEvent
<1>2. (evt_idx + 1) % EvtRing = PlaceAfter(evt_idx) /\ PlaceAfter(evt_idx) \in EvtPlaces
  BY <1>1, EvtTurn
<1>3. EvtTaken /\ evt_idx' \in EvtPlaces
  BY <1>2 DEF Advance, EvtTaken
<1>4. NextEvent.no \in Nat
  BY <1>1 DEF EvtForm
<1>5. (seen[2] /\ NextEvent.no = seen[1] + 1) \in BOOLEAN
  OBVIOUS
<1>6. seen' \in Nat \X BOOLEAN
  BY <1>4, <1>5 DEF Advance
<1> QED BY <1>1, <1>3, <1>6 DEF EvtTaken

LEMMA Adds ==
    ASSUME XhciAssumption, XhciForms, NEW h \in HcForm,
           h.evt = hc.evt, h.pcs = hc.pcs, h.no = hc.no,
           NEW type \in {"cmd", "port"}, NEW cc \in Nat,
           NEW slot \in HcSlots \cup {0}, Post(h, type, cc, slot),
           UNCHANGED <<evt_idx, evt_ccs, seen>>
    PROVE  /\ EvtAdded(type, cc, slot)
           /\ hc' \in HcForm /\ evt_ring' \in [EvtPlaces -> EvtForm]
           /\ hc'.cmd = h.cmd /\ hc'.ccs = h.ccs
<1>1. hc.evt \in EvtPlaces /\ hc.pcs \in {0, 1} /\ hc.no \in Nat
  BY DEF XhciForms, XhciTyped, HcForm
<1>2. (hc.evt + 1) % EvtRing = PlaceAfter(hc.evt) /\ PlaceAfter(hc.evt) \in EvtPlaces
  BY <1>1, EvtTurn
<1>3. PICK b \in {0, 1} :
          b = IF hc.evt + 1 = EvtRing THEN 1 - hc.pcs ELSE hc.pcs
  BY <1>1
<1>4. hc' = [h EXCEPT !.evt = PlaceAfter(hc.evt), !.no = hc.no + 1, !.pcs = b]
  BY <1>2, <1>3 DEF Post, HcForm
<1>5. hc' \in HcForm /\ hc'.cmd = h.cmd /\ hc'.ccs = h.ccs
  <2>1. hc.no + 1 \in Nat
    BY <1>1
  <2> QED BY <1>2, <1>4, <2>1 DEF HcForm
<1>6. [cycle |-> hc.pcs, no |-> hc.no + 1, type |-> type, cc |-> cc,
       slot |-> slot] \in EvtForm
  BY <1>1 DEF EvtForm
<1>7. evt_ring' = [evt_ring EXCEPT ![hc.evt] =
          [cycle |-> hc.pcs, no |-> hc.no + 1, type |-> type, cc |-> cc,
           slot |-> slot]]
  BY DEF Post
<1>8. evt_ring' \in [EvtPlaces -> EvtForm]
  BY <1>6, <1>7 DEF XhciForms, XhciTyped
<1>9. PlaceAfter(hc.evt) # evt_idx
  BY <1>2 DEF Post, Room
<1>10. /\ hc'.evt = PlaceAfter(hc.evt) /\ hc'.no = hc.no + 1
       /\ hc'.pcs = IF hc.evt + 1 = EvtRing THEN 1 - hc.pcs ELSE hc.pcs
  BY <1>3, <1>4 DEF HcForm
<1> QED BY <1>5, <1>7, <1>8, <1>9, <1>10 DEF EvtAdded

-----------------------------------------------------------------------------
(* Every step keeps the forms.                                             *)
LEMMA Onward ==
    ASSUME XhciAssumption, XhciForms, NextPort
    PROVE  enum' \in EnumForm /\ enum'.pc \in {"port", "active"}
<1>1. Scan(1) \in EnumForm /\ [Scan(1) EXCEPT !.pc = "active"] \in EnumForm
  BY XhciBounds DEF Scan, EnumForm, EnumSteps
<1>2. ASSUME enum.port + 1 \in Ports
      PROVE  Scan(enum.port + 1) \in EnumForm /\ Scan(enum.port + 1).pc = "port"
  BY <1>2 DEF Scan, EnumForm, EnumSteps
<1>3. [Scan(1) EXCEPT !.pc = "active"].pc = "active"
  BY DEF Scan
<1> QED BY <1>1, <1>2, <1>3 DEF NextPort

LEMMA StepTo ==
    ASSUME XhciForms, NEW p \in EnumSteps, enum' = [enum EXCEPT !.pc = p]
    PROVE  enum' \in EnumForm /\ enum'.pc = p /\ enum'.slot = enum.slot
           /\ enum'.port = enum.port
BY DEF XhciForms, XhciTyped, EnumForm

LEMMA SetUp ==
    ASSUME XhciAssumption, XhciForms, enum.pc = "configuring",
           hid' = Append(hid, enum.slot)
    PROVE  hid' \in Seq(HcSlots) /\ Len(hid') <= MAX_HID
<1>1. enum.slot \in HcSlots /\ Len(hid) < MAX_HID /\ hid \in Seq(HcSlots)
  BY DEF XhciForms, XhciTyped, EnumForm, Owning
<1> QED BY <1>1, XhciBounds

LEMMA SentForms ==
    ASSUME XhciAssumption, XhciForms, NEW type \in HcOps,
           NEW slot \in HcSlots \cup {0}, type # "enable" => slot # 0,
           NEW then \in Awaiting, Enqueue(type, slot, then),
           then # "enabling" => enum.slot # 0,
           then = "configuring" => Len(hid) < MAX_HID
    PROVE  XhciForms'
<1>1. enum' \in EnumForm /\ enum'.pc = then /\ enum'.slot = enum.slot
  BY StepTo DEF Enqueue, Awaiting, EnumSteps
<1> DEFINE trb == [cycle |-> cmd_pcs, no |-> made + 1, type |-> type,
                   slot |-> slot, port |-> enum.port]
           link == [NoCmd EXCEPT !.cycle = LinkCycle, !.type = "link"]
           wrap == cmd_idx + 1 >= CmdRing - 1
           put == [cmd_ring EXCEPT ![cmd_idx] = trb]
<1>2. enum.port \in Ports
  BY DEF XhciForms, XhciTyped, EnumForm
<1>3. trb \in CmdForm /\ link \in CmdForm
  <2>1. cmd_pcs \in {0, 1} /\ made + 1 \in Nat
    BY DEF XhciForms, XhciTyped
  <2>2. trb \in CmdForm
    BY <1>2, <2>1 DEF CmdForm
  <2>3. NoCmd \in CmdForm
    BY DEF NoCmd, CmdForm
  <2>4. link \in CmdForm
    BY <2>1, <2>3 DEF CmdForm, LinkCycle
  <2> QED BY <2>2, <2>4
<1>4. trb.type = type /\ trb.slot = slot /\ link.type = "link"
  BY DEF NoCmd
<1>5. cmd_ring' = IF wrap THEN [put EXCEPT ![CmdRing - 1] = link] ELSE put
  BY DEF Enqueue
<1> HIDE DEF trb, link
<1>6. cmd_idx \in 0 .. CmdRing - 2 /\ cmd_ring \in [CmdPlaces -> CmdForm]
  BY DEF XhciForms, XhciTyped
<1>7. put \in [CmdPlaces -> CmdForm]
  BY <1>3, <1>6
<1>8. cmd_ring' \in [CmdPlaces -> CmdForm]
  BY <1>3, <1>5, <1>7
<1>9. ASSUME NEW i \in 0 .. CmdRing - 2
      PROVE  cmd_ring'[i] = IF i = cmd_idx THEN trb ELSE cmd_ring[i]
  BY <1>5, <1>6, XhciBounds DEF CmdPlaces
<1>10. cmd_ring'[CmdRing - 1] = IF wrap THEN link ELSE cmd_ring[CmdRing - 1]
  BY <1>5, <1>6, XhciBounds DEF CmdPlaces
<1>11. cmd_ring'[CmdRing - 1].type \notin HcOps
  BY <1>4, <1>10 DEF XhciForms, HcOps
<1>12. ASSUME NEW i \in 0 .. CmdRing - 2
       PROVE  /\ cmd_ring'[i].type # "link"
              /\ cmd_ring'[i].type \in HcOps \ {"enable"} => cmd_ring'[i].slot # 0
  BY <1>4, <1>9 DEF XhciForms, HcOps
<1>13. cmd_idx' \in 0 .. CmdRing - 2 /\ cmd_pcs' \in {0, 1} /\ made' \in Nat
  <2>1. /\ cmd_idx' = IF wrap THEN 0 ELSE cmd_idx + 1
        /\ cmd_pcs' = IF wrap THEN 1 - cmd_pcs ELSE cmd_pcs
        /\ made' = made + 1
    BY DEF Enqueue
  <2>2. cmd_pcs \in {0, 1} /\ made \in Nat
    BY DEF XhciForms, XhciTyped
  <2> QED BY <2>1, <2>2, <1>6, XhciBounds
<1>14. XhciTyped'
  BY <1>1, <1>8, <1>13 DEF Enqueue, XhciForms, XhciTyped
<1>15. Len(hid') <= MAX_HID /\ hid' = hid
  BY DEF Enqueue, XhciForms, XhciTyped
<1>16. enum'.pc \in Owning => enum'.slot # 0
  BY <1>1 DEF Awaiting, Owning
<1>17. enum'.pc \in {"configure", "configuring"} => Len(hid') < MAX_HID
  BY <1>1, <1>15 DEF Awaiting
<1> QED BY <1>11, <1>12, <1>14, <1>16, <1>17 DEF XhciForms

(* Steps that leave the commands where they are.                           *)
LEMMA DriverForms ==
    ASSUME XhciForms, UNCHANGED <<cmd_ring, cmd_idx, cmd_pcs, made>>,
           evt_ring' \in [EvtPlaces -> EvtForm], evt_idx' \in EvtPlaces,
           evt_ccs' \in {0, 1}, hc' \in HcForm, slots' \in [HcSlots -> SlotForm],
           enum' \in EnumForm, hid' \in Seq(HcSlots), Len(hid') <= MAX_HID,
           done' \in Nat \X BOOLEAN, seen' \in Nat \X BOOLEAN,
           enum'.pc \in Owning => enum'.slot # 0,
           enum'.pc \in {"configure", "configuring"} => Len(hid') < MAX_HID
    PROVE  XhciForms'
<1>1. XhciTyped'
  BY DEF XhciForms, XhciTyped
<1> QED BY <1>1 DEF XhciForms

(* What the answer to a command says of the slots.                         *)
Outcome(cc, slot) ==
    LET trb == cmd_ring[hc.cmd] IN
    \/ cc # 1 /\ UNCHANGED slots
    \/ /\ trb.type = "enable" /\ slot \in FreeSlots
       /\ slots' = [slots EXCEPT ![slot].state = "enabled"]
    \/ /\ trb.type # "enable"
       /\ slots' = [slots EXCEPT ![trb.slot] =
                        [state |-> Becomes[trb.type], port |-> trb.port]]

LEMMA CarriedForms ==
    ASSUME XhciAssumption, XhciForms, CarryOut
    PROVE  /\ XhciForms' /\ CmdDone /\ UNCHANGED <<enum, hid>>
           /\ \E cc \in Nat, slot \in HcSlots \cup {0} :
                 EvtAdded("cmd", cc, slot) /\ Outcome(cc, slot)
<1> DEFINE trb == cmd_ring[hc.cmd]
           h == [hc EXCEPT !.cmd = @ + 1]
<1>1. hc \in HcForm /\ hc.cmd \in CmdPlaces
  BY DEF XhciForms, XhciTyped, HcForm
<1>2. trb \in CmdForm /\ trb.type \in HcOps /\ trb.cycle = hc.ccs
  BY <1>1 DEF CarryOut, XhciForms, XhciTyped
<1>3. hc.cmd \in 0 .. CmdRing - 2
  BY <1>1, <1>2, XhciBounds DEF XhciForms, CmdPlaces
<1>4. h.cmd \in CmdPlaces /\ h.cmd = hc.cmd + 1
  BY <1>1, <1>3, XhciBounds DEF CmdPlaces, HcForm
<1>5. h \in HcForm /\ h.evt = hc.evt /\ h.pcs = hc.pcs /\ h.no = hc.no /\ h.ccs = hc.ccs
  BY <1>1, <1>4 DEF HcForm
<1>6. trb.slot \in HcSlots \cup {0} /\ (trb.type # "enable" => trb.slot \in HcSlots)
      /\ trb.no \in Nat
  BY <1>2, <1>3 DEF XhciForms, CmdForm
<1> HIDE DEF trb, h
<1>7. UNCHANGED <<cmd_ring, cmd_idx, cmd_pcs, made, evt_idx, evt_ccs, enum, hid, seen>>
  BY DEF CarryOut, driver
<1>8. done' = <<trb.no, done[2] /\ trb.no = done[1] + 1>>
  BY DEF CarryOut, trb
<1>9. (done[2] /\ trb.no = done[1] + 1) \in BOOLEAN
  OBVIOUS
<1>10. done' \in Nat \X BOOLEAN
  BY <1>6, <1>8, <1>9
<1> DEFINE Result(cc, slot) ==
               /\ Post(h, "cmd", cc, slot) /\ slots' \in [HcSlots -> SlotForm]
               /\ Outcome(cc, slot)
<1>11. slots \in [HcSlots -> SlotForm]
  BY DEF XhciForms, XhciTyped
<1>12. \E cc \in Nat, slot \in HcSlots \cup {0} : Result(cc, slot)
  <2>1. CASE Post(h, "cmd", 4, trb.slot) /\ UNCHANGED slots
    BY <1>6, <1>11, <2>1 DEF Outcome
  <2>2. ASSUME trb.type = "enable", NEW s \in FreeSlots, Post(h, "cmd", 1, s),
               slots' = [slots EXCEPT ![s].state = "enabled"]
        PROVE  \E cc \in Nat, slot \in HcSlots \cup {0} : Result(cc, slot)
    <3>1. s \in HcSlots
      BY DEF FreeSlots
    <3>2. slots' \in [HcSlots -> SlotForm]
      BY <1>11, <2>2, <3>1 DEF SlotForm
    <3> QED BY <2>2, <3>1, <3>2 DEF Outcome, trb
  <2>3. CASE Post(h, "cmd", 9, 0) /\ UNCHANGED slots
    BY <1>11, <2>3 DEF Outcome
  <2>4. CASE /\ trb.type # "enable" /\ Post(h, "cmd", 1, trb.slot)
             /\ slots[trb.slot].state \in Allows[trb.type]
             /\ slots' = [slots EXCEPT ![trb.slot] =
                             [state |-> Becomes[trb.type], port |-> trb.port]]
    <3>1. trb.slot \in HcSlots /\ trb.port \in Ports \cup {0}
      BY <1>2, <1>6, <2>4 DEF CmdForm
    <3>2. Becomes[trb.type] \in {"default", "addressed", "configured"}
      BY <1>2, <2>4 DEF HcOps, Becomes
    <3>3. [state |-> Becomes[trb.type], port |-> trb.port] \in SlotForm
      BY <3>1, <3>2 DEF SlotForm
    <3>4. slots' \in [HcSlots -> SlotForm]
      BY <1>11, <2>4, <3>1, <3>3
    <3> QED BY <2>4, <3>1, <3>4 DEF Outcome, trb
  <2>5. CASE Post(h, "cmd", 19, trb.slot) /\ UNCHANGED slots
    BY <1>6, <1>11, <2>5 DEF Outcome
  <2> QED BY <2>1, <2>2, <2>3, <2>4, <2>5 DEF CarryOut, trb, h
<1>13. PICK cc \in Nat, slot \in HcSlots \cup {0} : Result(cc, slot)
  BY <1>12
<1>14. /\ EvtAdded("cmd", cc, slot) /\ hc' \in HcForm
       /\ evt_ring' \in [EvtPlaces -> EvtForm]
       /\ hc'.cmd = hc.cmd + 1 /\ hc'.ccs = hc.ccs
  BY <1>4, <1>5, <1>7, <1>13, Adds
<1>15. XhciForms'
  BY <1>7, <1>10, <1>13, <1>14, DriverForms DEF XhciForms, XhciTyped
<1>16. CmdDone
  BY <1>2, <1>7, <1>8, <1>14 DEF CmdDone, trb
<1> QED BY <1>7, <1>13, <1>14, <1>15, <1>16

(* Steps of the driver that take an event.                                 *)
Taking == \/ Enabled \/ Defaulted \/ Addressed \/ Configured \/ PassOver
          \/ x2_poll_one

LEMMA TakingForms ==
    ASSUME XhciAssumption, XhciForms, Taking
    PROVE  XhciForms' /\ EvtTaken /\ CmdSame
<1>1. /\ Advance /\ Posted
      /\ UNCHANGED <<cmd_ring, cmd_idx, cmd_pcs, evt_ring, hc, slots, made, done>>
  BY DEF Taking, Enabled, Defaulted, Addressed, Configured, Completed, PassOver,
         x2_poll_one
<1>2. /\ EvtTaken /\ evt_idx' \in EvtPlaces /\ evt_ccs' \in {0, 1}
      /\ seen' \in Nat \X BOOLEAN
  BY <1>1, Takes
<1>3. CmdSame
  BY <1>1 DEF CmdSame
<1> DEFINE Fits ==
        /\ enum' \in EnumForm /\ hid' \in Seq(HcSlots) /\ Len(hid') <= MAX_HID
        /\ enum'.pc \in Owning => enum'.slot # 0
        /\ enum'.pc \in {"configure", "configuring"} => Len(hid') < MAX_HID
<1>4. hid \in Seq(HcSlots) /\ Len(hid) <= MAX_HID
  BY DEF XhciForms, XhciTyped
<1>5. ASSUME NextPort, UNCHANGED hid PROVE Fits
  BY <1>4, <1>5, Onward DEF Owning
<1>6. Fits
  <2>1. CASE Enabled
    <3>1. CASE enum' = [enum EXCEPT !.pc = "slot"]
      BY <1>4, <2>1, <3>1, StepTo DEF Enabled, EnumSteps, Owning
    <3> QED BY <1>5, <2>1, <3>1 DEF Enabled
  <2>2. CASE Defaulted
    <3>1. enum.slot # 0
      BY <2>2 DEF Defaulted, Completed, XhciForms, Owning
    <3> QED BY <1>4, <2>2, <3>1, StepTo DEF Defaulted, EnumSteps
  <2>3. CASE Addressed
    <3>1. CASE enum' = [enum EXCEPT !.pc = "configure"] /\ Len(hid) < MAX_HID
      <4>1. enum.slot # 0
        BY <2>3 DEF Addressed, Completed, XhciForms, Owning
      <4> QED BY <1>4, <2>3, <3>1, <4>1, StepTo DEF Addressed, EnumSteps
    <3> QED BY <1>5, <2>3, <3>1 DEF Addressed
  <2>4. CASE Configured
    <3>1. hid' \in Seq(HcSlots) /\ Len(hid') <= MAX_HID
      BY <2>4, SetUp DEF Configured, Completed
    <3>2. enum' \in EnumForm /\ enum'.pc \in {"port", "active"}
      BY <2>4, Onward DEF Configured
    <3> QED BY <3>1, <3>2 DEF Owning
  <2>5. CASE UNCHANGED <<enum, hid>>
    BY <2>5 DEF XhciForms, XhciTyped
  <2> QED BY <2>1, <2>2, <2>3, <2>4, <2>5 DEF Taking, PassOver, x2_poll_one
<1>7. XhciForms'
  BY <1>1, <1>2, <1>6, DriverForms DEF XhciForms, XhciTyped
<1> QED BY <1>2, <1>3, <1>7

(* Steps of the driver that leave both rings alone.                        *)
Aside ==
    /\ UNCHANGED <<cmd_ring, cmd_idx, cmd_pcs, evt_ring, evt_idx, evt_ccs, hc,
                   slots, made, done, seen>>
    /\ \/ /\ enum.pc \in {"port", "slot", "configure"}
          /\ NextPort /\ UNCHANGED hid
       \/ /\ enum.pc = "port" /\ enum' = [enum EXCEPT !.pc = "enable"]
          /\ UNCHANGED hid
       \/ /\ enum.pc = "slot" /\ evt_ring[PlaceBefore(evt_idx)].slot # 0
          /\ enum' = [enum EXCEPT !.pc = "default",
                          !.slot = evt_ring[PlaceBefore(evt_idx)].slot]
          /\ UNCHANGED hid
       \/ /\ "timeout" \in HcFaults /\ enum.pc \in Awaiting
          /\ \/ NextPort /\ UNCHANGED hid
             \/ /\ enum.pc = "defaulting"
                /\ enum' = [enum EXCEPT !.pc = "address"] /\ UNCHANGED hid
             \/ /\ enum.pc = "configuring" /\ NextPort
                /\ hid' = Append(hid, enum.slot)

(* And those that write a command.                                         *)
Submitting ==
    \/ enum.pc = "enable" /\ Enqueue("enable", 0, "enabling")
    \/ enum.pc = "default" /\ Enqueue("default", enum.slot, "defaulting")
    \/ enum.pc = "address" /\ Enqueue("address", enum.slot, "addressing")
    \/ enum.pc = "configure" /\ Enqueue("configure", enum.slot, "configuring")

LEMMA XhciSteps ==
    ASSUME XhciAssumption, XhciForms, XhciNext
    PROVE  Taking \/ Aside \/ Submitting \/ CarryOut \/ FollowLink \/ PortChange
<1>1. evt_idx \in EvtPlaces
  BY DEF XhciForms, XhciTyped
<1>2. CASE ResetPort
  BY <1>2 DEF ResetPort, Aside
<1>3. CASE ReadSlot
  <2>1. (evt_idx + EvtRing - 1) % EvtRing = PlaceBefore(evt_idx)
    BY <1>1, EvtTurn
  <2> QED BY <1>3, <2>1 DEF ReadSlot, Aside
<1>4. CASE ConfigureSlot
  BY <1>4 DEF ConfigureSlot, Aside, Submitting
<1>5. CASE TimedOut
  BY <1>5 DEF TimedOut, Aside
<1>6. CASE EnableSlot \/ DefaultSlot \/ AddressSlot
  BY <1>6 DEF EnableSlot, DefaultSlot, AddressSlot, Submitting
<1> QED BY <1>2, <1>3, <1>4, <1>5, <1>6 DEF XhciNext, Taking

LEMMA AsideForms ==
    ASSUME XhciAssumption, XhciForms, Aside
    PROVE  XhciForms'
<1> DEFINE Fits ==
        /\ enum' \in EnumForm /\ hid' \in Seq(HcSlots) /\ Len(hid') <= MAX_HID
        /\ enum'.pc \in Owning => enum'.slot # 0
        /\ enum'.pc \in {"configure", "configuring"} => Len(hid') < MAX_HID
           s == evt_ring[PlaceBefore(evt_idx)].slot
<1>1. hid \in Seq(HcSlots) /\ Len(hid) <= MAX_HID /\ enum \in EnumForm
  BY DEF XhciForms, XhciTyped
<1>2. Fits
  <2>1. CASE NextPort /\ UNCHANGED hid
    BY <1>1, <2>1, Onward DEF Owning
  <2>2. CASE enum.pc = "port" /\ enum' = [enum EXCEPT !.pc = "enable"] /\ UNCHANGED hid
    BY <1>1, <2>2, StepTo DEF EnumSteps, Owning
  <2>3. CASE /\ s # 0 /\ UNCHANGED hid
             /\ enum' = [enum EXCEPT !.pc = "default", !.slot = s]
    <3>1. PlaceBefore(evt_idx) \in EvtPlaces
      BY EvtTurn DEF XhciForms, XhciTyped
    <3>2. s \in HcSlots \cup {0}
      BY <3>1 DEF XhciForms, XhciTyped, EvtForm
    <3> HIDE DEF s
    <3>3. enum' \in EnumForm /\ enum'.pc = "default" /\ enum'.slot = s
      BY <1>1, <2>3, <3>2 DEF EnumForm, EnumSteps
    <3> QED BY <1>1, <2>3, <3>3
  <2>4. CASE enum.pc = "defaulting" /\ enum' = [enum EXCEPT !.pc = "address"]
             /\ UNCHANGED hid
    <3>1. enum.slot # 0
      BY <2>4 DEF XhciForms, Owning
    <3> QED BY <1>1, <2>4, <3>1, StepTo DEF EnumSteps
  <2>5. CASE enum.pc = "configuring" /\ NextPort /\ hid' = Append(hid, enum.slot)
    <3>1. hid' \in Seq(HcSlots) /\ Len(hid') <= MAX_HID
      BY <2>5, SetUp
    <3>2. enum' \in EnumForm /\ enum'.pc \in {"port", "active"}
      BY <2>5, Onward
    <3> QED BY <3>1, <3>2 DEF Owning
  <2> QED BY <2>1, <2>2, <2>3, <2>4, <2>5 DEF Aside
<1> QED BY <1>2, DriverForms DEF Aside, XhciForms, XhciTyped

LEMMA SendingForms ==
    ASSUME XhciAssumption, XhciForms, Submitting
    PROVE  XhciForms' /\ EvtSame
<1>1. enum.slot \in HcSlots \cup {0} /\ 0 \in HcSlots \cup {0}
  BY DEF XhciForms, XhciTyped, EnumForm
<1>2. CASE enum.pc = "enable" /\ Enqueue("enable", 0, "enabling")
  BY <1>1, <1>2, SentForms DEF HcOps, Awaiting, Enqueue, EvtSame
<1>3. CASE enum.pc = "default" /\ Enqueue("default", enum.slot, "defaulting")
  <2>1. enum.slot # 0
    BY <1>3 DEF XhciForms, Owning
  <2> QED BY <1>1, <1>3, <2>1, SentForms DEF HcOps, Awaiting, Enqueue, EvtSame
<1>4. CASE enum.pc = "address" /\ Enqueue("address", enum.slot, "addressing")
  <2>1. enum.slot # 0
    BY <1>4 DEF XhciForms, Owning
  <2> QED BY <1>1, <1>4, <2>1, SentForms DEF HcOps, Awaiting, Enqueue, EvtSame
<1>5. CASE enum.pc = "configure" /\ Enqueue("configure", enum.slot, "configuring")
  <2>1. enum.slot # 0 /\ Len(hid) < MAX_HID
    BY <1>5 DEF XhciForms, Owning
  <2> QED BY <1>1, <1>5, <2>1, SentForms DEF HcOps, Awaiting, Enqueue, EvtSame
<1> QED BY <1>2, <1>3, <1>4, <1>5 DEF Submitting

LEMMA LinkForms ==
    ASSUME XhciAssumption, XhciForms, FollowLink
    PROVE  XhciForms' /\ EvtSame
<1>1. hc \in HcForm /\ hc' = [hc EXCEPT !.cmd = 0, !.ccs = 1 - @]
  BY DEF FollowLink, XhciForms, XhciTyped
<1>2. hc' \in HcForm /\ hc'.evt = hc.evt /\ hc'.pcs = hc.pcs /\ hc'.no = hc.no
  <2>1. 0 \in CmdPlaces
    BY XhciBounds DEF CmdPlaces
  <2>2. 1 - hc.ccs \in {0, 1}
    BY <1>1 DEF HcForm
  <2> QED BY <1>1, <2>1, <2>2 DEF HcForm
<1> QED BY <1>2, DriverForms DEF FollowLink, driver, XhciForms, XhciTyped, EvtSame

LEMMA ChangeForms ==
    ASSUME XhciAssumption, XhciForms, PortChange
    PROVE  XhciForms' /\ CmdSame /\ EvtAdded("port", 1, 0)
<1> DEFINE h == [hc EXCEPT !.left = @ - 1]
<1>1. /\ h \in HcForm /\ h.evt = hc.evt /\ h.pcs = hc.pcs /\ h.no = hc.no
      /\ h.cmd = hc.cmd /\ h.ccs = hc.ccs
  <2>1. hc \in HcForm
    BY DEF XhciForms, XhciTyped
  <2>2. hc.left - 1 \in Nat
    BY <2>1 DEF PortChange, HcForm
  <2> QED BY <2>1, <2>2 DEF HcForm
<1>2. Post(h, "port", 1, 0) /\ UNCHANGED <<slots, done, driver>>
  BY DEF PortChange
<1> HIDE DEF h
<1>3. UNCHANGED <<cmd_ring, cmd_idx, cmd_pcs, evt_idx, evt_ccs, enum, hid, made, seen,
                  slots, done>>
  BY <1>2 DEF driver
<1>4. /\ EvtAdded("port", 1, 0) /\ hc' \in HcForm
      /\ evt_ring' \in [EvtPlaces -> EvtForm]
      /\ hc'.cmd = hc.cmd /\ hc'.ccs = hc.ccs
  BY <1>1, <1>2, <1>3, Adds
<1>5. XhciForms'
  BY <1>3, <1>4, DriverForms DEF XhciForms, XhciTyped
<1> QED BY <1>3, <1>4, <1>5 DEF CmdSame

LEMMA FormsNext ==
    ASSUME XhciAssumption, XhciForms, [XhciNext]_xhciVars
    PROVE  XhciForms'
<1>1. CASE XhciNext
  BY <1>1, XhciSteps, TakingForms, AsideForms, SendingForms, CarriedForms,
     LinkForms, ChangeForms
<1>2. CASE UNCHANGED xhciVars
  BY <1>2 DEF xhciVars, XhciForms, XhciTyped
<1> QED BY <1>1, <1>2

LEMMA FormsShow == ASSUME XhciForms PROVE XhciTypeOK
<1>1. ASSUME NEW s \in HcSlots
      PROVE  /\ slots[s].port \in Ports \cup {0}
             /\ slots[s].state \in {"off", "enabled", "default", "addressed",
                                   "configured"}
  BY DEF XhciForms, XhciTyped, SlotForm
<1>2. ASSUME NEW i \in DOMAIN evt_ring PROVE evt_ring[i].slot \in HcSlots \cup {0}
  BY DEF XhciForms, XhciTyped, EvtForm
<1>3. hc.cmd \in 0 .. CmdRing - 1 /\ hc.evt \in 0 .. EvtRing - 1
  BY DEF XhciForms, XhciTyped, HcForm, CmdPlaces, EvtPlaces
<1>4. enum.slot \in HcSlots \cup {0} /\ evt_idx \in 0 .. EvtRing - 1
  BY DEF XhciForms, XhciTyped, EnumForm, EvtPlaces
<1> QED BY <1>1, <1>2, <1>3, <1>4 DEF XhciTypeOK, XhciForms, XhciTyped

-----------------------------------------------------------------------------
(* The ring of events.  Until its place passes the end of the ring, the    *)
(* controller writes one cycle bit, and behind its place stands the other; *)
(* the driver expects the bit of the round it is in.  So the entries that  *)
(* are unread are those from the driver's place to the controller's, with  *)
(* the numbers that come next.                                             *)
Unread(i) == IF evt_ccs = hc.pcs THEN evt_idx <= i /\ i < hc.evt
             ELSE evt_idx <= i \/ i < hc.evt
EvtsAhead == IF evt_ccs = hc.pcs THEN hc.evt - evt_idx
             ELSE hc.evt + EvtRing - evt_idx
EventNo(i) == IF i < hc.evt THEN hc.no + 1 - hc.evt + i
              ELSE hc.no + 1 - hc.evt - EvtRing + i

EventsPlaced ==
    /\ IF evt_ccs = hc.pcs THEN evt_idx <= hc.evt ELSE hc.evt < evt_idx
    /\ seen[1] + EvtsAhead = hc.no /\ seen[2]
    /\ \A i \in EvtPlaces :
          /\ evt_ring[i].cycle = IF i < hc.evt THEN hc.pcs ELSE 1 - hc.pcs
          /\ Unread(i) => evt_ring[i].no = EventNo(i)

LEMMA EventsStart == ASSUME XhciAssumption, XhciInit PROVE EventsPlaced
BY XhciBounds DEF XhciInit, EventsPlaced, EvtsAhead, Unread, EventNo, NoEvent, EvtPlaces

LEMMA EventTypes ==
    ASSUME XhciAssumption, XhciForms
    PROVE  /\ EvtRing \in Nat /\ EvtRing > 1 /\ evt_idx \in 0 .. EvtRing - 1
           /\ evt_ccs \in {0, 1} /\ hc.pcs \in {0, 1} /\ hc.evt \in 0 .. EvtRing - 1
           /\ hc.no \in Nat /\ seen[1] \in Nat /\ seen[2] \in BOOLEAN
           /\ evt_ring \in [EvtPlaces -> EvtForm]
BY XhciBounds DEF XhciForms, XhciTyped, HcForm, EvtPlaces

(* The driver sees an event when there is one that is unread.              *)
LEMMA PostedIsUnread ==
    ASSUME XhciAssumption, XhciForms, EventsPlaced
    PROVE  Posted <=> Unread(evt_idx)
<1>1. evt_idx \in EvtPlaces
  BY DEF XhciForms, XhciTyped
<1>2. evt_ring[evt_idx].cycle = IF evt_idx < hc.evt THEN hc.pcs ELSE 1 - hc.pcs
  BY <1>1 DEF EventsPlaced
<1> QED BY <1>2, EventTypes DEF Posted, NextEvent, Unread, EventsPlaced

LEMMA EventsTaken ==
    ASSUME XhciAssumption, XhciForms, EventsPlaced, EvtTaken
    PROVE  /\ EventsPlaced'
           /\ \A i \in EvtPlaces : Unread(i)' <=> Unread(i) /\ i # evt_idx
<1>1. Unread(evt_idx) /\ evt_idx \in EvtPlaces
  BY PostedIsUnread DEF EvtTaken, XhciForms, XhciTyped
<1>2. evt_ring[evt_idx].no = EventNo(evt_idx)
  BY <1>1 DEF EventsPlaced
<1>3. ASSUME NEW i \in EvtPlaces
      PROVE  Unread(i)' <=> Unread(i) /\ i # evt_idx
  <2>1. i \in 0 .. EvtRing - 1
    BY DEF EvtPlaces
  <2>2. IF evt_ccs = hc.pcs THEN evt_idx <= hc.evt ELSE hc.evt < evt_idx
    BY DEF EventsPlaced
  <2>3. CASE evt_idx + 1 = EvtRing
    <3>1. evt_idx' = 0 /\ evt_ccs' = 1 - evt_ccs /\ hc' = hc
      BY <2>3 DEF EvtTaken, PlaceAfter
    <3> QED BY <1>1, <2>1, <2>2, <2>3, <3>1, EventTypes DEF Unread
  <2>4. CASE evt_idx + 1 # EvtRing
    <3>1. evt_idx' = evt_idx + 1 /\ evt_ccs' = evt_ccs /\ hc' = hc
      BY <2>4 DEF EvtTaken, PlaceAfter
    <3> QED BY <1>1, <2>1, <2>2, <3>1, EventTypes DEF Unread
  <2> QED BY <2>3, <2>4
<1>4. IF evt_ccs' = hc'.pcs THEN evt_idx' <= hc'.evt ELSE hc'.evt < evt_idx'
  BY <1>1, EventTypes DEF EvtTaken, PlaceAfter, Unread, EventsPlaced
<1>5. EvtsAhead' = EvtsAhead - 1
  BY <1>1, EventTypes DEF EvtTaken, PlaceAfter, Unread, EvtsAhead, EventsPlaced
<1>6. EventNo(evt_idx) = seen[1] + 1
  BY <1>1, EventTypes DEF EventNo, EventsPlaced, EvtsAhead, Unread
<1>7. seen'[1] = seen[1] + 1 /\ seen'[2]
  BY <1>2, <1>6 DEF EvtTaken, NextEvent, EventsPlaced
<1>8. seen'[1] + EvtsAhead' = hc'.no
  BY <1>5, <1>7, EventTypes DEF EvtTaken, EventsPlaced, EvtsAhead
<1>9. ASSUME NEW i \in EvtPlaces
      PROVE  /\ evt_ring'[i].cycle = IF i < hc'.evt THEN hc'.pcs ELSE 1 - hc'.pcs
             /\ Unread(i)' => evt_ring'[i].no = EventNo(i)'
  BY <1>3 DEF EvtTaken, EventsPlaced, EventNo
<1> QED BY <1>3, <1>4, <1>7, <1>8, <1>9 DEF EventsPlaced

LEMMA EventsAdded ==
    ASSUME XhciAssumption, XhciForms, EventsPlaced, NEW type, NEW cc, NEW slot,
           EvtAdded(type, cc, slot)
    PROVE  /\ EventsPlaced'
           /\ \A i \in EvtPlaces : Unread(i)' <=> Unread(i) \/ i = hc.evt
           /\ ~Unread(hc.evt) /\ hc.evt \in EvtPlaces
<1>1. hc.evt \in EvtPlaces
  BY EventTypes DEF EvtPlaces
<1>2. ~Unread(hc.evt)
  BY EventTypes DEF Unread, EventsPlaced
<1> DEFINE e == [cycle |-> hc.pcs, no |-> hc.no + 1, type |-> type, cc |-> cc,
                 slot |-> slot]
<1>3. e.cycle = hc.pcs /\ e.no = hc.no + 1
  OBVIOUS
<1>4. evt_ring' = [evt_ring EXCEPT ![hc.evt] = e]
  BY DEF EvtAdded
<1> HIDE DEF e
<1>5. ASSUME NEW i \in EvtPlaces
      PROVE  evt_ring'[i] = IF i = hc.evt THEN e ELSE evt_ring[i]
  BY <1>4, EventTypes
<1>6. ASSUME NEW i \in EvtPlaces
      PROVE  Unread(i)' <=> Unread(i) \/ i = hc.evt
  BY EventTypes DEF EvtAdded, PlaceAfter, Unread, EventsPlaced, EvtPlaces
<1>7. IF evt_ccs' = hc'.pcs THEN evt_idx' <= hc'.evt ELSE hc'.evt < evt_idx'
  BY EventTypes DEF EvtAdded, PlaceAfter, EventsPlaced
<1>8. EvtsAhead' = EvtsAhead + 1
  BY EventTypes DEF EvtAdded, PlaceAfter, EvtsAhead, EventsPlaced
<1>9. seen'[1] + EvtsAhead' = hc'.no /\ seen'[2]
  BY <1>8, EventTypes DEF EvtAdded, EventsPlaced, EvtsAhead
<1>10. ASSUME NEW i \in EvtPlaces
       PROVE  evt_ring'[i].cycle = IF i < hc'.evt THEN hc'.pcs ELSE 1 - hc'.pcs
  <2>1. CASE i = hc.evt
    BY <1>3, <1>5, <2>1, EventTypes DEF EvtAdded, PlaceAfter
  <2>2. CASE i # hc.evt
    <3>1. evt_ring'[i].cycle = IF i < hc.evt THEN hc.pcs ELSE 1 - hc.pcs
      BY <1>5, <2>2 DEF EventsPlaced
    <3> QED BY <2>2, <3>1, EventTypes DEF EvtAdded, PlaceAfter, EvtPlaces
  <2> QED BY <2>1, <2>2
<1>11. ASSUME NEW i \in EvtPlaces, Unread(i)'
       PROVE  evt_ring'[i].no = EventNo(i)'
  <2>1. CASE i = hc.evt
    BY <1>3, <1>5, <2>1, EventTypes DEF EvtAdded, PlaceAfter, EventNo
  <2>2. CASE i # hc.evt
    <3>1. evt_ring'[i].no = EventNo(i)
      BY <1>5, <1>6, <1>11, <2>2 DEF EventsPlaced
    <3>2. EventNo(i)' = EventNo(i)
      <4>1. /\ hc'.evt = IF hc.evt + 1 = EvtRing THEN 0 ELSE hc.evt + 1
            /\ hc'.no = hc.no + 1
        BY DEF EvtAdded, PlaceAfter
      <4>2. i \in Nat /\ i < EvtRing
        BY EventTypes DEF EvtPlaces
      <4> QED BY <2>2, <4>1, <4>2, EventTypes DEF EventNo
    <3> QED BY <3>1, <3>2
  <2> QED BY <2>1, <2>2
<1> QED BY <1>1, <1>2, <1>6, <1>7, <1>9, <1>10, <1>11 DEF EventsPlaced

LEMMA EventsSame ==
    ASSUME EventsPlaced, EvtSame
    PROVE  EventsPlaced' /\ \A i \in EvtPlaces : Unread(i)' <=> Unread(i)
BY DEF EvtSame, EventsPlaced, Unread, EvtsAhead, EventNo

LEMMA EventsNext ==
    ASSUME XhciAssumption, XhciForms, EventsPlaced, [XhciNext]_xhciVars
    PROVE  EventsPlaced'
<1>1. CASE Aside \/ UNCHANGED xhciVars
  BY <1>1, EventsSame DEF Aside, xhciVars, EvtSame
<1>2. CASE XhciNext
  BY <1>1, <1>2, XhciSteps, TakingForms, SendingForms, CarriedForms, LinkForms,
     ChangeForms, EventsSame, EventsTaken, EventsAdded
<1> QED BY <1>1, <1>2

(* Every event the controller posts is taken once, in its order, whatever  *)
(* the driver waits for and gives up (x2_cmd, x2_poll_one).                *)
THEOREM EventsKeepOrder ==
    ASSUME XhciAssumption PROVE XhciSpec => [](XhciTypeOK /\ EventsInOrder)
<1>1. XhciInit => XhciForms /\ EventsPlaced
  BY XhciStart, EventsStart
<1>2. XhciForms /\ EventsPlaced /\ [XhciNext]_xhciVars => (XhciForms /\ EventsPlaced)'
  BY FormsNext, EventsNext
<1>3. XhciForms /\ EventsPlaced => XhciTypeOK /\ EventsInOrder
  <2>1. ASSUME XhciForms, EventsPlaced PROVE seen[2] /\ seen[1] <= hc.no
    BY <2>1, EventTypes DEF EventsPlaced, EvtsAhead
  <2> QED BY <2>1, FormsShow DEF EventsInOrder
<1> QED BY <1>1, <1>2, <1>3, PTL DEF XhciSpec

-----------------------------------------------------------------------------
(* The ring of commands, when it is never full: with 32 entries it is not  *)
(* unless a wait can end early and more than seven ports are set up.       *)
Roomy ==
    /\ CmdRing > 2
    /\ "timeout" \in HcFaults => 4 * Cardinality(Ports) < CmdRing - 1

(* As in the ring of events; the link at the end is the controller's when  *)
(* the driver has gone round and the controller has not.                   *)
Unfetched(i) == IF hc.ccs = cmd_pcs THEN hc.cmd <= i /\ i < cmd_idx
                ELSE hc.cmd <= i \/ i < cmd_idx
CmdsAhead == IF hc.ccs = cmd_pcs THEN cmd_idx - hc.cmd
             ELSE cmd_idx + CmdRing - 1 - hc.cmd
CommandNo(i) == IF i < cmd_idx THEN made + 1 - cmd_idx + i
                ELSE made + 2 - cmd_idx - CmdRing + i

CommandsPlaced ==
    /\ IF hc.ccs = cmd_pcs THEN hc.cmd <= cmd_idx ELSE cmd_idx < hc.cmd
    /\ done[1] + CmdsAhead = made /\ done[2]
    /\ cmd_ring[CmdRing - 1].cycle = 1 - cmd_pcs
    /\ hc.ccs # cmd_pcs => cmd_ring[CmdRing - 1].type = "link"
    /\ \A i \in 0 .. CmdRing - 2 :
          /\ cmd_ring[i].cycle = IF i < cmd_idx THEN cmd_pcs ELSE 1 - cmd_pcs
          /\ Unfetched(i) => cmd_ring[i].no = CommandNo(i)

LEMMA CmdTypes ==
    ASSUME XhciAssumption, XhciForms
    PROVE  /\ CmdRing \in Nat /\ CmdRing > 1 /\ cmd_idx \in 0 .. CmdRing - 2
           /\ cmd_pcs \in {0, 1} /\ hc.ccs \in {0, 1} /\ hc.cmd \in 0 .. CmdRing - 1
           /\ made \in Nat /\ done[1] \in Nat /\ done[2] \in BOOLEAN
           /\ cmd_ring \in [CmdPlaces -> CmdForm]
BY XhciBounds DEF XhciForms, XhciTyped, HcForm, CmdPlaces

LEMMA CommandsStart == ASSUME XhciAssumption, XhciInit PROVE CommandsPlaced
<1>1. \A i \in CmdPlaces : cmd_ring[i].cycle = 0
  BY DEF XhciInit, NoCmd, CmdPlaces
<1> QED BY <1>1, XhciBounds
        DEF XhciInit, CommandsPlaced, CmdsAhead, Unfetched, CmdPlaces

(* The controller sees a command when one is outstanding, or its link.     *)
LEMMA AheadIsSeen ==
    ASSUME XhciAssumption, XhciForms, CommandsPlaced, CmdsAhead > 0
    PROVE  cmd_ring[hc.cmd].cycle = hc.ccs
<1>1. CASE hc.cmd = CmdRing - 1
  BY <1>1, CmdTypes DEF CommandsPlaced, CmdsAhead
<1>2. CASE hc.cmd \in 0 .. CmdRing - 2
  <2>1. cmd_ring[hc.cmd].cycle = IF hc.cmd < cmd_idx THEN cmd_pcs ELSE 1 - cmd_pcs
    BY <1>2 DEF CommandsPlaced
  <2> QED BY <2>1, CmdTypes DEF CommandsPlaced, CmdsAhead
<1> QED BY <1>1, <1>2, CmdTypes

LEMMA CommandsSame ==
    ASSUME CommandsPlaced, CmdSame
    PROVE  /\ CommandsPlaced' /\ CmdsAhead' = CmdsAhead
           /\ \A i \in 0 .. CmdRing - 2 : Unfetched(i)' <=> Unfetched(i)
BY DEF CmdSame, CommandsPlaced, Unfetched, CmdsAhead, CommandNo

LEMMA CommandsDone ==
    ASSUME XhciAssumption, XhciForms, CommandsPlaced, CmdDone
    PROVE  /\ CommandsPlaced' /\ CmdsAhead' = CmdsAhead - 1
           /\ hc.cmd \in 0 .. CmdRing - 2 /\ Unfetched(hc.cmd)
           /\ \A i \in 0 .. CmdRing - 2 : Unfetched(i)' => Unfetched(i)
<1>1. hc.cmd \in 0 .. CmdRing - 2
  BY CmdTypes DEF CmdDone, XhciForms
<1>2. cmd_ring[hc.cmd].cycle = IF hc.cmd < cmd_idx THEN cmd_pcs ELSE 1 - cmd_pcs
  BY <1>1 DEF CommandsPlaced
<1>3. Unfetched(hc.cmd)
  BY <1>1, <1>2, CmdTypes DEF CmdDone, CommandsPlaced, Unfetched
<1>4. ASSUME NEW i \in 0 .. CmdRing - 2 PROVE Unfetched(i)' => Unfetched(i)
  BY <1>1, CmdTypes DEF CmdDone, Unfetched
<1>5. CmdsAhead' = CmdsAhead - 1
  BY <1>1, CmdTypes DEF CmdDone, CmdsAhead
<1>6. cmd_ring[hc.cmd].no = CommandNo(hc.cmd)
  BY <1>1, <1>3 DEF CommandsPlaced
<1>7. CommandNo(hc.cmd) = done[1] + 1
  BY <1>1, <1>3, CmdTypes DEF CommandNo, CommandsPlaced, CmdsAhead, Unfetched
<1>8. done'[1] = done[1] + 1 /\ done'[2]
  BY <1>6, <1>7 DEF CmdDone, CommandsPlaced
<1>9. done'[1] + CmdsAhead' = made'
  BY <1>1, <1>5, <1>8, CmdTypes DEF CmdDone, CommandsPlaced, CmdsAhead
<1>10. IF hc'.ccs = cmd_pcs' THEN hc'.cmd <= cmd_idx' ELSE cmd_idx' < hc'.cmd
  BY <1>1, <1>3, CmdTypes DEF CmdDone, CommandsPlaced, Unfetched
<1>11. ASSUME NEW i \in 0 .. CmdRing - 2
       PROVE  /\ cmd_ring'[i].cycle = IF i < cmd_idx' THEN cmd_pcs' ELSE 1 - cmd_pcs'
              /\ Unfetched(i)' => cmd_ring'[i].no = CommandNo(i)'
  BY <1>4 DEF CmdDone, CommandsPlaced, CommandNo
<1>12. /\ cmd_ring'[CmdRing - 1].cycle = 1 - cmd_pcs'
       /\ hc'.ccs # cmd_pcs' => cmd_ring'[CmdRing - 1].type = "link"
  BY DEF CmdDone, CommandsPlaced
<1> QED BY <1>1, <1>3, <1>4, <1>5, <1>8, <1>9, <1>10, <1>11, <1>12 DEF CommandsPlaced

LEMMA CommandsLinked ==
    ASSUME XhciAssumption, XhciForms, CommandsPlaced, FollowLink
    PROVE  /\ CommandsPlaced' /\ CmdsAhead' = CmdsAhead
           /\ \A i \in 0 .. CmdRing - 2 : Unfetched(i)' <=> Unfetched(i)
<1>1. hc.cmd = CmdRing - 1
  BY CmdTypes DEF FollowLink, XhciForms
<1>2. hc.ccs = 1 - cmd_pcs
  BY <1>1 DEF FollowLink, CommandsPlaced
<1>3. hc'.cmd = 0 /\ hc'.ccs = cmd_pcs
  <2>1. hc \in HcForm /\ hc' = [hc EXCEPT !.cmd = 0, !.ccs = 1 - @]
    BY DEF FollowLink, XhciForms, XhciTyped
  <2> QED BY <1>2, <2>1, CmdTypes DEF HcForm
<1>4. UNCHANGED <<cmd_ring, cmd_idx, cmd_pcs, made, done>>
  BY DEF FollowLink, driver
<1>5. ASSUME NEW i \in 0 .. CmdRing - 2 PROVE Unfetched(i)' <=> Unfetched(i)
  BY <1>1, <1>2, <1>3, <1>4, CmdTypes DEF Unfetched
<1>6. CmdsAhead' = CmdsAhead
  BY <1>1, <1>2, <1>3, <1>4, CmdTypes DEF CmdsAhead
<1>7. ASSUME NEW i \in 0 .. CmdRing - 2
      PROVE  /\ cmd_ring'[i].cycle = IF i < cmd_idx' THEN cmd_pcs' ELSE 1 - cmd_pcs'
             /\ Unfetched(i)' => cmd_ring'[i].no = CommandNo(i)'
  BY <1>4, <1>5 DEF CommandsPlaced, CommandNo
<1>8. hc'.cmd <= cmd_idx'
  BY <1>3, <1>4, CmdTypes
<1> QED BY <1>3, <1>4, <1>5, <1>6, <1>7, <1>8 DEF CommandsPlaced

LEMMA CommandsSent ==
    ASSUME XhciAssumption, XhciForms, CommandsPlaced, CmdsAhead < CmdRing - 2,
           NEW type, NEW slot, NEW then, Enqueue(type, slot, then)
    PROVE  /\ CommandsPlaced' /\ CmdsAhead' = CmdsAhead + 1
           /\ cmd_ring'[cmd_idx].type = type /\ cmd_ring'[cmd_idx].slot = slot
           /\ \A i \in 0 .. CmdRing - 2 : Unfetched(i)' <=> Unfetched(i) \/ i = cmd_idx
<1> DEFINE trb == [cycle |-> cmd_pcs, no |-> made + 1, type |-> type,
                   slot |-> slot, port |-> enum.port]
           link == [NoCmd EXCEPT !.cycle = LinkCycle, !.type = "link"]
           wrap == cmd_idx + 1 >= CmdRing - 1
<1>1. /\ trb.cycle = cmd_pcs /\ trb.no = made + 1 /\ trb.type = type /\ trb.slot = slot
      /\ link.cycle = cmd_pcs /\ link.type = "link"
  BY DEF NoCmd, LinkCycle
<1>2. cmd_ring' = IF wrap THEN [[cmd_ring EXCEPT ![cmd_idx] = trb]
                                   EXCEPT ![CmdRing - 1] = link]
                  ELSE [cmd_ring EXCEPT ![cmd_idx] = trb]
  BY DEF Enqueue
<1> HIDE DEF trb, link
<1>3. ASSUME NEW i \in 0 .. CmdRing - 2
      PROVE  cmd_ring'[i] = IF i = cmd_idx THEN trb ELSE cmd_ring[i]
  BY <1>2, CmdTypes DEF CmdPlaces
<1>4. cmd_ring'[CmdRing - 1] = IF wrap THEN link ELSE cmd_ring[CmdRing - 1]
  BY <1>2, CmdTypes DEF CmdPlaces
<1>5. /\ cmd_idx' = IF wrap THEN 0 ELSE cmd_idx + 1
      /\ cmd_pcs' = IF wrap THEN 1 - cmd_pcs ELSE cmd_pcs
      /\ made' = made + 1 /\ UNCHANGED <<hc, done>>
  BY DEF Enqueue
<1>6. IF hc.ccs = cmd_pcs' THEN hc.cmd <= cmd_idx' ELSE cmd_idx' < hc.cmd
  BY <1>5, CmdTypes DEF CommandsPlaced, CmdsAhead
<1>7. CmdsAhead' = CmdsAhead + 1
  BY <1>5, CmdTypes DEF CommandsPlaced, CmdsAhead
<1>8. ASSUME NEW i \in 0 .. CmdRing - 2
      PROVE  Unfetched(i)' <=> Unfetched(i) \/ i = cmd_idx
  BY <1>5, CmdTypes DEF CommandsPlaced, CmdsAhead, Unfetched
<1>9. done'[1] + CmdsAhead' = made' /\ done'[2]
  BY <1>5, <1>7, CmdTypes DEF CommandsPlaced, CmdsAhead
<1>10. cmd_ring'[CmdRing - 1].cycle = 1 - cmd_pcs'
  BY <1>1, <1>4, <1>5, CmdTypes DEF CommandsPlaced
<1>11. hc'.ccs # cmd_pcs' => cmd_ring'[CmdRing - 1].type = "link"
  BY <1>1, <1>4, <1>5 DEF CommandsPlaced
<1>12. ASSUME NEW i \in 0 .. CmdRing - 2
       PROVE  cmd_ring'[i].cycle = IF i < cmd_idx' THEN cmd_pcs' ELSE 1 - cmd_pcs'
  <2>1. CASE i = cmd_idx
    BY <1>1, <1>3, <1>5, <2>1, CmdTypes
  <2>2. CASE i # cmd_idx
    <3>1. cmd_ring'[i].cycle = IF i < cmd_idx THEN cmd_pcs ELSE 1 - cmd_pcs
      BY <1>3, <2>2 DEF CommandsPlaced
    <3> QED BY <1>5, <2>2, <3>1, CmdTypes
  <2> QED BY <2>1, <2>2
<1>13. ASSUME NEW i \in 0 .. CmdRing - 2, Unfetched(i)'
       PROVE  cmd_ring'[i].no = CommandNo(i)'
  <2>1. CASE i = cmd_idx
    BY <1>1, <1>3, <1>5, <2>1, CmdTypes DEF CommandNo
  <2>2. CASE i # cmd_idx
    <3>1. cmd_ring'[i].no = CommandNo(i)
      BY <1>3, <1>8, <1>13, <2>2 DEF CommandsPlaced
    <3>2. CommandNo(i)' = CommandNo(i)
      BY <1>5, <2>2, CmdTypes DEF CommandNo
    <3> QED BY <3>1, <3>2
  <2> QED BY <2>1, <2>2
<1>14. cmd_ring'[cmd_idx].type = type /\ cmd_ring'[cmd_idx].slot = slot
  BY <1>1, <1>3, CmdTypes
<1> QED BY <1>5, <1>6, <1>7, <1>8, <1>9, <1>10, <1>11, <1>12, <1>13, <1>14
        DEF CommandsPlaced

(* How many commands may have been sent: four for each port.               *)
Sent(p) == CASE p \in {"port", "enable"} -> 0
             [] p \in {"enabling", "slot", "default"} -> 1
             [] p \in {"defaulting", "address"} -> 2
             [] p \in {"addressing", "configure"} -> 3
             [] OTHER -> 4

FewSent ==
    /\ enum.pc # "active" => made <= 4 * (enum.port - 1) + Sent(enum.pc)
    /\ made <= 4 * Cardinality(Ports)

(* The steps of x2_enumerate_port.                                         *)
EnumMoves ==
    \/ UNCHANGED <<enum, made>>
    \/ enum.pc # "active" /\ NextPort /\ UNCHANGED made
    \/ /\ enum'.port = enum.port /\ enum.pc # "active" /\ enum'.pc # "active"
       /\ made' = made + Sent(enum'.pc) - Sent(enum.pc)

LEMMA OneMove ==
    ASSUME XhciAssumption, XhciForms, NEW p \in EnumSteps, NEW k \in 0 .. 1,
           enum' = [enum EXCEPT !.pc = p], p # "active", enum.pc # "active",
           Sent(p) = Sent(enum.pc) + k, made' = made + k
    PROVE  EnumMoves
<1>1. enum'.port = enum.port /\ enum'.pc = p
  BY StepTo
<1>2. Sent(enum.pc) \in Nat /\ made \in Nat
  BY DEF Sent, XhciForms, XhciTyped
<1>3. made' = made + Sent(p) - Sent(enum.pc)
  BY <1>2
<1> QED BY <1>1, <1>3 DEF EnumMoves

LEMMA StepMoves == ASSUME XhciAssumption, XhciForms, XhciNext PROVE EnumMoves
<1>1. made \in Nat /\ enum \in EnumForm /\ made + 0 = made
  BY DEF XhciForms, XhciTyped
<1>2. CASE Aside
  <2>1. CASE enum.pc = "port" /\ enum' = [enum EXCEPT !.pc = "enable"] /\ UNCHANGED made
    BY <1>1, <2>1, OneMove DEF EnumSteps, Sent
  <2>2. CASE enum.pc = "defaulting" /\ enum' = [enum EXCEPT !.pc = "address"]
             /\ UNCHANGED made
    BY <1>1, <2>2, OneMove DEF EnumSteps, Sent
  <2>3. CASE /\ enum.pc = "slot" /\ UNCHANGED made
             /\ enum' = [enum EXCEPT !.pc = "default",
                             !.slot = evt_ring[PlaceBefore(evt_idx)].slot]
    <3>1. enum'.port = enum.port /\ enum'.pc = "default"
      BY <1>1, <2>3 DEF EnumForm
    <3> QED BY <1>1, <2>3, <3>1 DEF EnumMoves, Sent
  <2> QED BY <1>2, <2>1, <2>2, <2>3 DEF Aside, EnumMoves, Awaiting
<1>3. CASE Taking
  <2>1. CASE Enabled
    BY <1>1, <2>1, OneMove DEF Enabled, Completed, EnumMoves, EnumSteps, Sent
  <2>2. CASE Defaulted
    BY <1>1, <2>2, OneMove DEF Defaulted, Completed, EnumSteps, Sent
  <2>3. CASE Addressed
    BY <1>1, <2>3, OneMove DEF Addressed, Completed, EnumMoves, EnumSteps, Sent
  <2>4. CASE Configured
    BY <2>4 DEF Configured, Completed, EnumMoves
  <2> QED BY <1>3, <2>1, <2>2, <2>3, <2>4 DEF Taking, PassOver, x2_poll_one, EnumMoves
<1>4. CASE Submitting
  <2>1. CASE enum.pc = "enable" /\ Enqueue("enable", 0, "enabling")
    BY <2>1, OneMove DEF Enqueue, EnumSteps, Sent
  <2>2. CASE enum.pc = "default" /\ Enqueue("default", enum.slot, "defaulting")
    BY <2>2, OneMove DEF Enqueue, EnumSteps, Sent
  <2>3. CASE enum.pc = "address" /\ Enqueue("address", enum.slot, "addressing")
    BY <2>3, OneMove DEF Enqueue, EnumSteps, Sent
  <2>4. CASE enum.pc = "configure" /\ Enqueue("configure", enum.slot, "configuring")
    BY <2>4, OneMove DEF Enqueue, EnumSteps, Sent
  <2> QED BY <1>4, <2>1, <2>2, <2>3, <2>4 DEF Submitting
<1>5. CASE CarryOut \/ FollowLink \/ PortChange
  BY <1>5 DEF CarryOut, FollowLink, PortChange, driver, EnumMoves
<1> QED BY <1>2, <1>3, <1>4, <1>5, XhciSteps

LEMMA FewNext ==
    ASSUME XhciAssumption, XhciForms, XhciForms', FewSent, EnumMoves
    PROVE  FewSent'
<1>1. /\ made \in Nat /\ enum.port \in Nat /\ Cardinality(Ports) \in Nat
      /\ enum'.port <= Cardinality(Ports) /\ made' \in Nat
  BY XhciBounds DEF XhciForms, XhciTyped, EnumForm
<1>2. Sent(enum.pc) \in 0 .. 4 /\ Sent(enum'.pc) \in 0 .. 4
  BY DEF Sent
<1>3. CASE enum.pc # "active" /\ NextPort /\ UNCHANGED made
  <2>1. CASE enum' = Scan(enum.port + 1)
    <3>1. enum'.port = enum.port + 1 /\ enum'.pc = "port" /\ Sent("port") = 0
      BY <2>1 DEF Scan, Sent
    <3> QED BY <1>1, <1>2, <1>3, <3>1 DEF FewSent
  <2>2. CASE enum' = [Scan(1) EXCEPT !.pc = "active"]
    BY <1>3, <2>2 DEF Scan, FewSent
  <2> QED BY <1>3, <2>1, <2>2 DEF NextPort
<1>4. CASE /\ enum'.port = enum.port /\ enum.pc # "active" /\ enum'.pc # "active"
           /\ made' = made + Sent(enum'.pc) - Sent(enum.pc)
  BY <1>1, <1>2, <1>4 DEF FewSent
<1>5. CASE UNCHANGED <<enum, made>>
  BY <1>5 DEF FewSent
<1> QED BY <1>3, <1>4, <1>5 DEF EnumMoves

(* While a command is waited for, it is outstanding or was answered.  If   *)
(* no wait ends early, only one command is on its way: no event of a       *)
(* command is left for a wait that comes later.                            *)
CmdAnswer(i) == Unread(i) /\ evt_ring[i].type = "cmd"

Expected ==
    enum.pc \in Awaiting => CmdsAhead > 0 \/ \E i \in EvtPlaces : CmdAnswer(i)

OneAtATime ==
    "timeout" \notin HcFaults =>
        /\ CmdsAhead \in 0 .. 1
        /\ enum.pc \notin Awaiting => CmdsAhead = 0
        /\ CmdsAhead > 0 \/ enum.pc \notin Awaiting =>
              \A i \in EvtPlaces : ~CmdAnswer(i)
        /\ \A i, j \in EvtPlaces : CmdAnswer(i) /\ CmdAnswer(j) => i = j

CmdInv == XhciForms /\ EventsPlaced /\ CommandsPlaced /\ FewSent
          /\ Expected /\ OneAtATime

LEMMA AheadTyped ==
    ASSUME XhciAssumption, XhciForms, CommandsPlaced
    PROVE  CmdsAhead \in Nat
BY CmdTypes DEF CommandsPlaced, CmdsAhead

(* There is room for the next command.                                     *)
LEMMA RoomForNext ==
    ASSUME XhciAssumption, Roomy, CmdInv,
           enum.pc \in {"enable", "default", "address", "configure"}
    PROVE  CmdsAhead < CmdRing - 2
<1>1. CmdsAhead \in Nat /\ CmdRing \in Nat /\ Cardinality(Ports) \in Nat
  BY AheadTyped, XhciBounds DEF CmdInv
<1>2. CASE "timeout" \notin HcFaults
  BY <1>1, <1>2 DEF Roomy, CmdInv, OneAtATime, Awaiting
<1>3. CASE "timeout" \in HcFaults
  <2>1. made <= 4 * (enum.port - 1) + 3
    <3>1. Sent(enum.pc) <= 3 /\ Sent(enum.pc) \in Nat
      BY DEF Sent
    <3>2. made <= 4 * (enum.port - 1) + Sent(enum.pc) /\ enum.port \in Nat
      BY XhciBounds DEF CmdInv, FewSent, XhciForms, XhciTyped, EnumForm
    <3> QED BY <3>1, <3>2, CmdTypes DEF CmdInv
  <2>2. enum.port <= Cardinality(Ports) /\ enum.port \in Nat
    BY XhciBounds DEF CmdInv, XhciForms, XhciTyped, EnumForm
  <2>3. CmdsAhead <= made
    BY <1>1, CmdTypes DEF CmdInv, CommandsPlaced
  <2> QED BY <1>1, <1>3, <2>1, <2>2, <2>3, CmdTypes DEF Roomy, CmdInv
<1> QED BY <1>2, <1>3

LEMMA AnswersTaken ==
    ASSUME XhciAssumption, CmdInv, EvtTaken
    PROVE  /\ \A i \in EvtPlaces : CmdAnswer(i)' <=> CmdAnswer(i) /\ i # evt_idx
           /\ evt_idx \in EvtPlaces
           /\ NextEvent.type = "cmd" <=> CmdAnswer(evt_idx)
<1>1. \A i \in EvtPlaces : Unread(i)' <=> Unread(i) /\ i # evt_idx
  BY EventsTaken DEF CmdInv
<1>2. Unread(evt_idx) /\ evt_idx \in EvtPlaces
  BY PostedIsUnread DEF CmdInv, EvtTaken, XhciForms, XhciTyped
<1> QED BY <1>1, <1>2 DEF CmdAnswer, NextEvent, EvtTaken

LEMMA AnswersAdded ==
    ASSUME XhciAssumption, CmdInv, NEW type, NEW cc, NEW slot,
           EvtAdded(type, cc, slot)
    PROVE  /\ \A i \in EvtPlaces :
                 CmdAnswer(i)' <=> CmdAnswer(i) \/ (i = hc.evt /\ type = "cmd")
           /\ hc.evt \in EvtPlaces /\ ~CmdAnswer(hc.evt)
           /\ \A i \in EvtPlaces : i # hc.evt => evt_ring'[i] = evt_ring[i]
           /\ evt_ring'[hc.evt].cc = cc /\ evt_ring'[hc.evt].slot = slot
<1>1. /\ \A i \in EvtPlaces : Unread(i)' <=> Unread(i) \/ i = hc.evt
      /\ ~Unread(hc.evt) /\ hc.evt \in EvtPlaces
  BY EventsAdded DEF CmdInv
<1> DEFINE e == [cycle |-> hc.pcs, no |-> hc.no + 1, type |-> type, cc |-> cc,
                 slot |-> slot]
<1>2. e.type = type /\ e.cc = cc /\ e.slot = slot
  OBVIOUS
<1>3. evt_ring' = [evt_ring EXCEPT ![hc.evt] = e]
  BY DEF EvtAdded
<1> HIDE DEF e
<1>4. evt_ring \in [EvtPlaces -> EvtForm]
  BY EventTypes DEF CmdInv
<1>5. ASSUME NEW i \in EvtPlaces
      PROVE  evt_ring'[i] = IF i = hc.evt THEN e ELSE evt_ring[i]
  BY <1>3, <1>4
<1> QED BY <1>1, <1>2, <1>5 DEF CmdAnswer

LEMMA TakingWaits ==
    ASSUME XhciAssumption, XhciForms, Taking
    PROVE  \/ /\ enum.pc \in Awaiting /\ NextEvent.type = "cmd"
              /\ enum'.pc \notin Awaiting
           \/ /\ UNCHANGED <<enum, hid, slots>>
              /\ enum.pc \in Awaiting => NextEvent.type # "cmd"
<1>1. ASSUME NextPort PROVE enum'.pc \notin Awaiting
  BY <1>1, Onward DEF Awaiting
<1>2. ASSUME NEW p \in EnumSteps \ Awaiting, enum' = [enum EXCEPT !.pc = p]
      PROVE  enum'.pc \notin Awaiting
  BY <1>2, StepTo
<1>3. CASE Enabled
  BY <1>1, <1>2, <1>3 DEF Enabled, Completed, Awaiting, EnumSteps
<1>4. CASE Defaulted
  BY <1>2, <1>4 DEF Defaulted, Completed, Awaiting, EnumSteps
<1>5. CASE Addressed
  <2>1. enum.pc = "addressing" /\ NextEvent.type = "cmd"
    BY <1>5 DEF Addressed, Completed
  <2>2. enum' = [enum EXCEPT !.pc = "configure"] \/ NextPort
    BY <1>5 DEF Addressed
  <2>3. "configure" \in EnumSteps \ Awaiting
    BY DEF EnumSteps, Awaiting
  <2>4. enum'.pc \notin Awaiting
    BY <1>1, <1>2, <2>2, <2>3
  <2> QED BY <2>1, <2>4 DEF Awaiting
<1>6. CASE Configured
  BY <1>1, <1>6 DEF Configured, Completed, Awaiting
<1>7. CASE PassOver \/ x2_poll_one
  BY <1>7 DEF PassOver, x2_poll_one, Awaiting
<1> QED BY <1>3, <1>4, <1>5, <1>6, <1>7 DEF Taking

LEMMA AsideWaits ==
    ASSUME XhciAssumption, XhciForms, Aside
    PROVE  /\ enum'.pc \notin Awaiting
           /\ "timeout" \notin HcFaults => enum.pc \notin Awaiting
<1>1. ASSUME NextPort PROVE enum'.pc \notin Awaiting
  BY <1>1, Onward DEF Awaiting
<1>2. ASSUME NEW p \in EnumSteps \ Awaiting, enum' = [enum EXCEPT !.pc = p]
      PROVE  enum'.pc \notin Awaiting
  BY <1>2, StepTo
<1>3. ASSUME NEW s, enum' = [enum EXCEPT !.pc = "default", !.slot = s]
      PROVE  enum'.pc \notin Awaiting
  BY <1>3 DEF XhciForms, XhciTyped, EnumForm, Awaiting
<1> QED BY <1>1, <1>2, <1>3 DEF Aside, Awaiting, EnumSteps

LEMMA AsideSame == ASSUME Aside PROVE CmdSame /\ EvtSame
BY DEF Aside, CmdSame, EvtSame

LEMMA AnswersSame ==
    ASSUME CmdInv, EvtSame
    PROVE  \A i \in EvtPlaces : CmdAnswer(i)' <=> CmdAnswer(i)
BY EventsSame DEF CmdInv, CmdAnswer, EvtSame

LEMMA WaitTaking ==
    ASSUME XhciAssumption, CmdInv, Taking
    PROVE  (Expected /\ OneAtATime)'
<1>1. CmdsAhead' = CmdsAhead /\ CmdsAhead \in Nat /\ EvtTaken
  BY TakingForms, CommandsSame, AheadTyped DEF CmdInv
<1>2. /\ \A i \in EvtPlaces : CmdAnswer(i)' <=> CmdAnswer(i) /\ i # evt_idx
      /\ NextEvent.type = "cmd" <=> CmdAnswer(evt_idx)
      /\ evt_idx \in EvtPlaces
  BY <1>1, AnswersTaken
<1>3. CASE /\ enum.pc \in Awaiting /\ NextEvent.type = "cmd"
           /\ enum'.pc \notin Awaiting
  BY <1>1, <1>2, <1>3 DEF CmdInv, Expected, OneAtATime
<1>4. CASE UNCHANGED enum /\ (enum.pc \in Awaiting => NextEvent.type # "cmd")
  BY <1>1, <1>2, <1>4 DEF CmdInv, Expected, OneAtATime
<1> QED BY <1>3, <1>4, TakingWaits DEF CmdInv

LEMMA SendingWaits ==
    ASSUME XhciForms, Submitting
    PROVE  /\ enum.pc \in {"enable", "default", "address", "configure"}
           /\ enum'.pc \in Awaiting /\ UNCHANGED <<hid, slots>>
           /\ enum'.slot = enum.slot
           /\ \E type, slot, then : Enqueue(type, slot, then)
<1>1. ASSUME NEW p \in EnumSteps, enum' = [enum EXCEPT !.pc = p]
      PROVE  enum'.pc = p /\ enum'.slot = enum.slot
  BY <1>1, StepTo
<1> QED BY <1>1 DEF Submitting, Enqueue, Awaiting, EnumSteps

LEMMA WaitSending ==
    ASSUME XhciAssumption, Roomy, CmdInv, Submitting
    PROVE  (Expected /\ OneAtATime)' /\ CommandsPlaced'
<1>1. /\ enum.pc \in {"enable", "default", "address", "configure"}
      /\ enum'.pc \in Awaiting /\ enum.pc \notin Awaiting
  BY SendingWaits DEF CmdInv, Awaiting
<1>2. CmdsAhead' = CmdsAhead + 1 /\ CmdsAhead \in Nat /\ CommandsPlaced'
  BY <1>1, SendingWaits, RoomForNext, CommandsSent, AheadTyped DEF CmdInv
<1>3. \A i \in EvtPlaces : CmdAnswer(i)' <=> CmdAnswer(i)
  BY SendingForms, AnswersSame DEF CmdInv
<1> QED BY <1>1, <1>2, <1>3 DEF CmdInv, Expected, OneAtATime

LEMMA WaitCarried ==
    ASSUME XhciAssumption, CmdInv, CarryOut
    PROVE  (Expected /\ OneAtATime)'
<1>1. /\ CmdDone /\ UNCHANGED <<enum, hid>>
      /\ \E cc \in Nat, slot \in HcSlots \cup {0} : EvtAdded("cmd", cc, slot)
  BY CarriedForms DEF CmdInv
<1>2. CmdsAhead' = CmdsAhead - 1 /\ CmdsAhead \in Nat /\ CmdsAhead' \in Nat
  <2>1. CommandsPlaced' /\ XhciForms'
    BY <1>1, CommandsDone, CarriedForms DEF CmdInv
  <2>2. CmdsAhead' \in Nat
    <3>1. hc'.cmd \in 0 .. CmdRing - 1 /\ cmd_idx' \in 0 .. CmdRing - 2
          /\ CmdRing \in Nat
      BY <2>1, XhciBounds DEF XhciForms, XhciTyped, HcForm, CmdPlaces
    <3> QED BY <2>1, <3>1 DEF CommandsPlaced, CmdsAhead
  <2> QED BY <1>1, <2>2, CommandsDone, AheadTyped DEF CmdInv
<1>3. /\ \A i \in EvtPlaces : CmdAnswer(i)' <=> CmdAnswer(i) \/ i = hc.evt
      /\ hc.evt \in EvtPlaces /\ ~CmdAnswer(hc.evt)
  BY <1>1, AnswersAdded
<1>4. Expected'
  BY <1>3 DEF Expected
<1>5. OneAtATime'
  BY <1>1, <1>2, <1>3 DEF CmdInv, OneAtATime
<1> QED BY <1>4, <1>5

LEMMA WaitOther ==
    ASSUME XhciAssumption, CmdInv, UNCHANGED enum, CmdsAhead' = CmdsAhead,
           \A i \in EvtPlaces : CmdAnswer(i)' <=> CmdAnswer(i)
    PROVE  (Expected /\ OneAtATime)'
BY DEF CmdInv, Expected, OneAtATime

LEMMA CmdNext ==
    ASSUME XhciAssumption, Roomy, CmdInv, [XhciNext]_xhciVars
    PROVE  CmdInv'
<1>1. XhciForms' /\ EventsPlaced'
  BY FormsNext, EventsNext DEF CmdInv
<1>2. FewSent'
  <2>1. CASE XhciNext
    BY <1>1, <2>1, StepMoves, FewNext DEF CmdInv
  <2>2. CASE UNCHANGED xhciVars
    BY <2>2 DEF xhciVars, CmdInv, FewSent
  <2> QED BY <2>1, <2>2
<1>3. (CommandsPlaced /\ Expected /\ OneAtATime)'
  <2>1. CASE Taking
    BY <2>1, TakingForms, CommandsSame, WaitTaking DEF CmdInv
  <2>2. CASE Aside
    <3>1. CommandsPlaced' /\ CmdsAhead' = CmdsAhead
      BY <2>2, AsideSame, CommandsSame DEF CmdInv
    <3>2. \A i \in EvtPlaces : CmdAnswer(i)' <=> CmdAnswer(i)
      BY <2>2, AsideSame, AnswersSame
    <3>3. enum'.pc \notin Awaiting
          /\ ("timeout" \notin HcFaults => enum.pc \notin Awaiting)
      BY <2>2, AsideWaits DEF CmdInv
    <3> QED BY <3>1, <3>2, <3>3 DEF CmdInv, Expected, OneAtATime
  <2>3. CASE Submitting
    BY <2>3, WaitSending
  <2>4. CASE CarryOut
    BY <2>4, CarriedForms, CommandsDone, WaitCarried DEF CmdInv
  <2>5. CASE FollowLink
    <3>1. UNCHANGED enum /\ EvtSame
      BY <2>5, LinkForms DEF FollowLink, driver, CmdInv
    <3> QED BY <2>5, <3>1, CommandsLinked, AnswersSame, WaitOther DEF CmdInv
  <2>6. CASE PortChange
    <3>1. UNCHANGED enum /\ CmdSame /\ EvtAdded("port", 1, 0)
      BY <2>6, ChangeForms DEF PortChange, driver, CmdInv
    <3>2. \A i \in EvtPlaces : CmdAnswer(i)' <=> CmdAnswer(i)
      BY <3>1, AnswersAdded
    <3> QED BY <3>1, <3>2, CommandsSame, WaitOther DEF CmdInv
  <2>7. CASE UNCHANGED xhciVars
    <3>1. UNCHANGED enum /\ CmdSame /\ EvtSame
      BY <2>7 DEF xhciVars, CmdSame, EvtSame
    <3> QED BY <3>1, CommandsSame, AnswersSame, WaitOther DEF CmdInv
  <2> QED BY <2>1, <2>2, <2>3, <2>4, <2>5, <2>6, <2>7, XhciSteps DEF CmdInv
<1> QED BY <1>1, <1>2, <1>3 DEF CmdInv

LEMMA CmdStart == ASSUME XhciAssumption, Roomy, XhciInit PROVE CmdInv
<1>1. XhciForms /\ EventsPlaced /\ CommandsPlaced
  BY XhciStart, EventsStart, CommandsStart
<1>2. enum.pc = "port" /\ enum.port = 1 /\ made = 0
  BY DEF XhciInit, Scan
<1>3. FewSent
  BY <1>2, XhciBounds DEF FewSent, Sent
<1>4. CmdsAhead = 0 /\ \A i \in EvtPlaces : ~CmdAnswer(i)
  BY XhciBounds DEF XhciInit, CmdsAhead, CmdAnswer, Unread, NoEvent, EvtPlaces
<1> QED BY <1>1, <1>2, <1>3, <1>4 DEF CmdInv, Expected, OneAtATime, Awaiting

(* The slots.  As no wait ends early, the command on its way and its       *)
(* answer are those of the step the driver is in: what an answer says of a *)
(* slot is true when it is taken.                                          *)
Operation(p) == CASE p = "enabling" -> "enable"
                  [] p = "defaulting" -> "default"
                  [] p = "addressing" -> "address"
                  [] OTHER -> "configure"
NewSlot(s) == s # 0 => /\ slots[s].state = "enabled"
                      /\ \A i \in DOMAIN hid : hid[i] # s
AnswerTrue(cc, slot) ==
    cc = 1 => /\ enum.pc = "enabling" => NewSlot(slot)
              /\ enum.pc = "addressing" =>
                    slots[enum.slot].state = "addressed"

EndpointsOwn ==
    \A i, j \in DOMAIN hid :
        /\ slots[hid[i]].state \in {"addressed", "configured"}
        /\ hid[i] = hid[j] => i = j
SlotUnowned == enum.pc \in Owning => \A i \in DOMAIN hid : hid[i] # enum.slot
SlotReady == enum.pc \in {"configure", "configuring"} =>
                slots[enum.slot].state \in {"addressed", "configured"}
SlotRead == enum.pc = "slot" => NewSlot(evt_ring[PlaceBefore(evt_idx)].slot)
AnswersTrue ==
    \A i \in EvtPlaces :
        CmdAnswer(i) => AnswerTrue(evt_ring[i].cc, evt_ring[i].slot)
CommandsMeant ==
    \A i \in 0 .. CmdRing - 2 :
        enum.pc \in Awaiting /\ Unfetched(i) =>
            /\ cmd_ring[i].type = Operation(enum.pc)
            /\ enum.pc # "enabling" => cmd_ring[i].slot = enum.slot

SlotInv == EndpointsOwn /\ SlotUnowned /\ SlotReady /\ SlotRead /\ AnswersTrue
           /\ CommandsMeant

(* Steps of the driver that do not wait: only hid, the slot and the latest *)
(* event count.                                                            *)
LEMMA SlotQuiet ==
    ASSUME enum'.pc \notin Awaiting, EndpointsOwn', SlotUnowned', SlotReady', SlotRead',
           \A i \in EvtPlaces : ~CmdAnswer(i)'
    PROVE  SlotInv'
BY DEF SlotInv, AnswersTrue, CommandsMeant

LEMMA NoAnswers ==
    ASSUME CmdInv', "timeout" \notin HcFaults, enum'.pc \notin Awaiting
    PROVE  \A i \in EvtPlaces : ~CmdAnswer(i)'
BY DEF CmdInv, OneAtATime

LEMMA OwnSame ==
    ASSUME EndpointsOwn, UNCHANGED <<hid, slots>>
    PROVE  EndpointsOwn'
BY DEF EndpointsOwn

LEMMA SlotTaking ==
    ASSUME XhciAssumption, CmdInv, CmdInv', SlotInv, "timeout" \notin HcFaults, Taking
    PROVE  SlotInv'
<1>1. /\ EvtTaken /\ UNCHANGED <<cmd_ring, evt_ring>>
      /\ \A i \in 0 .. CmdRing - 2 : Unfetched(i)' <=> Unfetched(i)
  BY TakingForms, CommandsSame DEF CmdInv, CmdSame, EvtTaken
<1>2. /\ \A i \in EvtPlaces : CmdAnswer(i)' <=> CmdAnswer(i) /\ i # evt_idx
      /\ NextEvent.type = "cmd" <=> CmdAnswer(evt_idx)
      /\ evt_idx \in EvtPlaces
  BY <1>1, AnswersTaken
<1>3. evt_idx' = PlaceAfter(evt_idx) /\ PlaceBefore(evt_idx') = evt_idx
  BY <1>1, <1>2, EvtTurn DEF EvtTaken
<1>4. ASSUME NextPort, UNCHANGED <<hid, slots>> PROVE SlotInv'
  <2>1. enum'.pc \in {"port", "active"}
    BY <1>4, Onward DEF CmdInv
  <2> QED BY <1>4, <2>1, NoAnswers, OwnSame, SlotQuiet
          DEF SlotInv, SlotUnowned, SlotReady, SlotRead, Owning, Awaiting
<1>5. CASE Enabled
  <2>1. CASE NextPort
    BY <1>4, <1>5, <2>1 DEF Enabled, Completed
  <2>2. CASE NextEvent.cc = 1 /\ enum' = [enum EXCEPT !.pc = "slot"]
    <3>1. enum'.pc = "slot" /\ UNCHANGED <<hid, slots>>
      BY <1>5, <2>2, StepTo DEF CmdInv, Enabled, Completed, EnumSteps
    <3>2. CmdAnswer(evt_idx) /\ enum.pc = "enabling"
      BY <1>2, <1>5 DEF Enabled, Completed
    <3>3. NewSlot(evt_ring[evt_idx].slot)
      BY <1>2, <2>2, <3>2 DEF SlotInv, AnswersTrue, AnswerTrue, NextEvent
    <3>4. SlotRead'
      BY <1>1, <1>3, <3>1, <3>3 DEF SlotRead, NewSlot
    <3> QED BY <3>1, <3>4, NoAnswers, OwnSame, SlotQuiet
            DEF SlotInv, SlotUnowned, SlotReady, Owning, Awaiting
  <2> QED BY <1>5, <2>1, <2>2 DEF Enabled
<1>6. CASE Defaulted
  <2>1. /\ enum'.pc = "address" /\ enum'.slot = enum.slot /\ UNCHANGED <<hid, slots>>
        /\ enum.pc = "defaulting"
    BY <1>6, StepTo DEF CmdInv, Defaulted, Completed, EnumSteps
  <2>2. SlotUnowned'
    BY <2>1 DEF SlotInv, SlotUnowned, Owning
  <2> QED BY <2>1, <2>2, NoAnswers, OwnSame, SlotQuiet
          DEF SlotInv, SlotReady, SlotRead, Awaiting
<1>7. CASE Addressed
  <2>1. CASE NextPort
    BY <1>4, <1>7, <2>1 DEF Addressed, Completed
  <2>2. CASE NextEvent.cc = 1 /\ enum' = [enum EXCEPT !.pc = "configure"]
    <3>1. enum'.pc = "configure" /\ enum'.slot = enum.slot /\ UNCHANGED <<hid, slots>>
      BY <1>7, <2>2, StepTo DEF CmdInv, Addressed, Completed, EnumSteps
    <3>2. CmdAnswer(evt_idx) /\ enum.pc = "addressing"
      BY <1>2, <1>7 DEF Addressed, Completed
    <3>3. slots[enum.slot].state = "addressed"
      BY <1>2, <2>2, <3>2 DEF SlotInv, AnswersTrue, AnswerTrue, NextEvent
    <3>4. SlotUnowned' /\ SlotReady' /\ SlotRead'
      BY <3>1, <3>2, <3>3 DEF SlotInv, SlotUnowned, SlotReady, SlotRead, Owning
    <3> QED BY <3>1, <3>4, NoAnswers, OwnSame, SlotQuiet DEF SlotInv, Awaiting
  <2> QED BY <1>7, <2>1, <2>2 DEF Addressed
<1>8. CASE Configured
  <2>1. /\ enum.pc = "configuring" /\ hid' = Append(hid, enum.slot) /\ UNCHANGED slots
        /\ enum'.pc \in {"port", "active"}
    BY <1>8, Onward DEF CmdInv, Configured, Completed
  <2>2. /\ slots[enum.slot].state \in {"addressed", "configured"}
        /\ \A i \in DOMAIN hid : hid[i] # enum.slot
    BY <2>1 DEF SlotInv, SlotReady, SlotUnowned, Owning
  <2>3. hid \in Seq(HcSlots) /\ enum.slot \in HcSlots
    BY <2>1 DEF CmdInv, XhciForms, XhciTyped, EnumForm, Owning
  <2>4. /\ DOMAIN hid' = DOMAIN hid \cup {Len(hid) + 1}
        /\ hid'[Len(hid) + 1] = enum.slot
        /\ \A i \in DOMAIN hid : hid'[i] = hid[i]
    BY <2>1, <2>3
  <2>5. EndpointsOwn'
    BY <2>1, <2>2, <2>4 DEF SlotInv, EndpointsOwn
  <2> QED BY <2>1, <2>5, NoAnswers, SlotQuiet
          DEF SlotUnowned, SlotReady, SlotRead, Owning, Awaiting
<1>9. CASE PassOver \/ x2_poll_one
  <2>1. UNCHANGED <<enum, hid, slots>>
        /\ enum.pc \in Awaiting \cup {"active"}
    BY <1>9 DEF PassOver, x2_poll_one
  <2>2. AnswersTrue'
    BY <1>1, <1>2, <2>1 DEF SlotInv, AnswersTrue, AnswerTrue, NewSlot
  <2>3. CommandsMeant'
    BY <1>1, <2>1 DEF SlotInv, CommandsMeant
  <2> QED BY <2>1, <2>2, <2>3, OwnSame
          DEF SlotInv, SlotUnowned, SlotReady, SlotRead, Awaiting
<1> QED BY <1>5, <1>6, <1>7, <1>8, <1>9 DEF Taking

LEMMA SlotAside ==
    ASSUME XhciAssumption, CmdInv, CmdInv', SlotInv, "timeout" \notin HcFaults, Aside
    PROVE  SlotInv'
<1> DEFINE s == evt_ring[PlaceBefore(evt_idx)].slot
<1>1. UNCHANGED <<slots, evt_ring, evt_idx, hid>> /\ enum'.pc \notin Awaiting
  BY AsideWaits DEF Aside, CmdInv
<1>2. CASE NextPort
  <2>1. enum'.pc \in {"port", "active"}
    BY <1>2, Onward DEF CmdInv
  <2> QED BY <1>1, <2>1, NoAnswers, OwnSame, SlotQuiet
          DEF SlotInv, SlotUnowned, SlotReady, SlotRead, Owning
<1>3. CASE enum' = [enum EXCEPT !.pc = "enable"]
  <2>1. enum'.pc = "enable"
    BY <1>3, StepTo DEF CmdInv, EnumSteps
  <2> QED BY <1>1, <2>1, NoAnswers, OwnSame, SlotQuiet
          DEF SlotInv, SlotUnowned, SlotReady, SlotRead, Owning
<1>4. CASE /\ enum.pc = "slot" /\ s # 0
           /\ enum' = [enum EXCEPT !.pc = "default", !.slot = s]
  <2>1. \A i \in DOMAIN hid : hid[i] # s
    BY <1>4 DEF SlotInv, SlotRead, NewSlot
  <2> HIDE DEF s
  <2>2. enum'.pc = "default" /\ enum'.slot = s
    BY <1>4 DEF CmdInv, XhciForms, XhciTyped, EnumForm
  <2>3. SlotUnowned'
    BY <1>1, <2>1, <2>2 DEF SlotUnowned
  <2> QED BY <1>1, <2>2, <2>3, NoAnswers, OwnSame, SlotQuiet
          DEF SlotInv, SlotReady, SlotRead
<1> QED BY <1>2, <1>3, <1>4 DEF Aside

LEMMA SlotSending ==
    ASSUME XhciAssumption, Roomy, CmdInv, CmdInv', SlotInv,
           "timeout" \notin HcFaults, Submitting
    PROVE  SlotInv'
<1>1. /\ enum.pc \in {"enable", "default", "address", "configure"}
      /\ enum'.pc \in Awaiting /\ enum'.slot = enum.slot
      /\ UNCHANGED <<hid, slots, evt_ring, evt_idx>>
  BY SendingWaits, SendingForms DEF CmdInv, EvtSame
<1>2. CmdsAhead = 0 /\ \A i \in EvtPlaces : ~CmdAnswer(i)'
  <2>1. CmdsAhead = 0 /\ \A i \in EvtPlaces : ~CmdAnswer(i)
    BY <1>1 DEF CmdInv, OneAtATime, Awaiting
  <2> QED BY <2>1, SendingForms, AnswersSame DEF CmdInv
<1>3. \A i \in 0 .. CmdRing - 2 : ~Unfetched(i)
  BY <1>2, CmdTypes DEF CmdInv, CommandsPlaced, CmdsAhead, Unfetched
<1>4. PICK type, slot, then :
          /\ Enqueue(type, slot, then) /\ enum'.pc = then
          /\ type = Operation(then) /\ (then # "enabling" => slot = enum.slot)
          /\ enum.pc = "enable" => then = "enabling"
          /\ then = "configuring" => enum.pc = "configure"
  <2>1. ASSUME NEW p \in EnumSteps, enum' = [enum EXCEPT !.pc = p] PROVE enum'.pc = p
    BY <2>1, StepTo DEF CmdInv
  <2>2. CASE enum.pc = "enable" /\ Enqueue("enable", 0, "enabling")
    BY <2>1, <2>2 DEF Enqueue, Operation, EnumSteps
  <2>3. CASE enum.pc = "default" /\ Enqueue("default", enum.slot, "defaulting")
    BY <2>1, <2>3 DEF Enqueue, Operation, EnumSteps
  <2>4. CASE enum.pc = "address" /\ Enqueue("address", enum.slot, "addressing")
    BY <2>1, <2>4 DEF Enqueue, Operation, EnumSteps
  <2>5. CASE enum.pc = "configure" /\ Enqueue("configure", enum.slot, "configuring")
    BY <2>1, <2>5 DEF Enqueue, Operation, EnumSteps
  <2> QED BY <2>2, <2>3, <2>4, <2>5 DEF Submitting
<1>5. /\ cmd_ring'[cmd_idx].type = type /\ cmd_ring'[cmd_idx].slot = slot
      /\ \A i \in 0 .. CmdRing - 2 : Unfetched(i)' <=> Unfetched(i) \/ i = cmd_idx
  BY <1>1, <1>4, RoomForNext, CommandsSent DEF CmdInv
<1>6. CommandsMeant'
  BY <1>1, <1>3, <1>4, <1>5 DEF CommandsMeant
<1>7. SlotUnowned' /\ SlotReady' /\ SlotRead'
  BY <1>1, <1>4 DEF SlotInv, SlotUnowned, SlotReady, SlotRead, Owning, Awaiting
<1> QED BY <1>1, <1>2, <1>6, <1>7, OwnSame DEF SlotInv, AnswersTrue

LEMMA SlotCarried ==
    ASSUME XhciAssumption, CmdInv, CmdInv', SlotInv,
           "timeout" \notin HcFaults, CarryOut
    PROVE  SlotInv'
<1> DEFINE trb == cmd_ring[hc.cmd]
<1>1. PICK cc \in Nat, slot \in HcSlots \cup {0} :
          EvtAdded("cmd", cc, slot) /\ Outcome(cc, slot)
  BY CarriedForms DEF CmdInv
<1>2. CmdDone /\ UNCHANGED <<enum, hid>>
  BY CarriedForms DEF CmdInv
<1>3. /\ hc.cmd \in 0 .. CmdRing - 2 /\ Unfetched(hc.cmd)
      /\ CmdsAhead' = CmdsAhead - 1
      /\ \A i \in 0 .. CmdRing - 2 : Unfetched(i)' => Unfetched(i)
  BY <1>2, CommandsDone DEF CmdInv
<1>4. CmdsAhead > 0
  BY <1>3, CmdTypes DEF CmdInv, CommandsPlaced, CmdsAhead, Unfetched
<1>5. enum.pc \in Awaiting /\ \A i \in EvtPlaces : ~CmdAnswer(i)
  BY <1>4 DEF CmdInv, OneAtATime
<1>6. /\ trb.type = Operation(enum.pc)
      /\ enum.pc # "enabling" => trb.slot = enum.slot
  BY <1>3, <1>5 DEF SlotInv, CommandsMeant
<1>7. /\ \A i \in EvtPlaces : CmdAnswer(i)' <=> i = hc.evt
      /\ evt_ring'[hc.evt].cc = cc /\ evt_ring'[hc.evt].slot = slot
  BY <1>1, <1>5, AnswersAdded
<1>8. slots \in [HcSlots -> SlotForm] /\ enum.slot \in HcSlots \cup {0}
      /\ hid \in Seq(HcSlots) /\ (enum.pc \in Owning => enum.slot \in HcSlots)
  BY DEF CmdInv, XhciForms, XhciTyped, EnumForm
<1>9. \A i \in DOMAIN hid : hid[i] \in HcSlots
  BY <1>8
<1>10. CommandsMeant'
  BY <1>2, <1>3 DEF SlotInv, CommandsMeant, CmdDone
<1>11. SlotUnowned' /\ SlotRead'
  BY <1>2, <1>5 DEF SlotInv, SlotUnowned, SlotRead, Awaiting
<1> HIDE DEF trb
<1>12. ASSUME \A i \in DOMAIN hid : slots'[hid[i]] = slots[hid[i]]
       PROVE  EndpointsOwn'
  BY <1>2, <1>12 DEF SlotInv, EndpointsOwn
<1>13. EndpointsOwn' /\ SlotReady' /\ AnswerTrue(cc, slot)'
  <2>1. CASE cc # 1 /\ UNCHANGED slots
    BY <1>2, <1>7, <1>12, <2>1 DEF SlotInv, SlotReady, AnswerTrue
  <2>2. CASE /\ trb.type = "enable" /\ slot \in FreeSlots
             /\ slots' = [slots EXCEPT ![slot].state = "enabled"]
    <3>1. slot \in HcSlots /\ slots[slot].state = "off"
      BY <2>2 DEF FreeSlots
    <3>2. \A i \in DOMAIN hid : hid[i] # slot
      BY <3>1 DEF SlotInv, EndpointsOwn
    <3>3. \A i \in DOMAIN hid : slots'[hid[i]] = slots[hid[i]]
      BY <1>8, <1>9, <2>2, <3>2
    <3>4. enum.pc = "enabling"
      BY <1>5, <1>6, <2>2 DEF Operation, Awaiting
    <3>5. slots'[slot].state = "enabled"
      BY <1>8, <2>2, <3>1 DEF SlotForm
    <3>6. AnswerTrue(cc, slot)'
      BY <1>2, <1>7, <3>2, <3>4, <3>5 DEF AnswerTrue, NewSlot
    <3> QED BY <1>2, <1>12, <3>3, <3>4, <3>6 DEF SlotReady
  <2>3. CASE /\ trb.type # "enable"
             /\ slots' = [slots EXCEPT ![trb.slot] =
                             [state |-> Becomes[trb.type], port |-> trb.port]]
    <3>1. enum.pc \in Awaiting \ {"enabling"} /\ trb.slot = enum.slot
      BY <1>5, <1>6, <2>3 DEF Operation
    <3>2. enum.slot \in HcSlots /\ \A i \in DOMAIN hid : hid[i] # enum.slot
      BY <1>8, <3>1 DEF SlotInv, SlotUnowned, Owning, Awaiting
    <3>3. \A i \in DOMAIN hid : slots'[hid[i]] = slots[hid[i]]
      BY <1>8, <1>9, <2>3, <3>1, <3>2
    <3>4. slots'[enum.slot].state = Becomes[trb.type]
      BY <1>8, <2>3, <3>1, <3>2
    <3>5. /\ enum.pc = "addressing" => Becomes[trb.type] = "addressed"
          /\ enum.pc = "configuring" => Becomes[trb.type] = "configured"
      BY <1>6 DEF Operation, Becomes
    <3>6. AnswerTrue(cc, slot)' /\ SlotReady'
      BY <1>2, <1>7, <3>1, <3>4, <3>5 DEF AnswerTrue, SlotReady, Awaiting
    <3> QED BY <1>12, <3>3, <3>6
  <2> QED BY <1>1, <2>1, <2>2, <2>3 DEF Outcome, trb
<1>14. AnswersTrue'
  <2>1. ASSUME NEW i \in EvtPlaces, CmdAnswer(i)'
        PROVE  evt_ring'[i].cc = cc /\ evt_ring'[i].slot = slot
    BY <1>7, <2>1
  <2> QED BY <1>13, <2>1 DEF AnswersTrue, AnswerTrue, NewSlot
<1> QED BY <1>10, <1>11, <1>13, <1>14 DEF SlotInv

LEMMA SlotOther ==
    ASSUME SlotInv, UNCHANGED <<enum, hid, slots, cmd_ring, evt_idx>>,
           \A i \in 0 .. CmdRing - 2 : Unfetched(i)' => Unfetched(i),
           \A i \in EvtPlaces :
               CmdAnswer(i)' => CmdAnswer(i) /\ evt_ring'[i] = evt_ring[i],
           enum.pc = "slot" =>
               evt_ring'[PlaceBefore(evt_idx)] = evt_ring[PlaceBefore(evt_idx)]
    PROVE  SlotInv'
<1>1. EndpointsOwn' /\ SlotUnowned' /\ SlotReady'
  BY DEF SlotInv, EndpointsOwn, SlotUnowned, SlotReady
<1>2. SlotRead'
  BY DEF SlotInv, SlotRead, NewSlot
<1>3. AnswersTrue'
  BY DEF SlotInv, AnswersTrue, AnswerTrue, NewSlot
<1>4. CommandsMeant'
  BY DEF SlotInv, CommandsMeant
<1> QED BY <1>1, <1>2, <1>3, <1>4 DEF SlotInv

LEMMA SlotNext ==
    ASSUME XhciAssumption, Roomy, CmdInv, CmdInv', SlotInv,
           "timeout" \notin HcFaults, [XhciNext]_xhciVars
    PROVE  SlotInv'
<1>1. CASE FollowLink
  <2>1. EvtSame /\ UNCHANGED <<enum, hid, slots, cmd_ring, evt_idx, evt_ring>>
    BY <1>1, LinkForms DEF FollowLink, driver, CmdInv
  <2>2. \A i \in EvtPlaces : CmdAnswer(i)' <=> CmdAnswer(i)
    BY <2>1, AnswersSame
  <2>3. \A i \in 0 .. CmdRing - 2 : Unfetched(i)' <=> Unfetched(i)
    BY <1>1, CommandsLinked DEF CmdInv
  <2> QED BY <2>1, <2>2, <2>3, SlotOther
<1>2. CASE PortChange
  <2>1. /\ CmdSame /\ EvtAdded("port", 1, 0)
        /\ UNCHANGED <<enum, hid, slots, cmd_ring, evt_idx>>
    BY <1>2, ChangeForms DEF PortChange, driver, CmdInv
  <2>2. /\ \A i \in EvtPlaces : CmdAnswer(i)' <=> CmdAnswer(i)
        /\ ~CmdAnswer(hc.evt)
        /\ \A i \in EvtPlaces : i # hc.evt => evt_ring'[i] = evt_ring[i]
    BY <2>1, AnswersAdded
  <2>3. \A i \in 0 .. CmdRing - 2 : Unfetched(i)' <=> Unfetched(i)
    BY <2>1, CommandsSame DEF CmdInv
  <2>4. evt_idx \in EvtPlaces /\ PlaceAfter(hc.evt) # evt_idx
    BY <2>1 DEF EvtAdded, CmdInv, XhciForms, XhciTyped
  <2>5. PlaceBefore(evt_idx) \in EvtPlaces /\ PlaceBefore(evt_idx) # hc.evt
    BY <2>4, EvtTurn
  <2> QED BY <2>1, <2>2, <2>3, <2>5, SlotOther
<1>3. CASE UNCHANGED xhciVars
  BY <1>3, SlotOther DEF xhciVars, Unfetched, CmdAnswer, Unread
<1> QED BY <1>1, <1>2, <1>3, XhciSteps, SlotTaking, SlotAside, SlotSending,
           SlotCarried DEF CmdInv

LEMMA SlotStart == ASSUME XhciAssumption, XhciInit PROVE SlotInv
<1>1. enum.pc = "port" /\ hid = <<>>
  BY DEF XhciInit, Scan
<1>2. \A i \in EvtPlaces : ~CmdAnswer(i)
  BY XhciBounds DEF XhciInit, CmdAnswer, Unread, NoEvent, EvtPlaces
<1> QED BY <1>1, <1>2
        DEF SlotInv, EndpointsOwn, SlotUnowned, SlotReady, SlotRead, AnswersTrue,
            CommandsMeant, Owning, Awaiting

(* No command is left out, repeated or overtaken, one that is waited for   *)
(* can be carried out or has been, and as long as no wait ends early each  *)
(* endpoint that is polled has a slot with an address of its own, for      *)
(* rings of any sizes and any numbers of ports and slots (x2_cmd,          *)
(* x2_enumerate_port).                                                     *)
THEOREM RingsAreSound ==
    ASSUME XhciAssumption, Roomy
    PROVE  XhciSpec => [](RingsInOrder /\ NothingStuck /\ SlotsOwn)
<1> DEFINE Inv == CmdInv /\ ("timeout" \notin HcFaults => SlotInv)
<1>1. XhciInit => Inv
  BY CmdStart, SlotStart
<1>2. Inv /\ [XhciNext]_xhciVars => Inv'
  BY CmdNext, SlotNext
<1>3. Inv => RingsInOrder /\ NothingStuck /\ SlotsOwn
  <2> SUFFICES ASSUME Inv PROVE RingsInOrder /\ NothingStuck /\ SlotsOwn
    OBVIOUS
  <2>1. EventsInOrder
    BY EventTypes DEF CmdInv, EventsPlaced, EvtsAhead, EventsInOrder
  <2>2. CommandsInOrder
    BY CmdTypes, AheadTyped DEF CmdInv, CommandsPlaced, CommandsInOrder
  <2>3. ASSUME NEW i \in EvtPlaces, CmdAnswer(i) PROVE Posted
    <3>1. Unread(evt_idx)
      BY <2>3, EventTypes DEF CmdInv, CmdAnswer, Unread, EvtPlaces
    <3> QED BY <3>1, PostedIsUnread DEF CmdInv
  <2>4. NothingStuck
    BY <2>3, AheadIsSeen DEF CmdInv, Expected, NothingStuck
  <2>5. SlotsOwn
    BY DEF SlotInv, EndpointsOwn, SlotsOwn
  <2> QED BY <2>1, <2>2, <2>4, <2>5 DEF RingsInOrder
<1> HIDE DEF Inv
<1> QED BY <1>1, <1>2, <1>3, PTL DEF XhciSpec

-----------------------------------------------------------------------------
(* Usb                                                                     *)

Kinds == {Class[d] : d \in Devices} \cup {"none"}
PortForm == [ctrl : Ctrls, dev : Devices, hub : Nat]
EntryForm == [ctrl : Ctrls, addr : Nat, class : Kinds]
DeviceForm == [on : BOOLEAN, ctrl : Ctrls, addr : Nat, conf : BOOLEAN]
StageForm == [stage : Stages, addr : Nat, class : Kinds]

UsbTyped ==
    /\ bus \in [Devices -> DeviceForm]
    /\ next_addr \in [Ctrls -> Nat \ {0}]
    /\ g_usb_dev \in Seq(EntryForm) /\ Len(g_usb_dev) <= USB_MAX_DEVICES
    /\ classes \in [DOMAIN TableMax -> Seq(Nat)]
    /\ work \in Seq({"start", "scan"} \X Ctrls)
    /\ g_ehci \in Seq(Ctrls)
    /\ todo \in Seq(PortForm)
    /\ at \in StageForm

HasPlace == Len(g_usb_dev) < USB_MAX_DEVICES
OnFirst(d) == g_ehci # <<>> /\ bus[d].on /\ bus[d].ctrl = g_ehci[1]
(* A port that is not left to another controller.                          *)
Loud(p) == p.hub # 0 \/ ~Ignores(p.ctrl, p.dev)

(* Where the search stands.                                                *)
SearchSound ==
    /\ at.stage # "port" => todo # <<>> /\ Loud(Here)
    /\ at.stage \notin {"port", "probe"} => HasPlace
    /\ at.stage \in {"first", "address"}
       /\ OnFirst(Here.dev) /\ bus[Here.dev].addr = 0 => Here.ctrl = g_ehci[1]
    /\ at.stage \notin {"port", "first"}
       => g_ehci # <<>> /\ Here.ctrl = g_ehci[1]
    /\ \A i \in DOMAIN todo :
          /\ todo[i].hub # 0 => g_ehci # <<>> /\ todo[i].ctrl = g_ehci[1]
          /\ todo[i].ctrl[1] = "ehci" => g_ehci # <<>>
    /\ \A j \in DOMAIN work : work[j][1] = "scan" => g_ehci # <<>>
    /\ \A i \in DOMAIN g_ehci : g_ehci[i][1] = "ehci"
    /\ \A d \in Devices :
          bus[d].on /\ bus[d].ctrl[1] = "ehci" => g_ehci # <<>>

(* Addresses given are below the next one, and address 0 is the device's   *)
(* that is being given one.                                                *)
AddressesGiven ==
    /\ \A d \in Devices : OnFirst(d) => bus[d].addr < next_addr[g_ehci[1]]
    /\ \A d \in Devices :
          OnFirst(d) /\ bus[d].addr = 0 /\ HasPlace
          => at.stage \in {"first", "address"} /\ d = Here.dev
    /\ AddressesOwn

(* No transfer fails that would leave a device at address 0.               *)
Orderly ==
    BusFaults \cap {<<"port", "late">>, <<"first", "lost">>,
                    <<"first", "late">>, <<"address", "lost">>,
                    <<"address", "refused">>} = {}

-----------------------------------------------------------------------------
LEMMA SearchTypes ==
    ASSUME UsbAssumption, UsbTyped, todo # <<>>
    PROVE  /\ Here \in PortForm /\ Here = todo[1] /\ 1 \in DOMAIN todo
           /\ Tail(todo) \in Seq(PortForm) /\ Len(Tail(todo)) = Len(todo) - 1
           /\ \A i \in DOMAIN Tail(todo) :
                 i + 1 \in DOMAIN todo /\ Tail(todo)[i] = todo[i + 1]
           /\ \A i \in DOMAIN todo \ {1} : i - 1 \in DOMAIN Tail(todo)
<1>1. todo \in Seq(PortForm)
  BY DEF UsbTyped
<1>2. Len(todo) \in Nat \ {0} /\ DOMAIN todo = 1 .. Len(todo)
  BY <1>1
<1>3. todo[1] \in PortForm
  BY <1>1, <1>2
<1> QED BY <1>1, <1>2, <1>3 DEF Here

(* What becomes of a transfer, and who it reaches.                         *)
LEMMA TransferEnds ==
    ASSUME NEW c, NEW a, NEW o \in Outcomes(c, a)
    PROVE  /\ o \in {"done", "lost", "late", "refused"}
           /\ o # "lost" => Reached(c, a) # {}
           /\ o = "lost" => Reached(c, a) = {} \/ <<at.stage, o>> \in BusFaults
           /\ o \in {"late", "refused"} => <<at.stage, o>> \in BusFaults
BY DEF Outcomes

LEMMA WhoIsReached ==
    ASSUME NEW c, NEW a
    PROVE  Reached(c, a) = {d \in Devices : /\ c[1] = "ehci" /\ OnFirst(d)
                                            /\ bus[d].addr = a}
BY DEF Reached, OnFirst

(* A step to the next controller.                                          *)
TurnStep ==
    \E kind \in {"start", "scan"}, c \in Ctrls :
       /\ todo = <<>> /\ work # <<>> /\ Head(work) = <<kind, c>>
       /\ \/ /\ kind = "start" /\ c[1] = "ehci"
             /\ g_ehci' = Append(g_ehci, c)
             /\ work' = Append(Tail(work), <<"scan", c>>) /\ todo' = todo
          \/ /\ todo' \in {todo, PortsOf(c)} /\ work' = Tail(work)
             /\ g_ehci' = g_ehci
             /\ kind = "start" /\ c[1] = "ehci" => todo' = todo
             /\ kind = "scan" => todo' = PortsOf(c)
       /\ UNCHANGED <<bus, next_addr, g_usb_dev, classes, at>>
(* A port is looked at.                                                    *)
PortStep ==
    /\ todo # <<>> /\ at.stage = "port"
    /\ \/ /\ todo' = Tail(todo) /\ at' = Begin
          /\ bus' = bus \/ ~HasPlace
       \/ /\ HasPlace /\ Loud(Here) /\ at' = [at EXCEPT !.stage = "first"]
          /\ UNCHANGED todo
    /\ \/ bus' = bus
       \/ /\ Loud(Here)
          /\ \E on \in BOOLEAN :
                bus' = [bus EXCEPT ![Here.dev] = [on |-> on, ctrl |-> Here.ctrl,
                                               addr |-> 0, conf |-> FALSE]]
    /\ Here.hub = 0 /\ Here.ctrl[1] = "ehci" /\ Speed[Here.dev] = "high" =>
          /\ HasPlace => todo' = todo
          /\ bus' = [bus EXCEPT ![Here.dev] = [on |-> TRUE, ctrl |-> Here.ctrl,
                                             addr |-> 0, conf |-> FALSE]]
    /\ UNCHANGED <<next_addr, g_usb_dev, classes, pci>>
(* The last step for a device that is not a hub.                           *)
ProbeStep ==
    /\ at.stage = "probe" /\ at' = Begin /\ todo' = Tail(todo)
    /\ \/ UNCHANGED classes
       \/ at.class \in DOMAIN TableMax /\ Enter(at.class)
    /\ UNCHANGED <<bus, next_addr, g_usb_dev, pci>>

LEMMA UsbSteps ==
    ASSUME UsbAssumption, Orderly, UsbTyped, SearchSound, UsbNext
    PROVE  \/ TurnStep
           \/ PortStep
           \/ GetFirst
           \/ SetAddress
           \/ GetDescriptor
           \/ GetConfig
           \/ SetConfiguration
           \/ ProbeStep
           \/ probe_hub
<1>1. ASSUME NEW c \in Ctrls, StartEhci(c) PROVE TurnStep
  BY <1>1 DEF StartEhci, NextIs, Found, TurnStep
<1>2. ASSUME NEW c \in Ctrls, StartUhci(c) PROVE TurnStep
  BY <1>2 DEF StartUhci, NextIs, Found, TurnStep
<1>3. ASSUME NEW c \in Ctrls, StartOhci(c) PROVE TurnStep
  BY <1>3 DEF StartOhci, NextIs, Found, TurnStep
<1>4. ASSUME NEW c \in Ctrls, ScanEhci(c) PROVE TurnStep
  BY <1>4 DEF ScanEhci, NextIs, Found, TurnStep
<1>5. ASSUME EhciPort PROVE PortStep
  <2>1. CASE Ignores(Here.ctrl, Here.dev)
    BY <1>5, <2>1 DEF EhciPort, Ignores, Leave, PortStep
  <2>2. CASE ~Ignores(Here.ctrl, Here.dev)
    <3>1. Loud(Here)
      BY <2>2 DEF Loud
    <3> DEFINE on == Speed[Here.dev] = "high"
    <3>2. /\ on \in BOOLEAN /\ Reset(Here.ctrl, Here.dev, on) /\ Enumerate
          /\ Speed[Here.dev] = "high" => on = TRUE
      BY <1>5, <2>2 DEF EhciPort
    <3>3. todo # <<>> /\ at.stage = "port"
          /\ UNCHANGED <<next_addr, g_usb_dev, classes, pci>>
      BY <1>5 DEF EhciPort
    <3> HIDE DEF on
    <3>4. \/ HasPlace /\ at' = [at EXCEPT !.stage = "first"] /\ todo' = todo
          \/ ~HasPlace /\ todo' = Tail(todo) /\ at' = Begin
      BY <3>2 DEF Enumerate, HasPlace, Leave, Go
    <3> QED BY <3>1, <3>2, <3>3, <3>4 DEF Reset, PortStep
  <2> QED BY <2>1, <2>2
<1>6. ASSUME UhciPort PROVE PortStep
  BY <1>6 DEF UhciPort, Ignores, Loud, Reset, Enumerate, HasPlace, Leave, Go,
              PortStep
<1>7. ASSUME OhciPort PROVE PortStep
  BY <1>7 DEF OhciPort, Ignores, Loud, Reset, Enumerate, HasPlace, Leave, Go,
              PortStep
<1>8. ASSUME HubPort PROVE PortStep
  <2>1. PICK o \in Outcomes(Here.ctrl, Here.hub) :
           /\ IF Happens(o) THEN Reset(g_ehci[1], Here.dev, TRUE)
              ELSE UNCHANGED bus
           /\ IF Succeeds(o) THEN Enumerate ELSE Leave
    BY <1>8 DEF HubPort
  <2>2. todo # <<>> /\ at.stage = "port" /\ Loud(Here) /\ Here.hub # 0
        /\ UNCHANGED <<next_addr, g_usb_dev, classes, pci>>
    BY <1>8 DEF HubPort, Loud
  <2>3. Here.ctrl = g_ehci[1]
    BY <1>8, <2>2, SearchTypes DEF HubPort, SearchSound
  <2>4. o # "late" /\ o \in {"done", "lost", "late", "refused"}
    BY <2>2, TransferEnds DEF Orderly
  <2> QED BY <2>1, <2>2, <2>3, <2>4
          DEF Happens, Succeeds, Reset, Enumerate, HasPlace, Leave, Go, PortStep
<1>9. ASSUME probe_msc PROVE ProbeStep
  <2>1. at.class = "msc" /\ at.stage = "probe" /\ Leave
        /\ UNCHANGED <<bus, next_addr, g_usb_dev, pci>>
        /\ (Enter("msc") \/ UNCHANGED classes)
    BY <1>9 DEF probe_msc
  <2>2. at.class \in Kinds
    BY DEF UsbTyped, StageForm
  <2>3. "msc" \in DOMAIN TableMax
    BY <2>1, <2>2 DEF Kinds, UsbAssumption
  <2> QED BY <2>1, <2>3 DEF Leave, ProbeStep
<1>10. ASSUME probe_class PROVE ProbeStep
  BY <1>10 DEF probe_class, Leave, ProbeStep
<1>11. ASSUME NoDriver PROVE ProbeStep
  BY <1>11 DEF NoDriver, Leave, ProbeStep
<1> QED BY <1>1, <1>2, <1>3, <1>4, <1>5, <1>6, <1>7, <1>8, <1>9, <1>10, <1>11
        DEF UsbNext

-----------------------------------------------------------------------------
(* Types.                                                                  *)

LEMMA UsbStartTyped == ASSUME UsbAssumption, UsbInit PROVE UsbTyped
<1>1. Pci[1] \in Ctrls
  BY DEF UsbAssumption
<1>2. bus \in [Devices -> DeviceForm]
  BY <1>1 DEF UsbInit, Off, DeviceForm
<1>3. work \in Seq({"start", "scan"} \X Ctrls)
  <2>1. Pci \in Seq(Ctrls) /\ DOMAIN Pci = 1 .. Len(Pci) /\ Len(Pci) \in Nat
    BY DEF UsbAssumption
  <2>2. \A i \in 1 .. Len(Pci) : Pci[i] \in Ctrls
    BY <2>1
  <2> QED BY <2>1, <2>2 DEF UsbInit
<1>4. at \in StageForm
  BY DEF UsbInit, Begin, StageForm, Stages, Kinds
<1> QED BY <1>2, <1>3, <1>4 DEF UsbInit, UsbTyped, UsbAssumption

LEMMA PortsTyped ==
    ASSUME UsbAssumption, NEW c \in Ctrls
    PROVE  /\ PortsOf(c) \in Seq(PortForm) /\ DOMAIN PortsOf(c) = DOMAIN On[c]
           /\ \A i \in DOMAIN On[c] : PortsOf(c)[i] = Port(c, On[c][i], 0)
<1>1. On[c] \in Seq(Devices)
  BY DEF UsbAssumption
<1>2. DOMAIN On[c] = 1 .. Len(On[c]) /\ Len(On[c]) \in Nat
  BY <1>1
<1>3. \A i \in 1 .. Len(On[c]) : Port(c, On[c][i], 0) \in PortForm
  BY <1>1 DEF Port, PortForm
<1> QED BY <1>2, <1>3 DEF PortsOf

(* The ports of a hub before those that are left.                          *)
HubPorts(h) == [i \in DOMAIN Below[h] |-> Port(Here.ctrl, Below[h][i], at.addr)]
HubTodo(h) == HubPorts(h) \o Tail(todo)

LEMMA HubTyped ==
    ASSUME UsbAssumption, UsbTyped, todo # <<>>, NEW h \in Devices
    PROVE  /\ HubTodo(h) \in Seq(PortForm)
           /\ \A i \in DOMAIN HubTodo(h) :
                 \/ \E b \in DOMAIN Below[h] :
                       i = b /\ HubTodo(h)[i] = Port(Here.ctrl, Below[h][b], at.addr)
                 \/ \E k \in DOMAIN todo \ {1} :
                       i = Len(Below[h]) + k - 1 /\ HubTodo(h)[i] = todo[k]
           /\ \A k \in DOMAIN todo \ {1} :
                 \E i \in DOMAIN HubTodo(h) : HubTodo(h)[i] = todo[k]
<1>1. Below[h] \in Seq(Devices) /\ at.addr \in Nat /\ Here.ctrl \in Ctrls
  BY SearchTypes DEF UsbAssumption, UsbTyped, StageForm, PortForm
<1>2. DOMAIN Below[h] = 1 .. Len(Below[h]) /\ Len(Below[h]) \in Nat
  BY <1>1
<1>3. \A i \in 1 .. Len(Below[h]) :
         Port(Here.ctrl, Below[h][i], at.addr) \in PortForm
  BY <1>1 DEF Port, PortForm
<1>4. /\ HubPorts(h) \in Seq(PortForm) /\ Len(HubPorts(h)) = Len(Below[h])
      /\ \A i \in DOMAIN Below[h] :
            HubPorts(h)[i] = Port(Here.ctrl, Below[h][i], at.addr)
  BY <1>2, <1>3 DEF HubPorts
<1>5. todo \in Seq(PortForm) /\ DOMAIN todo = 1 .. Len(todo) /\ Len(todo) \in Nat
  BY DEF UsbTyped
<1> DEFINE n == Len(Below[h])
           next == HubTodo(h)
<1>6. /\ next \in Seq(PortForm) /\ Len(next) = n + (Len(todo) - 1)
      /\ \A i \in 1 .. Len(next) :
            next[i] = IF i <= n THEN HubPorts(h)[i] ELSE Tail(todo)[i - n]
  <2> DEFINE p == HubPorts(h)
             t == Tail(todo)
  <2>1. p \in Seq(PortForm) /\ t \in Seq(PortForm) /\ next = p \o t
        /\ Len(p) = n /\ Len(t) = Len(todo) - 1
    BY <1>4, SearchTypes DEF HubTodo
  <2> HIDE DEF p, t, n, next
  <2>2. /\ p \o t \in Seq(PortForm) /\ Len(p \o t) = Len(p) + Len(t)
        /\ \A i \in 1 .. Len(p) + Len(t) :
              (p \o t)[i] = IF i <= Len(p) THEN p[i] ELSE t[i - Len(p)]
    BY <2>1, ConcatProperties
  <2> QED BY <2>1, <2>2 DEF p, t
<1> HIDE DEF next
<1>7. DOMAIN next = 1 .. Len(next)
  BY <1>6
<1>8. n \in Nat /\ Len(todo) \in Nat \ {0}
  BY <1>2, <1>5
<1>9. \A i \in 1 .. Len(todo) - 1 : Tail(todo)[i] = todo[i + 1]
  BY SearchTypes
<1> HIDE DEF n
<1>10. ASSUME NEW i \in DOMAIN next, i > n
      PROVE  i - n + 1 \in DOMAIN todo \ {1} /\ next[i] = todo[i - n + 1]
  <2>1. i \in n + 1 .. n + (Len(todo) - 1)
    BY <1>6, <1>7, <1>10, <1>8
  <2>2. i - n \in 1 .. Len(todo) - 1 /\ (i - n) + 1 = i - n + 1
    BY <1>8, <2>1
  <2>3. next[i] = Tail(todo)[i - n]
    BY <1>6, <1>7, <1>10, <1>8, <2>1
  <2> QED BY <1>5, <1>8, <1>9, <2>2, <2>3
<1>11. ASSUME NEW k \in DOMAIN todo \ {1}
      PROVE  n + k - 1 \in DOMAIN next /\ next[n + k - 1] = todo[k]
  <2>1. k \in 2 .. Len(todo)
    BY <1>5, <1>8
  <2>2. n + k - 1 \in 1 .. n + (Len(todo) - 1) /\ n + k - 1 > n
        /\ (n + k - 1) - n = k - 1 /\ k - 1 \in 1 .. Len(todo) - 1 /\ (k - 1) + 1 = k
    BY <1>8, <2>1
  <2>3. PICK i : i = n + k - 1
    OBVIOUS
  <2>4. next[i] = Tail(todo)[i - n]
    <3>1. i \in 1 .. Len(next) /\ ~(i <= n)
      BY <1>6, <1>8, <2>2, <2>3
    <3> QED BY <1>6, <3>1
  <2> QED BY <1>6, <1>7, <1>9, <2>2, <2>3, <2>4
<1>12. ASSUME NEW i \in DOMAIN next, i <= n
       PROVE  i \in DOMAIN Below[h]
              /\ next[i] = Port(Here.ctrl, Below[h][i], at.addr)
  BY <1>2, <1>4, <1>6, <1>7, <1>12, <1>8 DEF n
<1>13. ASSUME NEW i \in DOMAIN next
       PROVE  \/ \E b \in DOMAIN Below[h] :
                    i = b /\ next[i] = Port(Here.ctrl, Below[h][b], at.addr)
              \/ \E k \in DOMAIN todo \ {1} : i = n + k - 1 /\ next[i] = todo[k]
  <2>1. i \in Nat /\ n \in Nat
    BY <1>6, <1>7, <1>8
  <2>2. CASE i <= n
    BY <2>2, <1>12
  <2>3. CASE i > n
    <3> DEFINE k == i - n + 1
    <3>1. k \in DOMAIN todo \ {1} /\ next[i] = todo[k] /\ i = n + k - 1
      BY <2>1, <2>3, <1>10
    <3> QED BY <3>1
  <2> QED BY <2>1, <2>2, <2>3
<1> QED BY <1>6, <1>11, <1>13 DEF n, next

LEMMA TurnTyped ==
    ASSUME UsbAssumption, UsbTyped, TurnStep PROVE UsbTyped'
<1>1. PICK kind \in {"start", "scan"}, c \in Ctrls :
         /\ work # <<>> /\ Head(work) = <<kind, c>>
         /\ \/ /\ g_ehci' = Append(g_ehci, c)
               /\ work' = Append(Tail(work), <<"scan", c>>) /\ todo' = todo
            \/ /\ todo' \in {todo, PortsOf(c)} /\ work' = Tail(work)
               /\ g_ehci' = g_ehci
         /\ UNCHANGED <<bus, next_addr, g_usb_dev, classes, at>>
  BY DEF TurnStep
<1> DEFINE Turns == {"start", "scan"} \X Ctrls
<1>2. work' \in Seq(Turns)
  <2>1. <<"scan", c>> \in Turns
    OBVIOUS
  <2> HIDE DEF Turns
  <2>2. work \in Seq(Turns) /\ work # <<>>
    BY <1>1 DEF UsbTyped, Turns
  <2>3. Tail(work) \in Seq(Turns)
    BY <2>2
  <2>4. Append(Tail(work), <<"scan", c>>) \in Seq(Turns)
    BY <2>1, <2>3
  <2> QED BY <1>1, <2>3, <2>4
<1>3. g_ehci' \in Seq(Ctrls)
  <2>1. g_ehci \in Seq(Ctrls)
    BY DEF UsbTyped
  <2> QED BY <1>1, <2>1
<1>4. todo' \in Seq(PortForm)
  <2>1. todo \in Seq(PortForm)
    BY DEF UsbTyped
  <2> QED BY <1>1, <2>1, PortsTyped
<1> QED BY <1>1, <1>2, <1>3, <1>4 DEF UsbTyped

LEMMA BeginTyped == Begin \in StageForm
BY DEF Begin, StageForm, Stages, Kinds

LEMMA LeaveTyped ==
    ASSUME UsbAssumption, UsbTyped, todo # <<>>, Leave
    PROVE  todo' \in Seq(PortForm) /\ at' \in StageForm
BY SearchTypes, BeginTyped DEF Leave

LEMMA GoTyped ==
    ASSUME UsbTyped, NEW stage \in Stages, Go(stage)
    PROVE  todo' \in Seq(PortForm) /\ at' \in StageForm
BY DEF Go, UsbTyped, StageForm

LEMMA UsbKeepsTypes ==
    ASSUME UsbAssumption, Orderly, UsbTyped, SearchSound, [UsbNext]_usbVars
    PROVE  UsbTyped'
<1>1. ASSUME PortStep PROVE UsbTyped'
  <2>1. todo # <<>> /\ (Leave \/ Go("first"))
    BY <1>1 DEF PortStep, Leave, Go
  <2>2. todo' \in Seq(PortForm) /\ at' \in StageForm
    BY <2>1, LeaveTyped, GoTyped DEF Stages
  <2>3. bus' \in [Devices -> DeviceForm]
    <3>1. Here.ctrl \in Ctrls /\ Here.dev \in Devices
      BY <2>1, SearchTypes, <1>1 DEF PortForm, PortStep
    <3>2. \A on \in BOOLEAN : [on |-> on, ctrl |-> Here.ctrl, addr |-> 0,
                              conf |-> FALSE] \in DeviceForm
      BY <3>1 DEF DeviceForm
    <3>3. \/ bus' = bus
          \/ \E r \in DeviceForm : bus' = [bus EXCEPT ![Here.dev] = r]
      BY <1>1, <3>2 DEF PortStep
    <3> QED BY <3>1, <3>3 DEF UsbTyped
  <2> QED BY <1>1, <2>2, <2>3 DEF PortStep, UsbTyped, pci
<1>2. ASSUME GetFirst PROVE UsbTyped'
  <2>1. todo # <<>> /\ (Leave \/ Go("address"))
    BY <1>2 DEF GetFirst, GoOn, SearchSound
  <2> QED BY <1>2, <2>1, LeaveTyped, GoTyped DEF GetFirst, UsbTyped, pci, Stages
<1>3. ASSUME SetAddress PROVE UsbTyped'
  <2> DEFINE new == next_addr[Here.ctrl]
  <2>1. PICK o \in Outcomes(Here.ctrl, 0) :
           /\ next_addr' = [next_addr EXCEPT ![Here.ctrl] = new + 1]
           /\ bus' = IF Happens(o)
                     THEN [d \in Devices |-> IF d \in Reached(Here.ctrl, 0)
                                             THEN [bus[d] EXCEPT !.addr = new]
                                             ELSE bus[d]]
                     ELSE bus
           /\ IF Succeeds(o)
              THEN /\ at' = [at EXCEPT !.stage = "descriptor", !.addr = new]
                   /\ UNCHANGED todo
              ELSE Leave
    BY <1>3 DEF SetAddress, AfterAddress
  <2>2. todo # <<>> /\ Here.ctrl \in Ctrls /\ new \in Nat \ {0}
    BY <1>3, SearchTypes DEF SetAddress, SearchSound, UsbTyped, PortForm
  <2> HIDE DEF new
  <2>3. next_addr' \in [Ctrls -> Nat \ {0}]
    <3>1. new + 1 \in Nat \ {0}
      BY <2>2
    <3> QED BY <2>1, <2>2, <3>1 DEF UsbTyped
  <2>4. bus' \in [Devices -> DeviceForm]
    BY <2>1, <2>2 DEF UsbTyped, DeviceForm
  <2>5. todo' \in Seq(PortForm) /\ at' \in StageForm
    BY <2>1, <2>2, LeaveTyped DEF UsbTyped, StageForm, Stages
  <2> QED BY <1>3, <2>3, <2>4, <2>5 DEF SetAddress, UsbTyped, pci
<1>4. ASSUME GetDescriptor PROVE UsbTyped'
  <2>1. PICK o \in Outcomes(Here.ctrl, at.addr) :
           \/ /\ \E d \in Reached(Here.ctrl, at.addr) :
                    at' = [at EXCEPT !.stage = "config", !.class = Class[d]]
              /\ UNCHANGED todo
           \/ Leave
    BY <1>4 DEF GetDescriptor
  <2>2. todo # <<>>
    BY <1>4 DEF GetDescriptor, SearchSound
  <2>3. todo' \in Seq(PortForm) /\ at' \in StageForm
    BY <2>1, <2>2, LeaveTyped, WhoIsReached
    DEF UsbTyped, StageForm, Stages, Kinds
  <2> QED BY <1>4, <2>3 DEF GetDescriptor, UsbTyped, pci
<1>5. ASSUME GetConfig PROVE UsbTyped'
  <2>1. todo # <<>> /\ (Leave \/ Go("configure"))
    BY <1>5 DEF GetConfig, GoOn, SearchSound
  <2> QED BY <1>5, <2>1, LeaveTyped, GoTyped DEF GetConfig, UsbTyped, pci, Stages
<1>6. ASSUME SetConfiguration PROVE UsbTyped'
  <2>1. todo # <<>> /\ Go("probe") /\ HasPlace
    BY <1>6 DEF SetConfiguration, SearchSound
  <2>2. bus' \in [Devices -> DeviceForm]
    <3>1. \A d \in Devices :
             bus[d] \in DeviceForm /\ [bus[d] EXCEPT !.conf = TRUE] \in DeviceForm
      BY DEF UsbTyped, DeviceForm
    <3>2. PICK o \in Outcomes(Here.ctrl, at.addr) :
             bus' = [d \in Devices |->
                       IF Happens(o) /\ d \in Reached(Here.ctrl, at.addr)
                       THEN [bus[d] EXCEPT !.conf = TRUE] ELSE bus[d]]
      BY <1>6 DEF SetConfiguration
    <3> QED BY <3>1, <3>2
  <2>3. g_usb_dev' \in Seq(EntryForm) /\ Len(g_usb_dev') <= USB_MAX_DEVICES
    <3>1. [ctrl |-> Here.ctrl, addr |-> at.addr, class |-> at.class] \in EntryForm
      BY <2>1, SearchTypes DEF UsbTyped, StageForm, EntryForm, PortForm
    <3> QED BY <1>6, <2>1, <3>1
            DEF SetConfiguration, UsbTyped, HasPlace, UsbAssumption
  <2> QED BY <1>6, <2>1, <2>2, <2>3, GoTyped
          DEF SetConfiguration, UsbTyped, pci, Stages
<1>7. ASSUME ProbeStep PROVE UsbTyped'
  <2>1. todo # <<>> /\ Leave
    BY <1>7 DEF ProbeStep, SearchSound, Leave
  <2>2. classes' \in [DOMAIN TableMax -> Seq(Nat)]
    <3>1. Place \in Nat
      BY DEF Place, UsbTyped
    <3> DEFINE t == at.class
    <3>2. \/ classes' = classes
          \/ t \in DOMAIN TableMax /\ classes' = [classes EXCEPT ![t] = Append(@, Place)]
      BY <1>7 DEF ProbeStep, Enter
    <3> HIDE DEF t
    <3>3. ASSUME t \in DOMAIN TableMax PROVE Append(classes[t], Place) \in Seq(Nat)
      BY <3>1, <3>3 DEF UsbTyped
    <3> QED BY <3>2, <3>3 DEF UsbTyped
  <2> QED BY <1>7, <2>1, <2>2, LeaveTyped DEF ProbeStep, UsbTyped, pci
<1>8. ASSUME probe_hub PROVE UsbTyped'
  <2>1. todo # <<>>
    BY <1>8 DEF probe_hub, SearchSound
  <2>2. PICK d \in Reached(Here.ctrl, at.addr) :
           /\ at' = Begin
           /\ todo' = Tail(todo) \/ todo' = HubTodo(d)
    BY <1>8 DEF probe_hub, HubPorts, HubTodo
  <2>3. todo' \in Seq(PortForm)
    BY <2>1, <2>2, SearchTypes, HubTyped, WhoIsReached
  <2> QED BY <1>8, <2>2, <2>3, BeginTyped DEF probe_hub, UsbTyped, pci
<1>9. ASSUME UNCHANGED usbVars PROVE UsbTyped'
  BY <1>9 DEF usbVars, UsbTyped
<1> QED BY <1>1, <1>2, <1>3, <1>4, <1>5, <1>6, <1>7, <1>8, <1>9, UsbSteps,
           TurnTyped

-----------------------------------------------------------------------------
(* Where the search stands, and the addresses.                             *)

LEMMA UsbStartSound ==
    ASSUME UsbAssumption, UsbInit PROVE SearchSound /\ AddressesGiven
<1>1. /\ \A d \in Devices : ~bus[d].on
      /\ at.stage = "port" /\ todo = <<>> /\ g_ehci = <<>>
  BY DEF UsbInit, Off, Begin
<1>2. \A j \in DOMAIN work : work[j][1] = "start"
  BY DEF UsbInit
<1> QED BY <1>1, <1>2 DEF SearchSound, AddressesGiven, AddressesOwn, OnFirst

(* Devices keep what matters for addresses, and so do the controllers.     *)
BusKept ==
    /\ UNCHANGED <<work, g_ehci>>
    /\ \A d \in Devices : /\ bus'[d].on = bus[d].on
                          /\ bus'[d].ctrl = bus[d].ctrl

LEMMA SoundAfterLeave ==
    ASSUME UsbAssumption, UsbTyped, SearchSound, todo # <<>>, Leave,
           UNCHANGED <<work, g_ehci>>,
           \A d \in Devices :
              bus'[d].on /\ bus'[d].ctrl[1] = "ehci" => g_ehci # <<>>
    PROVE  SearchSound'
<1>1. at'.stage = "port"
  BY DEF Leave, Begin
<1>2. \A i \in DOMAIN todo' : i + 1 \in DOMAIN todo /\ todo'[i] = todo[i + 1]
  BY SearchTypes DEF Leave
<1> QED BY <1>1, <1>2 DEF SearchSound

LEMMA SoundAfterGo ==
    ASSUME UsbAssumption, UsbTyped, SearchSound, BusKept,
           todo' = todo, todo # <<>>, Loud(Here),
           g_ehci # <<>>, Here.ctrl = g_ehci[1],
           at'.stage \notin {"port", "first"}, at'.stage # "probe" => HasPlace'
    PROVE  SearchSound'
<1>1. Here' = Here
  BY DEF Here
<1>2. Loud(Here)'
  BY <1>1 DEF Loud
<1> QED BY <1>1, <1>2 DEF SearchSound, BusKept, Stages

LEMMA GivenKept ==
    ASSUME UsbTyped, AddressesGiven, BusKept, next_addr' = next_addr,
           \A d \in Devices : bus'[d].addr = bus[d].addr,
           g_usb_dev' = g_usb_dev \/ HasPlace, HasPlace' => HasPlace,
           \A d \in Devices :
              OnFirst(d) /\ bus[d].addr = 0 /\ HasPlace
              => at'.stage \in {"first", "address"} /\ d = Here'.dev
    PROVE  AddressesGiven'
<1>1. \A d \in Devices : OnFirst(d)' <=> OnFirst(d)
  BY DEF OnFirst, BusKept
<1>2. AddressesOwn'
  BY DEF AddressesOwn, AddressesGiven, HasPlace, BusKept
<1>3. g_ehci' = g_ehci
  BY DEF BusKept
<1> QED BY <1>1, <1>2, <1>3 DEF AddressesGiven

(* The first controller stays the first one.                               *)
LEMMA FirstStays ==
    ASSUME UsbAssumption, UsbTyped, SearchSound, TurnStep
    PROVE  /\ at.stage = "port" /\ at' = at /\ todo = <<>>
           /\ UNCHANGED <<bus, next_addr, g_usb_dev, classes>>
           /\ g_ehci # <<>> => g_ehci' # <<>> /\ g_ehci'[1] = g_ehci[1]
           /\ \A d \in Devices : OnFirst(d)' <=> OnFirst(d)
<1>1. PICK kind \in {"start", "scan"}, c \in Ctrls :
         /\ todo = <<>>
         /\ \/ c[1] = "ehci" /\ g_ehci' = Append(g_ehci, c)
            \/ g_ehci' = g_ehci
         /\ UNCHANGED <<bus, next_addr, g_usb_dev, classes, at>>
  BY DEF TurnStep
<1>2. at.stage = "port"
  BY <1>1 DEF SearchSound
<1>3. g_ehci \in Seq(Ctrls)
  BY DEF UsbTyped
<1>4. g_ehci # <<>> => g_ehci' # <<>> /\ g_ehci'[1] = g_ehci[1]
  BY <1>1, <1>3
<1>5. CASE g_ehci = <<>> /\ g_ehci' # g_ehci
  <2>1. c[1] = "ehci" /\ g_ehci' = Append(g_ehci, c)
    BY <1>1, <1>5
  <2>2. g_ehci'[1] = c
    BY <1>3, <1>5, <2>1
  <2>3. \A d \in Devices : ~OnFirst(d)'
    BY <1>1, <1>5, <2>1, <2>2 DEF OnFirst, SearchSound
  <2> QED BY <1>1, <1>2, <1>4, <1>5, <2>3 DEF OnFirst
<1>6. CASE g_ehci # <<>> \/ g_ehci' = g_ehci
  BY <1>1, <1>2, <1>4, <1>6 DEF OnFirst
<1> QED BY <1>5, <1>6

LEMMA TurnSound ==
    ASSUME UsbAssumption, UsbTyped, SearchSound, AddressesGiven, TurnStep
    PROVE  SearchSound' /\ AddressesGiven'
<1>1. PICK kind \in {"start", "scan"}, c \in Ctrls :
         /\ todo = <<>> /\ work # <<>> /\ Head(work) = <<kind, c>>
         /\ \/ /\ kind = "start" /\ c[1] = "ehci"
               /\ g_ehci' = Append(g_ehci, c)
               /\ work' = Append(Tail(work), <<"scan", c>>) /\ todo' = todo
            \/ /\ todo' \in {todo, PortsOf(c)} /\ work' = Tail(work)
               /\ g_ehci' = g_ehci
               /\ kind = "start" /\ c[1] = "ehci" => todo' = todo
               /\ kind = "scan" => todo' = PortsOf(c)
         /\ UNCHANGED <<bus, next_addr, g_usb_dev, classes, at>>
  BY DEF TurnStep
<1>2. AddressesOwn'
  <2>1. \A d \in Devices : OnFirst(d)' <=> OnFirst(d)
    BY FirstStays
  <2> QED BY <1>1, <2>1, FirstStays DEF AddressesOwn, AddressesGiven, OnFirst
<1>3. AddressesGiven'
  <2>1. \A d \in Devices : OnFirst(d)' => OnFirst(d) /\ g_ehci'[1] = g_ehci[1]
    BY FirstStays DEF OnFirst
  <2>2. UNCHANGED <<bus, next_addr, at>> /\ (HasPlace' <=> HasPlace)
        /\ at.stage = "port"
    BY FirstStays DEF HasPlace
  <2> QED BY <1>2, <2>1, <2>2 DEF AddressesGiven
<1> DEFINE Turns == {"start", "scan"} \X Ctrls
<1>4. work \in Seq(Turns) /\ g_ehci \in Seq(Ctrls)
  BY DEF UsbTyped
<1>5. work[1] = <<kind, c>> /\ 1 \in DOMAIN work
  <2> HIDE DEF Turns
  <2> QED BY <1>1, <1>4
<1>6. \A j \in DOMAIN work' :
         (j + 1 \in DOMAIN work /\ work'[j] = work[j + 1]) \/ g_ehci' # <<>>
  <2> HIDE DEF Turns
  <2> QED BY <1>1, <1>4
<1>7. \A j \in DOMAIN work' : work'[j][1] = "scan" => g_ehci' # <<>>
  BY <1>6, FirstStays DEF SearchSound
<1>8. \A i \in DOMAIN g_ehci' : g_ehci'[i][1] = "ehci"
  BY <1>1, <1>4 DEF SearchSound
<1>9. \A i \in DOMAIN todo' : todo'[i].hub = 0
         /\ (todo'[i].ctrl[1] = "ehci" => g_ehci' # <<>>)
  <2>1. CASE todo' = todo
    BY <1>1, <2>1
  <2>2. CASE todo' = PortsOf(c) /\ g_ehci' = g_ehci /\ (kind = "start" => c[1] # "ehci")
    <3>1. c[1] = "ehci" => g_ehci # <<>>
      BY <1>5, <2>2 DEF SearchSound
    <3>2. \A i \in DOMAIN todo' : todo'[i] = Port(c, On[c][i], 0)
      BY <2>2, PortsTyped
    <3>3. \A i \in DOMAIN todo' : todo'[i].hub = 0 /\ todo'[i].ctrl = c
      BY <3>2 DEF Port
    <3> QED BY <2>2, <3>1, <3>3
  <2> QED BY <1>1, <2>1, <2>2
<1>10. at'.stage = "port" /\ UNCHANGED bus
  BY FirstStays
<1>11. g_ehci # <<>> => g_ehci' # <<>>
  BY FirstStays
<1> QED BY <1>3, <1>7, <1>8, <1>9, <1>10, <1>11 DEF SearchSound

LEMMA PortSound ==
    ASSUME UsbAssumption, UsbTyped, SearchSound, AddressesGiven, PortStep
    PROVE  SearchSound' /\ AddressesGiven'
<1>1. /\ todo # <<>> /\ at.stage = "port"
      /\ UNCHANGED <<next_addr, g_usb_dev, work, g_ehci>>
      /\ (HasPlace' <=> HasPlace)
  BY DEF PortStep, pci, HasPlace
<1>2. Here \in PortForm /\ Here = todo[1] /\ 1 \in DOMAIN todo
  BY <1>1, SearchTypes
<1>3. \/ Leave /\ (bus' = bus \/ ~HasPlace)
      \/ /\ HasPlace /\ Loud(Here) /\ at' = [at EXCEPT !.stage = "first"]
         /\ todo' = todo /\ Here' = Here
  BY DEF PortStep, Leave, Here
<1>4. PICK h \in Devices : h = Here.dev
  BY <1>2 DEF PortForm
<1>5. /\ \A d \in Devices \ {h} : bus'[d] = bus[d]
      /\ \/ bus'[h] = bus[h]
         \/ bus'[h].addr = 0 /\ bus'[h].ctrl = Here.ctrl
  <2>1. CASE bus' = bus
    BY <2>1
  <2>2. CASE \E on \in BOOLEAN :
                bus' = [bus EXCEPT ![h] = [on |-> on, ctrl |-> Here.ctrl,
                                           addr |-> 0, conf |-> FALSE]]
    BY <2>2 DEF UsbTyped
  <2> QED BY <1>4, <2>1, <2>2 DEF PortStep
<1>6. \A d \in Devices : bus'[d].on /\ bus'[d].ctrl[1] = "ehci" => g_ehci # <<>>
  BY <1>2, <1>5 DEF SearchSound
<1>7. \A d \in Devices : OnFirst(d) /\ bus[d].addr = 0 => ~HasPlace
  BY <1>1 DEF AddressesGiven
<1>8. SearchSound'
  <2>1. CASE Leave
    BY <1>1, <1>6, <2>1, SoundAfterLeave
  <2>2. CASE /\ HasPlace /\ Loud(Here) /\ at' = [at EXCEPT !.stage = "first"]
             /\ todo' = todo /\ Here' = Here
    <3>1. at'.stage = "first"
      BY <2>2 DEF UsbTyped, StageForm
    <3>2. Loud(Here)'
      BY <2>2 DEF Loud
    <3>3. OnFirst(h)' /\ bus'[h].addr = 0 => Here.ctrl = g_ehci[1]
      <4>1. CASE bus'[h] = bus[h]
        BY <1>1, <1>7, <2>2, <4>1 DEF OnFirst
      <4>2. CASE bus'[h].ctrl = Here.ctrl
        BY <1>1, <4>2 DEF OnFirst
      <4> QED BY <1>5, <4>1, <4>2
    <3>4. OnFirst(Here.dev)' /\ bus'[Here'.dev].addr = 0 => Here'.ctrl = g_ehci'[1]
      BY <1>1, <1>4, <2>2, <3>3 DEF OnFirst
    <3> QED BY <1>1, <1>6, <2>2, <3>1, <3>2, <3>4 DEF SearchSound
  <2> QED BY <1>3, <2>1, <2>2
<1>9. ASSUME NEW d \in Devices, OnFirst(d)'
      PROVE  /\ bus'[d].addr < next_addr'[g_ehci'[1]]
             /\ bus'[d].addr = 0 /\ HasPlace'
                => at'.stage \in {"first", "address"} /\ d = Here'.dev
  <2>1. g_ehci[1] \in Ctrls
    BY <1>1, <1>9 DEF OnFirst, UsbTyped
  <2>2. next_addr[g_ehci[1]] \in Nat \ {0}
    BY <2>1 DEF UsbTyped
  <2>3. CASE bus'[d] = bus[d]
    <3>1. OnFirst(d)
      BY <1>1, <1>9, <2>3 DEF OnFirst
    <3> QED BY <1>1, <1>7, <2>3, <3>1 DEF AddressesGiven
  <2>4. CASE bus'[d] # bus[d]
    <3>1. d = h /\ bus'[d].addr = 0
      BY <1>5, <2>4
    <3>2. ASSUME HasPlace PROVE at'.stage = "first" /\ d = Here'.dev
      BY <1>3, <1>4, <2>4, <3>1, <3>2 DEF UsbTyped, StageForm
    <3> QED BY <1>1, <2>2, <3>1, <3>2
  <2> QED BY <2>3, <2>4
<1>10. AddressesOwn'
  <2> SUFFICES ASSUME NEW d \in Devices, NEW e \in Devices, d # e,
                      bus'[d].on, bus'[e].on, g_ehci # <<>>,
                      bus'[d].ctrl = g_ehci[1], bus'[e].ctrl = g_ehci[1],
                      bus'[d].addr = bus'[e].addr
               PROVE  bus'[d].addr = 0 /\ Len(g_usb_dev) = USB_MAX_DEVICES
    BY <1>1 DEF AddressesOwn
  <2>1. CASE bus'[d] = bus[d] /\ bus'[e] = bus[e]
    BY <2>1 DEF AddressesGiven, AddressesOwn
  <2>2. ASSUME NEW x \in Devices, NEW y \in Devices, x # y,
               bus'[x] # bus[x], bus'[y].addr = bus'[x].addr,
               bus'[y].on, bus'[y].ctrl = g_ehci[1]
        PROVE  bus'[x].addr = 0 /\ ~HasPlace
    <3>1. x = h /\ bus'[x].addr = 0 /\ bus'[y] = bus[y]
      BY <1>5, <2>2
    <3>2. OnFirst(y) /\ bus[y].addr = 0
      BY <2>2, <3>1 DEF OnFirst
    <3> QED BY <1>7, <3>1, <3>2
  <2>3. \/ bus'[d].addr = 0 /\ ~HasPlace
        \/ bus'[d] = bus[d] /\ bus'[e] = bus[e]
    BY <2>2
  <2>4. ~HasPlace => Len(g_usb_dev) = USB_MAX_DEVICES
    BY DEF HasPlace, UsbTyped, UsbAssumption
  <2> QED BY <2>1, <2>3, <2>4
<1> QED BY <1>8, <1>9, <1>10 DEF AddressesGiven

LEMMA FirstSound ==
    ASSUME UsbAssumption, Orderly, UsbTyped, SearchSound, AddressesGiven, GetFirst
    PROVE  SearchSound' /\ AddressesGiven'
<1>1. /\ at.stage = "first" /\ todo # <<>> /\ Loud(Here) /\ HasPlace
      /\ UNCHANGED <<bus, next_addr, g_usb_dev, classes, work, g_ehci>>
  BY DEF GetFirst, pci, SearchSound
<1>2. PICK o \in Outcomes(Here.ctrl, 0) : GoOn(o, "address")
  BY DEF GetFirst
<1>3. BusKept /\ (HasPlace' <=> HasPlace)
  BY <1>1 DEF BusKept, HasPlace
<1>4. ASSUME NEW d \in Devices, OnFirst(d), bus[d].addr = 0
      PROVE  /\ d = Here.dev /\ Here.ctrl = g_ehci[1]
             /\ g_ehci # <<>> /\ d \in Reached(Here.ctrl, 0)
  <2>1. d = Here.dev /\ Here.ctrl = g_ehci[1] /\ g_ehci # <<>>
    BY <1>1, <1>4 DEF AddressesGiven, SearchSound, OnFirst
  <2>2. g_ehci[1][1] = "ehci"
    BY <2>1 DEF SearchSound, UsbTyped
  <2> QED BY <1>4, <2>1, <2>2, WhoIsReached
<1>5. CASE Succeeds(o)
  <2>1. Go("address") /\ o # "lost"
    BY <1>2, <1>5 DEF GoOn, Succeeds
  <2>2. PICK d \in Devices : OnFirst(d) /\ bus[d].addr = 0
    <3>1. Reached(Here.ctrl, 0) # {}
      BY <2>1, TransferEnds
    <3> QED BY <3>1, WhoIsReached
  <2>3. Here.ctrl = g_ehci[1] /\ g_ehci # <<>>
    BY <1>4, <2>2
  <2>4. at'.stage = "address" /\ todo' = todo /\ Here' = Here
    BY <2>1 DEF Go, UsbTyped, StageForm, Here
  <2>5. SearchSound'
    BY <1>1, <1>3, <2>3, <2>4, SoundAfterGo
  <2> QED BY <1>1, <1>3, <1>4, <2>4, <2>5, GivenKept
<1>6. CASE ~Succeeds(o)
  <2>1. Leave
    BY <1>2, <1>6 DEF GoOn
  <2>2. o = "lost" /\ Reached(Here.ctrl, 0) = {}
    BY <1>1, <1>6, TransferEnds DEF Succeeds, Orderly
  <2>3. \A d \in Devices : ~(OnFirst(d) /\ bus[d].addr = 0)
    BY <1>4, <2>2
  <2>4. SearchSound'
    BY <1>1, <2>1, SoundAfterLeave DEF SearchSound
  <2> QED BY <1>1, <1>3, <2>3, <2>4, GivenKept
<1> QED BY <1>5, <1>6

(* What SET_ADDRESS does when it is not lost.                              *)
LEMMA AddressTaken ==
    ASSUME UsbAssumption, Orderly, UsbTyped, SearchSound, AddressesGiven,
           SetAddress
    PROVE  LET new == next_addr[g_ehci[1]] IN
           /\ at.stage = "address" /\ todo # <<>> /\ HasPlace /\ g_ehci # <<>>
           /\ Here.ctrl = g_ehci[1] /\ g_ehci[1] \in Ctrls /\ Here.dev \in Devices
           /\ new \in Nat \ {0} /\ Loud(Here)
           /\ next_addr' = [next_addr EXCEPT ![g_ehci[1]] = new + 1]
           /\ \A d \in Devices :
                 bus'[d] = IF OnFirst(d) /\ bus[d].addr = 0
                           THEN [bus[d] EXCEPT !.addr = new] ELSE bus[d]
           /\ \A d \in Devices : OnFirst(d) /\ bus[d].addr = 0 => d = Here.dev
           /\ \/ Leave
              \/ /\ at' = [at EXCEPT !.stage = "descriptor", !.addr = new]
                 /\ todo' = todo
                 /\ OnFirst(Here.dev) /\ bus[Here.dev].addr = 0
           /\ UNCHANGED <<g_usb_dev, classes, work, g_ehci>>
<1> DEFINE new == next_addr[g_ehci[1]]
<1>1. /\ at.stage = "address" /\ todo # <<>> /\ HasPlace /\ g_ehci # <<>>
      /\ Here.ctrl = g_ehci[1] /\ Loud(Here)
      /\ UNCHANGED <<g_usb_dev, classes, work, g_ehci>>
  BY DEF SetAddress, pci, SearchSound
<1>2. g_ehci[1] \in Ctrls /\ Here.dev \in Devices /\ g_ehci[1][1] = "ehci"
  BY <1>1, SearchTypes DEF SearchSound, UsbTyped, PortForm
<1>3. new \in Nat \ {0}
  BY <1>2 DEF UsbTyped
<1>4. PICK o \in Outcomes(Here.ctrl, 0) :
         /\ next_addr' = [next_addr EXCEPT ![Here.ctrl] = new + 1]
         /\ bus' = IF Happens(o)
                   THEN [d \in Devices |-> IF d \in Reached(Here.ctrl, 0)
                                           THEN [bus[d] EXCEPT !.addr = new]
                                           ELSE bus[d]]
                   ELSE bus
         /\ IF Succeeds(o)
            THEN /\ at' = [at EXCEPT !.stage = "descriptor", !.addr = new]
                 /\ UNCHANGED todo
            ELSE Leave
  BY <1>1 DEF SetAddress, AfterAddress
<1> HIDE DEF new
<1>5. o \in {"done", "late"} \/ (o = "lost" /\ Reached(Here.ctrl, 0) = {})
  BY <1>1, TransferEnds DEF Orderly
<1>6. \A d \in Devices : d \in Reached(Here.ctrl, 0)
                         <=> OnFirst(d) /\ bus[d].addr = 0
  BY <1>1, <1>2, WhoIsReached
<1>7. ASSUME NEW d \in Devices
      PROVE  bus'[d] = IF OnFirst(d) /\ bus[d].addr = 0
                       THEN [bus[d] EXCEPT !.addr = new] ELSE bus[d]
  BY <1>4, <1>5, <1>6 DEF Happens
<1>8. \A d \in Devices : OnFirst(d) /\ bus[d].addr = 0 => d = Here.dev
  BY <1>1 DEF AddressesGiven
<1>9. o # "lost" => OnFirst(Here.dev) /\ bus[Here.dev].addr = 0
  <2>1. Reached(Here.ctrl, 0) \subseteq Devices
    BY WhoIsReached
  <2> QED BY <1>2, <1>6, <1>8, <2>1, TransferEnds
<1>10. \/ Leave
       \/ /\ at' = [at EXCEPT !.stage = "descriptor", !.addr = new]
          /\ todo' = todo
          /\ OnFirst(Here.dev) /\ bus[Here.dev].addr = 0
  BY <1>4, <1>9 DEF Succeeds
<1> QED BY <1>1, <1>2, <1>3, <1>4, <1>7, <1>8, <1>10 DEF new

LEMMA AddressSound ==
    ASSUME UsbAssumption, Orderly, UsbTyped, SearchSound, AddressesGiven,
           SetAddress
    PROVE  SearchSound' /\ AddressesGiven'
<1> DEFINE new == next_addr[g_ehci[1]]
<1>1. /\ at.stage = "address" /\ todo # <<>> /\ HasPlace /\ g_ehci # <<>>
      /\ Here.ctrl = g_ehci[1] /\ g_ehci[1] \in Ctrls /\ Here.dev \in Devices
      /\ new \in Nat \ {0} /\ Loud(Here)
      /\ next_addr' = [next_addr EXCEPT ![g_ehci[1]] = new + 1]
      /\ \A d \in Devices :
            bus'[d] = IF OnFirst(d) /\ bus[d].addr = 0
                      THEN [bus[d] EXCEPT !.addr = new] ELSE bus[d]
      /\ \A d \in Devices : OnFirst(d) /\ bus[d].addr = 0 => d = Here.dev
      /\ \/ Leave
         \/ /\ at' = [at EXCEPT !.stage = "descriptor", !.addr = new]
            /\ todo' = todo
      /\ UNCHANGED <<g_usb_dev, classes, work, g_ehci>>
  BY AddressTaken
<1> HIDE DEF new
<1>2. \A d \in Devices :
         /\ bus'[d].on = bus[d].on /\ bus'[d].ctrl = bus[d].ctrl
         /\ bus'[d].addr = IF OnFirst(d) /\ bus[d].addr = 0 THEN new
                           ELSE bus[d].addr
  <2>1. \A d \in Devices : bus[d] \in DeviceForm
    BY DEF UsbTyped
  <2>2. \A r \in DeviceForm : /\ [r EXCEPT !.addr = new].on = r.on
                              /\ [r EXCEPT !.addr = new].ctrl = r.ctrl
                              /\ [r EXCEPT !.addr = new].addr = new
    BY DEF DeviceForm
  <2>3. \A d \in Devices :
           bus'[d] = IF OnFirst(d) /\ bus[d].addr = 0
                     THEN [bus[d] EXCEPT !.addr = new] ELSE bus[d]
    BY <1>1
  <2> QED BY <2>1, <2>2, <2>3
<1>3. BusKept /\ (HasPlace' <=> HasPlace)
  BY <1>1, <1>2 DEF BusKept, HasPlace
<1>4. SearchSound'
  <2>1. CASE Leave
    BY <1>1, <1>2, <2>1, SoundAfterLeave DEF SearchSound
  <2>2. CASE /\ at' = [at EXCEPT !.stage = "descriptor", !.addr = new]
             /\ todo' = todo
    <3>1. at'.stage = "descriptor"
      BY <2>2 DEF UsbTyped, StageForm
    <3> QED BY <1>1, <1>3, <2>2, <3>1, SoundAfterGo
  <2> QED BY <1>1, <2>1, <2>2
<1>5. next_addr'[g_ehci'[1]] = new + 1
  BY <1>1 DEF UsbTyped
<1>6. \A d \in Devices : OnFirst(d)' <=> OnFirst(d)
  BY <1>1, <1>2 DEF OnFirst
<1>7. \A d \in Devices : OnFirst(d) =>
         /\ bus[d].addr \in Nat /\ bus[d].addr < new
         /\ bus'[d].addr < new + 1 /\ bus'[d].addr # 0
  BY <1>1, <1>2 DEF AddressesGiven, UsbTyped, DeviceForm, new
<1>8. AddressesOwn'
  <2> SUFFICES ASSUME NEW d \in Devices, NEW e \in Devices, d # e,
                      OnFirst(d), OnFirst(e), bus'[d].addr = bus'[e].addr
               PROVE  FALSE
    BY <1>1, <1>2 DEF AddressesOwn, OnFirst
  <2>1. bus[d].addr # bus[e].addr
    BY <1>1 DEF AddressesGiven, AddressesOwn, OnFirst, HasPlace
  <2> QED BY <1>1, <1>2, <1>7, <2>1
<1> QED BY <1>4, <1>5, <1>6, <1>7, <1>8 DEF AddressesGiven

(* Once the first transfers are over nobody is at address 0.               *)
LEMMA LaterSound ==
    ASSUME UsbAssumption, Orderly, UsbTyped, SearchSound, AddressesGiven,
           GetDescriptor \/ GetConfig \/ SetConfiguration \/ ProbeStep \/ probe_hub
    PROVE  SearchSound' /\ AddressesGiven'
<1>1. at.stage \in {"descriptor", "config", "configure", "probe"}
  BY DEF GetDescriptor, GetConfig, SetConfiguration, ProbeStep, probe_hub
<1>2. /\ todo # <<>> /\ Loud(Here) /\ g_ehci # <<>> /\ Here.ctrl = g_ehci[1]
      /\ at.stage # "probe" => HasPlace
  BY <1>1 DEF SearchSound
<1>3. UNCHANGED <<next_addr, work, g_ehci>>
  BY DEF GetDescriptor, GetConfig, SetConfiguration, ProbeStep, probe_hub, pci
<1>4. \A d \in Devices : /\ bus'[d].on = bus[d].on
                         /\ bus'[d].ctrl = bus[d].ctrl
                         /\ bus'[d].addr = bus[d].addr
  <2>1. CASE bus' = bus
    BY <2>1
  <2>2. ASSUME SetConfiguration, NEW d \in Devices
        PROVE  /\ bus'[d].on = bus[d].on /\ bus'[d].ctrl = bus[d].ctrl
               /\ bus'[d].addr = bus[d].addr
    <3>1. bus'[d] = bus[d] \/ bus'[d] = [bus[d] EXCEPT !.conf = TRUE]
      BY <2>2 DEF SetConfiguration
    <3>2. bus[d] \in DeviceForm
      BY DEF UsbTyped
    <3> QED BY <3>1, <3>2 DEF DeviceForm
  <2>3. SetConfiguration \/ bus' = bus
    BY DEF GetDescriptor, GetConfig, ProbeStep, probe_hub
  <2> QED BY <2>1, <2>2, <2>3
<1>5. g_usb_dev' = g_usb_dev \/ HasPlace
  BY <1>2 DEF GetDescriptor, GetConfig, SetConfiguration, ProbeStep, probe_hub
<1>6. BusKept
  BY <1>3, <1>4 DEF BusKept
<1>7. AddressesGiven'
  <2>1. \A d \in Devices : ~(OnFirst(d) /\ bus[d].addr = 0 /\ HasPlace)
    BY <1>1 DEF AddressesGiven
  <2>2. (g_usb_dev' = g_usb_dev \/ HasPlace) /\ (HasPlace' => HasPlace)
    BY <1>5 DEF HasPlace
  <2> QED BY <1>3, <1>4, <1>6, <2>1, <2>2, GivenKept
<1>8. SearchSound'
  <2>1. \A d \in Devices : bus'[d].on /\ bus'[d].ctrl[1] = "ehci" => g_ehci # <<>>
    BY <1>2
  <2>2. CASE Leave
    BY <1>2, <1>3, <2>1, <2>2, SoundAfterLeave
  <2>3. CASE /\ todo' = todo /\ at'.stage \in {"config", "configure"}
             /\ g_usb_dev' = g_usb_dev /\ at.stage # "probe"
    <3>1. HasPlace'
      BY <1>2, <2>3 DEF HasPlace
    <3> QED BY <1>2, <1>6, <2>3, <3>1, SoundAfterGo
  <2>4. CASE todo' = todo /\ at'.stage = "probe"
    BY <1>2, <1>6, <2>4, SoundAfterGo
  <2>5. CASE at' = Begin /\ \E h \in Devices : todo' = HubTodo(h)
    <3>1. PICK h \in Devices : todo' = HubTodo(h)
      BY <2>5
    <3>2. \A i \in DOMAIN todo' :
             \/ todo'[i].ctrl = Here.ctrl
             \/ \E k \in DOMAIN todo : todo'[i] = todo[k]
      <4>1. todo # <<>>
        BY <1>2
      <4>2. ASSUME NEW i \in DOMAIN todo'
            PROVE  \/ \E b \in DOMAIN Below[h] :
                         todo'[i] = Port(Here.ctrl, Below[h][b], at.addr)
                   \/ \E k \in DOMAIN todo : todo'[i] = todo[k]
        BY <3>1, <4>1, HubTyped
      <4> QED BY <4>2 DEF Port
    <3>3. at'.stage = "port"
      BY <2>5 DEF Begin
    <3> QED BY <1>2, <1>3, <2>1, <3>2, <3>3 DEF SearchSound
  <2>6. ASSUME GetDescriptor
        PROVE  \/ Leave
               \/ /\ todo' = todo /\ at'.stage \in {"config", "configure"}
                  /\ g_usb_dev' = g_usb_dev /\ at.stage # "probe"
    BY <2>6 DEF GetDescriptor, UsbTyped, StageForm
  <2>7. ASSUME GetConfig
        PROVE  \/ Leave
               \/ /\ todo' = todo /\ at'.stage \in {"config", "configure"}
                  /\ g_usb_dev' = g_usb_dev /\ at.stage # "probe"
    BY <2>7 DEF GetConfig, GoOn, Go, UsbTyped, StageForm
  <2>8. ASSUME SetConfiguration PROVE todo' = todo /\ at'.stage = "probe"
    BY <2>8 DEF SetConfiguration, Go, UsbTyped, StageForm
  <2>9. ASSUME ProbeStep PROVE Leave
    BY <2>9 DEF ProbeStep, Leave
  <2>10. ASSUME probe_hub
         PROVE  \/ Leave
                \/ /\ at' = Begin
                   /\ \E h \in Devices : todo' = HubTodo(h)
    BY <2>10, WhoIsReached DEF probe_hub, HubPorts, HubTodo, Leave
  <2> QED BY <2>2, <2>3, <2>4, <2>5, <2>6, <2>7, <2>8, <2>9, <2>10
<1> QED BY <1>7, <1>8

LEMMA UsbKeepsSound ==
    ASSUME UsbAssumption, Orderly, UsbTyped, SearchSound, AddressesGiven,
           [UsbNext]_usbVars
    PROVE  SearchSound' /\ AddressesGiven'
<1>1. CASE UNCHANGED usbVars
  BY <1>1 DEF usbVars, SearchSound, AddressesGiven, AddressesOwn, OnFirst,
              HasPlace, Here, Loud
<1>2. CASE UsbNext
  BY <1>2, UsbSteps, TurnSound, PortSound, FirstSound, AddressSound, LaterSound
<1> QED BY <1>1, <1>2

-----------------------------------------------------------------------------
(* Devices that nobody has come to yet.                                    *)

Plug(c, d) == \E k \in DOMAIN On[c] : On[c][k] = d /\ ~Ignores(c, d)
IsBelow(d, h) == \E b \in DOMAIN Below[h] : Below[h][b] = d
Later(c) == \E j \in DOMAIN work : work[j][2] = c
BelowSilent(h) == \A d \in Devices : IsBelow(d, h) => ~bus[d].on

(* A port still to look at, of a controller or of a hub that is known.     *)
Owed(p) ==
    /\ p.hub = 0 => BelowSilent(p.dev) /\ Plug(p.ctrl, p.dev) /\ ~Later(p.ctrl)
    /\ p.hub # 0 =>
          \E h \in Devices : /\ IsBelow(p.dev, h)
                             /\ \A c \in Ctrls : Plug(c, h) => ~Later(c)

(* The ports to come lead to different devices, and these are silent.      *)
Untouched ==
    /\ \A i, j \in DOMAIN work : work[i][2] = work[j][2] => i = j
    /\ \A c \in Ctrls, d \in Devices :
          Later(c) /\ Plug(c, d) => ~bus[d].on /\ BelowSilent(d)
    /\ \A i \in DOMAIN todo, p \in PortForm : todo[i] = p /\ Loud(p) =>
          (i # 1 \/ at.stage = "port" => ~bus[p.dev].on) /\ Owed(p)
    /\ \A i, j \in DOMAIN todo, p, q \in PortForm :
          todo[i] = p /\ todo[j] = q /\ Loud(p) /\ Loud(q) =>
             /\ p.dev = q.dev => i = j
             /\ p.hub = 0 => ~IsBelow(q.dev, p.dev)

(* A device has one place.                                                 *)
LEMMA PluggedOnce ==
    ASSUME UsbAssumption, NEW d \in Devices
    PROVE  /\ \A c, e \in Ctrls : Plug(c, d) /\ Plug(e, d) => c = e
           /\ \A h, k \in Devices : IsBelow(d, h) /\ IsBelow(d, k) => h = k
           /\ \A c \in Ctrls, h \in Devices : ~(Plug(c, d) /\ IsBelow(d, h))
BY DEF UsbAssumption, OnePlace, Plug, IsBelow

LEMMA PortsDiffer ==
    ASSUME UsbAssumption, NEW c \in Ctrls, NEW i \in DOMAIN On[c],
           NEW j \in DOMAIN On[c], On[c][i] = On[c][j], ~Ignores(c, On[c][i])
    PROVE  i = j
BY DEF UsbAssumption, OnePlace

LEMMA UsbStartUntouched ==
    ASSUME UsbAssumption, UsbInit PROVE Untouched
<1>1. \A d \in Devices : ~bus[d].on
  BY DEF UsbInit, Off
<1>2. \A i, j \in DOMAIN work : work[i][2] = work[j][2] => i = j
  BY DEF UsbInit, UsbAssumption, OnePlace
<1>3. todo = <<>>
  BY DEF UsbInit
<1> QED BY <1>1, <1>2, <1>3 DEF Untouched, BelowSilent

(* Only the device at the port looked at is touched.                       *)
HereTouched ==
    /\ UNCHANGED work
    /\ \A d \in Devices : bus'[d].on => bus[d].on \/ (d = Here.dev /\ Loud(Here))

LEMMA TouchedOnce ==
    ASSUME UsbAssumption, UsbTyped, Untouched, todo # <<>>, HereTouched
    PROVE  /\ \A c \in Ctrls : Later(c)' <=> Later(c)
           /\ \A c \in Ctrls, d \in Devices :
                 Later(c)' /\ Plug(c, d) => ~bus'[d].on /\ BelowSilent(d)'
           /\ \A i \in DOMAIN todo, p \in PortForm : todo[i] = p /\ Loud(p) =>
                 (i # 1 => ~bus'[p.dev].on) /\ Owed(p)'
<1>1. Here = todo[1] /\ 1 \in DOMAIN todo /\ Here \in PortForm
  BY SearchTypes
<1>2. \A p \in PortForm : p.dev \in Devices /\ p.ctrl \in Ctrls /\ p.hub \in Nat
  BY DEF PortForm
<1>3. \A c : Later(c)' <=> Later(c)
  BY DEF Later, HereTouched
<1>4. Owed(Here) \/ ~Loud(Here)
  BY <1>1 DEF Untouched
<1>5. ASSUME NEW c \in Ctrls, NEW d \in Devices, Later(c), Plug(c, d), Loud(Here)
      PROVE  d # Here.dev /\ ~IsBelow(Here.dev, d)
  <2>1. CASE Here.hub = 0
    BY <1>1, <1>2, <1>4, <1>5, <2>1, PluggedOnce DEF Owed
  <2>2. CASE Here.hub # 0
    <3>1. PICK h \in Devices : /\ IsBelow(Here.dev, h)
                               /\ \A e \in Ctrls : Plug(e, h) => ~Later(e)
      BY <1>4, <1>5, <2>2 DEF Owed
    <3> QED BY <1>1, <1>2, <1>5, <3>1, PluggedOnce
  <2> QED BY <2>1, <2>2
<1>6. ASSUME NEW d \in Devices, BelowSilent(d),
             Loud(Here) => ~IsBelow(Here.dev, d)
      PROVE  BelowSilent(d)'
  <2>1. \A e \in Devices : IsBelow(e, d) => ~bus'[e].on
    BY <1>6 DEF BelowSilent, HereTouched
  <2> QED BY <2>1 DEF BelowSilent, IsBelow
<1>7. ASSUME NEW c \in Ctrls, NEW d \in Devices, Later(c)', Plug(c, d)
      PROVE  ~bus'[d].on /\ BelowSilent(d)'
  <2>1. ~bus[d].on /\ BelowSilent(d)
    BY <1>3, <1>7 DEF Untouched
  <2> QED BY <1>3, <1>5, <1>6, <1>7, <2>1 DEF HereTouched
<1>8. ASSUME NEW i \in DOMAIN todo, NEW p \in PortForm, todo[i] = p, Loud(p)
      PROVE  (i # 1 => ~bus'[p.dev].on) /\ Owed(p)'
  <2>1. Loud(Here) /\ i # 1 => p.dev # Here.dev
    BY <1>1, <1>8 DEF Untouched
  <2>2. Loud(Here) /\ p.hub = 0 => ~IsBelow(Here.dev, p.dev)
    BY <1>1, <1>8 DEF Untouched
  <2>3. (i # 1 => ~bus[p.dev].on) /\ Owed(p)
    BY <1>8 DEF Untouched
  <2>4. p.hub = 0 => BelowSilent(p.dev)'
    BY <1>2, <1>6, <2>2, <2>3 DEF Owed
  <2>5. Owed(p)'
    BY <1>3, <2>3, <2>4 DEF Owed, Plug, IsBelow
  <2> QED BY <1>2, <2>1, <2>3, <2>5 DEF HereTouched
<1> QED BY <1>3, <1>7, <1>8

LEMMA UntouchedLeave ==
    ASSUME UsbAssumption, UsbTyped, Untouched, todo # <<>>, HereTouched, Leave
    PROVE  Untouched'
<1>1. \A i \in DOMAIN todo' :
         i + 1 \in DOMAIN todo /\ todo'[i] = todo[i + 1] /\ i + 1 # 1 /\ i \in Nat
  BY SearchTypes DEF Leave, UsbTyped
<1>2. work' = work
  BY DEF HereTouched
<1>3. \A c \in Ctrls, d \in Devices :
         Later(c)' /\ Plug(c, d) => ~bus'[d].on /\ BelowSilent(d)'
  BY TouchedOnce
<1>4. ASSUME NEW i \in DOMAIN todo', NEW p \in PortForm, todo'[i] = p, Loud(p)
      PROVE  ~bus'[p.dev].on /\ Owed(p)'
  BY <1>1, <1>4, TouchedOnce
<1>5. ASSUME NEW i \in DOMAIN todo', NEW j \in DOMAIN todo',
             NEW p \in PortForm, NEW q \in PortForm,
             todo'[i] = p, todo'[j] = q, Loud(p), Loud(q)
      PROVE  /\ p.dev = q.dev => i = j
             /\ p.hub = 0 => ~IsBelow(q.dev, p.dev)
  <2>1. /\ p.dev = q.dev => i + 1 = j + 1
        /\ p.hub = 0 => ~IsBelow(q.dev, p.dev)
    BY <1>1, <1>5 DEF Untouched
  <2> QED BY <1>1, <2>1
<1>6. \A i, j \in DOMAIN work' : work'[i][2] = work'[j][2] => i = j
  BY <1>2 DEF Untouched
<1> QED BY <1>3, <1>4, <1>5, <1>6 DEF Untouched, Loud, Plug, IsBelow

LEMMA UntouchedGo ==
    ASSUME UsbAssumption, UsbTyped, Untouched, todo # <<>>, HereTouched,
           todo' = todo, at'.stage # "port"
    PROVE  Untouched'
<1>1. \A c \in Ctrls, d \in Devices :
         Later(c)' /\ Plug(c, d) => ~bus'[d].on /\ BelowSilent(d)'
  BY TouchedOnce
<1>2. ASSUME NEW i \in DOMAIN todo, NEW p \in PortForm, todo[i] = p, Loud(p)
      PROVE  (i # 1 => ~bus'[p.dev].on) /\ Owed(p)'
  BY <1>2, TouchedOnce
<1>3. work' = work
  BY DEF HereTouched
<1>4. \A i, j \in DOMAIN work' : work'[i][2] = work'[j][2] => i = j
  BY <1>3 DEF Untouched
<1>5. \A i, j \in DOMAIN todo, p, q \in PortForm :
          todo[i] = p /\ todo[j] = q /\ Loud(p) /\ Loud(q) =>
             /\ p.dev = q.dev => i = j
             /\ p.hub = 0 => ~IsBelow(q.dev, p.dev)
  BY DEF Untouched
<1> QED BY <1>1, <1>2, <1>4, <1>5 DEF Untouched, Loud, Plug, IsBelow

LEMMA UntouchedHub ==
    ASSUME UsbAssumption, UsbTyped, Untouched, todo # <<>>, UNCHANGED <<bus, work>>,
           NEW h \in Devices, h = Here.dev, Here.hub = 0, Loud(Here),
           at.addr # 0, todo' = HubTodo(h)
    PROVE  Untouched'
<1>1. Here = todo[1] /\ 1 \in DOMAIN todo /\ Here \in PortForm
  BY SearchTypes
<1>2. \A p \in PortForm : p.dev \in Devices /\ p.ctrl \in Ctrls /\ p.hub \in Nat
  BY DEF PortForm
<1>3. /\ BelowSilent(h) /\ Plug(Here.ctrl, h) /\ ~Later(Here.ctrl)
      /\ \A c \in Ctrls : Plug(c, h) => ~Later(c)
  <2>1. Owed(Here)
    BY <1>1 DEF Untouched
  <2>2. BelowSilent(h) /\ Plug(Here.ctrl, h) /\ ~Later(Here.ctrl)
    BY <2>1 DEF Owed
  <2> QED BY <1>1, <1>2, <2>2, PluggedOnce
<1>4. ASSUME NEW i \in DOMAIN todo'
      PROVE  \/ \E b \in DOMAIN Below[h] :
                   i = b /\ todo'[i] = Port(Here.ctrl, Below[h][b], at.addr)
             \/ \E k \in DOMAIN todo \ {1} :
                   i = Len(Below[h]) + k - 1 /\ todo'[i] = todo[k]
  BY <1>4, HubTyped
<1>5. ASSUME NEW b \in DOMAIN Below[h], NEW p,
             p = Port(Here.ctrl, Below[h][b], at.addr)
      PROVE  /\ p.ctrl = Here.ctrl /\ p.dev = Below[h][b] /\ p.hub # 0
             /\ p.dev \in Devices /\ IsBelow(p.dev, h) /\ ~bus[p.dev].on
             /\ Owed(p)
  <2>1. p.ctrl = Here.ctrl /\ p.dev = Below[h][b] /\ p.hub # 0
    BY <1>5 DEF Port
  <2>2. p.dev \in Devices /\ IsBelow(p.dev, h)
    BY <2>1 DEF UsbAssumption, IsBelow
  <2> QED BY <1>3, <2>1, <2>2 DEF Owed, BelowSilent
<1>6. ASSUME NEW i \in DOMAIN todo', NEW p \in PortForm, todo'[i] = p, Loud(p)
      PROVE  ~bus[p.dev].on /\ Owed(p)
  BY <1>4, <1>5, <1>6 DEF Untouched
<1>7. ASSUME NEW k \in DOMAIN todo \ {1}, NEW q \in PortForm, todo[k] = q, Loud(q),
             NEW b \in DOMAIN Below[h], NEW p,
             p = Port(Here.ctrl, Below[h][b], at.addr)
      PROVE  /\ p.dev # q.dev
             /\ q.hub = 0 => ~IsBelow(p.dev, q.dev)
  <2>1. q.dev # h /\ ~IsBelow(q.dev, h)
    BY <1>1, <1>7 DEF Untouched
  <2>2. p.dev \in Devices /\ IsBelow(p.dev, h)
    BY <1>5, <1>7
  <2> QED BY <1>2, <2>1, <2>2, PluggedOnce
<1>8. ASSUME NEW b \in DOMAIN Below[h], NEW e \in DOMAIN Below[h],
             Below[h][b] = Below[h][e]
      PROVE  b = e
  BY <1>8 DEF UsbAssumption, OnePlace
<1>9. ASSUME NEW i \in DOMAIN todo', NEW j \in DOMAIN todo',
             NEW p \in PortForm, NEW q \in PortForm,
             todo'[i] = p, todo'[j] = q, Loud(p), Loud(q)
      PROVE  /\ p.dev = q.dev => i = j
             /\ p.hub = 0 => ~IsBelow(q.dev, p.dev)
  <2>1. ASSUME NEW b \in DOMAIN Below[h], i = b,
               p = Port(Here.ctrl, Below[h][b], at.addr)
        PROVE  (p.dev = q.dev => i = j) /\ p.hub # 0
    <3>1. p.dev = Below[h][b] /\ p.hub # 0
      BY <1>5, <2>1
    <3>2. CASE \E e \in DOMAIN Below[h] :
                  j = e /\ q = Port(Here.ctrl, Below[h][e], at.addr)
      BY <1>5, <1>8, <2>1, <3>1, <3>2
    <3>3. CASE \E k \in DOMAIN todo \ {1} : q = todo[k]
      BY <1>7, <1>9, <2>1, <3>1, <3>3
    <3> QED BY <1>4, <1>9, <3>2, <3>3
  <2>2. ASSUME NEW k \in DOMAIN todo \ {1}, p = todo[k],
               i = Len(Below[h]) + k - 1
        PROVE  /\ p.dev = q.dev => i = j
               /\ p.hub = 0 => ~IsBelow(q.dev, p.dev)
    <3>1. CASE \E e \in DOMAIN Below[h] :
                  q = Port(Here.ctrl, Below[h][e], at.addr)
      BY <1>7, <1>9, <2>2, <3>1
    <3>2. CASE \E m \in DOMAIN todo \ {1} :
                  j = Len(Below[h]) + m - 1 /\ q = todo[m]
      BY <1>9, <2>2, <3>2 DEF Untouched
    <3> QED BY <1>4, <1>9, <3>1, <3>2
  <2> QED BY <1>4, <1>9, <2>1, <2>2
<1>10. \A c : Later(c)' <=> Later(c)
  BY DEF Later
<1>11. \A d : BelowSilent(d)' <=> BelowSilent(d)
  BY DEF BelowSilent, IsBelow
<1>12. \A p : Owed(p)' <=> Owed(p)
  BY <1>10, <1>11 DEF Owed, Plug, IsBelow
<1>13. \A c \in Ctrls, d \in Devices :
         Later(c)' /\ Plug(c, d) => ~bus'[d].on /\ BelowSilent(d)'
  BY <1>10, <1>11 DEF Untouched
<1>14. bus' = bus
       /\ \A i, j \in DOMAIN work' : work'[i][2] = work'[j][2] => i = j
  BY DEF Untouched
<1> QED BY <1>6, <1>9, <1>12, <1>13, <1>14 DEF Untouched, Loud, Plug, IsBelow

LEMMA TailAppend ==
    ASSUME NEW S, NEW w \in Seq(S), w # <<>>, NEW e \in S
    PROVE  /\ Len(w) \in Nat \ {0} /\ DOMAIN w = 1 .. Len(w) /\ w[1] = Head(w)
           /\ DOMAIN Tail(w) = 1 .. Len(w) - 1
           /\ \A j \in 1 .. Len(w) - 1 : Tail(w)[j] = w[j + 1]
           /\ DOMAIN Append(Tail(w), e) = 1 .. Len(w)
           /\ Append(Tail(w), e)[Len(w)] = e
           /\ \A j \in 1 .. Len(w) - 1 : Append(Tail(w), e)[j] = w[j + 1]
<1>1. /\ Len(w) \in Nat \ {0} /\ DOMAIN w = 1 .. Len(w) /\ w[1] = Head(w)
      /\ Tail(w) \in Seq(S) /\ Len(Tail(w)) = Len(w) - 1
      /\ \A j \in 1 .. Len(w) - 1 : Tail(w)[j] = w[j + 1]
  OBVIOUS
<1>2. PICK t \in Seq(S) : t = Tail(w)
  BY <1>1
<1>3. /\ Len(t) = Len(w) - 1 /\ DOMAIN t = 1 .. Len(t)
      /\ Len(Append(t, e)) = Len(t) + 1 /\ Append(t, e)[Len(t) + 1] = e
      /\ \A j \in 1 .. Len(t) : Append(t, e)[j] = t[j]
      /\ DOMAIN Append(t, e) = 1 .. Len(t) + 1
  BY <1>1, <1>2
<1>4. Len(w) \in Nat \ {0} /\ Len(t) = Len(w) - 1
  BY <1>1, <1>3
<1>5. Len(t) + 1 = Len(w)
  BY <1>4
<1> QED BY <1>1, <1>2, <1>3, <1>5

(* The controllers still to come.                                          *)
LEMMA WorkTurns ==
    ASSUME UsbTyped, work # <<>>, NEW kind, NEW c \in Ctrls, Head(work) = <<kind, c>>,
           work' = Tail(work) \/ work' = Append(Tail(work), <<"scan", c>>)
    PROVE  /\ 1 \in DOMAIN work /\ work[1] = <<kind, c>>
           /\ \A i \in DOMAIN work' :
                 \/ work' # Tail(work) /\ i = Len(work) /\ work'[i] = <<"scan", c>>
                 \/ i \in Nat \ {0} /\ i # Len(work) /\ i + 1 \in DOMAIN work
                    /\ work'[i] = work[i + 1]
           /\ \A j \in DOMAIN work \ {1} :
                 j - 1 \in DOMAIN work' /\ work'[j - 1] = work[j]
           /\ work' = Append(Tail(work), <<"scan", c>>) =>
                 Len(work) \in DOMAIN work' /\ work'[Len(work)] = <<"scan", c>>
<1> DEFINE Turns == {"start", "scan"} \X Ctrls
           L == Len(work)
<1>1. work \in Seq(Turns) /\ <<"scan", c>> \in Turns
  BY DEF UsbTyped
<1> HIDE DEF Turns
<1>2. /\ L \in Nat \ {0} /\ DOMAIN work = 1 .. L /\ work[1] = <<kind, c>>
      /\ \/ work' = Tail(work) /\ DOMAIN work' = 1 .. L - 1
         \/ /\ work' = Append(Tail(work), <<"scan", c>>)
            /\ DOMAIN work' = 1 .. L /\ work'[L] = <<"scan", c>>
      /\ \A j \in 1 .. L - 1 : work'[j] = work[j + 1]
  BY <1>1, TailAppend
<1>3. Append(Tail(work), <<"scan", c>>) # Tail(work)
  <2>1. /\ DOMAIN Append(Tail(work), <<"scan", c>>) = 1 .. L
        /\ DOMAIN Tail(work) = 1 .. L - 1
    BY <1>1, TailAppend
  <2>2. L \in 1 .. L /\ L \notin 1 .. L - 1
    BY <1>2
  <2> QED BY <2>1, <2>2
<1> HIDE DEF L
<1>4. ASSUME NEW i \in DOMAIN work'
      PROVE  \/ work' # Tail(work) /\ i = L /\ work'[i] = <<"scan", c>>
             \/ i \in Nat \ {0} /\ i # L /\ i + 1 \in DOMAIN work
                /\ work'[i] = work[i + 1]
  <2>1. CASE i \in 1 .. L - 1
    <3>1. i \in Nat \ {0} /\ i # L /\ i + 1 \in 1 .. L
      BY <1>2, <2>1
    <3>2. work'[i] = work[i + 1]
      BY <1>2, <2>1
    <3> QED BY <1>2, <3>1, <3>2
  <2>2. CASE i \notin 1 .. L - 1
    <3>1. work' = Append(Tail(work), <<"scan", c>>) /\ DOMAIN work' = 1 .. L
          /\ work'[L] = <<"scan", c>>
      BY <1>2, <2>2
    <3>2. i = L
      BY <1>2, <2>2, <3>1
    <3> QED BY <1>3, <3>1, <3>2
  <2> QED BY <2>1, <2>2
<1>5. ASSUME NEW j \in DOMAIN work \ {1}
      PROVE  j - 1 \in DOMAIN work' /\ work'[j - 1] = work[j]
  <2>1. j - 1 \in 1 .. L - 1 /\ (j - 1) + 1 = j /\ j - 1 \in 1 .. L
    BY <1>2
  <2> QED BY <1>2, <2>1
<1>6. work' = Append(Tail(work), <<"scan", c>>)
      => L \in DOMAIN work' /\ work'[L] = <<"scan", c>>
  BY <1>2, <1>3
<1>7. 1 \in DOMAIN work /\ work[1] = <<kind, c>>
  BY <1>2
<1> QED BY <1>4, <1>5, <1>6, <1>7 DEF L

LEMMA UntouchedTurn ==
    ASSUME UsbAssumption, UsbTyped, SearchSound, Untouched, TurnStep
    PROVE  Untouched'
<1>1. PICK kind \in {"start", "scan"}, c \in Ctrls :
         /\ todo = <<>> /\ work # <<>> /\ Head(work) = <<kind, c>>
         /\ \/ work' = Append(Tail(work), <<"scan", c>>) /\ todo' = todo
            \/ todo' \in {todo, PortsOf(c)} /\ work' = Tail(work)
         /\ UNCHANGED bus
  BY DEF TurnStep
<1>2. /\ 1 \in DOMAIN work /\ work[1] = <<kind, c>>
      /\ \A i \in DOMAIN work' :
            \/ work' # Tail(work) /\ i = Len(work) /\ work'[i] = <<"scan", c>>
            \/ i \in Nat \ {0} /\ i # Len(work) /\ i + 1 \in DOMAIN work
               /\ work'[i] = work[i + 1]
  BY <1>1, WorkTurns
<1>3. \A j \in DOMAIN work : j # 1 => work[j][2] # c
  BY <1>2 DEF Untouched
<1>4. ASSUME NEW i \in DOMAIN work', NEW j \in DOMAIN work',
             work'[i][2] = work'[j][2]
      PROVE  i = j
  <2>1. CASE i + 1 \in DOMAIN work /\ j + 1 \in DOMAIN work /\ i \in Nat /\ j \in Nat
             /\ work'[i] = work[i + 1] /\ work'[j] = work[j + 1]
    <3>1. i + 1 = j + 1
      BY <1>4, <2>1 DEF Untouched
    <3> QED BY <2>1, <3>1
  <2>2. ASSUME NEW k \in DOMAIN work', work'[k] = <<"scan", c>>,
               NEW m \in DOMAIN work', m \in Nat \ {0}, m + 1 \in DOMAIN work,
               work'[m] = work[m + 1]
        PROVE  work'[m][2] # work'[k][2]
    <3>1. m + 1 # 1
      BY <2>2
    <3> QED BY <1>3, <2>2, <3>1
  <2> QED BY <1>2, <1>4, <2>1, <2>2
<1>5. \A e \in Ctrls : Later(e)' => Later(e)
  <2>1. \A i \in DOMAIN work' : \E j \in DOMAIN work : work[j][2] = work'[i][2]
    BY <1>2
  <2> QED BY <2>1 DEF Later
<1>6. work' = Tail(work) => ~Later(c)'
  <2>1. ASSUME work' = Tail(work), NEW i \in DOMAIN work' PROVE work'[i][2] # c
    <3>1. i \in Nat /\ i + 1 \in DOMAIN work /\ work'[i] = work[i + 1] /\ i + 1 # 1
      BY <1>2, <2>1
    <3> QED BY <1>3, <3>1
  <2> QED BY <2>1 DEF Later
<1>7. \A d \in Devices : BelowSilent(d)' <=> BelowSilent(d)
  BY <1>1 DEF BelowSilent, IsBelow
<1>8. \A e \in Ctrls, d \in Devices :
         Later(e)' /\ Plug(e, d) => ~bus'[d].on /\ BelowSilent(d)'
  BY <1>1, <1>5, <1>7 DEF Untouched
<1>9. CASE todo' = <<>>
  BY <1>4, <1>8, <1>9 DEF Untouched, Plug
<1>10. CASE todo' = PortsOf(c) /\ work' = Tail(work)
  <2>1. Later(c)
    BY <1>2 DEF Later
  <2>2. \A i \in DOMAIN todo' :
           /\ i \in DOMAIN On[c] /\ todo'[i].dev = On[c][i] /\ todo'[i].ctrl = c
           /\ todo'[i].hub = 0 /\ On[c][i] \in Devices
           /\ Loud(todo'[i]) <=> ~Ignores(c, On[c][i])
    <3>1. \A i \in DOMAIN todo' : i \in DOMAIN On[c] /\ todo'[i] = Port(c, On[c][i], 0)
      BY <1>10, PortsTyped
    <3>2. \A i \in DOMAIN On[c] : On[c][i] \in Devices
      BY DEF UsbAssumption
    <3> QED BY <3>1, <3>2 DEF Port, Loud
  <2>3. ASSUME NEW i \in DOMAIN todo', Loud(todo'[i])
        PROVE  /\ Plug(c, todo'[i].dev) /\ ~bus[todo'[i].dev].on
               /\ BelowSilent(todo'[i].dev) /\ ~Later(c)'
    <3>1. Plug(c, todo'[i].dev)
      BY <2>2, <2>3 DEF Plug
    <3> QED BY <1>6, <1>10, <2>1, <2>2, <3>1 DEF Untouched
  <2>4. ASSUME NEW i \in DOMAIN todo', NEW j \in DOMAIN todo',
               Loud(todo'[i]), Loud(todo'[j])
        PROVE  /\ todo'[i].dev = todo'[j].dev => i = j
               /\ ~IsBelow(todo'[j].dev, todo'[i].dev)
    BY <2>2, <2>3, <2>4, PortsDiffer, PluggedOnce
  <2>5. ASSUME NEW i \in DOMAIN todo', NEW p \in PortForm, todo'[i] = p, Loud(p)
        PROVE  ~bus'[p.dev].on /\ Owed(p)'
    <3>1. /\ p.hub = 0 /\ p.ctrl = c /\ Plug(c, p.dev) /\ ~bus[p.dev].on
          /\ BelowSilent(p.dev) /\ ~Later(c)' /\ p.dev \in Devices
      BY <2>2, <2>3, <2>5
    <3> QED BY <1>1, <1>7, <3>1 DEF Owed, Plug, IsBelow
  <2> QED BY <1>4, <1>8, <2>4, <2>5 DEF Untouched, Loud, Plug, IsBelow
<1> QED BY <1>1, <1>9, <1>10

-----------------------------------------------------------------------------
(* The devices found.                                                      *)

Listens(d, a) == OnFirst(d) /\ bus[d].addr = a

(* The device that is being enumerated.                                    *)
StageSound ==
    /\ at.stage \notin {"port", "first", "address"} =>
          at.addr # 0 /\ Listens(Here.dev, at.addr)
    /\ at.stage \in {"config", "configure"} => at.class = Class[Here.dev]
    /\ at.stage \in {"descriptor", "config", "configure"} =>
          \A i \in DOMAIN g_usb_dev : g_usb_dev[i].addr # at.addr
    /\ at.stage = "probe" =>
          /\ Place \in DOMAIN g_usb_dev
          /\ g_usb_dev[Place].addr = at.addr /\ g_usb_dev[Place].class = at.class
          /\ \A t \in DOMAIN TableMax :
                \A i \in DOMAIN classes[t] : classes[t][i] # Place

(* Entries have addresses that were given and do not change any more.      *)
EntriesSound ==
    /\ \A i \in DOMAIN g_usb_dev :
          LET e == g_usb_dev[i] IN
          /\ g_ehci # <<>> /\ e.ctrl = g_ehci[1]
          /\ e.addr # 0 /\ e.addr < next_addr[g_ehci[1]]
          /\ \E d \in Devices : Listens(d, e.addr) /\ Class[d] = e.class
          /\ \A j \in DOMAIN g_usb_dev : g_usb_dev[j].addr = e.addr => j = i
    /\ \A t \in DOMAIN TableMax :
          /\ Len(classes[t]) <= TableMax[t]
          /\ \A i \in DOMAIN classes[t] :
                /\ classes[t][i] \in DOMAIN g_usb_dev
                /\ g_usb_dev[classes[t][i]].class = t
                /\ \A j \in DOMAIN classes[t] :
                      classes[t][i] = classes[t][j] => i = j

Entered(d) == \E i \in DOMAIN g_usb_dev : Listens(d, g_usb_dev[i].addr)

(* A device that was just reset can be talked to.                          *)
FirstHears ==
    at.stage \in {"first", "address"} /\ Here.hub = 0 /\ Here.ctrl[1] = "ehci"
    /\ Here.ctrl = g_ehci[1] /\ Speed[Here.dev] = "high"
    => Listens(Here.dev, 0)
(* The devices that the first EHCI controller has to be scanned for.       *)
NoneMissed ==
    \A d \in Devices :
       g_ehci # <<>> /\ Plug(g_ehci[1], d) /\ Speed[d] = "high" =>
          \/ ~HasPlace
          \/ \E j \in DOMAIN work : work[j] = <<"scan", g_ehci[1]>>
          \/ \E i \in DOMAIN todo : todo[i] = Port(g_ehci[1], d, 0)
          \/ Entered(d)

(* What happens to the device that has its address.                        *)
LEMMA OwnReached ==
    ASSUME UsbAssumption, UsbTyped, SearchSound, AddressesGiven, StageSound,
           at.stage \notin {"port", "first", "address"}
    PROVE  /\ todo # <<>> /\ Loud(Here) /\ g_ehci # <<>> /\ Here.ctrl = g_ehci[1]
           /\ Here.dev \in Devices /\ at.addr \in Nat \ {0}
           /\ Reached(Here.ctrl, at.addr) = {Here.dev}
           /\ Listens(Here.dev, at.addr)
<1>1. /\ todo # <<>> /\ Loud(Here) /\ g_ehci # <<>> /\ Here.ctrl = g_ehci[1]
      /\ at.addr # 0 /\ Listens(Here.dev, at.addr)
  BY DEF SearchSound, StageSound, UsbTyped, StageForm, Stages
<1>2. Here.dev \in Devices /\ at.addr \in Nat /\ g_ehci[1][1] = "ehci"
  BY <1>1, SearchTypes DEF PortForm, UsbTyped, StageForm, SearchSound
<1>3. \A d \in Devices : Listens(d, at.addr) => d = Here.dev
  BY <1>1, <1>2 DEF Listens, OnFirst, AddressesGiven, AddressesOwn
<1>4. Reached(Here.ctrl, at.addr)
      = {d \in Devices : Here.ctrl[1] = "ehci" /\ Listens(d, at.addr)}
  BY WhoIsReached DEF Listens
<1>5. Reached(Here.ctrl, at.addr) = {Here.dev}
  BY <1>1, <1>2, <1>3, <1>4
<1> QED BY <1>1, <1>2, <1>5

LEMMA LaterMoves ==
    ASSUME UsbAssumption, UsbTyped, SearchSound, AddressesGiven, StageSound,
           GetDescriptor \/ GetConfig \/ SetConfiguration \/ ProbeStep \/ probe_hub
    PROVE  /\ UNCHANGED <<next_addr, work, g_ehci>>
           /\ \A d \in Devices : /\ bus'[d].on = bus[d].on
                                 /\ bus'[d].ctrl = bus[d].ctrl
                                 /\ bus'[d].addr = bus[d].addr
           /\ \/ Leave
              \/ todo' = todo /\ at'.stage \notin {"port", "first", "address"}
                 /\ at'.addr = at.addr
              \/ /\ at' = Begin /\ Here.hub = 0 /\ todo' = HubTodo(Here.dev)
                 /\ UNCHANGED <<bus, g_usb_dev>>
<1>1. UNCHANGED <<next_addr, work, g_ehci>>
  BY DEF GetDescriptor, GetConfig, SetConfiguration, ProbeStep, probe_hub, pci
<1>2. ASSUME NEW d \in Devices
      PROVE  /\ bus'[d].on = bus[d].on /\ bus'[d].ctrl = bus[d].ctrl
             /\ bus'[d].addr = bus[d].addr
  <2>1. bus'[d] = bus[d] \/ bus'[d] = [bus[d] EXCEPT !.conf = TRUE]
    BY <1>2 DEF GetDescriptor, GetConfig, SetConfiguration, ProbeStep, probe_hub
  <2>2. bus[d] \in DeviceForm
    BY DEF UsbTyped
  <2> QED BY <2>1, <2>2 DEF DeviceForm
<1>3. ASSUME GetDescriptor
      PROVE  Leave \/ (/\ todo' = todo /\ at'.addr = at.addr
                       /\ at'.stage \notin {"port", "first", "address"})
  BY <1>3 DEF GetDescriptor, UsbTyped, StageForm
<1>4. ASSUME GetConfig
      PROVE  Leave \/ (/\ todo' = todo /\ at'.addr = at.addr
                       /\ at'.stage \notin {"port", "first", "address"})
  BY <1>4 DEF GetConfig, GoOn, Go, UsbTyped, StageForm
<1>5. ASSUME SetConfiguration
      PROVE  /\ todo' = todo /\ at'.addr = at.addr
             /\ at'.stage \notin {"port", "first", "address"}
  BY <1>5 DEF SetConfiguration, Go, UsbTyped, StageForm
<1>6. ASSUME ProbeStep PROVE Leave
  BY <1>6 DEF ProbeStep, Leave
<1>7. ASSUME probe_hub
      PROVE  \/ Leave
             \/ /\ at' = Begin /\ Here.hub = 0 /\ todo' = HubTodo(Here.dev)
                /\ UNCHANGED <<bus, g_usb_dev>>
  <2>1. Reached(Here.ctrl, at.addr) = {Here.dev}
    BY <1>7, OwnReached DEF probe_hub
  <2> QED BY <1>7, <2>1 DEF probe_hub, HubPorts, HubTodo, Leave
<1> QED BY <1>1, <1>2, <1>3, <1>4, <1>5, <1>6, <1>7

LEMMA UsbKeepsUntouched ==
    ASSUME UsbAssumption, Orderly, UsbTyped, SearchSound, AddressesGiven,
           StageSound, Untouched, [UsbNext]_usbVars
    PROVE  Untouched'
<1>1. CASE UNCHANGED usbVars
  BY <1>1 DEF usbVars, Untouched, Later, BelowSilent, Owed, Plug, IsBelow, Loud
<1>2. ASSUME PortStep PROVE Untouched'
  <2>1. todo # <<>> /\ UNCHANGED work
    BY <1>2 DEF PortStep, pci
  <2>2. Leave \/ (todo' = todo /\ at'.stage # "port")
    BY <1>2 DEF PortStep, Leave, UsbTyped, StageForm
  <2>3. HereTouched
    BY <1>2, <2>1 DEF PortStep, HereTouched, UsbTyped, DeviceForm
  <2> QED BY <2>1, <2>2, <2>3, UntouchedLeave, UntouchedGo
<1>3. ASSUME GetFirst PROVE Untouched'
  <2>1. todo # <<>> /\ HereTouched
    BY <1>3 DEF GetFirst, SearchSound, HereTouched, pci
  <2>2. Leave \/ (todo' = todo /\ at'.stage # "port")
    BY <1>3 DEF GetFirst, GoOn, Go, UsbTyped, StageForm
  <2> QED BY <2>1, <2>2, UntouchedLeave, UntouchedGo
<1>4. ASSUME SetAddress PROVE Untouched'
  <2>1. /\ todo # <<>> /\ UNCHANGED work
        /\ \A d \in Devices : bus'[d] = IF OnFirst(d) /\ bus[d].addr = 0
              THEN [bus[d] EXCEPT !.addr = next_addr[g_ehci[1]]] ELSE bus[d]
    BY <1>4, AddressTaken
  <2>2. HereTouched
    BY <2>1 DEF HereTouched, UsbTyped, DeviceForm
  <2>3. Leave \/ (todo' = todo /\ at'.stage # "port")
    <3>1. \/ Leave
          \/ todo' = todo
             /\ at' = [at EXCEPT !.stage = "descriptor",
                                 !.addr = next_addr[g_ehci[1]]]
      BY <1>4, AddressTaken
    <3> QED BY <3>1 DEF UsbTyped, StageForm
  <2> QED BY <2>1, <2>2, <2>3, UntouchedLeave, UntouchedGo
<1>5. ASSUME GetDescriptor \/ GetConfig \/ SetConfiguration \/ ProbeStep
             \/ probe_hub
      PROVE  Untouched'
  <2>1. at.stage \notin {"port", "first", "address"}
    BY <1>5 DEF GetDescriptor, GetConfig, SetConfiguration, ProbeStep, probe_hub
  <2>2. /\ todo # <<>> /\ Loud(Here) /\ Here.dev \in Devices /\ at.addr # 0
    BY <2>1, OwnReached
  <2>3. /\ UNCHANGED work
        /\ \A d \in Devices : bus'[d].on = bus[d].on
        /\ \/ Leave
           \/ todo' = todo /\ at'.stage # "port"
           \/ Here.hub = 0 /\ todo' = HubTodo(Here.dev) /\ UNCHANGED bus
    BY <1>5, LaterMoves
  <2>4. HereTouched
    BY <2>3 DEF HereTouched
  <2> QED BY <2>2, <2>3, <2>4, UntouchedLeave, UntouchedGo, UntouchedHub
<1> QED BY <1>1, <1>2, <1>3, <1>4, <1>5, UsbSteps, UntouchedTurn

(* Devices that have an address keep it.                                   *)
Settled ==
    /\ g_ehci # <<>> => /\ g_ehci' # <<>> /\ g_ehci'[1] = g_ehci[1]
                        /\ next_addr[g_ehci[1]] <= next_addr'[g_ehci[1]]
    /\ \A d \in Devices :
          OnFirst(d) /\ bus[d].addr # 0
          => OnFirst(d)' /\ bus'[d].addr = bus[d].addr

LEMMA FirstCtrl ==
    ASSUME UsbTyped, g_ehci # <<>>
    PROVE  g_ehci[1] \in Ctrls /\ next_addr[g_ehci[1]] \in Nat \ {0}
BY DEF UsbTyped

LEMMA UsbSettles ==
    ASSUME UsbAssumption, Orderly, UsbTyped, SearchSound, AddressesGiven,
           StageSound, Untouched, UsbNext
    PROVE  Settled
<1>1. ASSUME TurnStep PROVE Settled
  BY <1>1, FirstStays, FirstCtrl DEF Settled
<1>2. ASSUME PortStep PROVE Settled
  <2>1. todo # <<>> /\ UNCHANGED <<g_ehci, next_addr>>
    BY <1>2 DEF PortStep, pci
  <2>2. Here = todo[1] /\ 1 \in DOMAIN todo /\ Here \in PortForm
    BY <2>1, SearchTypes
  <2>3. Loud(Here) => ~bus[Here.dev].on
    BY <1>2, <2>2 DEF Untouched, PortStep
  <2>4. \A d \in Devices : bus[d].on => bus'[d] = bus[d]
    BY <1>2, <2>3 DEF PortStep, UsbTyped
  <2> QED BY <2>1, <2>4, FirstCtrl DEF Settled, OnFirst
<1>3. ASSUME GetFirst PROVE Settled
  BY <1>3, FirstCtrl DEF GetFirst, pci, Settled, OnFirst
<1>4. ASSUME SetAddress PROVE Settled
  <2>1. /\ UNCHANGED g_ehci
        /\ next_addr' = [next_addr EXCEPT ![g_ehci[1]] = next_addr[g_ehci[1]] + 1]
        /\ \A d \in Devices : bus'[d] = IF OnFirst(d) /\ bus[d].addr = 0
              THEN [bus[d] EXCEPT !.addr = next_addr[g_ehci[1]]] ELSE bus[d]
    BY <1>4, AddressTaken
  <2>2. g_ehci # <<>> => next_addr[g_ehci[1]] <= next_addr'[g_ehci[1]]
    BY <2>1, FirstCtrl DEF UsbTyped
  <2> QED BY <2>1, <2>2 DEF Settled, OnFirst
<1>5. ASSUME GetDescriptor \/ GetConfig \/ SetConfiguration \/ ProbeStep
             \/ probe_hub
      PROVE  Settled
  BY <1>5, LaterMoves, FirstCtrl DEF Settled, OnFirst
<1> QED BY <1>1, <1>2, <1>3, <1>4, <1>5, UsbSteps

-----------------------------------------------------------------------------
LEMMA UsbStartEntered ==
    ASSUME UsbAssumption, UsbInit
    PROVE  StageSound /\ EntriesSound /\ FirstHears /\ NoneMissed
<1>1. /\ at.stage = "port" /\ g_ehci = <<>> /\ g_usb_dev = <<>>
      /\ \A t \in DOMAIN TableMax : classes[t] = <<>>
  BY DEF UsbInit, Begin
<1>2. \A t \in DOMAIN TableMax : Len(classes[t]) <= TableMax[t]
  BY <1>1 DEF UsbAssumption
<1> QED BY <1>1, <1>2 DEF StageSound, EntriesSound, FirstHears, NoneMissed

LEMMA EntriesKept ==
    ASSUME UsbTyped, EntriesSound, Settled, UNCHANGED <<g_usb_dev, classes>>,
           UsbTyped'
    PROVE  EntriesSound'
<1>1. ASSUME NEW i \in DOMAIN g_usb_dev
      PROVE  LET e == g_usb_dev[i] IN
             /\ g_ehci' # <<>> /\ e.ctrl = g_ehci'[1]
             /\ e.addr # 0 /\ e.addr < next_addr'[g_ehci'[1]]
             /\ \E d \in Devices : /\ OnFirst(d)' /\ bus'[d].addr = e.addr
                                   /\ Class[d] = e.class
             /\ \A j \in DOMAIN g_usb_dev : g_usb_dev[j].addr = e.addr => j = i
  <2> DEFINE e == g_usb_dev[i]
  <2>1. /\ g_ehci # <<>> /\ e.ctrl = g_ehci[1]
        /\ e.addr # 0 /\ e.addr < next_addr[g_ehci[1]]
        /\ \A j \in DOMAIN g_usb_dev : g_usb_dev[j].addr = e.addr => j = i
    BY DEF EntriesSound
  <2>2. PICK d \in Devices : Listens(d, e.addr) /\ Class[d] = e.class
    BY DEF EntriesSound
  <2>3. e.addr \in Nat
    <3>1. g_usb_dev \in Seq(EntryForm)
      BY DEF UsbTyped
    <3>2. e \in EntryForm
      BY <3>1
    <3> QED BY <3>2 DEF EntryForm
  <2>4. OnFirst(d)' /\ bus'[d].addr = e.addr
    BY <2>1, <2>2 DEF Listens, Settled
  <2>5. /\ g_ehci' # <<>> /\ g_ehci'[1] = g_ehci[1]
        /\ next_addr[g_ehci[1]] <= next_addr'[g_ehci[1]]
    BY <2>1 DEF Settled
  <2>6. next_addr[g_ehci[1]] \in Nat /\ next_addr'[g_ehci[1]] \in Nat
    BY <2>1, FirstCtrl DEF UsbTyped
  <2> HIDE DEF e
  <2>7. e.addr < next_addr'[g_ehci[1]]
    BY <2>1, <2>3, <2>5, <2>6
  <2> QED BY <2>1, <2>2, <2>4, <2>5, <2>7 DEF e
<1>2. \A t \in DOMAIN TableMax :
          /\ Len(classes[t]) <= TableMax[t]
          /\ \A i \in DOMAIN classes[t] :
                /\ classes[t][i] \in DOMAIN g_usb_dev
                /\ g_usb_dev[classes[t][i]].class = t
                /\ \A j \in DOMAIN classes[t] :
                      classes[t][i] = classes[t][j] => i = j
  BY DEF EntriesSound
<1> QED BY <1>1, <1>2 DEF EntriesSound, Listens

(* A device is entered with the address it was given.                      *)
LEMMA EntryAdded ==
    ASSUME UsbAssumption, UsbTyped, SearchSound, AddressesGiven, StageSound,
           EntriesSound, Settled, SetConfiguration, UsbTyped'
    PROVE  /\ EntriesSound' /\ StageSound'
           /\ todo' = todo /\ UNCHANGED <<work, g_ehci>>
           /\ DOMAIN g_usb_dev \subseteq DOMAIN g_usb_dev'
           /\ \A i \in DOMAIN g_usb_dev : g_usb_dev'[i] = g_usb_dev[i]
<1> DEFINE new == [ctrl |-> Here.ctrl, addr |-> at.addr, class |-> at.class]
           n == Len(g_usb_dev)
<1>1. /\ at.stage = "configure" /\ at.class = Class[Here.dev] /\ HasPlace
      /\ \A i \in DOMAIN g_usb_dev : g_usb_dev[i].addr # at.addr
  BY DEF SetConfiguration, StageSound, SearchSound
<1>2. /\ g_ehci # <<>> /\ Here.ctrl = g_ehci[1] /\ Here.dev \in Devices
      /\ at.addr \in Nat \ {0} /\ Listens(Here.dev, at.addr)
  BY <1>1, OwnReached
<1>3. /\ g_usb_dev' = Append(g_usb_dev, new) /\ todo' = todo
      /\ UNCHANGED <<next_addr, classes, work, g_ehci>>
      /\ at'.stage = "probe" /\ at'.addr = at.addr /\ at'.class = at.class
  BY DEF SetConfiguration, Go, UsbTyped, StageForm, pci
<1>4. /\ n \in Nat /\ DOMAIN g_usb_dev = 1 .. n /\ DOMAIN g_usb_dev' = 1 .. n + 1
      /\ g_usb_dev'[n + 1] = new /\ Len(g_usb_dev') = n + 1
      /\ \A i \in 1 .. n : g_usb_dev'[i] = g_usb_dev[i]
  <2>1. g_usb_dev \in Seq(EntryForm) /\ new \in EntryForm
    BY <1>2 DEF UsbTyped, StageForm, EntryForm
  <2> HIDE DEF new
  <2> QED BY <1>3, <2>1
<1>5. new.ctrl = g_ehci[1] /\ new.addr = at.addr /\ new.class = Class[Here.dev]
  BY <1>1, <1>2
<1> HIDE DEF new, n
<1>6. 1 .. n \subseteq 1 .. n + 1 /\ n + 1 \in 1 .. n + 1 /\ n + 1 \notin 1 .. n
      /\ \A i \in 1 .. n + 1 : i \in 1 .. n \/ i = n + 1
  BY <1>4
<1>7. \A d \in Devices : Listens(d, at.addr) =>
         OnFirst(d)' /\ bus'[d].addr = at.addr
  BY <1>2 DEF Settled, Listens
<1>8. at.addr < next_addr[g_ehci[1]]
  BY <1>2 DEF Listens, AddressesGiven
<1>9. ASSUME NEW i \in 1 .. n
      PROVE  LET e == g_usb_dev[i] IN
             /\ g_ehci # <<>> /\ e.ctrl = g_ehci[1]
             /\ e.addr # 0 /\ e.addr < next_addr[g_ehci[1]]
             /\ \E d \in Devices : /\ OnFirst(d)' /\ bus'[d].addr = e.addr
                                   /\ Class[d] = e.class
             /\ \A j \in 1 .. n : g_usb_dev[j].addr = e.addr => j = i
  <2>1. i \in DOMAIN g_usb_dev
    BY <1>4
  <2>2. PICK d \in Devices : /\ Listens(d, g_usb_dev[i].addr)
                             /\ Class[d] = g_usb_dev[i].class
    BY <2>1 DEF EntriesSound
  <2>3. g_usb_dev[i].addr # 0
    BY <2>1 DEF EntriesSound
  <2>4. OnFirst(d)' /\ bus'[d].addr = g_usb_dev[i].addr
    BY <2>2, <2>3 DEF Settled, Listens
  <2> QED BY <1>4, <2>1, <2>2, <2>4 DEF EntriesSound
<1>10. ASSUME NEW i \in 1 .. n + 1
       PROVE  LET e == g_usb_dev'[i] IN
             /\ e.ctrl = g_ehci[1]
             /\ e.addr # 0 /\ e.addr < next_addr[g_ehci[1]]
             /\ \E d \in Devices : /\ OnFirst(d)' /\ bus'[d].addr = e.addr
                                   /\ Class[d] = e.class
             /\ \A j \in 1 .. n + 1 : g_usb_dev'[j].addr = e.addr => j = i
  <2>1. CASE i \in 1 .. n
    <3>1. g_usb_dev'[i] = g_usb_dev[i] /\ g_usb_dev[i].addr # at.addr
      BY <1>1, <1>4, <2>1
    <3>2. \A j \in 1 .. n + 1 : g_usb_dev'[j].addr = g_usb_dev[i].addr => j = i
      BY <1>4, <1>5, <1>6, <1>9, <2>1, <3>1
    <3> QED BY <1>9, <2>1, <3>1, <3>2
  <2>2. CASE i = n + 1
    <3>1. g_usb_dev'[i] = new
      BY <1>4, <2>2
    <3>2. \A j \in 1 .. n + 1 : g_usb_dev'[j].addr = at.addr => j = i
      BY <1>1, <1>4, <1>6, <2>2
    <3>3. PICK d \in Devices : d = Here.dev
      BY <1>2
    <3>4. OnFirst(d)' /\ bus'[d].addr = at.addr /\ Class[d] = new.class
      BY <1>2, <1>5, <1>7, <3>3
    <3> QED BY <1>2, <1>5, <1>8, <3>1, <3>2, <3>4
  <2> QED BY <1>6, <2>1, <2>2
<1>11. ASSUME NEW t \in DOMAIN TableMax
       PROVE  /\ Len(classes[t]) <= TableMax[t]
              /\ \A i \in DOMAIN classes[t] :
                    /\ classes[t][i] \in 1 .. n /\ classes[t][i] # n + 1
                    /\ g_usb_dev'[classes[t][i]].class = t
                    /\ \A j \in DOMAIN classes[t] :
                          classes[t][i] = classes[t][j] => i = j
  BY <1>4, <1>6 DEF EntriesSound
<1>12. EntriesSound'
  BY <1>2, <1>3, <1>4, <1>6, <1>10, <1>11 DEF EntriesSound, Listens
<1>13. StageSound'
  <2>1. Here' = Here /\ Place' = n + 1
    BY <1>3, <1>4 DEF Here, Place
  <2>2. PICK d \in Devices : d = Here.dev
    BY <1>2
  <2>3. at'.addr # 0 /\ OnFirst(d)' /\ bus'[d].addr = at'.addr
    BY <1>2, <1>3, <1>7, <2>2
  <2>4. Here'.dev = d
    BY <2>1, <2>2
  <2>5. /\ Place' \in DOMAIN g_usb_dev' /\ g_usb_dev'[Place'].addr = at'.addr
        /\ g_usb_dev'[Place'].class = at'.class
    BY <1>1, <1>3, <1>4, <1>5, <1>6, <2>1
  <2> QED BY <1>3, <1>11, <2>1, <2>3, <2>4, <2>5 DEF StageSound, Listens, OnFirst
<1> QED BY <1>3, <1>4, <1>6, <1>12, <1>13

(* The class of the device is noted, and the table of its class gets a     *)
(* place in g_usb_dev that no table has yet.                               *)
LEMMA ClassEntered ==
    ASSUME UsbAssumption, UsbTyped, StageSound, EntriesSound, Settled, ProbeStep,
           UsbTyped'
    PROVE  EntriesSound'
<1>1. /\ at.stage = "probe" /\ UNCHANGED g_usb_dev
      /\ classes' = classes \/ (at.class \in DOMAIN TableMax /\ Enter(at.class))
  BY DEF ProbeStep
<1>2. CASE classes' = classes
  BY <1>1, <1>2, EntriesKept
<1>3. CASE at.class \in DOMAIN TableMax /\ Enter(at.class) /\ classes' # classes
  <2> DEFINE p == Place
             w == classes[at.class]
  <2>1. /\ p \in DOMAIN g_usb_dev /\ g_usb_dev[p].class = at.class /\ p \in Nat
        /\ \A t \in DOMAIN TableMax :
              \A i \in DOMAIN classes[t] : classes[t][i] # p
    BY <1>1 DEF StageSound, UsbTyped, Place
  <2>2. /\ classes \in [DOMAIN TableMax -> Seq(Nat)] /\ w \in Seq(Nat)
        /\ TableMax[at.class] \in Nat
    BY <1>3 DEF UsbTyped, UsbAssumption
  <2>3. Len(w) < TableMax[at.class]
        /\ classes' = [classes EXCEPT ![at.class] = Append(w, p)]
    BY <1>3 DEF Enter
  <2> HIDE DEF p, w
  <2>4. /\ \A t \in DOMAIN TableMax \ {at.class} : classes'[t] = classes[t]
        /\ classes'[at.class] = Append(w, p)
    BY <1>3, <2>2, <2>3
  <2>5. /\ Len(w) \in Nat /\ DOMAIN w = 1 .. Len(w)
        /\ Len(Append(w, p)) = Len(w) + 1
        /\ DOMAIN Append(w, p) = 1 .. Len(w) + 1 /\ Append(w, p)[Len(w) + 1] = p
        /\ \A i \in 1 .. Len(w) : Append(w, p)[i] = w[i]
    BY <2>1, <2>2
  <2>6. Len(w) + 1 <= TableMax[at.class]
        /\ \A i \in 1 .. Len(w) + 1 : i \in 1 .. Len(w) \/ i = Len(w) + 1
    BY <2>2, <2>3, <2>5
  <2>7. \A i \in 1 .. Len(w) :
           /\ w[i] \in DOMAIN g_usb_dev /\ g_usb_dev[w[i]].class = at.class
           /\ w[i] # p
           /\ \A j \in 1 .. Len(w) : w[i] = w[j] => i = j
    BY <1>3, <2>1, <2>5 DEF EntriesSound, w
  <2>8. \A i \in 1 .. Len(w) + 1 :
           /\ Append(w, p)[i] \in DOMAIN g_usb_dev
           /\ g_usb_dev[Append(w, p)[i]].class = at.class
           /\ \A j \in 1 .. Len(w) + 1 :
                 Append(w, p)[i] = Append(w, p)[j] => i = j
    BY <2>1, <2>5, <2>6, <2>7
  <2>9. ASSUME NEW t \in DOMAIN TableMax
        PROVE  /\ Len(classes'[t]) <= TableMax[t]
               /\ \A i \in DOMAIN classes'[t] :
                     /\ classes'[t][i] \in DOMAIN g_usb_dev
                     /\ g_usb_dev[classes'[t][i]].class = t
                     /\ \A j \in DOMAIN classes'[t] :
                           classes'[t][i] = classes'[t][j] => i = j
    <3>1. CASE t = at.class
      BY <2>4, <2>5, <2>6, <2>8, <3>1
    <3>2. CASE t # at.class
      BY <2>4, <3>2 DEF EntriesSound
    <3> QED BY <3>1, <3>2
  <2>10. ASSUME NEW i \in DOMAIN g_usb_dev
         PROVE  LET e == g_usb_dev[i] IN
                /\ g_ehci' # <<>> /\ e.ctrl = g_ehci'[1]
                /\ e.addr # 0 /\ e.addr < next_addr'[g_ehci'[1]]
                /\ \E d \in Devices : /\ OnFirst(d)' /\ bus'[d].addr = e.addr
                                      /\ Class[d] = e.class
                /\ \A j \in DOMAIN g_usb_dev :
                      g_usb_dev[j].addr = e.addr => j = i
    BY <2>10 DEF EntriesSound, ProbeStep, pci, Listens, OnFirst
  <2> QED BY <1>1, <2>9, <2>10 DEF EntriesSound, Listens
<1> QED BY <1>1, <1>2, <1>3

LEMMA EntriesStay ==
    ASSUME UsbAssumption, Orderly, UsbTyped, SearchSound, AddressesGiven,
           StageSound, EntriesSound, Untouched, UsbNext, UsbTyped'
    PROVE  EntriesSound'
<1>1. Settled
  BY UsbSettles
<1>2. ASSUME TurnStep \/ PortStep \/ GetFirst \/ SetAddress \/ GetDescriptor
             \/ GetConfig \/ probe_hub
      PROVE  UNCHANGED <<g_usb_dev, classes>>
  BY <1>2 DEF TurnStep, PortStep, GetFirst, SetAddress, GetDescriptor, GetConfig,
              probe_hub
<1> QED BY <1>1, <1>2, UsbSteps, EntriesKept, EntryAdded, ClassEntered

LEMMA StageStays ==
    ASSUME UsbAssumption, Orderly, UsbTyped, SearchSound, AddressesGiven,
           StageSound, EntriesSound, Untouched, UsbNext, UsbTyped'
    PROVE  StageSound'
<1>1. Settled
  BY UsbSettles
<1>2. ASSUME at'.stage \in {"port", "first", "address"} PROVE StageSound'
  BY <1>2 DEF StageSound
<1>3. ASSUME TurnStep PROVE StageSound'
  BY <1>2, <1>3, FirstStays
<1>4. ASSUME PortStep PROVE StageSound'
  BY <1>2, <1>4 DEF PortStep, Begin, UsbTyped, StageForm
<1>5. ASSUME GetFirst PROVE StageSound'
  BY <1>2, <1>5 DEF GetFirst, GoOn, Go, Leave, Begin, UsbTyped, StageForm
<1>6. ASSUME SetAddress PROVE StageSound'
  <2> DEFINE new == next_addr[g_ehci[1]]
  <2>1. /\ g_ehci # <<>> /\ new \in Nat \ {0} /\ UNCHANGED <<g_ehci, g_usb_dev>>
        /\ \A d \in Devices :
              bus'[d] = IF OnFirst(d) /\ bus[d].addr = 0
                        THEN [bus[d] EXCEPT !.addr = new] ELSE bus[d]
        /\ \/ Leave
           \/ /\ at' = [at EXCEPT !.stage = "descriptor", !.addr = new]
              /\ todo' = todo
              /\ OnFirst(Here.dev) /\ bus[Here.dev].addr = 0
        /\ Here.dev \in Devices
    BY <1>6, AddressTaken
  <2>2. \A i \in DOMAIN g_usb_dev : g_usb_dev[i].addr # new
    <3>1. \A i \in DOMAIN g_usb_dev : g_usb_dev[i].addr < new
      BY DEF EntriesSound
    <3> QED BY <2>1, <3>1
  <2> HIDE DEF new
  <2>3. CASE Leave
    BY <1>2, <2>3 DEF Leave, Begin
  <2>4. CASE /\ at' = [at EXCEPT !.stage = "descriptor", !.addr = new]
             /\ todo' = todo
             /\ OnFirst(Here.dev) /\ bus[Here.dev].addr = 0
    <3>1. at'.stage = "descriptor" /\ at'.addr = new
      BY <2>4 DEF UsbTyped, StageForm
    <3>2. PICK d \in Devices : d = Here.dev
      BY <2>1
    <3>3. Here'.dev = d /\ bus'[d] = [bus[d] EXCEPT !.addr = new]
      BY <2>1, <2>4, <3>2 DEF Here
    <3>4. OnFirst(d)' /\ bus'[d].addr = new
      BY <2>1, <2>4, <3>2, <3>3 DEF OnFirst, UsbTyped, DeviceForm
    <3> QED BY <2>1, <2>2, <3>1, <3>3, <3>4 DEF StageSound, Listens, OnFirst
  <2> QED BY <2>1, <2>3, <2>4
<1>7. ASSUME GetDescriptor \/ GetConfig PROVE StageSound'
  <2>1. at.stage \in {"descriptor", "config"}
        /\ UNCHANGED <<bus, g_ehci, g_usb_dev, classes>>
    BY <1>7 DEF GetDescriptor, GetConfig, pci
  <2>2. /\ at.addr \in Nat \ {0} /\ Listens(Here.dev, at.addr)
        /\ Reached(Here.ctrl, at.addr) = {Here.dev}
    BY <2>1, OwnReached
  <2>3. CASE Leave
    BY <1>2, <2>3 DEF Leave, Begin
  <2>4. ASSUME GetDescriptor, ~Leave
        PROVE  todo' = todo
               /\ at' = [at EXCEPT !.stage = "config", !.class = Class[Here.dev]]
    BY <2>2, <2>4 DEF GetDescriptor
  <2>5. ASSUME GetConfig, ~Leave
        PROVE  todo' = todo /\ at.stage = "config"
               /\ at' = [at EXCEPT !.stage = "configure"]
    BY <2>5 DEF GetConfig, GoOn, Go
  <2>6. ~Leave => /\ todo' = todo /\ at'.addr = at.addr
                  /\ at'.stage \in {"config", "configure"}
                  /\ at'.class = Class[Here.dev]
    BY <1>7, <2>4, <2>5 DEF StageSound, UsbTyped, StageForm
  <2>7. CASE ~Leave
    BY <2>1, <2>2, <2>6, <2>7 DEF StageSound, Listens, OnFirst, Here
  <2> QED BY <2>3, <2>7
<1>8. ASSUME SetConfiguration PROVE StageSound'
  BY <1>1, <1>8, EntryAdded
<1>9. ASSUME ProbeStep \/ probe_hub PROVE StageSound'
  <2>1. at' = Begin
    BY <1>9 DEF ProbeStep, probe_hub
  <2> QED BY <1>2, <2>1 DEF Begin
<1> QED BY <1>3, <1>4, <1>5, <1>6, <1>7, <1>8, <1>9, UsbSteps

UsbInv ==
    /\ UsbTyped /\ SearchSound /\ AddressesGiven
    /\ StageSound /\ EntriesSound /\ Untouched

LEMMA UsbKeepsInv ==
    ASSUME UsbAssumption, Orderly, UsbInv, [UsbNext]_usbVars PROVE UsbInv'
<1>1. UsbTyped' /\ SearchSound' /\ AddressesGiven' /\ Untouched'
  BY UsbKeepsTypes, UsbKeepsSound, UsbKeepsUntouched DEF UsbInv
<1>2. CASE UsbNext
  BY <1>1, <1>2, EntriesStay, StageStays DEF UsbInv
<1>3. CASE UNCHANGED usbVars
  BY <1>1, <1>3 DEF usbVars, UsbInv, StageSound, EntriesSound, Listens, OnFirst,
                    Here, Place
<1> QED BY <1>1, <1>2, <1>3

LEMMA EntriesLead ==
    ASSUME UsbAssumption, UsbInv PROVE EntriesTrue
<1>1. ASSUME NEW i \in DOMAIN g_usb_dev
      PROVE  \E d \in Devices :
                /\ Reached(g_usb_dev[i].ctrl, g_usb_dev[i].addr) = {d}
                /\ Class[d] = g_usb_dev[i].class
  <2> DEFINE a == g_usb_dev[i].addr
  <2>1. /\ g_ehci # <<>> /\ g_usb_dev[i].ctrl = g_ehci[1] /\ a # 0
    BY DEF UsbInv, EntriesSound
  <2>2. PICK d \in Devices : Listens(d, a) /\ Class[d] = g_usb_dev[i].class
    BY DEF UsbInv, EntriesSound
  <2>3. g_ehci[1][1] = "ehci"
    BY <2>1 DEF UsbInv, SearchSound, UsbTyped
  <2> HIDE DEF a
  <2>4. \A e \in Devices : Listens(e, a) => e = d
    BY <2>1, <2>2 DEF UsbInv, AddressesGiven, AddressesOwn, Listens, OnFirst
  <2>5. Reached(g_ehci[1], a) = {d}
    BY <2>2, <2>3, <2>4, WhoIsReached DEF Listens
  <2> QED BY <2>1, <2>2, <2>5 DEF a
<1>2. \A i, j \in DOMAIN g_usb_dev : g_usb_dev[j].addr = g_usb_dev[i].addr => j = i
  BY DEF UsbInv, EntriesSound
<1>3. \A t \in DOMAIN TableMax : \A i, j \in DOMAIN classes[t] :
         /\ g_usb_dev[classes[t][i]].class = t
         /\ classes[t][i] = classes[t][j] => i = j
  BY DEF UsbInv, EntriesSound
<1> QED BY <1>1, <1>2, <1>3 DEF EntriesTrue

LEMMA UsbTypeOKHolds ==
    ASSUME UsbAssumption, UsbInv PROVE UsbTypeOK
<1>1. \A d \in Devices : /\ bus[d].on \in BOOLEAN /\ bus[d].ctrl \in Ctrls
                         /\ bus[d].addr \in Nat /\ bus[d].conf \in BOOLEAN
  BY DEF UsbInv, UsbTyped, DeviceForm
<1>2. next_addr \in [Ctrls -> Nat]
  BY DEF UsbInv, UsbTyped
<1>3. Len(g_usb_dev) \in 0 .. USB_MAX_DEVICES
  BY DEF UsbInv, UsbTyped, UsbAssumption
<1>4. \A t \in DOMAIN TableMax :
          /\ Len(classes[t]) \in 0 .. TableMax[t]
          /\ \A i \in DOMAIN classes[t] : classes[t][i] \in DOMAIN g_usb_dev
  <2>1. \A t \in DOMAIN TableMax : classes[t] \in Seq(Nat) /\ TableMax[t] \in Nat
    BY DEF UsbInv, UsbTyped, UsbAssumption
  <2> QED BY <2>1 DEF UsbInv, EntriesSound
<1>5. \A i \in DOMAIN g_ehci : g_ehci[i] \in Ctrls
  BY DEF UsbInv, UsbTyped
<1>6. at.stage \in Stages /\ at.addr \in Nat
  BY DEF UsbInv, UsbTyped, StageForm
<1> QED BY <1>1, <1>2, <1>3, <1>4, <1>5, <1>6 DEF UsbTypeOK

(* Each entry of g_usb_dev leads to one device, of the class entered, and  *)
(* each entry of a class table to an entry of its class, once; and types   *)
(* and addresses are right throughout, as long as no transfer fails that   *)
(* gives a device its first address.                                       *)
THEOREM EntriesStayTrue ==
    ASSUME UsbAssumption, Orderly
    PROVE  UsbSpec => [](UsbTypeOK /\ AddressesOwn /\ EntriesTrue)
<1>1. UsbInit => UsbInv
  BY UsbStartTyped, UsbStartSound, UsbStartEntered, UsbStartUntouched DEF UsbInv
<1>2. UsbInv /\ [UsbNext]_usbVars => UsbInv'
  BY UsbKeepsInv
<1>3. UsbInv => UsbTypeOK /\ AddressesOwn /\ EntriesTrue
  BY UsbTypeOKHolds, EntriesLead DEF UsbInv, AddressesGiven
<1> QED BY <1>1, <1>2, <1>3, PTL DEF UsbSpec

-----------------------------------------------------------------------------
(* Nothing is overlooked when no transfer fails.                           *)

(* A device that has to be entered is waiting at the port looked at.       *)
Awaited(d) ==
    /\ todo # <<>> /\ Here = Port(g_ehci[1], d, 0)
    /\ g_ehci # <<>> /\ Plug(g_ehci[1], d) /\ Speed[d] = "high"

LEMMA EnteredStays ==
    ASSUME UsbTyped, EntriesSound, Settled, NEW d \in Devices, Entered(d),
           DOMAIN g_usb_dev \subseteq DOMAIN g_usb_dev',
           \A i \in DOMAIN g_usb_dev : g_usb_dev'[i] = g_usb_dev[i]
    PROVE  Entered(d)'
<1>1. PICK i \in DOMAIN g_usb_dev : Listens(d, g_usb_dev[i].addr)
  BY DEF Entered
<1>2. g_usb_dev[i].addr # 0
  BY DEF EntriesSound
<1> QED BY <1>1, <1>2 DEF Entered, Listens, Settled

LEMMA MissedKept ==
    ASSUME UsbAssumption, UsbTyped, EntriesSound, NoneMissed, Settled,
           todo # <<>>, UNCHANGED <<work, g_ehci>>, HasPlace' => HasPlace,
           \A k \in DOMAIN todo \ {1} : \E i \in DOMAIN todo' : todo'[i] = todo[k],
           DOMAIN g_usb_dev \subseteq DOMAIN g_usb_dev',
           \A i \in DOMAIN g_usb_dev : g_usb_dev'[i] = g_usb_dev[i],
           \A d \in Devices : Awaited(d) =>
              ~HasPlace \/ Entered(d) \/ todo' = todo
    PROVE  NoneMissed'
<1> SUFFICES ASSUME NEW d \in Devices, g_ehci # <<>>, Plug(g_ehci[1], d),
                    Speed[d] = "high"
             PROVE  \/ ~HasPlace'
                    \/ \E j \in DOMAIN work : work[j] = <<"scan", g_ehci[1]>>
                    \/ \E i \in DOMAIN todo' : todo'[i] = Port(g_ehci[1], d, 0)
                    \/ Entered(d)'
  BY DEF NoneMissed, Plug
<1>1. \/ ~HasPlace
      \/ \E j \in DOMAIN work : work[j] = <<"scan", g_ehci[1]>>
      \/ \E i \in DOMAIN todo : todo[i] = Port(g_ehci[1], d, 0)
      \/ Entered(d)
  BY DEF NoneMissed
<1>2. Entered(d) => Entered(d)'
  BY EnteredStays
<1>3. ASSUME NEW i \in DOMAIN todo, todo[i] = Port(g_ehci[1], d, 0)
      PROVE  \/ ~HasPlace' \/ Entered(d)'
             \/ \E k \in DOMAIN todo' : todo'[k] = Port(g_ehci[1], d, 0)
  <2>1. CASE i # 1
    BY <1>3, <2>1
  <2>2. CASE i = 1
    <3>1. Awaited(d)
      BY <1>3, <2>2, SearchTypes DEF Awaited
    <3>2. CASE todo' = todo
      BY <1>3, <3>2
    <3>3. CASE Entered(d) \/ ~HasPlace
      BY <1>2, <3>3
    <3> QED BY <3>1, <3>2, <3>3
  <2> QED BY <2>1, <2>2
<1> QED BY <1>1, <1>2, <1>3

LEMMA NoneFails ==
    ASSUME BusFaults = {}, NEW c, NEW a, NEW o \in Outcomes(c, a),
           Reached(c, a) # {}
    PROVE  Succeeds(o) /\ Happens(o)
BY DEF Outcomes, Succeeds, Happens

LEMMA HearsStays ==
    ASSUME UsbAssumption, Orderly, UsbInv, FirstHears, UsbNext
    PROVE  FirstHears'
<1>1. ASSUME at'.stage \notin {"first", "address"} PROVE FirstHears'
  BY <1>1 DEF FirstHears
<1>2. ASSUME TurnStep PROVE FirstHears'
  BY <1>1, <1>2, FirstStays DEF UsbInv
<1>3. ASSUME PortStep PROVE FirstHears'
  <2>1. todo # <<>> /\ g_ehci' = g_ehci
    BY <1>3 DEF PortStep, pci
  <2>2. Here \in PortForm /\ Here = todo[1] /\ 1 \in DOMAIN todo
    BY <2>1, SearchTypes DEF UsbInv
  <2>3. CASE at' = Begin
    BY <1>1, <2>3 DEF Begin
  <2>4. ASSUME todo' = todo, Here.hub = 0, Here.ctrl[1] = "ehci",
               Here.ctrl = g_ehci[1], Speed[Here.dev] = "high"
        PROVE  Here' = Here /\ g_ehci # <<>>
               /\ \A d \in Devices : d = Here.dev =>
                     OnFirst(d)' /\ bus'[d].addr = 0
    <3>1. bus' = [bus EXCEPT ![Here.dev] = [on |-> TRUE, ctrl |-> Here.ctrl,
                                            addr |-> 0, conf |-> FALSE]]
      BY <1>3, <2>4 DEF PortStep
    <3>2. g_ehci # <<>>
      BY <2>2, <2>4 DEF UsbInv, SearchSound
    <3> QED BY <2>1, <2>4, <3>1, <3>2 DEF Here, OnFirst, UsbInv, UsbTyped
  <2>5. CASE todo' = todo
    <3>1. Here.dev \in Devices
      BY <2>2 DEF PortForm
    <3>2. Here' = Here
      BY <2>5 DEF Here
    <3>3. Here.hub = 0 /\ Here.ctrl[1] = "ehci" /\ Here.ctrl = g_ehci[1]
          /\ Speed[Here.dev] = "high"
          => \A d \in Devices : d = Here.dev => OnFirst(d)' /\ bus'[d].addr = 0
      BY <2>4, <2>5
    <3>4. Here'.dev \in Devices
      BY <3>1, <3>2
    <3> QED BY <2>1, <3>2, <3>3, <3>4 DEF FirstHears, Listens, OnFirst
  <2> QED BY <1>3, <2>3, <2>5 DEF PortStep
<1>4. ASSUME GetFirst PROVE FirstHears'
  <2>1. UNCHANGED <<bus, g_ehci>> /\ at.stage = "first"
        /\ (at' = Begin \/ todo' = todo)
    BY <1>4 DEF GetFirst, GoOn, Go, Leave, pci
  <2>2. CASE at' = Begin
    BY <1>1, <2>2 DEF Begin
  <2> QED BY <2>1, <2>2 DEF FirstHears, Listens, OnFirst, Here
<1>5. ASSUME SetAddress PROVE FirstHears'
  <2>1. at' = Begin \/ at'.stage = "descriptor"
    BY <1>5 DEF SetAddress, Leave, UsbInv, UsbTyped, StageForm
  <2> QED BY <1>1, <2>1 DEF Begin
<1>6. ASSUME GetDescriptor \/ GetConfig \/ SetConfiguration \/ ProbeStep
             \/ probe_hub
      PROVE  FirstHears'
  <2>1. at' = Begin \/ at'.stage \notin {"port", "first", "address"}
    BY <1>6, LaterMoves DEF UsbInv, Leave
  <2> QED BY <1>1, <2>1 DEF Begin
<1> QED BY <1>2, <1>3, <1>4, <1>5, <1>6, UsbSteps DEF UsbInv

LEMMA MissedTurn ==
    ASSUME UsbAssumption, UsbTyped, SearchSound, NoneMissed, TurnStep
    PROVE  NoneMissed'
<1>1. PICK kind \in {"start", "scan"}, c \in Ctrls :
         /\ todo = <<>> /\ work # <<>> /\ Head(work) = <<kind, c>>
         /\ \/ /\ kind = "start" /\ c[1] = "ehci"
               /\ g_ehci' = Append(g_ehci, c)
               /\ work' = Append(Tail(work), <<"scan", c>>) /\ todo' = todo
            \/ /\ work' = Tail(work) /\ g_ehci' = g_ehci
               /\ kind = "scan" => todo' = PortsOf(c)
         /\ UNCHANGED <<bus, g_usb_dev>>
  BY DEF TurnStep
<1>2. /\ 1 \in DOMAIN work /\ work[1] = <<kind, c>>
      /\ \A j \in DOMAIN work \ {1} :
            j - 1 \in DOMAIN work' /\ work'[j - 1] = work[j]
      /\ work' = Append(Tail(work), <<"scan", c>>) =>
            Len(work) \in DOMAIN work' /\ work'[Len(work)] = <<"scan", c>>
  BY <1>1, WorkTurns
<1> SUFFICES ASSUME NEW d \in Devices, NEW e, g_ehci' # <<>>, e = g_ehci'[1],
                    Plug(e, d), Speed[d] = "high"
             PROVE  \/ ~HasPlace'
                    \/ \E j \in DOMAIN work' : work'[j] = <<"scan", e>>
                    \/ \E i \in DOMAIN todo' : todo'[i] = Port(e, d, 0)
                    \/ Entered(d)'
  BY DEF NoneMissed, Plug
<1>3. CASE g_ehci = <<>>
  <2>1. g_ehci' = Append(g_ehci, c) /\ work' = Append(Tail(work), <<"scan", c>>)
    BY <1>1, <1>3
  <2>2. e = c
    BY <1>3, <2>1 DEF UsbTyped
  <2> QED BY <1>2, <2>1, <2>2
<1>4. CASE g_ehci # <<>>
  <2>1. e = g_ehci[1] /\ \A x \in Devices : OnFirst(x)' <=> OnFirst(x)
    BY <1>4, FirstStays
  <2>2. Entered(d) => Entered(d)'
    BY <1>1, <2>1 DEF Entered, Listens
  <2>3. ~HasPlace => ~HasPlace'
    BY <1>1 DEF HasPlace
  <2>4. ASSUME NEW j \in DOMAIN work, work[j] = <<"scan", e>>
        PROVE  \/ \E k \in DOMAIN work' : work'[k] = <<"scan", e>>
               \/ \E i \in DOMAIN todo' : todo'[i] = Port(e, d, 0)
    <3>1. CASE j # 1
      BY <1>2, <2>4, <3>1
    <3>2. CASE j = 1
      <4>1. kind = "scan" /\ c = e /\ todo' = PortsOf(e)
        BY <1>1, <1>2, <2>4, <3>2
      <4>2. PICK k \in DOMAIN On[e] : On[e][k] = d
        BY DEF Plug
      <4>3. k \in DOMAIN PortsOf(e) /\ PortsOf(e)[k] = Port(e, d, 0)
        BY <4>1, <4>2, PortsTyped
      <4> QED BY <4>1, <4>3
    <3> QED BY <3>1, <3>2
  <2>5. \A i \in DOMAIN todo : FALSE
    BY <1>1
  <2>6. \/ ~HasPlace
        \/ \E j \in DOMAIN work : work[j] = <<"scan", e>>
        \/ Entered(d)
    BY <1>4, <2>1, <2>5 DEF NoneMissed
  <2> QED BY <2>2, <2>3, <2>4, <2>6
<1> QED BY <1>3, <1>4

LEMMA MissedStays ==
    ASSUME UsbAssumption, Orderly, BusFaults = {}, UsbInv, FirstHears,
           NoneMissed, UsbNext, UsbTyped'
    PROVE  NoneMissed'
<1>1. Settled /\ UsbAssumption /\ UsbTyped /\ SearchSound /\ EntriesSound
  BY UsbSettles DEF UsbInv
<1>2. ASSUME TurnStep PROVE NoneMissed'
  BY <1>1, <1>2, MissedTurn
<1>3. ASSUME todo # <<>>, UNCHANGED <<work, g_ehci, g_usb_dev>>,
             Leave \/ todo' = todo \/ todo' = HubTodo(Here.dev),
             \A d \in Devices : Awaited(d) =>
                ~HasPlace \/ Entered(d) \/ todo' = todo
      PROVE  NoneMissed'
  <2>1. HasPlace' => HasPlace
    BY <1>3 DEF HasPlace
  <2>2. Here.dev \in Devices
    BY <1>1, <1>3, SearchTypes DEF PortForm
  <2>3. ASSUME NEW k \in DOMAIN todo \ {1}
        PROVE  \E i \in DOMAIN todo' : todo'[i] = todo[k]
    <3>1. CASE Leave
      <4>1. k - 1 \in DOMAIN Tail(todo)
        BY <1>1, <1>3, SearchTypes
      <4>2. k - 1 + 1 = k
        BY <1>1, <2>3 DEF UsbTyped
      <4>3. Tail(todo)[k - 1] = todo[k]
        BY <1>1, <1>3, <4>1, <4>2, SearchTypes
      <4> QED BY <3>1, <4>1, <4>3 DEF Leave
    <3>2. CASE todo' = todo
      BY <3>2
    <3>3. CASE todo' = HubTodo(Here.dev)
      <4>1. PICK h \in Devices : h = Here.dev
        BY <2>2
      <4>2. \E i \in DOMAIN HubTodo(h) : HubTodo(h)[i] = todo[k]
        BY <1>1, <1>3, HubTyped
      <4> QED BY <3>3, <4>1, <4>2
    <3> QED BY <1>3, <3>1, <3>2, <3>3
  <2>4. DOMAIN g_usb_dev \subseteq DOMAIN g_usb_dev'
        /\ \A i \in DOMAIN g_usb_dev : g_usb_dev'[i] = g_usb_dev[i]
    BY <1>3
  <2> QED BY <1>1, <1>3, <2>1, <2>3, <2>4, MissedKept
<1>4. ASSUME NEW d \in Devices, Awaited(d)
      PROVE  /\ Here.hub = 0 /\ Here.dev = d /\ Here.ctrl = g_ehci[1]
             /\ Here.ctrl[1] = "ehci" /\ Speed[Here.dev] = "high"
             /\ todo # <<>> /\ g_ehci # <<>>
  <2>1. g_ehci # <<>> => g_ehci[1][1] = "ehci"
    BY <1>1 DEF SearchSound, UsbTyped
  <2> QED BY <1>4, <2>1 DEF Awaited, Port
<1>5. ASSUME PortStep PROVE NoneMissed'
  <2>1. /\ todo # <<>> /\ UNCHANGED <<work, g_ehci, g_usb_dev>>
        /\ Leave \/ todo' = todo
    BY <1>5 DEF PortStep, pci, Leave
  <2>2. \A d \in Devices : Awaited(d) => ~HasPlace \/ todo' = todo
    BY <1>4, <1>5 DEF PortStep
  <2> QED BY <1>3, <2>1, <2>2
<1>6. ASSUME GetFirst \/ SetAddress PROVE NoneMissed'
  <2>1. /\ at.stage \in {"first", "address"} /\ todo # <<>>
        /\ UNCHANGED <<work, g_ehci, g_usb_dev>>
        /\ Leave \/ todo' = todo
    BY <1>1, <1>6 DEF GetFirst, SetAddress, GoOn, Go, pci, SearchSound
  <2>2. ASSUME NEW d \in Devices, Awaited(d) PROVE todo' = todo
    <3>1. Listens(d, 0)
      BY <1>4, <2>1, <2>2 DEF FirstHears
    <3>2. d \in Reached(Here.ctrl, 0)
      BY <1>4, <2>2, <3>1, WhoIsReached DEF Listens
    <3>3. \A o \in Outcomes(Here.ctrl, 0) : Succeeds(o)
      BY <3>2, NoneFails
    <3> QED BY <1>6, <3>3 DEF GetFirst, SetAddress, GoOn, Go
  <2> QED BY <1>3, <2>1, <2>2
<1>7. ASSUME GetDescriptor \/ GetConfig PROVE NoneMissed'
  <2>1. /\ at.stage \in {"descriptor", "config"}
        /\ UNCHANGED <<work, g_ehci, g_usb_dev>>
    BY <1>7 DEF GetDescriptor, GetConfig, pci
  <2>2. todo # <<>> /\ Reached(Here.ctrl, at.addr) # {}
    BY <2>1, OwnReached DEF UsbInv
  <2>3. \A o \in Outcomes(Here.ctrl, at.addr) : Succeeds(o)
    BY <2>2, NoneFails
  <2>4. todo' = todo
    BY <1>7, <2>3 DEF GetDescriptor, GetConfig, GoOn, Go
  <2> QED BY <1>3, <2>1, <2>2, <2>4
<1>8. ASSUME SetConfiguration PROVE NoneMissed'
  <2>1. /\ todo' = todo /\ UNCHANGED <<work, g_ehci>>
        /\ DOMAIN g_usb_dev \subseteq DOMAIN g_usb_dev'
        /\ \A i \in DOMAIN g_usb_dev : g_usb_dev'[i] = g_usb_dev[i]
    BY <1>1, <1>8, EntryAdded DEF UsbInv
  <2>2. todo # <<>> /\ HasPlace
    BY <1>1, <1>8 DEF SetConfiguration, SearchSound
  <2>3. \A k \in DOMAIN todo \ {1} : \E i \in DOMAIN todo' : todo'[i] = todo[k]
    BY <2>1
  <2> QED BY <1>1, <2>1, <2>2, <2>3, MissedKept
<1>9. ASSUME ProbeStep \/ probe_hub PROVE NoneMissed'
  <2>1. at.stage = "probe" /\ UNCHANGED <<work, g_ehci, g_usb_dev>>
    BY <1>9 DEF ProbeStep, probe_hub, pci
  <2>2. /\ todo # <<>> /\ Here.dev \in Devices /\ Listens(Here.dev, at.addr)
        /\ Place \in DOMAIN g_usb_dev /\ g_usb_dev[Place].addr = at.addr
    BY <2>1, OwnReached DEF UsbInv, StageSound
  <2>3. Entered(Here.dev)
    BY <2>2 DEF Entered
  <2>4. Leave \/ todo' = todo \/ todo' = HubTodo(Here.dev)
    BY <1>9, LaterMoves DEF UsbInv
  <2> QED BY <1>3, <1>4, <2>1, <2>2, <2>3, <2>4
<1> QED BY <1>1, <1>2, <1>5, <1>6, <1>7, <1>8, <1>9, UsbSteps

LEMMA NoneOverlooked ==
    ASSUME UsbAssumption, UsbInv, NoneMissed PROVE AllFound
<1> SUFFICES ASSUME work = <<>>, todo = <<>>, g_ehci # <<>>,
                    NEW i \in DOMAIN On[g_ehci[1]], NEW d,
                    d = On[g_ehci[1]][i], Speed[d] = "high"
             PROVE  \/ Len(g_usb_dev) = USB_MAX_DEVICES
                    \/ \E e \in DOMAIN g_usb_dev :
                          Reached(g_ehci[1], g_usb_dev[e].addr) = {d}
  BY DEF AllFound
<1>1. g_ehci[1] \in Ctrls /\ g_ehci[1][1] = "ehci"
  BY DEF UsbInv, UsbTyped, SearchSound
<1>2. d \in Devices /\ Plug(g_ehci[1], d)
  BY <1>1 DEF UsbAssumption, Plug, Ignores
<1>3. ~HasPlace \/ Entered(d)
  BY <1>2 DEF NoneMissed
<1>4. ~HasPlace => Len(g_usb_dev) = USB_MAX_DEVICES
  BY DEF HasPlace, UsbInv, UsbTyped, UsbAssumption
<1>5. ASSUME NEW e \in DOMAIN g_usb_dev, Listens(d, g_usb_dev[e].addr)
      PROVE  Reached(g_ehci[1], g_usb_dev[e].addr) = {d}
  <2>1. /\ g_usb_dev[e].addr # 0 /\ g_usb_dev[e].ctrl = g_ehci[1]
    BY DEF UsbInv, EntriesSound
  <2>2. PICK x \in Devices :
           Reached(g_usb_dev[e].ctrl, g_usb_dev[e].addr) = {x}
    BY EntriesLead DEF EntriesTrue
  <2>3. Reached(g_ehci[1], g_usb_dev[e].addr) = {x}
    BY <2>1, <2>2
  <2>4. d \in Reached(g_ehci[1], g_usb_dev[e].addr)
    BY <1>1, <1>2, <1>5, WhoIsReached DEF Listens
  <2> QED BY <2>3, <2>4
<1> QED BY <1>3, <1>4, <1>5 DEF Entered

(* A device of high speed on the first EHCI controller is found, and its   *)
(* entry leads to it, whatever else is plugged in and in whatever order    *)
(* the controllers come, when no transfer fails and there is room.         *)
THEOREM NothingOverlooked ==
    ASSUME UsbAssumption
    PROVE  UsbSpec => []AllFound
<1>1. CASE BusFaults # {}
  <2>1. AllFound
    BY <1>1 DEF AllFound
  <2> QED BY <2>1, PTL
<1>2. CASE BusFaults = {}
  <2>1. Orderly
    BY <1>2 DEF Orderly
  <2> DEFINE Inv == UsbInv /\ FirstHears /\ NoneMissed
  <2>2. UsbInit => Inv
    BY UsbStartTyped, UsbStartSound, UsbStartEntered, UsbStartUntouched
    DEF UsbInv
  <2>3. Inv /\ [UsbNext]_usbVars => Inv'
    <3>1. ASSUME Inv, UsbNext PROVE Inv'
      <4>1. UsbInv'
        BY <2>1, <3>1, UsbKeepsInv
      <4> QED BY <1>2, <2>1, <3>1, <4>1, HearsStays, MissedStays DEF UsbInv
    <3>2. ASSUME Inv, UNCHANGED usbVars PROVE Inv'
      <4>1. UsbInv'
        BY <2>1, <3>2, UsbKeepsInv
      <4> QED BY <3>2, <4>1 DEF usbVars, FirstHears, NoneMissed, Listens, OnFirst,
                         Entered, HasPlace, Here, Plug
    <3> QED BY <3>1, <3>2
  <2>4. Inv => AllFound
    BY NoneOverlooked
  <2> HIDE DEF Inv
  <2> QED BY <2>2, <2>3, <2>4, PTL DEF UsbSpec
<1> QED BY <1>1, <1>2
=============================================================================
