----------------------------- MODULE Containers -----------------------------
(* The bitmap, the linked list and the string builder of                   *)
(* libc/systrix_libc.c and systrix_libc.h, and its sort and search.        *)
EXTENDS Integers, Sequences

LOCAL INSTANCE SequencesExt
LOCAL INSTANCE FiniteSetsExt

CONSTANTS BITS, nbits,    \* bits of a word, bits of the bitmap
          Nodes,          \* nodes of a list, beside its head 0
          INIT_CAP,       \* first size of a string builder
          SMALL,          \* shorter ranges than this go to the insertion sort
          QSORT_STACK,
          MaxText         \* bound: characters in a builder

VARIABLES words,          \* word -> the set of its bits
          bits,           \* the bits that are set, as the caller knows them
          next, prev,     \* links of the nodes and the head
          queue,          \* the list as the caller knows it
          sb,             \* data and capacity of the builder
          text            \* what was appended, or stolen from it

vars == <<words, bits, next, prev, queue, sb, text>>

nw == (nbits + BITS - 1) \div BITS
Word == 0 .. BITS - 1

Init ==
    /\ words = [w \in 0 .. nw - 1 |-> {}] /\ bits = {}
    /\ next = [n \in Nodes \union {0} |-> n] /\ prev = next /\ queue = <<>>
    /\ sb = [data |-> <<>>, cap |-> 0] /\ text = <<>>

-----------------------------------------------------------------------------
(* The bitmap.                                                             *)
slibc_bm_set(bit) ==
    /\ words' = [words EXCEPT ![bit \div BITS] = @ \union {bit % BITS}]
    /\ bits' = bits \union {bit}
slibc_bm_clear(bit) ==
    /\ words' = [words EXCEPT ![bit \div BITS] = @ \ {bit % BITS}]
    /\ bits' = bits \ {bit}
slibc_bm_toggle(bit) ==
    /\ words' = [words EXCEPT ![bit \div BITS] =
                     IF bit % BITS \in @ THEN @ \ {bit % BITS}
                     ELSE @ \union {bit % BITS}]
    /\ bits' = IF bit \in bits THEN bits \ {bit} ELSE bits \union {bit}
slibc_bm_zero ==
    /\ words' = [w \in DOMAIN words |-> {}]
    /\ bits' = {}
(* The last word keeps the bits behind the end clear.                      *)
slibc_bm_fill ==
    /\ words' = [w \in DOMAIN words |->
                     IF w = nw - 1 /\ nbits % BITS # 0
                     THEN 0 .. (nbits % BITS) - 1 ELSE Word]
    /\ bits' = 0 .. nbits - 1

(* From start to the end of its word, then word by word.                   *)
RECURSIVE slibc_bm_first_set(_), slibc_bm_first_clear(_)
slibc_bm_first_set(b) ==
    LET w == {i \in words[b \div BITS] : i >= b % BITS} IN
    IF b >= nbits THEN nbits
    ELSE IF w # {} THEN b - (b % BITS) + Min(w)
    ELSE slibc_bm_first_set((b \div BITS + 1) * BITS)
slibc_bm_first_clear(b) ==
    LET w == {i \in Word \ words[b \div BITS] : i >= b % BITS} IN
    IF b >= nbits THEN nbits
    ELSE IF w # {} THEN Min({b - (b % BITS) + Min(w), nbits})
    ELSE slibc_bm_first_clear((b \div BITS + 1) * BITS)
slibc_bm_count_set ==
    FoldLeft(LAMBDA n, w : n + Cardinality(words[w]), 0,
             [i \in 1 .. nw |-> i - 1])

Bitmap ==
    /\ \/ \E b \in 0 .. nbits - 1 :
              slibc_bm_set(b) \/ slibc_bm_clear(b) \/ slibc_bm_toggle(b)
       \/ slibc_bm_zero \/ slibc_bm_fill
    /\ UNCHANGED <<next, prev, queue, sb, text>>

-----------------------------------------------------------------------------
(* The list: a ring through its head, in both directions.                  *)
_slibc_list_insert(p, n, node) ==
    /\ next' = [next EXCEPT ![node] = n, ![p] = node]
    /\ prev' = [prev EXCEPT ![node] = p, ![n] = node]
slibc_list_push_back(node) ==
    _slibc_list_insert(prev[0], 0, node) /\ queue' = Append(queue, node)
slibc_list_push_front(node) ==
    _slibc_list_insert(0, next[0], node) /\ queue' = <<node>> \o queue
slibc_list_remove(node) ==
    /\ next' = [next EXCEPT ![prev[node]] = next[node], ![node] = node]
    /\ prev' = [prev EXCEPT ![next[node]] = prev[node], ![node] = node]
    /\ queue' = Remove(queue, node)
slibc_list_pop_front == next[0] # 0 /\ slibc_list_remove(next[0])
slibc_list_pop_back  == prev[0] # 0 /\ slibc_list_remove(prev[0])

(* The neighbours of a node, followed count times.                         *)
RECURSIVE Walk(_, _)
Walk(link, n) == IF link[n] = 0 THEN <<>> ELSE <<link[n]>> \o Walk(link, link[n])
slibc_list_count == Len(Walk(next, 0))

List ==
    /\ \/ \E n \in Nodes \ Range(queue) :
              slibc_list_push_back(n) \/ slibc_list_push_front(n)
       \/ \E n \in Range(queue) : slibc_list_remove(n)
       \/ slibc_list_pop_front \/ slibc_list_pop_back
    /\ UNCHANGED <<words, bits, sb, text>>

-----------------------------------------------------------------------------
(* The builder: room for the text and its NUL, doubled until it is enough; *)
(* without memory nothing changes.                                         *)
RECURSIVE Doubled(_, _)
Doubled(ncap, need) == IF ncap < need THEN Doubled(2 * ncap, need) ELSE ncap
_sb_grow(need) ==
    IF sb.cap >= need THEN {sb.cap}
    ELSE {Doubled(IF sb.cap = 0 THEN INIT_CAP ELSE sb.cap, need), -1}

slibc_sb_appendn(s) ==
    \E cap \in _sb_grow(Len(sb.data) + Len(s) + 1) :
        IF cap = -1 THEN UNCHANGED <<sb, text>>
        ELSE /\ sb' = [data |-> sb.data \o s, cap |-> cap]
             /\ text' = text \o s

slibc_sb_reset == sb' = [sb EXCEPT !.data = <<>>] /\ text' = <<>>
(* slibc_sb_free and slibc_sb_steal leave the same builder behind.         *)
slibc_sb_free == sb' = [data |-> <<>>, cap |-> 0] /\ text' = <<>>

Builder ==
    /\ \/ \E s \in {<<1>>, <<1, 2>>, <<2, 1, 1>>} :
              Len(text) + Len(s) <= MaxText /\ slibc_sb_appendn(s)
       \/ slibc_sb_reset \/ slibc_sb_free
    /\ UNCHANGED <<words, bits, next, prev, queue>>

Next == Bitmap \/ List \/ Builder

-----------------------------------------------------------------------------
(* The sort, on a sequence whose first place is 1.                         *)
Swapped(a, i, j) == [a EXCEPT ![i] = a[j], ![j] = a[i]]
Ordered(a, i, j) == IF a[i] > a[j] THEN Swapped(a, i, j) ELSE a

RECURSIVE Sink(_, _, _)
Sink(a, lo, j) ==
    IF j > lo /\ a[j - 1] > a[j] THEN Sink(Swapped(a, j - 1, j), lo, j - 1)
    ELSE a
_isort(a, lo, hi) ==
    FoldLeft(LAMBDA b, i : Sink(b, lo, i), a, [i \in 1 .. hi - lo |-> lo + i])

(* The pivot waits at hi - 1 while both sides are walked towards each      *)
(* other; the place it ends up at comes with the array.                    *)
RECURSIVE Partition(_, _, _, _, _)
Partition(a, lo, hi, i0, j0) ==
    LET i    == Min({k \in i0 + 1 .. hi - 1 : a[k] >= a[hi - 1]})
        low  == {k \in lo .. j0 - 1 : a[k] <= a[hi - 1]}
        j    == IF low = {} THEN lo ELSE Max(low)
    IN  IF i >= j THEN <<Swapped(a, i, hi - 1), i>>
        ELSE Partition(Swapped(a, i, j), lo, hi, i, j)

RECURSIVE Sort(_, _)
Sort(a, stack) ==
    LET lo  == Last(stack)[1]
        hi  == Last(stack)[2]
        mid == lo + (hi - lo) \div 2
        m   == Ordered(Ordered(Ordered(a, lo, mid), lo, hi), mid, hi)
        p   == Partition(Swapped(m, mid, hi - 1), lo, hi, lo, hi - 1)
        top == Front(stack)
    IN  IF stack = <<>> THEN a
        ELSE IF hi <= lo THEN Sort(a, top)
        ELSE IF hi - lo < SMALL THEN Sort(_isort(a, lo, hi), top)
        ELSE Sort(p[1], IF Len(top) + 2 < QSORT_STACK
                        THEN top \o <<<<lo, p[2] - 1>>, <<p[2] + 1, hi>>>>
                        ELSE top)
qsort(a) == IF Len(a) < 2 THEN a ELSE Sort(a, <<<<1, Len(a)>>>>)

RECURSIVE Search(_, _, _, _)
Search(key, a, lo, hi) ==
    LET mid == lo + (hi - lo) \div 2 IN
    IF lo >= hi THEN 0
    ELSE IF a[mid] = key THEN mid
    ELSE IF key < a[mid] THEN Search(key, a, lo, mid)
    ELSE Search(key, a, mid + 1, hi)
bsearch(key, a) == Search(key, a, 1, Len(a) + 1)

-----------------------------------------------------------------------------
(* The bits found and counted a word at a time are those that were set.    *)
BitsFound ==
    /\ slibc_bm_count_set = Cardinality(bits)
    /\ \A b \in 0 .. nbits - 1 :
           /\ slibc_bm_first_set(b) =
                  Min({i \in bits : i >= b} \union {nbits})
           /\ slibc_bm_first_clear(b) =
                  Min({i \in 0 .. nbits - 1 : i >= b /\ i \notin bits}
                      \union {nbits})

(* The links lead through the list in both directions, and a node that is  *)
(* not in it can be put into one.                                          *)
ListLinked ==
    /\ Walk(next, 0) = queue
    /\ Walk(prev, 0) = Reverse(queue)
    /\ \A n \in Nodes \ Range(queue) : next[n] = n /\ prev[n] = n

(* The text is there with room for its NUL, whatever the memory did.       *)
TextKept ==
    /\ sb.data = text
    /\ sb.data # <<>> => Len(sb.data) < sb.cap
=============================================================================
