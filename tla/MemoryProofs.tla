---------------------------- MODULE MemoryProofs ----------------------------
(***************************************************************************)
(* Proofs about the memory of the kernel and of programs: the heap (Heap), *)
(* for heaps, pages and requests of any size, and the address space of a   *)
(* program (Vmm), for any frames, regions and pages.                       *)
(***************************************************************************)
EXTENDS Heap, Vmm, FiniteSetTheorems, WellFoundedInduction, TLAPS

(* What the theorems assume of memory: nothing at the start of a page looks*)
(* like a slab header, and the pages for slabs fit into next_slab.         *)
Clean == LooksLikeSlab = {} /\ PageAddrs \subseteq 0 .. WORD - 1

-----------------------------------------------------------------------------
(* Induction over the numbers, from the fact that inclusion of finite sets *)
(* is well founded.                                                        *)
LEMMA NatSetInduction ==
    ASSUME NEW S, 0 \in S, \A n \in Nat : n \in S => n + 1 \in S
    PROVE  Nat \subseteq S
<1> DEFINE T == {0 .. n : n \in Nat \ S}
           R == StrictSubsetOrdering(Nat)
           F == FiniteSubsetsOf(Nat)
<1>1. SUFFICES ASSUME NEW k \in Nat, k \notin S PROVE FALSE
  OBVIOUS
<1>2. IsWellFoundedOn(R, F)
  BY FS_StrictSubsetOrderingWellFounded
<1>3. T \subseteq F
  <2>1. \A n \in Nat : 0 .. n \in F
    BY FS_Interval DEF FiniteSubsetsOf
  <2> QED BY <2>1
<1>4. T # {}
  BY <1>1
<1>5. \E x \in T : \A y \in T : ~ (<<y, x>> \in R)
  <2> HIDE DEF R, F, T
  <2> QED BY <1>2, <1>3, <1>4, WFMin
<1>6. PICK n \in Nat \ S : \A m \in Nat \ S : <<0 .. m, 0 .. n>> \notin R
  BY <1>5
<1>7. n - 1 \in Nat
  BY <1>6
<1>8. <<0 .. n - 1, 0 .. n>> \in R
  BY <1>7 DEF StrictSubsetOrdering
<1>9. n - 1 \in S
  BY <1>6, <1>7, <1>8
<1> QED BY <1>6, <1>7, <1>9

(* A walk upwards: a function whose value at a comes from its value at the *)
(* later place to[a], if that is in the range; and the same from lo on.    *)
WalksFrom(f, lo, N, D, to, base, G) ==
    /\ f \in [lo .. N -> D]
    /\ \A a \in lo .. N : f[a] = IF to[a] <= N THEN G[<<a, f[to[a]]>>] ELSE base[a]
Walks(f, N, D, to, base, G) == WalksFrom(f, 0, N, D, to, base, G)

LEMMA WalkExists ==
    ASSUME NEW N \in Nat, NEW D, NEW to \in [0 .. N -> Nat], NEW base \in [0 .. N -> D],
           NEW G \in [(0 .. N) \X D -> D], \A a \in 0 .. N : a < to[a]
    PROVE  \E f : Walks(f, N, D, to, base, G)
<1> DEFINE Some(k) == \E f : WalksFrom(f, N - k, N, D, to, base, G)
           S == {k \in Nat : k <= N => Some(k)}
<1>1. Some(0)
  <2> DEFINE f == [a \in N - 0 .. N |-> base[a]]
  <2>1. f \in [N - 0 .. N -> D]
    OBVIOUS
  <2>2. \A a \in N - 0 .. N : ~(to[a] <= N) /\ f[a] = base[a]
    OBVIOUS
  <2>3. WalksFrom(f, N - 0, N, D, to, base, G)
    <3> HIDE DEF f
    <3> QED BY <2>1, <2>2 DEF WalksFrom
  <2> QED BY <2>3
<1>2. ASSUME NEW k \in Nat, k + 1 <= N, Some(k) PROVE Some(k + 1)
  <2>2. PICK f : WalksFrom(f, N - k, N, D, to, base, G)
    BY <1>2
  <2> DEFINE b == N - (k + 1)
             v == IF to[b] <= N THEN G[<<b, f[to[b]]>>] ELSE base[b]
             g == [a \in b .. N |-> IF a = b THEN v ELSE f[a]]
  <2>3. b \in 0 .. N /\ b .. N = {b} \cup (N - k .. N) /\ b \notin N - k .. N
    <3>1. \A x : x \in b .. N <=> x \in {b} \cup (N - k .. N)
      BY <1>2
    <3> QED BY <1>2, <3>1
  <2>4. \A a \in b .. N : a < to[a] /\ to[a] \in Nat /\ (to[a] <= N => to[a] \in N - k .. N)
    BY <2>3
  <2>5. v \in D
    BY <2>2, <2>3, <2>4 DEF WalksFrom
  <2>6. g \in [b .. N -> D]
    BY <2>2, <2>3, <2>5 DEF WalksFrom
  <2>7. ASSUME NEW a \in b .. N
        PROVE  g[a] = IF to[a] <= N THEN G[<<a, g[to[a]]>>] ELSE base[a]
    <3>1. to[a] <= N => g[to[a]] = f[to[a]]
      BY <2>3, <2>4
    <3>2. CASE a = b
      BY <3>1, <3>2
    <3>3. CASE a # b
      BY <2>2, <2>3, <3>1, <3>3 DEF WalksFrom
    <3> QED BY <3>2, <3>3
  <2> HIDE DEF g
  <2> QED BY <2>6, <2>7 DEF WalksFrom
<1>3. Nat \subseteq S
  <2> HIDE DEF Some
  <2>1. 0 \in S
    BY <1>1
  <2>2. \A k \in Nat : k \in S => k + 1 \in S
    BY <1>2
  <2> HIDE DEF S
  <2> QED BY <2>1, <2>2, NatSetInduction
<1>4. Some(N)
  <2> HIDE DEF Some
  <2> QED BY <1>3
<1>5. N - N = 0
  OBVIOUS
<1> QED BY <1>4, <1>5 DEF Walks

-----------------------------------------------------------------------------
(* The block tier.  H are the headers: each leads to the next, the last to *)
(* the end.  A header that was merged into the block before it stays where *)
(* it was, so what says that it is free may be left in the middle of free  *)
(* blocks.                                                                 *)
End(m, a) == a + 1 + m[a].size
Tiles(m, H) ==
    /\ m \in [Units -> Unit] /\ H \subseteq Units /\ 0 \in H
    /\ \A a \in H :
           /\ m[a].data = "header" /\ End(m, a) <= HEAP_SIZE
           /\ End(m, a) < HEAP_SIZE => End(m, a) \in H
           /\ \A b \in H : b <= a \/ End(m, a) <= b
    /\ \A a \in Units : m[a].free => End(m, a) <= HEAP_SIZE
Apart(m, H) == \A a \in H : m[a].free /\ End(m, a) < HEAP_SIZE => ~m[End(m, a)].free

LEMMA BlocksFound ==
    ASSUME HeapAssumption, NEW m, NEW H, Tiles(m, H)
    PROVE  Blocks(m) = H
<1> DEFINE N == HEAP_SIZE
           nx(a) == a + 1 + m[a].size
           Is(g) == g = [a \in 0 .. N |->
                           IF a = N THEN {}
                           ELSE {a} \cup (IF nx(a) >= N THEN {} ELSE g[nx(a)])]
           to == [a \in 0 .. N |-> IF a = N THEN N + 1 ELSE IF nx(a) >= N THEN N + 1 ELSE nx(a)]
           base == [a \in 0 .. N |-> IF a = N THEN {} ELSE {a}]
           G == [x \in (0 .. N) \X SUBSET (0 .. N) |-> {x[1]} \cup x[2]]
<1>1. N \in Nat /\ N > 1 /\ Units = 0 .. N - 1 /\ Units \subseteq 0 .. N /\ N \notin Units
  BY DEF HeapAssumption, Units
<1>2. \A a \in Units : m[a].size \in Nat /\ nx(a) \in Nat /\ a < nx(a)
  BY <1>1 DEF Tiles, Unit
<1>3. to \in [0 .. N -> Nat] /\ \A a \in 0 .. N : a < to[a]
  BY <1>1, <1>2
<1>4. base \in [0 .. N -> SUBSET (0 .. N)] /\ G \in [(0 .. N) \X SUBSET (0 .. N) -> SUBSET (0 .. N)]
  OBVIOUS
<1>5. PICK f : Walks(f, N, SUBSET (0 .. N), to, base, G)
  <2> HIDE DEF N, to, base, G
  <2> QED BY <1>1, <1>3, <1>4, WalkExists
<1>6. ASSUME NEW a \in 0 .. N
      PROVE  f[a] = IF a = N THEN {} ELSE IF nx(a) >= N THEN {a} ELSE {a} \cup f[nx(a)]
  <2>1. f[a] = IF to[a] <= N THEN G[<<a, f[to[a]]>>] ELSE base[a]
    <3> HIDE DEF to, base, G
    <3> QED BY <1>5 DEF Walks, WalksFrom
  <2>2. CASE a = N
    <3>1. to[a] = N + 1 /\ base[a] = {}
      BY <2>2
    <3>2. ~(to[a] <= N)
      BY <1>1, <3>1
    <3> HIDE DEF to, base, G, nx
    <3> QED BY <2>1, <2>2, <3>1, <3>2
  <2>3. CASE a # N /\ nx(a) >= N
    <3>1. to[a] = N + 1 /\ base[a] = {a}
      BY <2>3
    <3>2. ~(to[a] <= N)
      BY <1>1, <3>1
    <3> HIDE DEF to, base, G, nx
    <3> QED BY <2>1, <2>3, <3>1, <3>2
  <2>4. CASE a # N /\ ~(nx(a) >= N)
    <3>1. a \in Units /\ nx(a) \in 0 .. N
      BY <1>1, <1>2, <2>4
    <3>2. to[a] = nx(a) /\ nx(a) <= N
      BY <2>4, <3>1
    <3>3. f[nx(a)] \in SUBSET (0 .. N)
      BY <1>5, <3>1 DEF Walks, WalksFrom
    <3>4. G[<<a, f[nx(a)]>>] = {a} \cup f[nx(a)]
      BY <3>3
    <3> HIDE DEF to, base, G
    <3> QED BY <2>1, <2>4, <3>2, <3>4
  <2> QED BY <2>2, <2>3, <2>4
<1>7. Is(f)
  <2>1. f = [a \in 0 .. N |-> f[a]]
    BY <1>5 DEF Walks, WalksFrom
  <2> HIDE DEF nx
  <2> QED BY <1>6, <2>1
<1> DEFINE h == CHOOSE g : Is(g)
<1>8. Is(h)
  <2> HIDE DEF Is
  <2> QED BY <1>7
<1>9. Blocks(m) = h[0]
  BY DEF Blocks
<1>10. ASSUME NEW a \in H
       PROVE  h[a] = IF End(m, a) >= N THEN {a} ELSE {a} \cup h[End(m, a)]
  <2>1. a \in 0 .. N /\ a # N
    BY <1>1 DEF Tiles
  <2> HIDE DEF h
  <2>2. h[a] = {a} \cup (IF nx(a) >= N THEN {} ELSE h[nx(a)])
    BY <1>8, <2>1
  <2> QED BY <2>2 DEF End
<1> HIDE DEF h
<1> DEFINE S == {k \in Nat : \A a \in H : N - a <= k => h[a] = {b \in H : b >= a}}
<1>11. 0 \in S
  BY <1>1 DEF Tiles
<1>12. ASSUME NEW k \in Nat, k \in S PROVE k + 1 \in S
  <2>1. SUFFICES ASSUME NEW a \in H, N - a <= k + 1 PROVE h[a] = {b \in H : b >= a}
    OBVIOUS
  <2>2. /\ a \in Nat /\ End(m, a) \in Nat /\ a < End(m, a) /\ H \subseteq Nat
        /\ End(m, a) <= N /\ (End(m, a) < N => End(m, a) \in H)
        /\ \A b \in H : b <= a \/ End(m, a) <= b
    BY <1>1, <1>2 DEF Tiles, End
  <2>3. CASE End(m, a) >= N
    <3>1. \A b \in H : b >= a => b = a
      BY <1>1, <2>2, <2>3 DEF Tiles
    <3>2. h[a] = {a}
      <4> HIDE DEF N
      <4> QED BY <1>10, <2>3
    <3>3. \A b : b \in {a} <=> b \in {c \in H : c >= a}
      <4>1. a >= a
        BY <2>2
      <4> QED BY <2>1, <3>1, <4>1
    <3> QED BY <3>2, <3>3
  <2>4. CASE End(m, a) < N
    <3>1. h[End(m, a)] = {b \in H : b >= End(m, a)}
      BY <1>1, <1>12, <2>1, <2>2, <2>4
    <3>2. h[a] = {a} \cup {b \in H : b >= End(m, a)}
      <4>1. ~(End(m, a) >= N)
        BY <1>1, <2>2, <2>4
      <4> HIDE DEF N
      <4> QED BY <1>10, <3>1, <4>1
    <3>3. ASSUME NEW b \in H PROVE b >= a <=> b = a \/ b >= End(m, a)
      <4>1. b \in Nat /\ (b <= a \/ End(m, a) <= b)
        BY <2>2
      <4> QED BY <2>2, <4>1
    <3>4. {a} \cup {c \in H : c >= End(m, a)} = {c \in H : c >= a}
      <4> HIDE DEF N, nx
      <4> QED BY <2>1, <3>3
    <3> QED BY <3>2, <3>4
  <2> QED BY <1>1, <2>2, <2>3, <2>4
<1>13. Nat \subseteq S
  <2> HIDE DEF S
  <2> QED BY <1>11, <1>12, NatSetInduction
<1>14. h[0] = {b \in H : b >= 0}
  <2>1. N \in Nat /\ 0 \in H
    BY <1>1 DEF Tiles
  <2>2. N \in S
    <3> HIDE DEF S, N
    <3> QED BY <1>13, <2>1
  <2>3. N - 0 <= N
    BY <1>1
  <2> HIDE DEF N, nx
  <2> QED BY <2>1, <2>2, <2>3
<1>15. H = {b \in H : b >= 0}
  <2>1. H \subseteq Nat
    BY <1>1 DEF Tiles
  <2>2. \A b \in H : b >= 0
    BY <2>1
  <2> HIDE DEF N, nx, S
  <2> QED BY <2>2
<1> QED BY <1>9, <1>14, <1>15

LEMMA Sizes ==
    ASSUME HeapAssumption
    PROVE  /\ HEAP_SIZE \in Nat /\ HEAP_SIZE > 1 /\ Units = 0 .. HEAP_SIZE - 1
           /\ PAGE_SIZE \in Nat /\ PAGE_SIZE > 1
BY DEF HeapAssumption, Units

(* Where a header leads.                                                   *)
LEMMA Leads ==
    ASSUME HeapAssumption, NEW m, NEW H, Tiles(m, H), NEW a \in H
    PROVE  /\ a \in Nat /\ a \in Units /\ m[a].size \in Nat /\ m[a].free \in BOOLEAN
           /\ m[a] \in Unit /\ End(m, a) \in Nat /\ a < End(m, a) /\ End(m, a) <= HEAP_SIZE
           /\ End(m, a) < HEAP_SIZE => End(m, a) \in H
           /\ \A b \in H : b \in Nat /\ (b <= a \/ End(m, a) <= b)
           /\ m[a].data = "header"
BY Sizes DEF Tiles, End, Unit

(* Behind a block there is at most one free block.                         *)
LEMMA RunOfOne ==
    ASSUME HeapAssumption, NEW m, NEW H, Tiles(m, H), NEW a \in H, NEW c, c = End(m, a),
           c < HEAP_SIZE /\ m[c].free /\ End(m, c) < HEAP_SIZE => ~m[End(m, c)].free
    PROVE  FreeRun(m, a) = IF c < HEAP_SIZE /\ m[c].free THEN 1 + m[c].size ELSE 0
<1> DEFINE N == HEAP_SIZE
           Is(g) == g = [b \in 0 .. N |->
                           IF b >= N THEN 0
                           ELSE IF ~m[b].free THEN 0
                           ELSE 1 + m[b].size + g[b + 1 + m[b].size]]
           to == [b \in 0 .. N |-> IF b = N \/ ~m[b].free THEN N + 1 ELSE b + 1 + m[b].size]
           base == [b \in 0 .. N |-> 0]
           G == [x \in (0 .. N) \X Nat |-> IF x[1] = N THEN 0 ELSE 1 + m[x[1]].size + x[2]]
           h == CHOOSE g : Is(g)
<1>1. N \in Nat /\ N > 1 /\ Units = 0 .. N - 1 /\ Units \subseteq 0 .. N /\ N \notin Units
  BY Sizes
<1>2. \A b \in Units : m[b].size \in Nat /\ m[b].free \in BOOLEAN
                       /\ (m[b].free => b + 1 + m[b].size <= N)
  BY <1>1 DEF Tiles, Unit, End
<1>3. to \in [0 .. N -> Nat] /\ \A b \in 0 .. N : b < to[b]
  <2> SUFFICES ASSUME NEW b \in 0 .. N PROVE to[b] \in Nat /\ b < to[b]
    OBVIOUS
  <2>1. CASE b = N
    BY <1>1, <2>1
  <2>2. CASE b # N
    BY <1>1, <1>2, <2>2
  <2> QED BY <2>1, <2>2
<1>4. base \in [0 .. N -> Nat] /\ G \in [(0 .. N) \X Nat -> Nat]
  <2>1. \A b \in 0 .. N : b = N \/ m[b].size \in Nat
    BY <1>1, <1>2
  <2> QED BY <2>1
<1>5. PICK f : Walks(f, N, Nat, to, base, G)
  <2> HIDE DEF N, to, base, G
  <2> QED BY <1>1, <1>3, <1>4, WalkExists
<1>6. ASSUME NEW b \in 0 .. N
      PROVE  f[b] = IF b >= N THEN 0 ELSE IF ~m[b].free THEN 0
                    ELSE 1 + m[b].size + f[b + 1 + m[b].size]
  <2>1. f[b] = IF to[b] <= N THEN G[<<b, f[to[b]]>>] ELSE base[b]
    <3> HIDE DEF to, base, G
    <3> QED BY <1>5 DEF Walks, WalksFrom
  <2>2. CASE b = N \/ ~m[b].free
    <3>1. to[b] = N + 1 /\ base[b] = 0
      BY <2>2
    <3>2. ~(to[b] <= N)
      BY <1>1, <3>1
    <3> HIDE DEF to, base, G
    <3> QED BY <1>1, <2>1, <2>2, <3>1, <3>2
  <2>3. CASE b # N /\ m[b].free
    <3>1. b \in Units /\ b + 1 + m[b].size \in 0 .. N /\ ~(b >= N)
      BY <1>1, <1>2, <2>3
    <3>2. to[b] = b + 1 + m[b].size /\ to[b] <= N
      BY <2>3, <3>1
    <3>3. f[b + 1 + m[b].size] \in Nat
      BY <1>5, <3>1 DEF Walks, WalksFrom
    <3>4. G[<<b, f[b + 1 + m[b].size]>>] = 1 + m[b].size + f[b + 1 + m[b].size]
      BY <2>3, <3>3
    <3> HIDE DEF to, base, G
    <3> QED BY <2>1, <2>3, <3>1, <3>2, <3>4
  <2> QED BY <2>2, <2>3
<1>7. Is(f)
  <2>1. f = [b \in 0 .. N |-> f[b]]
    BY <1>5 DEF Walks, WalksFrom
  <2> QED BY <1>6, <2>1
<1>8. Is(h)
  <2> HIDE DEF Is
  <2> QED BY <1>7
<1>9. FreeRun(m, a) = h[c]
  BY DEF FreeRun, End
<1>10. \A b \in 0 .. N : h[b] = IF b >= N THEN 0 ELSE IF ~m[b].free THEN 0
                                ELSE 1 + m[b].size + h[End(m, b)]
  <2> HIDE DEF h
  <2> QED BY <1>8 DEF End
<1> HIDE DEF h
<1>11. c \in 0 .. N /\ (c < N => c \in H)
  BY <1>1, Leads
<1>12. CASE c < N /\ m[c].free
  <2>1. End(m, c) \in 0 .. N /\ m[c].size \in Nat
    BY <1>1, <1>11, <1>12, Leads
  <2>2. h[End(m, c)] = 0
    BY <1>1, <1>10, <1>12, <2>1
  <2>3. h[c] = 1 + m[c].size + h[End(m, c)]
    BY <1>1, <1>10, <1>11, <1>12
  <2> QED BY <1>9, <1>12, <2>1, <2>2, <2>3
<1>13. CASE ~(c < N /\ m[c].free)
  BY <1>1, <1>9, <1>10, <1>11, <1>13
<1> QED BY <1>12, <1>13

(* Parts of the heap that a step leaves as they were.                      *)
LEMMA Placed ==
    ASSUME HeapAssumption, NEW m, NEW H, Tiles(m, H), NEW a \in H, NEW u \in Units,
           u > a, u < End(m, a)
    PROVE  u \notin H
BY Leads

(* The block at a is taken: its rest, if any, is a free block behind it.   *)
LEMMA TakenTiled ==
    ASSUME HeapAssumption, NEW m, NEW H, Tiles(m, H), Apart(m, H),
           NEW a \in H, m[a].free, NEW n \in Nat \ {0}, m[a].size >= n,
           NEW k, k = Taken(m, a, n),
           NEW K, K = IF Splits(m, a, n) THEN H \cup {a + n + 1} ELSE H
    PROVE  /\ Tiles(k, K) /\ Apart(k, K) /\ ~k[a].free /\ k[a].size >= n /\ H \subseteq K
           /\ \A b \in K \ {a} : ~k[b].free <=> b \in H /\ ~m[b].free
           /\ \A u \in Units : u < a \/ End(m, a) <= u => k[u] = m[u]
<1> DEFINE N == HEAP_SIZE
           size == IF Splits(m, a, n) THEN n ELSE m[a].size
           c == a + n + 1
<1>1. N \in Nat /\ N > 1 /\ Units = 0 .. N - 1 /\ a \in Nat /\ a \in Units
  BY Sizes, Leads
<1>2. /\ m[a].size \in Nat /\ End(m, a) = a + 1 + m[a].size /\ End(m, a) <= N
      /\ size \in n .. m[a].size /\ c \in Nat /\ (Splits(m, a, n) <=> m[a].size >= n + 2)
      /\ m[a].size \in 0 .. N
  BY <1>1, Leads DEF End, Splits, Unit
<1>3. Splits(m, a, n) => /\ size = n /\ c \in Units /\ c > a + size /\ c < End(m, a) /\ c \notin H
                         /\ m[a].size - n - 1 \in 0 .. N /\ c + 1 + (m[a].size - n - 1) = End(m, a)
  <2> SUFFICES ASSUME Splits(m, a, n)
               PROVE  /\ size = n /\ c \in Units /\ c > a + size /\ c < End(m, a) /\ c \notin H
                      /\ m[a].size - n - 1 \in 0 .. N /\ c + 1 + (m[a].size - n - 1) = End(m, a)
    OBVIOUS
  <2>1. size = n /\ m[a].size >= n + 2
    BY <1>2
  <2> DEFINE z == m[a].size
  <2>2. z \in 0 .. N /\ z >= n + 2 /\ End(m, a) = a + 1 + z /\ a + 1 + z <= N
    BY <1>2, <2>1
  <2> HIDE DEF z, size
  <2>3. c \in Units /\ c > a + n /\ c < End(m, a) /\ c > a
    BY <1>1, <2>2
  <2>4. z - n - 1 \in 0 .. N /\ c + 1 + (z - n - 1) = a + 1 + z
    BY <1>1, <2>2
  <2> HIDE DEF c
  <2>5. c \notin H
    BY <2>3, Placed
  <2> QED BY <2>1, <2>2, <2>3, <2>4, <2>5 DEF z
<1> HIDE DEF size, c
<1>4. /\ k = [b \in Units |->
                IF b = a THEN Header(size, FALSE)
                ELSE IF b \in a + 1 .. a + size THEN Data(Zero)
                ELSE IF b = c /\ Splits(m, a, n) THEN Header(m[a].size - n - 1, TRUE)
                ELSE m[b]]
  BY <1>1, <1>2 DEF Taken, size, c
<1>5. k[a] = Header(size, FALSE)
  BY <1>1, <1>4
<1>6. ASSUME Splits(m, a, n) PROVE k[c] = Header(m[a].size - n - 1, TRUE)
  <2>1. c \in Units /\ c # a /\ c \notin a + 1 .. a + size
    BY <1>1, <1>2, <1>3, <1>6
  <2> QED BY <1>4, <1>6, <2>1
<1>7. \A u \in Units : \/ k[u] = m[u] \/ u = a \/ (Splits(m, a, n) /\ u = c)
                       \/ u \in a + 1 .. a + size /\ k[u] = Data(Zero)
  BY <1>4
<1>8. \A u \in Units : u < a \/ End(m, a) <= u => k[u] = m[u]
  <2> SUFFICES ASSUME NEW u \in Units, u < a \/ End(m, a) <= u PROVE k[u] = m[u]
    OBVIOUS
  <2>1. u \in Nat /\ u # a /\ u \notin a + 1 .. a + size
    BY <1>1, <1>2
  <2>2. Splits(m, a, n) => u # c
    BY <1>1, <1>2, <1>3, <2>1
  <2> QED BY <1>7, <2>1, <2>2
<1>9. k \in [Units -> Unit]
  <2>1. Header(size, FALSE) \in Unit /\ Data(Zero) \in Unit
    BY <1>1, <1>2 DEF Header, Data, Unit, Zero
  <2>2. Splits(m, a, n) => Header(m[a].size - n - 1, TRUE) \in Unit
    BY <1>3 DEF Header, Unit
  <2>3. \A u \in Units : m[u] \in Unit
    BY DEF Tiles
  <2> QED BY <1>4, <2>1, <2>2, <2>3
<1>10. \A b \in H \ {a} : k[b] = m[b] /\ End(k, b) = End(m, b) /\ (b < a \/ End(m, a) <= b)
  BY <1>1, <1>8, Leads DEF End
<1>11. End(k, a) = IF Splits(m, a, n) THEN c ELSE End(m, a)
  <2>1. End(k, a) = a + 1 + size
    BY <1>5 DEF End, Header
  <2>2. Splits(m, a, n) => size = n /\ a + 1 + n = c
    BY <1>1, <1>3 DEF c
  <2>3. ~Splits(m, a, n) => size = m[a].size
    BY DEF size
  <2> QED BY <1>2, <2>1, <2>2, <2>3
<1>12. Splits(m, a, n) => k[c].free /\ k[c].data = "header" /\ End(k, c) = End(m, a)
  BY <1>3, <1>6 DEF End, Header
<1>13. k[a].data = "header" /\ ~k[a].free /\ k[a].size = size
  BY <1>5 DEF Header
<1>14. /\ H \subseteq K /\ K \subseteq Units
       /\ \A b \in K : b = a \/ b \in H \ {a} \/ (Splits(m, a, n) /\ b = c)
  BY <1>1, <1>3 DEF c, Tiles
<1>15. Splits(m, a, n) => c \in K
  BY DEF c
<1>16. Tiles(k, K)
  <2>1. 0 \in K
    BY <1>14 DEF Tiles
  <2>2. ASSUME NEW b \in K
        PROVE  /\ k[b].data = "header" /\ End(k, b) <= N /\ (End(k, b) < N => End(k, b) \in K)
               /\ \A d \in K : d <= b \/ End(k, b) <= d
    <3>1. CASE b \in H \ {a}
      <4>1. k[b].data = "header" /\ End(k, b) <= N /\ (End(k, b) < N => End(k, b) \in K)
        BY <1>10, <1>14, <3>1, Leads
      <4>2. ASSUME NEW d \in K PROVE d <= b \/ End(k, b) <= d
        <5>1. CASE d \in H
          BY <1>10, <3>1, <5>1, Leads
        <5>2. CASE Splits(m, a, n) /\ d = c
          <6>1. CASE b < a
            <7>1. End(m, b) <= a
              BY <1>1, <3>1, <6>1, Leads
            <7> QED BY <1>1, <1>2, <1>3, <1>10, <3>1, <5>2, <7>1, Leads
          <6>2. CASE End(m, a) <= b
            BY <1>1, <1>2, <1>3, <3>1, <5>2, <6>2, Leads
          <6> QED BY <1>10, <3>1, <6>1, <6>2
        <5> QED BY <1>14, <5>1, <5>2
      <4> QED BY <4>1, <4>2
    <3>2. CASE b = a
      <4>1. End(k, b) <= N /\ (End(k, b) < N => End(k, b) \in K)
        <5>1. CASE Splits(m, a, n)
          <6>1. End(k, b) = c /\ c < End(m, a) /\ End(m, a) <= N /\ c \in K
            BY <1>3, <1>11, <1>15, <3>2, <5>1, Leads
          <6>2. c \in Nat /\ End(m, a) \in Nat /\ N \in Nat
            BY <1>1, <1>2, Leads
          <6> QED BY <6>1, <6>2
        <5>2. CASE ~Splits(m, a, n)
          BY <1>11, <1>14, <3>2, <5>2, Leads
        <5> QED BY <5>1, <5>2
      <4>2. ASSUME NEW d \in K PROVE d <= b \/ End(k, b) <= d
        <5>1. CASE d \in H
          <6>1. d \in Nat /\ (d <= a \/ End(m, a) <= d) /\ End(m, a) \in Nat
            BY <5>1, Leads
          <6>2. End(k, a) \in Nat /\ End(k, a) <= End(m, a)
            BY <1>2, <1>3, <1>11, <6>1
          <6> QED BY <1>1, <3>2, <6>1, <6>2
        <5>2. CASE Splits(m, a, n) /\ d = c
          BY <1>2, <1>11, <3>2, <5>2
        <5> QED BY <1>14, <5>1, <5>2
      <4> QED BY <1>13, <3>2, <4>1, <4>2
    <3>3. CASE Splits(m, a, n) /\ b = c
      <4>1. ASSUME NEW d \in K PROVE d <= b \/ End(k, b) <= d
        BY <1>1, <1>2, <1>3, <1>10, <1>12, <1>14, <3>3, Leads
      <4> QED BY <1>2, <1>12, <1>14, <3>3, <4>1, Leads
    <3> QED BY <1>14, <3>1, <3>2, <3>3
  <2>3. ASSUME NEW u \in Units, k[u].free PROVE End(k, u) <= N
    <3>1. CASE k[u] = m[u]
      BY <2>3, <3>1 DEF Tiles, End
    <3>2. CASE u = a
      BY <1>13, <2>3, <3>2
    <3>3. CASE Splits(m, a, n) /\ u = c
      BY <1>2, <1>12, <3>3
    <3>4. CASE k[u] = Data(Zero)
      BY <2>3, <3>4 DEF Data
    <3> QED BY <1>7, <3>1, <3>2, <3>3, <3>4
  <2> QED BY <1>9, <1>14, <2>1, <2>2, <2>3 DEF Tiles
<1>17. Apart(k, K)
  <2> SUFFICES ASSUME NEW b \in K, k[b].free, End(k, b) < N PROVE ~k[End(k, b)].free
    BY DEF Apart
  <2>1. CASE b \in H \ {a}
    <3>1. m[b].free /\ End(m, b) < N /\ End(m, b) \in H /\ ~m[End(m, b)].free
      BY <1>10, <2>1, Leads DEF Apart
    <3> QED BY <1>10, <1>13, <2>1, <3>1
  <2>2. CASE b = a
    BY <1>13, <2>2
  <2>3. CASE Splits(m, a, n) /\ b = c
    <3>1. End(k, b) = End(m, a) /\ End(m, a) \in H /\ ~m[End(m, a)].free /\ End(m, a) # a
      BY <1>1, <1>12, <2>3, Leads DEF Apart
    <3> QED BY <1>10, <3>1
  <2> QED BY <1>14, <2>1, <2>2, <2>3
<1>18. \A b \in K \ {a} : ~k[b].free <=> b \in H /\ ~m[b].free
  BY <1>3, <1>10, <1>12, <1>14
<1> QED BY <1>2, <1>8, <1>13, <1>14, <1>16, <1>17, <1>18

(* A set of numbers has a least member, a bounded one a greatest.          *)
LEMMA LeastIn ==
    ASSUME NEW S \in SUBSET Nat, S # {}
    PROVE  Min(S) \in S /\ \A y \in S : Min(S) <= y
<1> DEFINE P == {k \in Nat : \A x \in S : x > k}
<1>1. SUFFICES ASSUME ~ \E x \in S : \A y \in S : x <= y PROVE FALSE
  BY DEF Min
<1>2. 0 \in P
  BY <1>1
<1>3. ASSUME NEW k \in Nat, k \in P PROVE k + 1 \in P
  <2>1. k + 1 \notin S
    <3>1. \A x \in S : k + 1 <= x
      BY <1>3
    <3> QED BY <1>1, <3>1
  <2> QED BY <1>3, <2>1
<1>4. Nat \subseteq P
  <2> HIDE DEF P
  <2> QED BY <1>2, <1>3, NatSetInduction
<1>5. PICK x \in S : TRUE
  OBVIOUS
<1>6. x \in P
  BY <1>4, <1>5
<1> QED BY <1>5, <1>6

LEMMA GreatestIn ==
    ASSUME NEW n \in Nat, NEW S \in SUBSET (0 .. n), S # {}
    PROVE  Max(S) \in S /\ \A y \in S : y <= Max(S)
<1> DEFINE T == {k \in 0 .. n : n - k \in S}
<1>1. T \in SUBSET Nat /\ T # {}
  <2>1. PICK x \in S : TRUE
    OBVIOUS
  <2>2. n - x \in 0 .. n /\ n - (n - x) = x
    BY <2>1
  <2>3. n - x \in T
    BY <2>1, <2>2
  <2>4. T \subseteq Nat
    OBVIOUS
  <2> HIDE DEF T
  <2> QED BY <2>3, <2>4
<1>2. Min(T) \in T /\ \A y \in T : Min(T) <= y
  <2> HIDE DEF T
  <2> QED BY <1>1, LeastIn
<1> DEFINE z == Min(T)
<1>3. z \in 0 .. n /\ n - z \in S
  BY <1>2
<1> HIDE DEF z
<1>4. \A y \in S : y <= n - z
  <2> SUFFICES ASSUME NEW y \in S PROVE y <= n - z
    OBVIOUS
  <2>1. n - y \in 0 .. n /\ n - (n - y) = y
    OBVIOUS
  <2>2. z <= n - y
    BY <1>2, <2>1 DEF z
  <2> QED BY <1>3, <2>2
<1>5. \E x \in S : \A y \in S : x >= y
  BY <1>3, <1>4
<1>6. Max(S) \in S /\ \A y \in S : Max(S) >= y
  BY <1>5 DEF Max
<1> QED BY <1>6

(* The header at a is flagged free.                                        *)
Loose(m, H, a, k) ==
    /\ Tiles(k, H) /\ k[a] = Header(m[a].size, TRUE) /\ End(k, a) = End(m, a)
    /\ \A u \in Units \ {a} : k[u] = m[u] /\ End(k, u) = End(m, u)

LEMMA Flagged ==
    ASSUME HeapAssumption, NEW m, NEW H, Tiles(m, H), NEW a \in H,
           NEW k, k = [m EXCEPT ![a].free = TRUE]
    PROVE  Loose(m, H, a, k)
<1>1. m \in [Units -> Unit] /\ a \in Units /\ m[a] \in Unit /\ m[a].data = "header"
  BY Leads DEF Tiles
<1>2. k[a] = Header(m[a].size, TRUE) /\ k[a] \in Unit
  BY <1>1 DEF Unit, Header
<1>3. End(k, a) = End(m, a) /\ k[a].data = "header"
  BY <1>2 DEF End, Header
<1>4. \A u \in Units \ {a} : k[u] = m[u] /\ End(k, u) = End(m, u)
  BY <1>1 DEF End
<1>5. k \in [Units -> Unit]
  BY <1>1, <1>2
<1>6. \A u \in Units : End(k, u) = End(m, u)
  BY <1>3, <1>4
<1>7. Tiles(k, H)
  <2>1. H \subseteq Units /\ 0 \in H
    BY DEF Tiles
  <2>2. \A b \in H : k[b].data = "header"
    BY <1>3, <1>4, <2>1, Leads
  <2>3. ASSUME NEW u \in Units, k[u].free PROVE End(k, u) <= HEAP_SIZE
    <3>1. CASE u = a
      <4>1. End(m, a) <= HEAP_SIZE
        BY Leads
      <4> QED BY <1>3, <3>1, <4>1
    <3>2. CASE u # a
      <4>1. m[u].free /\ End(k, u) = End(m, u)
        BY <1>4, <2>3, <3>2
      <4> QED BY <4>1 DEF Tiles
    <3> QED BY <3>1, <3>2
  <2> QED BY <1>5, <1>6, <2>1, <2>2, <2>3 DEF Tiles
<1> QED BY <1>2, <1>3, <1>4, <1>7 DEF Loose

(* The block at a swallows the one behind it.                              *)
Longer(m, H, a, c, k) ==
    /\ Tiles(k, H \ {c}) /\ c \in H /\ a \in H \ {c}
    /\ k[a].free /\ k[a].data = "header" /\ End(k, a) = End(m, c)
    /\ \A u \in Units \ {a} : k[u] = m[u] /\ End(k, u) = End(m, u)
Longest(e, n) ==
    /\ e \in [size: Nat, free: BOOLEAN, data: {"header"}]
    /\ e.size = n /\ e.free

LEMMA Joined ==
    ASSUME HeapAssumption, NEW m, NEW H, Tiles(m, H), NEW a \in H, NEW c, c = End(m, a),
           c < HEAP_SIZE, NEW e, Longest(e, m[a].size + 1 + m[c].size),
           NEW k, k = [m EXCEPT ![a] = e]
    PROVE  Longer(m, H, a, c, k)
<1> DEFINE z == m[a].size + 1 + m[c].size
           K == H \ {c}
<1>1. /\ m \in [Units -> Unit] /\ H \subseteq Units /\ 0 \in H /\ c \in H /\ a < c
      /\ HEAP_SIZE \in Nat /\ Units = 0 .. HEAP_SIZE - 1
  BY Leads, Sizes DEF Tiles
<1>2. /\ a + 1 + z = End(m, c) /\ z \in 0 .. HEAP_SIZE /\ a \in Nat /\ c \in Nat
      /\ End(m, c) <= HEAP_SIZE /\ c < End(m, c) /\ End(m, c) \in Nat
      /\ (End(m, c) < HEAP_SIZE => End(m, c) \in H)
  <2>1. /\ m[a].size \in Nat /\ m[c].size \in Nat /\ End(m, c) \in Nat /\ a \in Nat /\ c \in Nat
        /\ End(m, c) <= HEAP_SIZE /\ c < End(m, c)
        /\ (End(m, c) < HEAP_SIZE => End(m, c) \in H)
    BY <1>1, Leads
  <2>2. c = a + 1 + m[a].size /\ End(m, c) = c + 1 + m[c].size
    BY DEF End
  <2>3. z \in Nat /\ a + 1 + z = End(m, c)
    BY <2>1, <2>2
  <2> HIDE DEF z
  <2>4. z \in 0 .. HEAP_SIZE
    BY <1>1, <2>1, <2>3
  <2> QED BY <2>1, <2>3, <2>4
<1> HIDE DEF z
<1>3. e \in Unit /\ e.size = z /\ e.free /\ e.data = "header"
  BY <1>2 DEF z, Longest, Unit
<1>4. /\ k[a] = e /\ k \in [Units -> Unit]
      /\ \A u \in Units \ {a} : k[u] = m[u]
  BY <1>1, <1>3
<1>5. End(k, a) = End(m, c) /\ k[a].data = "header" /\ k[a].free
  BY <1>2, <1>3, <1>4 DEF End
<1>6. \A u \in Units \ {a} : End(k, u) = End(m, u)
  BY <1>4 DEF End
<1>7. a \in K /\ 0 \in K /\ K \subseteq Units
  <2>1. a # c /\ 0 # c
    BY <1>1, <1>2
  <2> QED BY <1>1, <2>1
<1>8. \A u \in Units : k[u].free => End(k, u) <= HEAP_SIZE
  BY <1>2, <1>4, <1>5, <1>6 DEF Tiles
<1>9. ASSUME NEW b \in K
      PROVE  /\ k[b].data = "header" /\ End(k, b) <= HEAP_SIZE
             /\ (End(k, b) < HEAP_SIZE => End(k, b) \in K)
             /\ \A d \in K : d <= b \/ End(k, b) <= d
  <2>1. CASE b = a
    <3>1. ASSUME NEW d \in K PROVE d <= b \/ End(k, b) <= d
      <4>1. d \in H /\ d # c /\ d \in Nat
        BY <3>1, Leads
      <4>2. d <= a \/ c <= d
        BY <4>1, Leads
      <4>3. d <= c \/ End(m, c) <= d
        BY <1>1, <4>1, Leads
      <4> QED BY <1>2, <1>5, <2>1, <4>1, <4>2, <4>3
    <3>2. End(k, a) < HEAP_SIZE => End(k, a) \in K
      <4>1. End(m, c) # c
        BY <1>2
      <4> QED BY <1>2, <1>5, <4>1
    <3>3. End(k, a) <= HEAP_SIZE /\ k[a].data = "header"
      BY <1>2, <1>5
    <3> HIDE DEF K
    <3> QED BY <2>1, <3>1, <3>2, <3>3
  <2>2. CASE b # a
    <3>1. k[b] = m[b] /\ End(k, b) = End(m, b) /\ b \in H
      BY <1>1, <1>4, <1>6, <2>2
    <3>2. End(m, b) # c
      <4>1. b < a \/ a < b
        BY <1>1, <1>2, <2>2, Leads
      <4>2. CASE b < a
        <5>1. b \in H /\ End(m, b) \in Nat /\ (a <= b \/ End(m, b) <= a)
          BY <3>1, Leads
        <5> QED BY <1>1, <1>2, <4>2, <5>1, Leads
      <4>3. CASE a < b
        <5>1. c <= b /\ b < End(m, b) /\ b \in Nat /\ End(m, b) \in Nat
          BY <1>2, <3>1, <4>3, Leads
        <5> QED BY <1>2, <5>1
      <4> QED BY <4>1, <4>2, <4>3
    <3> QED BY <1>1, <3>1, <3>2, Leads
  <2> QED BY <2>1, <2>2
<1>10. Tiles(k, K)
  BY <1>4, <1>7, <1>8, <1>9 DEF Tiles
<1> QED BY <1>1, <1>4, <1>5, <1>6, <1>7, <1>10 DEF Longer

(* A client writes what it was given: the headers stay.                    *)
LEMMA WrittenTiled ==
    ASSUME HeapAssumption, NEW m, NEW H, Tiles(m, H), Apart(m, H), NEW a \in H,
           NEW w \in Nat, w <= m[a].size, NEW v \in Values,
           NEW k, k = [u \in Units |-> IF u \in a + 1 .. a + 1 + w - 1 THEN Data(v) ELSE m[u]]
    PROVE  /\ Tiles(k, H) /\ Apart(k, H)
           /\ \A b \in H : k[b] = m[b]
           /\ \A u \in Units : u <= a \/ End(m, a) <= u => k[u] = m[u]
           /\ \A u \in a + 1 .. a + w : k[u] = Data(v)
<1>1. /\ m \in [Units -> Unit] /\ H \subseteq Units /\ 0 \in H /\ a \in Nat /\ a \in Units
      /\ HEAP_SIZE \in Nat /\ Units = 0 .. HEAP_SIZE - 1
      /\ m[a].size \in Nat /\ End(m, a) = a + 1 + m[a].size /\ End(m, a) <= HEAP_SIZE
  BY Leads, Sizes DEF Tiles, End
<1>2. Data(v) \in Unit /\ ~Data(v).free
  BY <1>1 DEF Data, Unit
<1>3. k \in [Units -> Unit]
  BY <1>1, <1>2
<1>4. \A u \in Units : u <= a \/ End(m, a) <= u => k[u] = m[u]
  <2> SUFFICES ASSUME NEW u \in Units, u <= a \/ End(m, a) <= u PROVE k[u] = m[u]
    OBVIOUS
  <2>1. u \notin a + 1 .. a + 1 + w - 1
    BY <1>1
  <2> QED BY <2>1
<1>5. \A b \in H : k[b] = m[b]
  BY <1>1, <1>4, Leads
<1>6. \A b \in H : End(k, b) = End(m, b)
  BY <1>5 DEF End
<1>7. \A u \in Units : k[u].free => k[u] = m[u] /\ End(k, u) = End(m, u)
  BY <1>2 DEF End
<1>8. Tiles(k, H)
  <2>1. \A u \in Units : k[u].free => End(k, u) <= HEAP_SIZE
    BY <1>7 DEF Tiles
  <2> QED BY <1>1, <1>3, <1>5, <1>6, <2>1, Leads DEF Tiles
<1>9. Apart(k, H)
  BY <1>1, <1>5, <1>6, Leads DEF Apart
<1>10. \A u \in a + 1 .. a + w : k[u] = Data(v)
  <2> SUFFICES ASSUME NEW u \in a + 1 .. a + w PROVE k[u] = Data(v)
    OBVIOUS
  <2>1. u \in Units /\ u \in a + 1 .. a + 1 + w - 1
    BY <1>1
  <2> QED BY <2>1
<1> QED BY <1>4, <1>5, <1>8, <1>9, <1>10

(* block_free: what it merges with the block before, as b, and then all.   *)
Backed(m, H, a, b, g) ==
    LET G == H \ ({a} \ {b}) IN
    /\ Tiles(g, G) /\ b \in G /\ b <= a /\ g[b].free /\ End(g, b) = End(m, a)
    /\ b = a \/ m[b].free
    /\ \A u \in Units \ {a, b} : g[u] = m[u] /\ End(g, u) = End(m, u)
    /\ \A x \in H : End(m, x) = b => ~m[x].free
Freed(m, H, a, k, K) ==
    /\ Tiles(k, K) /\ Apart(k, K) /\ K \subseteq H
    /\ \A x \in H \ {a} : ~m[x].free => x \in K /\ k[x] = m[x]
    /\ \A x \in K : ~k[x].free => x # a /\ ~m[x].free
    /\ \A u \in Units \ H : k[u] = m[u]

LEMMA Swallows ==
    ASSUME HeapAssumption, NEW m, NEW H, Tiles(m, H), Apart(m, H), NEW a \in H,
           NEW b, NEW g, Backed(m, H, a, b, g),
           NEW k, k = [g EXCEPT ![b].size = @ + FreeRun(g, b)]
    PROVE  \E K : Freed(m, H, a, k, K)
<1> DEFINE c == End(m, a)
           G == H \ ({a} \ {b})
<1>1. /\ Tiles(g, G) /\ b \in G /\ b <= a /\ g[b].free /\ End(g, b) = c
      /\ b = a \/ m[b].free
      /\ \A u \in Units \ {a, b} : g[u] = m[u] /\ End(g, u) = End(m, u)
      /\ \A x \in H : End(m, x) = b => ~m[x].free
      /\ G \subseteq H
  BY DEF Backed
<1> HIDE DEF G
<1>2. /\ a \in Nat /\ b \in Nat /\ a < c /\ b < c /\ c \in Nat /\ H \subseteq Units
      /\ (c < HEAP_SIZE => c \in H /\ c \in G /\ c \in Units \ {a, b})
      /\ HEAP_SIZE \in Nat
  <2>1. /\ a \in Nat /\ b \in Nat /\ a < c /\ c \in Nat /\ H \subseteq Units
        /\ (c < HEAP_SIZE => c \in H) /\ HEAP_SIZE \in Nat
    BY <1>1, Leads, Sizes DEF Tiles
  <2>2. c # a /\ c # b /\ b < c
    BY <1>1, <2>1
  <2>3. c < HEAP_SIZE => c \in G
    BY <2>1, <2>2 DEF G
  <2> QED BY <2>1, <2>2, <2>3
<1>3. c < HEAP_SIZE => g[c] = m[c] /\ End(g, c) = End(m, c)
  BY <1>1, <1>2
<1>4. ASSUME c < HEAP_SIZE, m[c].free, End(m, c) < HEAP_SIZE
      PROVE  End(m, c) \in H /\ ~m[End(m, c)].free /\ End(m, c) \in Units \ {a, b}
                             /\ g[End(m, c)] = m[End(m, c)]
  <2>1. End(m, c) \in H /\ ~m[End(m, c)].free /\ End(m, c) > c
    BY <1>2, <1>4, Leads DEF Apart
  <2>2. End(m, c) \in Units \ {a, b}
    BY <1>2, <2>1
  <2> QED BY <1>1, <2>1, <2>2
<1>5. FreeRun(g, b) = IF c < HEAP_SIZE /\ g[c].free THEN 1 + g[c].size ELSE 0
  <2>1. c < HEAP_SIZE /\ g[c].free /\ End(g, c) < HEAP_SIZE => ~g[End(g, c)].free
    BY <1>3, <1>4
  <2> HIDE DEF c
  <2> QED BY <1>1, <2>1, RunOfOne
<1>6. /\ g \in [Units -> Unit] /\ b \in Units /\ g[b] \in Unit
      /\ g[b].data = "header" /\ g[b].size \in Nat
  BY <1>1, Leads DEF Tiles
<1> DEFINE K == IF c < HEAP_SIZE /\ g[c].free THEN G \ {c} ELSE G
<1>7. /\ Tiles(k, K) /\ b \in K /\ k[b].free /\ k[b].data = "header"
      /\ \A u \in Units \ {b} : k[u] = g[u] /\ End(k, u) = End(g, u)
      /\ End(k, b) = IF c < HEAP_SIZE /\ g[c].free THEN End(m, c) ELSE c
  <2>1. CASE c < HEAP_SIZE /\ g[c].free
    <3>1. g[c].size \in Nat
      BY <1>1, <1>2, <2>1, Leads
    <3> DEFINE e == [g[b] EXCEPT !.size = g[b].size + FreeRun(g, b)]
    <3>2. k = [g EXCEPT ![b] = e]
      OBVIOUS
    <3>3. Longest(e, g[b].size + 1 + g[c].size)
      <4>1. FreeRun(g, b) = 1 + g[c].size
        BY <1>5, <2>1
      <4>2. g[b].size + FreeRun(g, b) = g[b].size + 1 + g[c].size
        BY <1>6, <3>1, <4>1
      <4>3. g[b].size + FreeRun(g, b) \in Nat
        BY <1>6, <3>1, <4>2
      <4>4. e \in [size: Nat, free: BOOLEAN, data: {"header"}]
        BY <1>6, <4>3 DEF Unit
      <4>5. e.size = g[b].size + FreeRun(g, b) /\ e.free = g[b].free
        BY <1>6 DEF Unit
      <4> HIDE DEF e
      <4> QED BY <1>1, <4>2, <4>4, <4>5 DEF Longest
    <3> HIDE DEF e
    <3>6. Longer(g, G, b, c, k)
      <4> HIDE DEF c, K
      <4>1. Tiles(g, G) /\ b \in G /\ c = End(g, b) /\ c < HEAP_SIZE
        BY <1>1, <2>1
      <4> QED BY <3>2, <3>3, <4>1, Joined
    <3>7. K = G \ {c} /\ End(g, c) = End(m, c)
      BY <1>3, <2>1
    <3> HIDE DEF c, K
    <3> QED BY <2>1, <3>6, <3>7 DEF Longer
  <2>2. CASE ~(c < HEAP_SIZE /\ g[c].free)
    <3>1. k = g
      <4>1. g[b].size + FreeRun(g, b) = g[b].size
        BY <1>5, <1>6, <2>2
      <4>2. [g[b] EXCEPT !.size = g[b].size] = g[b]
        BY <1>6 DEF Unit
      <4> QED BY <1>6, <4>1, <4>2
    <3> QED BY <1>1, <1>6, <2>2, <3>1
  <2> QED BY <2>1, <2>2
<1>8. \A x \in K : x \in G /\ x \in H /\ x \in Units /\ x \in Nat
  BY <1>1, <1>2, Leads
<1>9. ASSUME NEW x \in K, x # b
      PROVE  x # a /\ k[x] = m[x] /\ End(k, x) = End(m, x)
  <2>1. x # a
    BY <1>8, <1>9 DEF G
  <2> QED BY <1>1, <1>7, <1>8, <1>9, <2>1
<1>10. Apart(k, K)
  <2> SUFFICES ASSUME NEW x \in K, k[x].free, End(k, x) < HEAP_SIZE PROVE ~k[End(k, x)].free
    BY DEF Apart
  <2>1. CASE x = b
    <3>1. CASE c < HEAP_SIZE /\ g[c].free
      <4>1. End(k, x) = End(m, c) /\ m[c].free
        BY <1>3, <1>7, <2>1, <3>1
      <4>2. End(m, c) \in Units \ {a, b} /\ ~m[End(m, c)].free /\ g[End(m, c)] = m[End(m, c)]
        BY <1>4, <3>1, <4>1
      <4> QED BY <1>7, <4>1, <4>2
    <3>2. CASE ~(c < HEAP_SIZE /\ g[c].free)
      <4>1. End(k, x) = c
        BY <1>7, <2>1, <3>2
      <4>2. c \in Units \ {a, b} /\ ~g[c].free
        BY <1>2, <3>2, <4>1
      <4> QED BY <1>7, <4>1, <4>2
    <3> QED BY <3>1, <3>2
  <2>2. CASE x # b
    <3> DEFINE y == End(k, x)
    <3>1. x \in H /\ m[x].free /\ y = End(m, x) /\ y < HEAP_SIZE
      BY <1>8, <1>9, <2>2
    <3>2. ~m[y].free /\ y \in H /\ y \in Units
      BY <1>2, <3>1, Leads DEF Apart
    <3>3. y # b
      BY <1>1, <3>1
    <3>4. y # a
      <4>1. y \in K
        BY <1>7, <3>1 DEF Tiles
      <4> QED BY <1>8, <3>3, <4>1 DEF G
    <3> HIDE DEF y
    <3>5. k[y] = m[y]
      BY <1>1, <1>7, <3>2, <3>3, <3>4
    <3> QED BY <3>2, <3>5 DEF y
  <2> QED BY <2>1, <2>2
<1>11. ASSUME NEW x \in H \ {a}, ~m[x].free PROVE x \in K /\ k[x] = m[x]
  <2>1. x # b
    BY <1>1, <1>11
  <2>2. x \in G /\ x \in Units
    BY <1>2, <1>11 DEF G
  <2>3. g[x] = m[x]
    BY <1>1, <1>11, <2>1, <2>2
  <2>4. ~(c < HEAP_SIZE /\ g[c].free /\ x = c)
    BY <1>11, <2>3
  <2>5. x \in K
    BY <2>2, <2>4
  <2> QED BY <1>9, <2>1, <2>5
<1>12. ASSUME NEW x \in K, ~k[x].free PROVE x # a /\ ~m[x].free
  BY <1>7, <1>9, <1>12
<1>13. ASSUME NEW u \in Units \ H PROVE k[u] = m[u]
  <2>1. u # a /\ u # b
    BY <1>1
  <2> QED BY <1>1, <1>7, <2>1
<1>14. K \subseteq H
  BY <1>8
<1> HIDE DEF K
<1> QED BY <1>7, <1>10, <1>11, <1>12, <1>13, <1>14 DEF Freed

(* block_free merges with the block before if that is free, then swallows *)
(* what follows.                                                           *)
LEMMA BlockFreed ==
    ASSUME HeapAssumption, NEW h, NEW H, Tiles(h.mem, H), Apart(h.mem, H), NEW a \in H,
           ~h.mem[a].free
    PROVE  \E k, K : block_free(h, a) = [h EXCEPT !.mem = k] /\ Freed(h.mem, H, a, k, K)
<1> DEFINE n == h.mem
           m == [n EXCEPT ![a].free = TRUE]
           before == {x \in Blocks(m) : x < a}
           prev == IF before = {} THEN a ELSE Max(before)
           b == IF m[prev].free THEN prev ELSE a
           size == IF b = a THEN m[a].size ELSE m[b].size + 1 + m[a].size
           g == [m EXCEPT ![b] = Header(size, TRUE)]
           k == [g EXCEPT ![b].size = @ + FreeRun(g, b)]
<1>0. block_free(h, a) = [h EXCEPT !.mem = k]
  BY DEF block_free
<1> HIDE DEF k
<1>a. g = [m EXCEPT ![b] = Header(size, TRUE)]
  OBVIOUS
<1> HIDE DEF g
<1>b. /\ b = a => size = m[a].size
      /\ b # a => size = m[b].size + 1 + m[a].size
  OBVIOUS
<1> HIDE DEF size
<1>c. b = a \/ (b = prev /\ m[prev].free)
  OBVIOUS
<1>d. b = a => prev = a \/ ~m[prev].free
  OBVIOUS
<1> HIDE DEF b
<1>e. (before = {} => prev = a) /\ (before # {} => prev = Max(before))
  OBVIOUS
<1> HIDE DEF prev
<1>f. before = {x \in Blocks(m) : x < a}
  OBVIOUS
<1> HIDE DEF before
<1>g. Tiles(n, H) /\ Apart(n, H) /\ ~n[a].free
  OBVIOUS
<1>h. m = [n EXCEPT ![a].free = TRUE]
  OBVIOUS
<1> HIDE DEF m, n
<1>1. /\ Tiles(m, H) /\ m[a] = Header(n[a].size, TRUE) /\ End(m, a) = End(n, a)
      /\ \A u \in Units \ {a} : m[u] = n[u] /\ End(m, u) = End(n, u)
  <2>1. Loose(n, H, a, m)
    BY <1>g, <1>h, Flagged
  <2> QED BY <2>1 DEF Loose
<1>2. /\ H \subseteq Units /\ H \subseteq 0 .. HEAP_SIZE /\ HEAP_SIZE \in Nat /\ a \in Nat
      /\ m \in [Units -> Unit] /\ a \in Units
  BY <1>1, Sizes DEF Tiles
<1>3. Blocks(m) = H
  BY <1>1, BlocksFound
<1>4. before = {x \in H : x < a}
  BY <1>3, <1>f
<1>5. before # {} => prev \in H /\ prev < a /\ \A x \in H : x < a => x <= prev
  <2> SUFFICES ASSUME before # {} PROVE prev \in H /\ prev < a /\ \A x \in H : x < a => x <= prev
    OBVIOUS
  <2>1. before \in SUBSET (0 .. HEAP_SIZE)
    BY <1>2, <1>4
  <2>2. Max(before) \in before /\ \A y \in before : y <= Max(before)
    BY <1>2, <2>1, GreatestIn
  <2> QED BY <1>4, <1>e, <2>2
<1>6. ASSUME NEW x \in H, x < a, End(n, x) = a PROVE x = prev
  <2>1. before # {}
    BY <1>4, <1>6
  <2>2. x <= prev /\ prev < a /\ prev \in H
    BY <1>5, <1>6, <2>1
  <2> QED BY <1>2, <1>6, <1>g, <2>2, Leads
<1>7. ASSUME b = a PROVE Backed(n, H, a, b, g)
  <2>1. size = n[a].size /\ g = m
    <3>1. size = m[a].size /\ m[a].size = n[a].size
      BY <1>1, <1>7, <1>b DEF Header
    <3>2. [m EXCEPT ![a] = m[a]] = m
      BY <1>2
    <3> QED BY <1>1, <1>7, <1>a, <3>1, <3>2
  <2>2. H \ ({a} \ {b}) = H
    BY <1>7
  <2>3. ASSUME NEW x \in H, End(n, x) = b PROVE ~n[x].free
    <3>1. x < a /\ x # a
      BY <1>2, <1>7, <1>g, <2>3, Leads
    <3>2. x = prev /\ prev # a
      BY <1>6, <1>7, <2>3, <3>1
    <3>3. ~m[prev].free
      BY <1>7, <1>d, <3>2
    <3> QED BY <1>1, <1>2, <3>2, <3>3
  <2>4. g[b].free
    BY <1>1, <1>7, <2>1 DEF Header
  <2>5. /\ Tiles(g, H) /\ b \in H /\ b <= a /\ End(g, b) = End(n, a)
        /\ \A u \in Units \ {a, b} : g[u] = n[u] /\ End(g, u) = End(n, u)
    BY <1>1, <1>2, <1>7, <2>1
  <2>6. /\ Tiles(g, H \ ({a} \ {b})) /\ b \in H \ ({a} \ {b})
    BY <2>2, <2>5
  <2> QED BY <1>7, <2>3, <2>4, <2>5, <2>6 DEF Backed
<1>8. ASSUME b # a PROVE Backed(n, H, a, b, g)
  <2>1. b = prev /\ m[prev].free /\ before # {} /\ b \in H /\ b < a
    BY <1>5, <1>8, <1>c, <1>e
  <2>2. End(m, b) = a
    <3>1. End(n, b) <= a /\ (End(n, b) < HEAP_SIZE => End(n, b) \in H) /\ b < End(n, b)
          /\ End(n, b) \in Nat
      BY <1>2, <1>g, <2>1, Leads
    <3>2. End(n, b) \in H
      BY <1>2, <3>1 DEF Units
    <3>3. ~(End(n, b) < a)
      BY <1>2, <1>5, <2>1, <3>1, <3>2
    <3> QED BY <1>1, <1>2, <2>1, <3>1, <3>3
  <2>3. Longest(Header(size, TRUE), m[b].size + 1 + m[a].size)
    <3>1. m[b].size \in Nat /\ m[a].size \in Nat
      BY <1>1, <2>1, Leads
    <3>2. size = m[b].size + 1 + m[a].size /\ size \in Nat
      BY <1>8, <1>b, <3>1
    <3> QED BY <3>2 DEF Longest, Header
  <2>4. a < HEAP_SIZE
    BY <1>2, Sizes
  <2>5. Longer(m, H, b, a, g)
    <3> DEFINE e == Header(size, TRUE)
    <3>1. Longest(e, m[b].size + 1 + m[a].size) /\ g = [m EXCEPT ![b] = e]
      BY <1>a, <2>3
    <3> HIDE DEF e
    <3> QED BY <1>1, <2>1, <2>2, <2>4, <3>1, Joined
  <2>6. H \ ({a} \ {b}) = H \ {a}
    BY <1>8
  <2>7. n[b].free
    BY <1>1, <1>2, <1>8, <2>1
  <2>8. ASSUME NEW x \in H, End(n, x) = b PROVE ~n[x].free
    <3>1. b < HEAP_SIZE
      BY <1>2, <2>1, <2>4
    <3> QED BY <1>g, <2>7, <2>8, <3>1 DEF Apart
  <2>9. \A u \in Units \ {a, b} : g[u] = n[u] /\ End(g, u) = End(n, u)
    BY <1>1, <2>5 DEF Longer
  <2>10. Tiles(g, H \ ({a} \ {b})) /\ g[b].free /\ End(g, b) = End(n, a)
    <3>1. Tiles(g, H \ {a}) /\ g[b].free /\ End(g, b) = End(m, a)
      BY <2>5 DEF Longer
    <3> QED BY <1>1, <2>6, <3>1
  <2>11. b \in H \ ({a} \ {b}) /\ b <= a
    BY <1>2, <1>8, <2>1
  <2> QED BY <2>7, <2>8, <2>9, <2>10, <2>11 DEF Backed
<1>9. Backed(n, H, a, b, g)
  BY <1>7, <1>8
<1>10. \E K : Freed(n, H, a, k, K)
  <2>1. k = [g EXCEPT ![b].size = @ + FreeRun(g, b)]
    BY DEF k
  <2> QED BY <1>9, <1>g, <2>1, Swallows
<1> QED BY <1>0, <1>10 DEF n

-----------------------------------------------------------------------------
(* The slab tier.  F are the free slots of a page: its list f leads through*)
(* all of them, each once, to the end.                                     *)
ListIs(s, F, f) ==
    LET n == s.free_count IN
    /\ n \in Nat /\ f[0] = s.free_head /\ f[n] = NIL
    /\ \A k \in 0 .. n - 1 : f[k] \in F /\ f[k + 1] = s.slot[f[k]].nxt
    /\ \A k, l \in 0 .. n - 1 : f[k] = f[l] => k = l
    /\ \A i \in F : \E k \in 0 .. n - 1 : f[k] = i
Listed(s, F) ==
    /\ F \subseteq SlotsOf(s.class) /\ IsFiniteSet(F) /\ s.free_count = Cardinality(F)
    /\ \E f : ListIs(s, F, f)
PageOK(s) == s.class \in Classes /\ s \in SlabPage(s.class)

LEMMA SlotCount ==
    ASSUME HeapAssumption, NEW c \in Classes
    PROVE  /\ NumSlots(c) \in Nat /\ NumSlots(c) >= 1 /\ NumSlots(c) < NIL /\ NIL \in Nat
           /\ c \in Nat /\ c > 0 /\ NIL \notin SlotsOf(c)
<1> DEFINE x == PAGE_SIZE - 2
           q == x \div c
<1>1. x \in Nat /\ c \in Nat /\ c > 0 /\ c <= x /\ PAGE_SIZE \in Nat
  BY DEF HeapAssumption
<1>2. q \in Nat /\ x >= c * q /\ x < c * q + c
  <2> HIDE DEF x
  <2> QED BY <1>1
<1> HIDE DEF q
<1>3. q # 0
  <2> HIDE DEF x
  <2> QED BY <1>1, <1>2
<1>4. c * q >= q
  <2>1. c - 1 \in Nat /\ (c - 1) * q \in Nat
    BY <1>1, <1>2
  <2>2. c * q = (c - 1) * q + q
    BY <1>1, <1>2
  <2> QED BY <1>2, <2>1, <2>2
<1>5. q <= x
  <2>1. c * q \in Nat
    BY <1>1, <1>2
  <2> HIDE DEF x
  <2> QED BY <1>1, <1>2, <1>4, <2>1
<1>6. NumSlots(c) = q
  BY DEF NumSlots, q
<1> QED BY <1>1, <1>2, <1>3, <1>5, <1>6 DEF NIL, SlotsOf

LEMMA SlotsFinite ==
    ASSUME HeapAssumption, NEW c \in Classes
    PROVE  IsFiniteSet(SlotsOf(c)) /\ Cardinality(SlotsOf(c)) = NumSlots(c)
<1>1. NumSlots(c) - 1 \in Int /\ NumSlots(c) \in Nat /\ NumSlots(c) >= 1
  BY SlotCount
<1>2. SlotsOf(c) = 0 .. NumSlots(c) - 1
  BY DEF SlotsOf
<1> DEFINE z == NumSlots(c) - 1
<1>3. z \in Int /\ 0 <= z /\ z - 0 + 1 = NumSlots(c)
  BY <1>1
<1> HIDE DEF z
<1>4. IsFiniteSet(0 .. z) /\ Cardinality(0 .. z) = z - 0 + 1
  <2>1. 0 \in Int /\ ~(0 > z)
    BY <1>3
  <2> QED BY <1>3, <2>1, FS_Interval
<1> QED BY <1>2, <1>3, <1>4 DEF z

(* What the list of a page depends on.                                     *)
LEMMA SameList ==
    ASSUME NEW s, NEW t, NEW F, Listed(s, F),
           t.class = s.class, t.free_head = s.free_head, t.free_count = s.free_count,
           \A i \in F : t.slot[i].nxt = s.slot[i].nxt
    PROVE  Listed(t, F)
<1>1. PICK f : ListIs(s, F, f)
  BY DEF Listed
<1>2. ListIs(t, F, f)
  BY <1>1 DEF ListIs
<1> QED BY <1>2 DEF Listed

(* A page whose count is positive has a first free slot.                   *)
LEMMA FirstFree ==
    ASSUME HeapAssumption, NEW s, PageOK(s), NEW F, Listed(s, F), s.free_count > 0
    PROVE  s.free_head \in F /\ s.free_head \in SlotsOf(s.class)
<1>1. PICK f : ListIs(s, F, f)
  BY DEF Listed
<1>2. 0 \in 0 .. s.free_count - 1
  BY <1>1 DEF ListIs
<1> QED BY <1>1, <1>2 DEF ListIs, Listed

(* The first slot of the list is given away.                               *)
LEMMA PopList ==
    ASSUME HeapAssumption, NEW s, NEW F, Listed(s, F), s.free_count > 0,
           NEW i, i = s.free_head, NEW t,
           t.class = s.class, t.free_head = s.slot[i].nxt, t.free_count = s.free_count - 1,
           \A j \in F \ {i} : t.slot[j].nxt = s.slot[j].nxt
    PROVE  Listed(t, F \ {i})
<1> DEFINE n == s.free_count
<1>1. PICK f : ListIs(s, F, f)
  BY DEF Listed
<1>2. /\ n \in Nat /\ n > 0 /\ f[0] = i /\ f[n] = NIL /\ i \in F
      /\ \A k \in 0 .. n - 1 : f[k] \in F /\ f[k + 1] = s.slot[f[k]].nxt
      /\ \A k, l \in 0 .. n - 1 : f[k] = f[l] => k = l
      /\ \A j \in F : \E k \in 0 .. n - 1 : f[k] = j
  BY <1>1 DEF ListIs
<1> HIDE DEF n
<1> DEFINE g == [k \in 0 .. n - 1 |-> f[k + 1]]
<1>3. g[0] = t.free_head /\ g[n - 1] = NIL
  BY <1>2
<1>4. ASSUME NEW k \in 0 .. n - 2
      PROVE  g[k] \in F \ {i} /\ g[k + 1] = t.slot[g[k]].nxt
  <2>1. g[k] = f[k + 1] /\ g[k + 1] = f[k + 1 + 1] /\ k + 1 \in 0 .. n - 1 /\ 0 \in 0 .. n - 1
    BY <1>2
  <2>2. f[k + 1] \in F /\ f[k + 1 + 1] = s.slot[f[k + 1]].nxt
    BY <1>2, <2>1
  <2>3. f[k + 1] # f[0]
    BY <1>2, <2>1
  <2> HIDE DEF g
  <2> QED BY <1>2, <2>1, <2>2, <2>3
<1>5. ASSUME NEW k \in 0 .. n - 2, NEW l \in 0 .. n - 2, g[k] = g[l] PROVE k = l
  <2>1. k + 1 \in 0 .. n - 1 /\ l + 1 \in 0 .. n - 1 /\ f[k + 1] = f[l + 1]
    BY <1>2, <1>5
  <2>2. k + 1 = l + 1
    BY <1>2, <2>1
  <2> QED BY <2>2
<1>6. ASSUME NEW j \in F \ {i} PROVE \E k \in 0 .. n - 2 : g[k] = j
  <2>1. PICK k \in 0 .. n - 1 : f[k] = j
    BY <1>2
  <2>2. k # 0
    BY <1>2, <2>1
  <2>3. k - 1 \in 0 .. n - 2 /\ k - 1 + 1 = k
    BY <1>2, <2>2
  <2>4. g[k - 1] = j
    BY <1>2, <2>1, <2>3
  <2> QED BY <2>3, <2>4
<1>7. ListIs(t, F \ {i}, g)
  <2>1. t.free_count = n - 1 /\ n - 1 \in Nat /\ n - 1 - 1 = n - 2
    BY <1>2 DEF n
  <2> HIDE DEF g
  <2> QED BY <1>3, <1>4, <1>5, <1>6, <2>1 DEF ListIs
<1>8. /\ F \ {i} \subseteq SlotsOf(t.class) /\ IsFiniteSet(F \ {i})
      /\ t.free_count = Cardinality(F \ {i})
  BY <1>2, FS_RemoveElement DEF Listed
<1> QED BY <1>7, <1>8 DEF Listed

(* A slot is put before the list.                                          *)
LEMMA PushList ==
    ASSUME HeapAssumption, NEW s, NEW F, Listed(s, F),
           NEW i \in SlotsOf(s.class), i \notin F, NEW t,
           t.class = s.class, t.free_head = i, t.free_count = s.free_count + 1,
           t.slot[i].nxt = s.free_head, \A j \in F : t.slot[j].nxt = s.slot[j].nxt
    PROVE  Listed(t, F \cup {i})
<1> DEFINE n == s.free_count
<1>1. PICK f : ListIs(s, F, f)
  BY DEF Listed
<1>2. /\ n \in Nat /\ f[0] = s.free_head /\ f[n] = NIL
      /\ \A k \in 0 .. n - 1 : f[k] \in F /\ f[k + 1] = s.slot[f[k]].nxt
      /\ \A k, l \in 0 .. n - 1 : f[k] = f[l] => k = l
      /\ \A j \in F : \E k \in 0 .. n - 1 : f[k] = j
  BY <1>1 DEF ListIs
<1>0. t.free_count = n + 1 /\ n + 1 \in Nat /\ n + 1 - 1 = n
  BY <1>2
<1> HIDE DEF n
<1> DEFINE g == [k \in 0 .. n + 1 |-> IF k = 0 THEN i ELSE f[k - 1]]
<1>3. g[0] = i /\ g[1] = f[0] /\ g[n + 1] = NIL
  BY <1>2
<1>4. ASSUME NEW k \in 1 .. n
      PROVE  g[k] = f[k - 1] /\ g[k + 1] = f[k - 1 + 1] /\ k - 1 \in 0 .. n - 1
  BY <1>2
<1> HIDE DEF g
<1>5. ASSUME NEW k \in 0 .. n
      PROVE  g[k] \in F \cup {i} /\ g[k + 1] = t.slot[g[k]].nxt
  <2>1. CASE k = 0
    BY <1>2, <1>3, <2>1
  <2>2. CASE k # 0
    <3>1. k \in 1 .. n
      BY <2>2
    <3>2. f[k - 1] \in F /\ f[k - 1 + 1] = s.slot[f[k - 1]].nxt
      BY <1>2, <1>4, <3>1
    <3> QED BY <1>4, <3>1, <3>2
  <2> QED BY <2>1, <2>2
<1>6. ASSUME NEW k \in 0 .. n, NEW l \in 0 .. n, g[k] = g[l] PROVE k = l
  <2>1. \A m \in 0 .. n : m # 0 => g[m] \in F /\ m \in 1 .. n
    BY <1>2, <1>4
  <2>2. CASE k = 0 \/ l = 0
    BY <1>3, <1>6, <2>1, <2>2
  <2>3. CASE k # 0 /\ l # 0
    <3>1. k - 1 = l - 1
      BY <1>2, <1>4, <1>6, <2>1, <2>3
    <3> QED BY <3>1
  <2> QED BY <2>2, <2>3
<1>7. ASSUME NEW j \in F \cup {i} PROVE \E k \in 0 .. n : g[k] = j
  <2>1. CASE j = i
    BY <1>2, <1>3, <2>1
  <2>2. CASE j \in F
    <3>1. PICK k \in 0 .. n - 1 : f[k] = j
      BY <1>2, <2>2
    <3>2. k + 1 \in 1 .. n /\ k + 1 - 1 = k /\ k + 1 \in 0 .. n
      BY <1>2
    <3>3. g[k + 1] = j
      BY <1>4, <3>1, <3>2
    <3> QED BY <3>2, <3>3
  <2> QED BY <2>1, <2>2
<1>8. ListIs(t, F \cup {i}, g)
  <2> DEFINE K == F \cup {i}
  <2>1. /\ \A k \in 0 .. n : g[k] \in K /\ g[k + 1] = t.slot[g[k]].nxt
        /\ \A j \in K : \E k \in 0 .. n : g[k] = j
    BY <1>5, <1>7
  <2> HIDE DEF K
  <2>2. ListIs(t, K, g)
    <3> DEFINE m == t.free_count
    <3>1. m = n + 1 /\ m \in Nat /\ 0 .. m - 1 = 0 .. n /\ g[m] = NIL /\ g[0] = t.free_head
      BY <1>0, <1>2, <1>3
    <3> HIDE DEF m
    <3>2. /\ \A k \in 0 .. m - 1 : g[k] \in K /\ g[k + 1] = t.slot[g[k]].nxt
          /\ \A k, l \in 0 .. m - 1 : g[k] = g[l] => k = l
          /\ \A j \in K : \E k \in 0 .. m - 1 : g[k] = j
      BY <1>6, <2>1, <3>1
    <3> QED BY <3>1, <3>2 DEF ListIs, m
  <2> QED BY <2>2 DEF K
<1>9. /\ F \cup {i} \subseteq SlotsOf(t.class) /\ IsFiniteSet(F \cup {i})
      /\ t.free_count = Cardinality(F \cup {i})
  BY SMTT(40), FS_AddElement DEF Listed
<1> QED BY <1>8, <1>9 DEF Listed

(* All slots of a new page are on its list.                                *)
LEMMA FreshList ==
    ASSUME HeapAssumption, NEW c \in Classes, NEW next \in Nat, NEW t, t = slab_page_init(c, next)
    PROVE  /\ PageOK(t) /\ Listed(t, SlotsOf(c)) /\ t.class = c /\ t.next_slab = next
           /\ t.free_count > 0
<1> DEFINE n == NumSlots(c)
           f == [k \in 0 .. n |-> IF k < n THEN k ELSE NIL]
<1>1. n \in Nat /\ n >= 1 /\ n < NIL /\ NIL \in Nat /\ c \in Nat /\ SlotsOf(c) = 0 .. n - 1
  BY SlotCount DEF SlotsOf
<1>2. /\ t.class = c /\ t.free_head = 0 /\ t.free_count = n /\ t.next_slab = next
      /\ t.slot = [i \in SlotsOf(c) |-> [nxt  |-> IF i + 1 < n THEN i + 1 ELSE NIL,
                                         data |-> Link]]
      /\ t = [class |-> t.class, free_head |-> t.free_head, free_count |-> t.free_count,
              next_slab |-> t.next_slab, slot |-> t.slot]
  BY DEF slab_page_init
<1> HIDE DEF n
<1>3. \A i \in SlotsOf(c) : t.slot[i].nxt = IF i + 1 < n THEN i + 1 ELSE NIL
  BY <1>2
<1>4. t.slot \in [SlotsOf(c) -> [nxt: 0 .. NIL, data: Values \cup {Zero, Link}]]
  <2>1. \A i \in SlotsOf(c) : (IF i + 1 < n THEN i + 1 ELSE NIL) \in 0 .. NIL
    BY <1>1
  <2> QED BY <1>2, <2>1
<1>5. PageOK(t)
  <2>1. t \in SlabPage(c)
    <3>1. t.free_head \in SlotsOf(c) \cup {NIL} /\ t.free_count \in 0 .. NumSlots(c)
      BY <1>1, <1>2 DEF n
    <3>2. t.class \in {c} /\ t.next_slab \in Nat
      BY <1>2
    <3> QED BY <1>2, <1>4, <3>1, <3>2 DEF SlabPage
  <2> QED BY <1>2, <2>1 DEF PageOK
<1>6. f[0] = 0 /\ f[n] = NIL
  BY <1>1
<1>7. \A k \in 0 .. n - 1 : f[k] = k /\ k \in SlotsOf(c)
                            /\ f[k + 1] = IF k + 1 < n THEN k + 1 ELSE NIL
  BY <1>1
<1> HIDE DEF f
<1>8. ListIs(t, SlotsOf(c), f)
  <2>1. \A i \in SlotsOf(c) : i \in 0 .. n - 1 /\ f[i] = i
    BY <1>1, <1>7
  <2>2. \A k \in 0 .. n - 1 : f[k] \in SlotsOf(c) /\ f[k + 1] = t.slot[f[k]].nxt
    BY <1>3, <1>7
  <2> QED BY <1>1, <1>2, <1>6, <1>7, <2>1, <2>2 DEF ListIs
<1>9. Listed(t, SlotsOf(c))
  BY <1>2, <1>8, SlotsFinite DEF Listed, n
<1> QED BY <1>1, <1>2, <1>5, <1>9

(* What FreeSlots walks through.                                           *)
LEMMA ListWalked ==
    ASSUME HeapAssumption, NEW p, PageOK(slabs[p]), NEW F, Listed(slabs[p], F)
    PROVE  FreeSlots(p) = F
<1> DEFINE s == slabs[p]
           S == SlotsOf(s.class)
           M == NumSlots(s.class)
           n == s.free_count
           Is(g) == g = [k \in 0 .. M |->
                           IF k = 0 THEN s.free_head
                           ELSE IF g[k - 1] \in S THEN s.slot[g[k - 1]].nxt ELSE NIL]
           h == CHOOSE g : Is(g)
<1>1. PICK f : ListIs(s, F, f)
  BY DEF Listed
<1>2. /\ n \in Nat /\ f[0] = s.free_head /\ f[n] = NIL
      /\ \A k \in 0 .. n - 1 : f[k] \in F /\ f[k + 1] = s.slot[f[k]].nxt
      /\ \A j \in F : \E k \in 0 .. n - 1 : f[k] = j
  BY <1>1 DEF ListIs
<1>3. s.class \in Classes /\ s \in SlabPage(s.class) /\ F \subseteq S /\ n = Cardinality(F)
  BY DEF PageOK, Listed
<1>4. M \in Nat /\ NIL \notin S
  BY <1>3, SlotCount
<1>5. n <= M
  BY <1>3, <1>4 DEF SlabPage
<1>6. FreeSlots(p) = {h[k] : k \in DOMAIN h} \ {NIL}
  BY DEF FreeSlots
<1> HIDE DEF n, M, S, s
<1> DEFINE w == [k \in 0 .. M |-> IF k <= n THEN f[k] ELSE NIL]
<1>7. Is(w)
  <2>1. ASSUME NEW k \in 0 .. M
        PROVE  w[k] = IF k = 0 THEN s.free_head
                      ELSE IF w[k - 1] \in S THEN s.slot[w[k - 1]].nxt ELSE NIL
    <3>1. CASE k = 0
      BY <1>2, <3>1
    <3>2. CASE k # 0 /\ k <= n
      <4>1. k - 1 \in 0 .. n - 1 /\ k - 1 \in 0 .. M /\ k - 1 + 1 = k
        BY <1>2, <1>4, <3>2
      <4>2. w[k - 1] = f[k - 1] /\ w[k] = f[k]
        BY <1>2, <3>2, <4>1
      <4>3. f[k - 1] \in S /\ f[k] = s.slot[f[k - 1]].nxt
        BY <1>2, <1>3, <4>1
      <4> HIDE DEF w
      <4> QED BY <3>2, <4>2, <4>3
    <3>3. CASE k > n
      <4>1. k # 0 /\ k - 1 \in 0 .. M /\ w[k] = NIL /\ w[k - 1] = NIL
        BY <1>2, <1>4, <3>3
      <4> HIDE DEF w
      <4> QED BY <1>4, <4>1
    <3> QED BY <1>2, <3>1, <3>2, <3>3
  <2>2. w = [k \in 0 .. M |-> w[k]]
    OBVIOUS
  <2> HIDE DEF w
  <2> QED BY <2>1, <2>2
<1>8. Is(h)
  <2> HIDE DEF Is
  <2> QED BY <1>7
<1> HIDE DEF h
<1> DEFINE P == {k \in Nat : k <= M => h[k] = w[k]}
<1>9. \A k \in 0 .. M : /\ h[k] = IF k = 0 THEN s.free_head
                                  ELSE IF h[k - 1] \in S THEN s.slot[h[k - 1]].nxt ELSE NIL
                        /\ w[k] = IF k = 0 THEN s.free_head
                                  ELSE IF w[k - 1] \in S THEN s.slot[w[k - 1]].nxt ELSE NIL
  <2> HIDE DEF w
  <2> QED BY <1>7, <1>8
<1> HIDE DEF w
<1>10. Nat \subseteq P
  <2>1. 0 \in P
    BY <1>4, <1>9
  <2>2. ASSUME NEW k \in Nat, k \in P PROVE k + 1 \in P
    <3>1. SUFFICES ASSUME k + 1 <= M PROVE h[k + 1] = w[k + 1]
      OBVIOUS
    <3>2. h[k] = w[k] /\ k + 1 \in 0 .. M /\ k + 1 # 0 /\ k + 1 - 1 = k
      BY <1>4, <2>2, <3>1
    <3> QED BY <1>9, <3>2
  <2> HIDE DEF P
  <2> QED BY <2>1, <2>2, NatSetInduction
<1>11. \A k \in 0 .. M : h[k] = IF k <= n THEN f[k] ELSE NIL
  <2>1. \A k \in 0 .. M : k \in Nat /\ k <= M
    BY <1>4
  <2>2. \A k \in 0 .. M : h[k] = w[k]
    BY <1>10, <2>1
  <2>3. \A k \in 0 .. M : w[k] = IF k <= n THEN f[k] ELSE NIL
    BY DEF w
  <2> QED BY <2>2, <2>3
<1>12. DOMAIN h = 0 .. M
  BY <1>8
<1>13. \A x : x \in F <=> x \in {h[k] : k \in 0 .. M} \ {NIL}
  <2>1. ASSUME NEW x \in F PROVE x \in {h[k] : k \in 0 .. M} \ {NIL}
    <3>1. PICK k \in 0 .. n - 1 : f[k] = x
      BY <1>2
    <3>2. k \in 0 .. M /\ k <= n
      BY <1>2, <1>4, <1>5
    <3>3. h[k] = x
      BY <1>11, <3>1, <3>2
    <3>4. x # NIL
      BY <1>3, <1>4
    <3> QED BY <3>2, <3>3, <3>4
  <2>2. ASSUME NEW k \in 0 .. M, h[k] # NIL PROVE h[k] \in F
    <3>1. k <= n /\ h[k] = f[k]
      BY <1>11, <2>2
    <3>2. k # n
      BY <1>2, <2>2, <3>1
    <3> QED BY <1>2, <3>1, <3>2
  <2> QED BY <2>1, <2>2
<1> HIDE DEF Is
<1> QED BY <1>6, <1>12, <1>13

(* The pages of a class, as next_slab leads through them.                  *)
Members(S, c) == {p \in DOMAIN S : S[p].class = c}
Links(S, C, c, n, g) ==
    /\ n \in Nat /\ n = Cardinality(Members(S, c)) /\ g[0] = C[c] /\ g[n] = 0
    /\ \A k \in 0 .. n - 1 : g[k] \in Members(S, c) /\ g[k + 1] = S[g[k]].next_slab
    /\ \A p \in Members(S, c) : \E k \in 0 .. n - 1 : g[k] = p
Chained(S, C) ==
    /\ DOMAIN S \subseteq PageAddrs
    /\ \A c \in Classes : \E n, g : Links(S, C, c, n, g)

LEMMA MembersFinite ==
    ASSUME HeapAssumption, NEW S, DOMAIN S \subseteq PageAddrs, NEW c
    PROVE  /\ IsFiniteSet(Members(S, c)) /\ Cardinality(Members(S, c)) \in Nat
           /\ Cardinality(Members(S, c)) <= Cardinality(PageAddrs)
           /\ Cardinality(PageAddrs) \in Nat /\ 0 \notin DOMAIN S
<1>1. IsFiniteSet(PageAddrs) /\ 0 \notin PageAddrs
  BY DEF HeapAssumption
<1>2. Members(S, c) \subseteq PageAddrs
  BY DEF Members
<1> QED BY <1>1, <1>2, FS_Subset, FS_CardinalityType

LEMMA ChainWalked ==
    ASSUME HeapAssumption, NEW h, DOMAIN h.slabs \subseteq PageAddrs, NEW c,
           NEW n, NEW g, Links(h.slabs, h.cache, c, n, g)
    PROVE  Chain(h, c) = [k \in 0 .. n - 1 |-> g[k]]
<1> DEFINE S == h.slabs
           M == Cardinality(PageAddrs)
           first == h.cache[c]
           Is(x) == x = [k \in 0 .. M |->
                           IF k = 0 THEN first
                           ELSE IF x[k - 1] \in DOMAIN S THEN S[x[k - 1]].next_slab ELSE 0]
           at == CHOOSE x : Is(x)
<1>1. /\ n \in Nat /\ n = Cardinality(Members(S, c)) /\ g[0] = first /\ g[n] = 0
      /\ \A k \in 0 .. n - 1 : g[k] \in DOMAIN S /\ g[k + 1] = S[g[k]].next_slab
  BY DEF Links, Members
<1>2. M \in Nat /\ n <= M /\ 0 \notin DOMAIN S
  BY <1>1, MembersFinite
<1>3. Chain(h, c) = [k \in {j \in DOMAIN at : at[j] \in DOMAIN S} |-> at[k]]
  BY DEF Chain
<1> HIDE DEF M, S, first
<1> DEFINE w == [k \in 0 .. M |-> IF k <= n THEN g[k] ELSE 0]
<1>4. Is(w)
  <2>1. ASSUME NEW k \in 0 .. M
        PROVE  w[k] = IF k = 0 THEN first
                      ELSE IF w[k - 1] \in DOMAIN S THEN S[w[k - 1]].next_slab ELSE 0
    <3>1. CASE k = 0
      BY <1>1, <3>1
    <3>2. CASE k # 0 /\ k <= n
      <4>1. k - 1 \in 0 .. n - 1 /\ k - 1 \in 0 .. M /\ k - 1 + 1 = k
        BY <1>1, <1>2, <3>2
      <4>2. w[k - 1] = g[k - 1] /\ w[k] = g[k]
        BY <1>1, <3>2, <4>1
      <4>3. g[k - 1] \in DOMAIN S /\ g[k] = S[g[k - 1]].next_slab
        BY <1>1, <4>1
      <4> HIDE DEF w
      <4> QED BY <3>2, <4>2, <4>3
    <3>3. CASE k > n
      <4>1. k # 0 /\ k - 1 \in 0 .. M /\ w[k] = 0 /\ w[k - 1] = 0
        BY <1>1, <1>2, <3>3
      <4> HIDE DEF w
      <4> QED BY <1>2, <4>1
    <3> QED BY <1>1, <3>1, <3>2, <3>3
  <2>2. w = [k \in 0 .. M |-> w[k]]
    OBVIOUS
  <2> HIDE DEF w
  <2> QED BY <2>1, <2>2
<1>5. Is(at)
  <2> HIDE DEF Is
  <2> QED BY <1>4
<1> HIDE DEF at
<1> DEFINE P == {k \in Nat : k <= M => at[k] = w[k]}
<1>6. \A k \in 0 .. M : /\ at[k] = IF k = 0 THEN first
                                   ELSE IF at[k - 1] \in DOMAIN S THEN S[at[k - 1]].next_slab ELSE 0
                        /\ w[k] = IF k = 0 THEN first
                                  ELSE IF w[k - 1] \in DOMAIN S THEN S[w[k - 1]].next_slab ELSE 0
  <2> HIDE DEF w
  <2> QED BY <1>4, <1>5
<1> HIDE DEF w
<1>7. Nat \subseteq P
  <2>1. 0 \in P
    BY <1>2, <1>6
  <2>2. ASSUME NEW k \in Nat, k \in P PROVE k + 1 \in P
    <3>1. SUFFICES ASSUME k + 1 <= M PROVE at[k + 1] = w[k + 1]
      OBVIOUS
    <3>2. at[k] = w[k] /\ k + 1 \in 0 .. M /\ k + 1 # 0 /\ k + 1 - 1 = k
      BY <1>2, <2>2, <3>1
    <3> QED BY <1>6, <3>2
  <2> HIDE DEF P
  <2> QED BY <2>1, <2>2, NatSetInduction
<1>8. \A k \in 0 .. M : at[k] = IF k <= n THEN g[k] ELSE 0
  <2>1. \A k \in 0 .. M : k \in Nat /\ k <= M
    BY <1>2
  <2>2. \A k \in 0 .. M : at[k] = w[k]
    BY <1>7, <2>1
  <2>3. \A k \in 0 .. M : w[k] = IF k <= n THEN g[k] ELSE 0
    BY DEF w
  <2> QED BY <2>2, <2>3
<1>9. DOMAIN at = 0 .. M
  BY <1>5
<1> HIDE DEF Is
<1>10. \A k : k \in 0 .. n - 1 <=> k \in 0 .. M /\ at[k] \in DOMAIN S
  <2>1. ASSUME NEW k \in 0 .. n - 1 PROVE k \in 0 .. M /\ at[k] \in DOMAIN S /\ at[k] = g[k]
    <3>1. k \in 0 .. M /\ k <= n
      BY <1>1, <1>2
    <3> QED BY <1>1, <1>8, <3>1
  <2>2. ASSUME NEW k \in 0 .. M, at[k] \in DOMAIN S PROVE k \in 0 .. n - 1
    <3>1. k <= n /\ k # n
      BY <1>1, <1>2, <1>8, <2>2
    <3> QED BY <1>1, <3>1
  <2> QED BY <2>1, <2>2
<1>11. {j \in DOMAIN at : at[j] \in DOMAIN S} = 0 .. n - 1
  BY <1>9, <1>10
<1>12. \A k \in 0 .. n - 1 : at[k] = g[k]
  BY <1>1, <1>8, <1>10
<1> QED BY <1>3, <1>11, <1>12

(* What the chains depend on.                                              *)
LEMMA SameChains ==
    ASSUME NEW S, NEW T, NEW C, Chained(S, C), DOMAIN T = DOMAIN S,
           \A p \in DOMAIN S : T[p].class = S[p].class /\ T[p].next_slab = S[p].next_slab
    PROVE  Chained(T, C)
<1>1. \A c : Members(T, c) = Members(S, c) /\ Members(S, c) \subseteq DOMAIN S
  BY DEF Members
<1>2. ASSUME NEW c, NEW n, NEW g, Links(S, C, c, n, g) PROVE Links(T, C, c, n, g)
  BY <1>1, <1>2 DEF Links
<1> QED BY <1>2 DEF Chained

(* A new page becomes the first of its chain.                              *)
LEMMA ChainGrows ==
    ASSUME HeapAssumption, NEW S, NEW C, Chained(S, C), DOMAIN C = Classes,
           NEW c \in Classes, NEW p \in PageAddrs \ DOMAIN S,
           NEW T, DOMAIN T = DOMAIN S \cup {p}, T[p].class = c, T[p].next_slab = C[c],
           \A q \in DOMAIN S : T[q] = S[q]
    PROVE  Chained(T, [C EXCEPT ![c] = p])
<1> DEFINE t == T[p]
           D == [C EXCEPT ![c] = p]
<1>1. DOMAIN T \subseteq PageAddrs
  BY DEF Chained
<1>2. /\ Members(T, c) = Members(S, c) \cup {p} /\ p \notin Members(S, c)
      /\ \A d \in Classes \ {c} : Members(T, d) = Members(S, d)
      /\ \A d : Members(S, d) \subseteq DOMAIN S
  BY DEF Members
<1>3. ASSUME NEW d \in Classes \ {c} PROVE \E n, g : Links(T, D, d, n, g)
  <2>1. PICK n, g : Links(S, C, d, n, g)
    BY DEF Chained
  <2>2. D[d] = C[d]
    OBVIOUS
  <2>3. Links(T, D, d, n, g)
    BY <1>2, <2>1, <2>2 DEF Links
  <2> QED BY <2>3
<1>4. \E n, g : Links(T, D, c, n, g)
  <2>1. PICK n, f : Links(S, C, c, n, f)
    BY DEF Chained
  <2>2. /\ n \in Nat /\ n = Cardinality(Members(S, c)) /\ f[0] = C[c] /\ f[n] = 0
        /\ \A k \in 0 .. n - 1 : f[k] \in Members(S, c) /\ f[k + 1] = S[f[k]].next_slab
        /\ \A q \in Members(S, c) : \E k \in 0 .. n - 1 : f[k] = q
    BY <2>1 DEF Links
  <2> DEFINE g == [k \in 0 .. n + 1 |-> IF k = 0 THEN p ELSE f[k - 1]]
  <2>3. g[0] = p /\ g[1] = f[0] /\ g[n + 1] = 0
    BY <2>2
  <2>4. \A k \in 1 .. n : g[k] = f[k - 1] /\ g[k + 1] = f[k - 1 + 1] /\ k - 1 \in 0 .. n - 1
    BY <2>2
  <2> HIDE DEF g
  <2>5. D[c] = p
    OBVIOUS
  <2>6. ASSUME NEW k \in 0 .. n
        PROVE  g[k] \in Members(T, c) /\ g[k + 1] = T[g[k]].next_slab
    <3>1. CASE k = 0
      BY <1>2, <2>2, <2>3, <3>1
    <3>2. CASE k # 0
      <4>1. k \in 1 .. n
        BY <2>2, <3>2
      <4>2. f[k - 1] \in Members(S, c) /\ f[k - 1 + 1] = S[f[k - 1]].next_slab
        BY <2>2, <2>4, <4>1
      <4>3. T[f[k - 1]] = S[f[k - 1]]
        BY <1>2, <4>2
      <4> QED BY <1>2, <2>4, <4>1, <4>2, <4>3
    <3> QED BY <3>1, <3>2
  <2>7. ASSUME NEW q \in Members(T, c) PROVE \E k \in 0 .. n : g[k] = q
    <3>1. CASE q = p
      BY <2>2, <2>3, <3>1
    <3>2. CASE q \in Members(S, c)
      <4>1. PICK k \in 0 .. n - 1 : f[k] = q
        BY <2>2, <3>2
      <4>2. k + 1 \in 1 .. n /\ k + 1 \in 0 .. n /\ k + 1 - 1 = k
        BY <2>2
      <4>3. g[k + 1] = q
        BY <2>4, <4>1, <4>2
      <4> QED BY <4>2, <4>3
    <3> QED BY <1>2, <3>1, <3>2
  <2>8. n + 1 = Cardinality(Members(T, c))
    <3>1. IsFiniteSet(Members(S, c))
      BY MembersFinite DEF Chained
    <3>2. Cardinality(Members(S, c) \cup {p}) = Cardinality(Members(S, c)) + 1
      BY <1>2, <3>1, FS_AddElement
    <3> QED BY <1>2, <2>2, <3>2
  <2> DEFINE m == n + 1
  <2>9. m \in Nat /\ 0 .. m - 1 = 0 .. n
    BY <2>2
  <2>10. m = Cardinality(Members(T, c)) /\ g[m] = 0
    BY <2>3, <2>8
  <2> HIDE DEF m
  <2>11. Links(T, D, c, m, g)
    BY <2>3, <2>5, <2>6, <2>7, <2>9, <2>10 DEF Links
  <2> QED BY <2>11
<1>5. \A d \in Classes : \E n, g : Links(T, D, d, n, g)
  <2> SUFFICES ASSUME NEW d \in Classes PROVE \E n, g : Links(T, D, d, n, g)
    OBVIOUS
  <2>1. CASE d = c
    BY <1>4, <2>1
  <2>2. CASE d # c
    BY <1>3, <2>2
  <2> QED BY <2>1, <2>2
<1> QED BY <1>1, <1>5 DEF Chained

(* What the list says of the head and the count.                           *)
LEMMA HeadOf ==
    ASSUME HeapAssumption, NEW s, s.class \in Classes, NEW F, Listed(s, F)
    PROVE  /\ s.free_head \in SlotsOf(s.class) \cup {NIL}
           /\ s.free_count \in 0 .. NumSlots(s.class)
<1>1. PICK f : ListIs(s, F, f)
  BY DEF Listed
<1>2. /\ s.free_count \in Nat /\ f[0] = s.free_head /\ f[s.free_count] = NIL
      /\ \A k \in 0 .. s.free_count - 1 : f[k] \in F
  BY <1>1 DEF ListIs
<1>3. F \subseteq SlotsOf(s.class) /\ s.free_count = Cardinality(F)
  BY DEF Listed
<1>4. IsFiniteSet(SlotsOf(s.class)) /\ Cardinality(SlotsOf(s.class)) = NumSlots(s.class)
      /\ NumSlots(s.class) \in Nat
  BY SlotsFinite, SlotCount
<1>5. Cardinality(F) <= NumSlots(s.class)
  BY <1>3, <1>4, FS_Subset
<1>6. s.free_head \in SlotsOf(s.class) \cup {NIL}
  <2>1. CASE s.free_count = 0
    BY <1>2, <2>1
  <2>2. CASE s.free_count # 0
    <3>1. 0 \in 0 .. s.free_count - 1
      BY <1>2, <2>2
    <3> QED BY <1>2, <1>3, <3>1
  <2> QED BY <2>1, <2>2
<1> QED BY <1>2, <1>3, <1>4, <1>5, <1>6

-----------------------------------------------------------------------------
(* What clients hold: blocks behind used headers, each the contents its    *)
(* client wrote, and slots that are on no list.                            *)
InBlock(m, r, a) ==
    /\ r.ptr = BlockPtr(a + 1) /\ ~m[a].free /\ r.len \in Nat /\ r.len <= m[a].size
    /\ \A u \in a + 1 .. a + r.len : m[u] = Data(r.val)
Owned(m, H, L) ==
    /\ \A r \in L : IsBlock(r.ptr) => \E a \in H : InBlock(m, r, a)
    /\ \A a \in H : ~m[a].free => \E r \in L : r.ptr = BlockPtr(a + 1)
BlocksOK(m, L) == \E H : Tiles(m, H) /\ Apart(m, H) /\ Owned(m, H, L)

Held(p, c, L) == {i \in SlotsOf(c) : \E r \in L : r.ptr = SlabPtr(p, i)}
Spare(p, S, L) == SlotsOf(S[p].class) \ Held(p, S[p].class, L)
InSlot(S, r) ==
    \E p \in DOMAIN S : \E i \in SlotsOf(S[p].class) :
       r.ptr = SlabPtr(p, i) /\ r.len <= S[p].class /\ S[p].slot[i].data = r.val
SlabsOK(S, L) ==
    /\ S = [p \in DOMAIN S |-> S[p]] /\ DOMAIN S \subseteq PageAddrs
    /\ \A p \in DOMAIN S : PageOK(S[p]) /\ Listed(S[p], Spare(p, S, L))
    /\ \A r \in L : ~IsBlock(r.ptr) => InSlot(S, r)

Distinct(L) ==
    /\ L \subseteq [ptr: (PageAddrs \cup {0}) \X Nat, len: Nat, val: Values]
    /\ \A r, s \in L : r.ptr = s.ptr => r = s
Good(h, L) ==
    /\ h = [mem |-> h.mem, slabs |-> h.slabs, cache |-> h.cache]
    /\ h.cache \in [Classes -> PageAddrs \cup {0}]
    /\ BlocksOK(h.mem, L) /\ SlabsOK(h.slabs, L) /\ Chained(h.slabs, h.cache)
    /\ Distinct(L)

LEMMA Pointers ==
    ASSUME HeapAssumption
    PROVE  /\ \A a, b \in Nat : BlockPtr(a + 1) = BlockPtr(b + 1) => a = b
           /\ \A a \in Nat : IsBlock(BlockPtr(a))
                             /\ BlockPtr(a) \in (PageAddrs \cup {0}) \X Nat /\ BlockPtr(a)[2] = a
           /\ \A p \in PageAddrs, i \in Nat :
                 /\ ~IsBlock(SlabPtr(p, i)) /\ SlabPtr(p, i) \in (PageAddrs \cup {0}) \X Nat
                 /\ SlabPtr(p, i)[1] = p /\ SlabPtr(p, i)[2] = i
                 /\ \A q, j : SlabPtr(p, i) = SlabPtr(q, j) => p = q /\ i = j
<1>1. 0 \notin PageAddrs
  BY DEF HeapAssumption
<1> QED BY <1>1 DEF BlockPtr, SlabPtr, IsBlock

LEMMA SameBlock ==
    ASSUME NEW a \in Nat, NEW b \in Nat, BlockPtr(a + 1) = BlockPtr(b + 1)
    PROVE  a = b
BY DEF BlockPtr

(* Steps of the block tier and the slots, and the other way round.         *)
LEMMA BlocksApart ==
    ASSUME NEW m, NEW L, NEW M, BlocksOK(m, L),
           \A r : IsBlock(r.ptr) => (r \in L <=> r \in M)
    PROVE  BlocksOK(m, M)
<1>1. PICK H : Tiles(m, H) /\ Apart(m, H) /\ Owned(m, H, L)
  BY DEF BlocksOK
<1>2. \A a : IsBlock(BlockPtr(a))
  BY DEF IsBlock, BlockPtr
<1>3. Owned(m, H, M)
  BY <1>1, <1>2 DEF Owned
<1> QED BY <1>1, <1>3 DEF BlocksOK

LEMMA SlabsApart ==
    ASSUME HeapAssumption, NEW S, NEW L, NEW M, SlabsOK(S, L),
           \A r : ~IsBlock(r.ptr) => (r \in L <=> r \in M)
    PROVE  SlabsOK(S, M)
<1>1. \A p \in DOMAIN S, i \in Nat : ~IsBlock(SlabPtr(p, i))
  BY Pointers DEF SlabsOK
<1>2. ASSUME NEW p \in DOMAIN S PROVE Spare(p, S, M) = Spare(p, S, L)
  <2>1. SlotsOf(S[p].class) \subseteq Nat
    BY SlotCount DEF SlabsOK, PageOK, SlotsOf
  <2>2. Held(p, S[p].class, M) = Held(p, S[p].class, L)
    BY <1>1, <2>1 DEF Held
  <2> QED BY <2>2 DEF Spare
<1> QED BY <1>2 DEF SlabsOK

(* A free block is given to a client, who writes w units.                  *)
Wrote(m, a, w, v) == [u \in Units |-> IF u \in a + 1 .. a + 1 + w - 1 THEN Data(v) ELSE m[u]]
Granted(ptr, w, v) == [ptr |-> ptr, len |-> w, val |-> v]

LEMMA BlockGranted ==
    ASSUME HeapAssumption, NEW m, NEW L, BlocksOK(m, L), NEW n \in Nat \ {0}, NEW w \in 0 .. n,
           NEW v \in Values, Fitting(m, n) # {}, NEW a, a = Min(Fitting(m, n))
    PROVE  /\ a \in Nat /\ \A r \in L : r.ptr # BlockPtr(a + 1)
           /\ BlocksOK(Wrote(Taken(m, a, n), a, w, v), L \cup {Granted(BlockPtr(a + 1), w, v)})
<1>1. PICK H : Tiles(m, H) /\ Apart(m, H) /\ Owned(m, H, L)
  BY DEF BlocksOK
<1> DEFINE k == Taken(m, a, n)
           K == IF Splits(m, a, n) THEN H \cup {a + n + 1} ELSE H
           o == Wrote(k, a, w, v)
           e == Granted(BlockPtr(a + 1), w, v)
<1>2. a \in H /\ m[a].free /\ m[a].size >= n
  <2>1. Blocks(m) = H
    BY <1>1, BlocksFound
  <2>2. Fitting(m, n) \subseteq H /\ H \subseteq Nat
    BY <1>1, <2>1, Sizes DEF Fitting, Tiles
  <2>3. a \in Fitting(m, n)
    BY <2>2, LeastIn
  <2> QED BY <2>2, <2>3 DEF Fitting
<1>3. /\ Tiles(k, K) /\ Apart(k, K) /\ ~k[a].free /\ k[a].size >= n /\ H \subseteq K
      /\ \A b \in K \ {a} : ~k[b].free <=> b \in H /\ ~m[b].free
      /\ \A u \in Units : u < a \/ End(m, a) <= u => k[u] = m[u]
  <2>1. k = Taken(m, a, n) /\ K = IF Splits(m, a, n) THEN H \cup {a + n + 1} ELSE H
    OBVIOUS
  <2> HIDE DEF k, K
  <2> QED BY <1>1, <1>2, <2>1, TakenTiled
<1> HIDE DEF k, K
<1>4. a \in K /\ k[a].size \in Nat /\ a \in Nat /\ w \in Nat /\ w <= k[a].size
  <2>1. a \in K /\ k[a].size \in Nat
    BY <1>2, <1>3, Leads
  <2> QED BY <1>1, <1>2, <1>3, <2>1, Leads
<1>5. /\ Tiles(o, K) /\ Apart(o, K)
      /\ \A b \in K : o[b] = k[b]
      /\ \A u \in Units : u <= a \/ End(k, a) <= u => o[u] = k[u]
      /\ \A u \in a + 1 .. a + w : o[u] = Data(v)
  <2>1. o = [u \in Units |-> IF u \in a + 1 .. a + 1 + w - 1 THEN Data(v) ELSE k[u]]
    BY DEF Wrote
  <2> HIDE DEF o
  <2> QED BY <1>3, <1>4, <2>1, WrittenTiled
<1> HIDE DEF o
<1>6. \A r \in L : r.ptr # BlockPtr(a + 1)
  <2> SUFFICES ASSUME NEW r \in L, r.ptr = BlockPtr(a + 1) PROVE FALSE
    OBVIOUS
  <2>1. IsBlock(r.ptr)
    BY <1>4, Pointers
  <2>2. PICK b \in H : InBlock(m, r, b)
    BY <1>1, <2>1 DEF Owned
  <2>3. BlockPtr(a + 1) = BlockPtr(b + 1) /\ ~m[b].free /\ b \in Nat
    BY <1>1, <2>2, Leads DEF InBlock
  <2>4. a = b
    BY <1>4, <2>3, SameBlock
  <2> QED BY <1>2, <2>3, <2>4
<1>7. End(m, a) >= End(k, a) /\ End(m, a) > a /\ End(m, a) \in Nat
  <2>1. End(k, a) \in Nat /\ End(k, a) > a /\ (End(k, a) < HEAP_SIZE => End(k, a) \in K)
    BY <1>3, <1>4, Leads
  <2>2. End(m, a) \in Nat /\ End(m, a) > a /\ End(m, a) <= HEAP_SIZE /\ HEAP_SIZE \in Nat
        /\ (End(m, a) < HEAP_SIZE => End(m, a) \in H)
    BY <1>1, <1>2, Leads, Sizes
  <2>3. CASE End(m, a) < HEAP_SIZE
    BY <1>3, <1>4, <2>1, <2>2, <2>3, Leads
  <2>4. CASE End(m, a) >= HEAP_SIZE
    BY <1>3, <1>4, <2>1, <2>2, <2>4, Leads
  <2> QED BY <2>2, <2>3, <2>4
<1>8. ASSUME NEW r \in L, IsBlock(r.ptr)
      PROVE  \E b \in K : InBlock(o, r, b)
  <2>1. PICK b \in H : InBlock(m, r, b)
    BY <1>1, <1>8 DEF Owned
  <2>2. r.ptr = BlockPtr(b + 1) /\ ~m[b].free /\ r.len <= m[b].size /\ r.len \in Nat
        /\ \A u \in b + 1 .. b + r.len : m[u] = Data(r.val)
    BY <2>1 DEF InBlock
  <2>3. b # a /\ b \in K /\ r.len \in Nat
    BY <1>2, <1>3, <2>2
  <2>4. /\ b \in Nat /\ b \in Units /\ End(m, b) = b + 1 + m[b].size /\ m[b].size \in Nat
        /\ End(m, b) <= HEAP_SIZE /\ (b < a \/ End(m, a) <= b) /\ (End(m, b) <= a \/ End(m, a) <= b)
    <3>1. /\ b \in Nat /\ b \in Units /\ m[b].size \in Nat
          /\ End(m, b) <= HEAP_SIZE /\ (a <= b \/ End(m, b) <= a) /\ (b <= a \/ End(m, a) <= b)
      BY <1>1, <1>2, Leads
    <3> QED BY <1>4, <1>7, <2>3, <3>1 DEF End
  <2>5. \A u \in b .. b + r.len : o[u] = m[u]
    <3> SUFFICES ASSUME NEW u \in b .. b + r.len PROVE o[u] = m[u]
      OBVIOUS
    <3>1. u \in Units /\ (u < a \/ End(m, a) <= u)
      <4>1. u \in Nat /\ b <= u /\ u < End(m, b)
        BY <2>2, <2>4
      <4>2. u \in Units
        BY <2>4, <4>1, Sizes
      <4> QED BY <1>4, <1>7, <2>4, <4>1, <4>2
    <3>2. u <= a \/ End(k, a) <= u
      <4>1. End(k, a) \in Nat
        BY <1>3, <1>4, Leads
      <4> QED BY <1>4, <1>7, <3>1, <4>1
    <3> QED BY <1>3, <1>5, <3>1, <3>2
  <2>6. o[b] = m[b]
    BY <2>3, <2>4, <2>5
  <2>7. \A u \in b + 1 .. b + r.len : o[u] = Data(r.val)
    BY <2>2, <2>3, <2>4, <2>5
  <2> QED BY <2>2, <2>3, <2>6, <2>7 DEF InBlock
<1>9. e.ptr = BlockPtr(a + 1) /\ e.len = w /\ e.val = v
  BY DEF Granted
<1>10. InBlock(o, e, a)
  <2>1. o[a] = k[a]
    BY <1>4, <1>5
  <2> HIDE DEF e
  <2> QED BY <1>3, <1>4, <1>5, <1>9, <2>1 DEF InBlock
<1> HIDE DEF e
<1>11. Owned(o, K, L \cup {e})
  <2>1. ASSUME NEW r \in L \cup {e}, IsBlock(r.ptr) PROVE \E b \in K : InBlock(o, r, b)
    BY <1>4, <1>8, <1>10, <2>1
  <2>2. ASSUME NEW b \in K, ~o[b].free PROVE \E r \in L \cup {e} : r.ptr = BlockPtr(b + 1)
    <3>1. CASE b = a
      BY <1>9, <3>1
    <3>2. CASE b # a
      <4>1. b \in H /\ ~m[b].free
        BY <1>3, <1>5, <2>2, <3>2
      <4> QED BY <1>1, <4>1 DEF Owned
    <3> QED BY <3>1, <3>2
  <2> QED BY <2>1, <2>2 DEF Owned
<1> QED BY <1>4, <1>5, <1>6, <1>11 DEF BlocksOK, k, o, e

(* The block of r goes back.                                               *)
LEMMA BlockReleased ==
    ASSUME HeapAssumption, NEW h, NEW L, BlocksOK(h.mem, L), Distinct(L),
           NEW r \in L, IsBlock(r.ptr)
    PROVE  /\ r.ptr[2] - 1 \in Nat
           /\ \E k : /\ block_free(h, r.ptr[2] - 1) = [h EXCEPT !.mem = k]
                     /\ BlocksOK(k, L \ {r})
<1> DEFINE m == h.mem
<1>1. PICK H : Tiles(m, H) /\ Apart(m, H) /\ Owned(m, H, L)
  BY DEF BlocksOK
<1>2. PICK a \in H : InBlock(m, r, a)
  BY <1>1 DEF Owned
<1>3. r.ptr = BlockPtr(a + 1) /\ ~m[a].free /\ a \in Nat
  BY <1>1, <1>2, Leads DEF InBlock
<1>4. r.ptr[2] - 1 = a
  BY <1>3 DEF BlockPtr
<1>5. PICK k, K : block_free(h, a) = [h EXCEPT !.mem = k] /\ Freed(m, H, a, k, K)
  BY <1>1, <1>3, BlockFreed
<1> HIDE DEF m
<1>6. /\ Tiles(k, K) /\ Apart(k, K) /\ K \subseteq H
      /\ \A x \in H \ {a} : ~m[x].free => x \in K /\ k[x] = m[x]
      /\ \A x \in K : ~k[x].free => x # a /\ ~m[x].free
      /\ \A u \in Units \ H : k[u] = m[u]
  BY <1>5 DEF Freed
<1>7. ASSUME NEW s \in L \ {r}, IsBlock(s.ptr) PROVE \E b \in K : InBlock(k, s, b)
  <2>1. PICK b \in H : InBlock(m, s, b)
    BY <1>1, <1>7 DEF Owned
  <2>2. s.ptr = BlockPtr(b + 1) /\ ~m[b].free /\ s.len <= m[b].size /\ s.len \in Nat
        /\ \A u \in b + 1 .. b + s.len : m[u] = Data(s.val)
    BY <2>1 DEF InBlock
  <2>3. b # a
    BY <1>3, <2>2 DEF Distinct
  <2>4. b \in K /\ k[b] = m[b]
    BY <1>6, <2>2, <2>3
  <2>5. b \in Nat /\ m[b].size \in Nat /\ End(m, b) = b + 1 + m[b].size /\ End(m, b) <= HEAP_SIZE
    BY <1>1, Leads DEF End
  <2>6. ASSUME NEW u \in b + 1 .. b + s.len PROVE k[u] = Data(s.val)
    <3>1. u \in Units /\ u > b /\ u < End(m, b)
      BY <2>2, <2>5, Sizes
    <3>2. u \notin H
      BY <1>1, <3>1, Placed
    <3> QED BY <1>6, <2>2, <3>1, <3>2
  <2> QED BY <2>2, <2>4, <2>6 DEF InBlock
<1>8. ASSUME NEW b \in K, ~k[b].free PROVE \E s \in L \ {r} : s.ptr = BlockPtr(b + 1)
  <2>1. b # a /\ ~m[b].free /\ b \in H /\ b \in Nat
    BY <1>1, <1>6, <1>8, Leads
  <2>2. PICK s \in L : s.ptr = BlockPtr(b + 1)
    BY <1>1, <2>1 DEF Owned
  <2>3. s # r
    BY <1>3, <2>1, <2>2, SameBlock
  <2> QED BY <2>2, <2>3
<1>9. Owned(k, K, L \ {r})
  BY <1>7, <1>8 DEF Owned
<1> QED BY <1>3, <1>4, <1>5, <1>6, <1>9 DEF BlocksOK

Served(S, T, M) ==
    /\ SlabsOK(T, M) /\ DOMAIN T = DOMAIN S
    /\ \A q \in DOMAIN S : T[q].class = S[q].class /\ T[q].next_slab = S[q].next_slab

(* Page p becomes t, and only its slot i passes from or to a client.       *)
OnePage(S, L, T, M, p, i, t) ==
    /\ p \in DOMAIN S /\ i \in SlotsOf(S[p].class)
    /\ \A r \in (L \ M) \cup (M \ L) : r.ptr = SlabPtr(p, i)
    /\ PageOK(t) /\ t.class = S[p].class /\ t.next_slab = S[p].next_slab
    /\ \A j \in SlotsOf(S[p].class) \ {i} : t.slot[j].data = S[p].slot[j].data
    /\ T = [S EXCEPT ![p] = t] /\ Listed(t, Spare(p, T, M))
    /\ \A r \in M : r.ptr = SlabPtr(p, i) => InSlot(T, r)

LEMMA OnePageChanged ==
    ASSUME HeapAssumption, NEW S, NEW L, SlabsOK(S, L), NEW T, NEW M, NEW p, NEW i, NEW t,
           OnePage(S, L, T, M, p, i, t)
    PROVE  Served(S, T, M)
<1>0. /\ p \in DOMAIN S /\ i \in SlotsOf(S[p].class)
      /\ \A r \in (L \ M) \cup (M \ L) : r.ptr = SlabPtr(p, i)
      /\ PageOK(t) /\ t.class = S[p].class /\ t.next_slab = S[p].next_slab
      /\ \A j \in SlotsOf(S[p].class) \ {i} : t.slot[j].data = S[p].slot[j].data
      /\ T = [S EXCEPT ![p] = t] /\ Listed(t, Spare(p, T, M))
      /\ \A r \in M : r.ptr = SlabPtr(p, i) => InSlot(T, r)
  BY DEF OnePage
<1>1. /\ S = [q \in DOMAIN S |-> S[q]] /\ DOMAIN S \subseteq PageAddrs
      /\ \A q \in DOMAIN S : PageOK(S[q]) /\ Listed(S[q], Spare(q, S, L))
      /\ \A r \in L : ~IsBlock(r.ptr) => InSlot(S, r)
  BY DEF SlabsOK
<1>2. /\ T = [q \in DOMAIN T |-> T[q]] /\ DOMAIN T = DOMAIN S /\ T[p] = t
      /\ \A q \in DOMAIN S \ {p} : T[q] = S[q]
  BY <1>0, <1>1
<1>3. \A q \in DOMAIN S : T[q].class = S[q].class /\ T[q].next_slab = S[q].next_slab
  BY <1>0, <1>2
<1>4. \A q \in DOMAIN S : SlotsOf(S[q].class) \subseteq Nat
  BY <1>1, SlotCount DEF PageOK, SlotsOf
<1>5. ASSUME NEW q \in DOMAIN S PROVE PageOK(T[q]) /\ Listed(T[q], Spare(q, T, M))
  <2>1. CASE q = p
    BY <1>0, <1>2, <2>1
  <2>2. CASE q # p
    <3>1. \A j \in Nat : SlabPtr(q, j) # SlabPtr(p, i)
      BY <2>2 DEF SlabPtr
    <3>2. Held(q, S[q].class, M) = Held(q, S[q].class, L)
      BY <1>0, <1>4, <3>1 DEF Held
    <3>3. Spare(q, T, M) = Spare(q, S, L)
      BY <1>3, <3>2 DEF Spare
    <3> QED BY <1>1, <1>2, <2>2, <3>3
  <2> QED BY <2>1, <2>2
<1>6. ASSUME NEW r \in M, ~IsBlock(r.ptr) PROVE InSlot(T, r)
  <2>1. CASE r.ptr = SlabPtr(p, i)
    BY <1>0, <2>1
  <2>2. CASE r.ptr # SlabPtr(p, i)
    <3>1. r \in L
      BY <1>0, <2>2
    <3>2. PICK q \in DOMAIN S : \E j \in SlotsOf(S[q].class) :
             r.ptr = SlabPtr(q, j) /\ r.len <= S[q].class /\ S[q].slot[j].data = r.val
      BY <1>1, <1>6, <3>1 DEF InSlot
    <3>3. PICK j \in SlotsOf(S[q].class) :
             r.ptr = SlabPtr(q, j) /\ r.len <= S[q].class /\ S[q].slot[j].data = r.val
      BY <3>2
    <3>4. T[q].slot[j].data = S[q].slot[j].data
      <4>1. CASE q = p
        <5>1. j # i
          BY <2>2, <3>3, <4>1
        <5> QED BY <1>0, <1>2, <4>1, <5>1
      <4>2. CASE q # p
        BY <1>2, <4>2
      <4> QED BY <4>1, <4>2
    <3> QED BY <1>2, <1>3, <3>3, <3>4 DEF InSlot
  <2> QED BY <2>1, <2>2
<1>7. SlabsOK(T, M)
  BY <1>1, <1>2, <1>5, <1>6 DEF SlabsOK
<1> QED BY <1>2, <1>3, <1>7 DEF Served

(* The first free slot of page p is given to a client, who writes it.      *)
GivenPage(s, v) ==
    [s EXCEPT !.free_head = s.slot[s.free_head].nxt, !.free_count = @ - 1,
              !.slot[s.free_head] = [nxt |-> 0, data |-> v]]
TakenBack(s, i) ==
    [s EXCEPT !.free_head = i, !.free_count = @ + 1,
              !.slot[i] = [nxt |-> s.free_head, data |-> Link]]

PageShape(s) ==
    s = [class |-> s.class, free_head |-> s.free_head, free_count |-> s.free_count,
         next_slab |-> s.next_slab, slot |-> s.slot]

LEMMA PageFields ==
    ASSUME NEW c, NEW s \in SlabPage(c)
    PROVE  PageShape(s)
<1> DEFINE A == SlotsOf(c) \cup {NIL}
           B == 0 .. NumSlots(c)
           D == [SlotsOf(c) -> [nxt: 0 .. NIL, data: Values \cup {Zero, Link}]]
<1>1. s \in [class: {c}, free_head: A, free_count: B, next_slab: Nat, slot: D]
  BY DEF SlabPage
<1> HIDE DEF A, B, D
<1> QED BY <1>1 DEF PageShape

(* What an update of the head, the count and a slot does to a page.        *)
Updated(s, x, y, b, w) ==
    [s EXCEPT !.free_head = x, !.free_count = y, !.slot[b] = w]

LEMMA PageChanged ==
    ASSUME NEW s, PageShape(s), NEW x, NEW y, NEW b, NEW w, NEW t, t = Updated(s, x, y, b, w)
    PROVE  /\ PageShape(t) /\ t.class = s.class /\ t.next_slab = s.next_slab
           /\ t.free_head = x /\ t.free_count = y /\ t.slot = [s.slot EXCEPT ![b] = w]
<1> DEFINE Fields == {"class", "free_head", "free_count", "next_slab", "slot"}
<1>1. DOMAIN s = Fields /\ s = [z \in Fields |-> s[z]]
  BY DEF PageShape
<1>2. t = [z \in Fields |-> t[z]] /\ t.class = s.class /\ t.next_slab = s.next_slab
      /\ t.free_head = x /\ t.free_count = y /\ t.slot = [s.slot EXCEPT ![b] = w]
  BY <1>1 DEF Updated
<1>3. PageShape(t)
  BY <1>2 DEF PageShape
<1> QED BY <1>2, <1>3

LEMMA GivenFields ==
    ASSUME NEW s, PageShape(s), NEW v, NEW i, i = s.free_head
    PROVE  LET t == GivenPage(s, v) IN
             /\ PageShape(t) /\ t.class = s.class /\ t.next_slab = s.next_slab
             /\ t.free_head = s.slot[i].nxt /\ t.free_count = s.free_count - 1
             /\ t.slot = [s.slot EXCEPT ![i] = [nxt |-> 0, data |-> v]]
<1> DEFINE t == GivenPage(s, v)
           x == s.slot[i].nxt
           y == s.free_count - 1
           w == [nxt |-> 0, data |-> v]
<1>1. t = Updated(s, x, y, i, w)
  BY DEF GivenPage, Updated
<1> HIDE DEF t, x, y, w
<1>2. /\ PageShape(t) /\ t.class = s.class /\ t.next_slab = s.next_slab
      /\ t.free_head = x /\ t.free_count = y /\ t.slot = [s.slot EXCEPT ![i] = w]
  BY <1>1, PageChanged
<1> QED BY <1>2 DEF t, x, y, w

LEMMA SlotGranted ==
    ASSUME HeapAssumption, NEW S, NEW L, SlabsOK(S, L), NEW p \in DOMAIN S, S[p].free_count > 0,
           NEW w \in Nat, w <= S[p].class, NEW v \in Values,
           NEW i, i = S[p].free_head, NEW T, T = [S EXCEPT ![p] = GivenPage(S[p], v)]
    PROVE  /\ i \in Nat /\ \A r \in L : r.ptr # SlabPtr(p, i)
           /\ Served(S, T, L \cup {Granted(SlabPtr(p, i), w, v)})
<1> DEFINE s == S[p]
           F == Spare(p, S, L)
           t == GivenPage(s, v)
           e == Granted(SlabPtr(p, i), w, v)
           M == L \cup {e}
<1>1. /\ PageOK(s) /\ Listed(s, F) /\ p \in PageAddrs /\ s.class \in Classes
      /\ s \in SlabPage(s.class)
  BY DEF SlabsOK, PageOK
<1>2. i \in F /\ i \in SlotsOf(s.class) /\ i \in Nat
  <2>1. i \in F /\ i \in SlotsOf(s.class)
    BY <1>1, FirstFree
  <2> QED BY <1>1, <2>1, SlotCount DEF SlotsOf
<1>3. \A r \in L : r.ptr # SlabPtr(p, i)
  BY <1>2 DEF Spare, Held
<1>4. /\ t.class = s.class /\ t.next_slab = s.next_slab /\ t.free_head = s.slot[i].nxt
      /\ t.free_count = s.free_count - 1 /\ t.slot = [s.slot EXCEPT ![i] = [nxt |-> 0, data |-> v]]
      /\ PageShape(t)
  <2>1. PageShape(s)
    BY <1>1, PageFields
  <2>2. i = s.free_head
    OBVIOUS
  <2> HIDE DEF s, F, e, M
  <2> QED BY <2>1, <2>2, GivenFields
<1> HIDE DEF t
<1>5. /\ s.slot \in [SlotsOf(s.class) -> [nxt: 0 .. NIL, data: Values \cup {Zero, Link}]]
      /\ s.next_slab \in Nat
  BY <1>1 DEF SlabPage
<1>6. /\ t.slot \in [SlotsOf(s.class) -> [nxt: 0 .. NIL, data: Values \cup {Zero, Link}]]
      /\ t.slot[i].data = v
      /\ \A j \in SlotsOf(s.class) \ {i} : t.slot[j] = s.slot[j]
  <2>1. [nxt |-> 0, data |-> v] \in [nxt: 0 .. NIL, data: Values \cup {Zero, Link}]
    BY <1>1, SlotCount
  <2> QED BY <1>2, <1>4, <1>5, <2>1
<1>7. Listed(t, F \ {i})
  <2>1. \A j \in F \ {i} : t.slot[j].nxt = s.slot[j].nxt
    BY <1>6 DEF Spare
  <2> HIDE DEF F
  <2> QED BY <1>1, <1>4, <2>1, PopList
<1>8. PageOK(t)
  <2>1. t.class \in Classes /\ t.free_head \in SlotsOf(s.class) \cup {NIL}
        /\ t.free_count \in 0 .. NumSlots(s.class)
    <3> HIDE DEF F
    <3> QED BY <1>1, <1>4, <1>7, HeadOf
  <2>2. t \in SlabPage(s.class)
    BY <1>4, <1>5, <1>6, <2>1 DEF SlabPage, PageShape
  <2> QED BY <1>4, <2>1, <2>2 DEF PageOK
<1>9. e.ptr = SlabPtr(p, i) /\ e.len = w /\ e.val = v
  BY DEF Granted
<1> HIDE DEF e
<1>10. T = [S EXCEPT ![p] = t] /\ T[p] = t
  BY DEF t, SlabsOK
<1>11. Spare(p, T, M) = F \ {i}
  <2>1. \A j \in Nat : SlabPtr(p, j) = SlabPtr(p, i) <=> j = i
    BY DEF SlabPtr
  <2>2. \A j \in SlotsOf(s.class) : j \in Nat
    BY <1>1, SlotCount DEF SlotsOf
  <2>3. \A j \in SlotsOf(s.class) :
           (\E r \in M : r.ptr = SlabPtr(p, j)) <=> j = i \/ (\E r \in L : r.ptr = SlabPtr(p, j))
    BY <1>9, <2>1, <2>2
  <2> HIDE DEF M
  <2> QED BY <1>2, <1>4, <1>10, <2>3 DEF Spare, Held
<1>12. InSlot(T, e)
  <2>1. p \in DOMAIN T /\ i \in SlotsOf(T[p].class) /\ w <= T[p].class /\ T[p].slot[i].data = v
    BY <1>2, <1>4, <1>6, <1>10
  <2> QED BY <1>9, <2>1 DEF InSlot
<1>13. \A r \in (L \ M) \cup (M \ L) : r.ptr = SlabPtr(p, i)
  BY <1>9
<1>14. \A r \in M : r.ptr = SlabPtr(p, i) => InSlot(T, r)
  BY <1>3, <1>12
<1>15. Served(S, T, M)
  <2>1. /\ i \in SlotsOf(S[p].class) /\ t.class = S[p].class /\ t.next_slab = S[p].next_slab
        /\ \A j \in SlotsOf(S[p].class) \ {i} : t.slot[j].data = S[p].slot[j].data
        /\ Listed(t, Spare(p, T, M))
    BY <1>2, <1>4, <1>6, <1>7, <1>11
  <2> HIDE DEF M, F, s
  <2>2. OnePage(S, L, T, M, p, i, t)
    BY <1>8, <1>10, <1>13, <1>14, <2>1 DEF OnePage
  <2> QED BY <2>2, OnePageChanged
<1> QED BY <1>2, <1>3, <1>15 DEF e, M

LEMMA BackFields ==
    ASSUME NEW s, PageShape(s), NEW i
    PROVE  LET t == TakenBack(s, i) IN
             /\ PageShape(t) /\ t.class = s.class /\ t.next_slab = s.next_slab
             /\ t.free_head = i /\ t.free_count = s.free_count + 1
             /\ t.slot = [s.slot EXCEPT ![i] = [nxt |-> s.free_head, data |-> Link]]
<1> DEFINE t == TakenBack(s, i)
           y == s.free_count + 1
           w == [nxt |-> s.free_head, data |-> Link]
<1>1. t = Updated(s, i, y, i, w)
  BY DEF TakenBack, Updated
<1> HIDE DEF t, y, w
<1>2. /\ PageShape(t) /\ t.class = s.class /\ t.next_slab = s.next_slab
      /\ t.free_head = i /\ t.free_count = y /\ t.slot = [s.slot EXCEPT ![i] = w]
  BY <1>1, PageChanged
<1> QED BY <1>2 DEF t, y, w

(* A slot comes back from its client.                                      *)
LEMMA SlotReleased ==
    ASSUME HeapAssumption, NEW S, NEW L, SlabsOK(S, L), Distinct(L), NEW p \in DOMAIN S,
           NEW i \in SlotsOf(S[p].class), NEW r \in L, r.ptr = SlabPtr(p, i),
           NEW T, T = [S EXCEPT ![p] = TakenBack(S[p], i)]
    PROVE  Served(S, T, L \ {r})
<1> DEFINE s == S[p]
           F == Spare(p, S, L)
           t == TakenBack(s, i)
           M == L \ {r}
<1>1. /\ PageOK(s) /\ Listed(s, F) /\ s.class \in Classes /\ s \in SlabPage(s.class)
  BY DEF SlabsOK, PageOK
<1>2. i \notin F /\ i \in Nat /\ SlotsOf(s.class) \subseteq Nat
  <2>1. i \notin F
    BY DEF Spare, Held
  <2> QED BY <1>1, <2>1, SlotCount DEF SlotsOf
<1>3. \A q \in L : q.ptr = SlabPtr(p, i) => q = r
  BY DEF Distinct
<1>4. /\ PageShape(t) /\ t.class = s.class /\ t.next_slab = s.next_slab
      /\ t.free_head = i /\ t.free_count = s.free_count + 1
      /\ t.slot = [s.slot EXCEPT ![i] = [nxt |-> s.free_head, data |-> Link]]
  <2>1. PageShape(s)
    BY <1>1, PageFields
  <2> HIDE DEF s, F, M
  <2> QED BY <2>1, BackFields
<1> HIDE DEF t
<1>5. /\ s.slot \in [SlotsOf(s.class) -> [nxt: 0 .. NIL, data: Values \cup {Zero, Link}]]
      /\ s.next_slab \in Nat /\ s.free_head \in SlotsOf(s.class) \cup {NIL}
  BY <1>1 DEF SlabPage
<1>6. /\ t.slot \in [SlotsOf(s.class) -> [nxt: 0 .. NIL, data: Values \cup {Zero, Link}]]
      /\ t.slot[i].nxt = s.free_head
      /\ \A j \in SlotsOf(s.class) \ {i} : t.slot[j] = s.slot[j]
  <2>1. s.free_head \in 0 .. NIL
    BY <1>1, <1>5, SlotCount DEF SlotsOf
  <2>2. [nxt |-> s.free_head, data |-> Link] \in [nxt: 0 .. NIL, data: Values \cup {Zero, Link}]
    BY <2>1
  <2> QED BY <1>4, <1>5, <2>2
<1>7. Listed(t, F \cup {i})
  <2>1. \A j \in F : t.slot[j].nxt = s.slot[j].nxt
    BY <1>2, <1>6 DEF Spare
  <2>2. i \in SlotsOf(s.class) /\ i \notin F
    BY <1>2
  <2>3. /\ t.class = s.class /\ t.free_head = i /\ t.free_count = s.free_count + 1
        /\ t.slot[i].nxt = s.free_head
    BY <1>4, <1>6
  <2> HIDE DEF F, s, M
  <2> QED BY <1>1, <2>1, <2>2, <2>3, PushList
<1>8. PageOK(t)
  <2>1. t.class \in Classes /\ t.free_head \in SlotsOf(s.class) \cup {NIL}
        /\ t.free_count \in 0 .. NumSlots(s.class)
    <3> HIDE DEF F
    <3> QED BY <1>1, <1>4, <1>7, HeadOf
  <2>2. t \in SlabPage(s.class)
    BY <1>4, <1>5, <1>6, <2>1 DEF SlabPage, PageShape
  <2> QED BY <1>4, <2>1, <2>2 DEF PageOK
<1>9. T = [S EXCEPT ![p] = t] /\ T[p] = t
  BY DEF t, SlabsOK
<1>10. Spare(p, T, M) = F \cup {i}
  <2>1. \A j \in Nat : SlabPtr(p, j) = SlabPtr(p, i) <=> j = i
    BY DEF SlabPtr
  <2>2. \A j \in SlotsOf(s.class) :
           (\E q \in M : q.ptr = SlabPtr(p, j)) <=> j # i /\ (\E q \in L : q.ptr = SlabPtr(p, j))
    BY <1>2, <1>3, <2>1
  <2> HIDE DEF M
  <2> QED BY <1>2, <1>4, <1>9, <2>2 DEF Spare, Held
<1>11. OnePage(S, L, T, M, p, i, t)
  <2>1. /\ \A q \in (L \ M) \cup (M \ L) : q.ptr = SlabPtr(p, i)
        /\ \A q \in M : q.ptr = SlabPtr(p, i) => InSlot(T, q)
    BY <1>3
  <2>2. /\ t.class = S[p].class /\ t.next_slab = S[p].next_slab
        /\ \A j \in SlotsOf(S[p].class) \ {i} : t.slot[j].data = S[p].slot[j].data
        /\ Listed(t, Spare(p, T, M))
    BY <1>4, <1>6, <1>7, <1>10
  <2> HIDE DEF M, F, s
  <2> QED BY <1>8, <1>9, <2>1, <2>2 DEF OnePage
<1>12. Served(S, T, M)
  BY <1>11, OnePageChanged
<1> QED BY <1>12 DEF M

(* A new page of free slots becomes the first of its class.                *)
WithPage(S, C, c, p) ==
    [q \in DOMAIN S \cup {p} |-> IF q = p THEN slab_page_init(c, C[c]) ELSE S[q]]
Opened(T, D, L, p, c) ==
    /\ SlabsOK(T, L) /\ Chained(T, D) /\ D \in [Classes -> PageAddrs \cup {0}]
    /\ p \in DOMAIN T /\ T[p].class = c /\ T[p].free_count > 0

LEMMA PageAdded ==
    ASSUME HeapAssumption, NEW S, NEW L, NEW C, SlabsOK(S, L), Chained(S, C),
           C \in [Classes -> PageAddrs \cup {0}], NEW c \in Classes, NEW p \in PageAddrs \ DOMAIN S
    PROVE  Opened(WithPage(S, C, c, p), [C EXCEPT ![c] = p], L, p, c)
<1> DEFINE t == slab_page_init(c, C[c])
           T == WithPage(S, C, c, p)
           D == [C EXCEPT ![c] = p]
<1>1. /\ S = [q \in DOMAIN S |-> S[q]] /\ DOMAIN S \subseteq PageAddrs
      /\ \A q \in DOMAIN S : PageOK(S[q]) /\ Listed(S[q], Spare(q, S, L))
      /\ \A r \in L : ~IsBlock(r.ptr) => InSlot(S, r)
  BY DEF SlabsOK
<1>2. C[c] \in Nat
  <2>1. C[c] \in PageAddrs \cup {0}
    OBVIOUS
  <2>2. PageAddrs \cup {0} \subseteq Nat
    BY DEF HeapAssumption
  <2> HIDE DEF t, T, D
  <2> QED BY ONLY <2>1, <2>2
<1>3. /\ PageOK(t) /\ Listed(t, SlotsOf(c)) /\ t.class = c /\ t.next_slab = C[c]
      /\ t.free_count > 0
  <2> HIDE DEF T, D
  <2> QED BY <1>2, FreshList
<1>4. /\ T = [q \in DOMAIN T |-> T[q]] /\ DOMAIN T = DOMAIN S \cup {p} /\ T[p] = t
      /\ \A q \in DOMAIN S : T[q] = S[q]
  BY DEF WithPage
<1> HIDE DEF t, T
<1>5. D \in [Classes -> PageAddrs \cup {0}]
  OBVIOUS
<1>6. Chained(T, D)
  <2>1. DOMAIN C = Classes
    OBVIOUS
  <2>2. T[p].class = c /\ T[p].next_slab = C[c]
    BY <1>3, <1>4
  <2> QED BY <1>4, <2>1, <2>2, ChainGrows
<1> HIDE DEF D
<1>7. \A i \in SlotsOf(c) : \A r \in L : r.ptr # SlabPtr(p, i)
  <2>1. SUFFICES ASSUME NEW i \in SlotsOf(c), NEW r \in L, r.ptr = SlabPtr(p, i) PROVE FALSE
    OBVIOUS
  <2>2. p # 0
    BY DEF HeapAssumption
  <2>3. ~IsBlock(r.ptr)
    BY <2>1, <2>2 DEF IsBlock, SlabPtr
  <2>4. PICK q \in DOMAIN S : \E j \in SlotsOf(S[q].class) : r.ptr = SlabPtr(q, j)
    BY <1>1, <2>3 DEF InSlot
  <2> QED BY <2>1, <2>4 DEF SlabPtr
<1>8. Spare(p, T, L) = SlotsOf(c)
  BY <1>3, <1>4, <1>7 DEF Spare, Held
<1>9. \A q \in DOMAIN S : Spare(q, T, L) = Spare(q, S, L)
  BY <1>4 DEF Spare
<1>10. ASSUME NEW q \in DOMAIN T PROVE PageOK(T[q]) /\ Listed(T[q], Spare(q, T, L))
  <2>1. CASE q = p
    BY <1>3, <1>4, <1>8, <2>1
  <2>2. CASE q # p
    BY <1>1, <1>4, <1>9, <2>2
  <2> QED BY <2>1, <2>2
<1>11. \A r \in L : ~IsBlock(r.ptr) => InSlot(T, r)
  BY <1>1, <1>4 DEF InSlot
<1>12. SlabsOK(T, L)
  BY <1>1, <1>4, <1>10, <1>11 DEF SlabsOK
<1>13. Opened(T, D, L, p, c)
  BY <1>3, <1>4, <1>5, <1>6, <1>12 DEF Opened
<1> QED BY <1>13 DEF T, D

-----------------------------------------------------------------------------
(* What the updates of one page in the heap do to the pages.               *)
HeapShape(h) == h = [mem |-> h.mem, slabs |-> h.slabs, cache |-> h.cache]
UpdatedAt(h, p, x, y, i, w) ==
    [h EXCEPT !.slabs[p].free_head = x, !.slabs[p].free_count = y, !.slabs[p].slot[i] = w]
Function(S) == S = [q \in DOMAIN S |-> S[q]]
WithSlab(h, p, t) == [h EXCEPT !.slabs = [h.slabs EXCEPT ![p] = t]]

LEMMA AtPage ==
    ASSUME NEW h, HeapShape(h), Function(h.slabs), NEW p, p \in DOMAIN h.slabs,
           NEW x, NEW y, NEW i, NEW w
    PROVE  UpdatedAt(h, p, x, y, i, w) = WithSlab(h, p, Updated(h.slabs[p], x, y, i, w))
<1> DEFINE S == h.slabs
<1>0. S = [q \in DOMAIN S |-> S[q]]
  BY DEF Function
<1> DEFINE s == [S[p] EXCEPT !.free_head = x, !.free_count = y]
           B == [S EXCEPT ![p] = s]
           g == [h EXCEPT !.slabs = B]
<1>1. [h EXCEPT !.slabs[p].free_head = x, !.slabs[p].free_count = y] = g
  BY <1>0 DEF HeapShape
<1>2. UpdatedAt(h, p, x, y, i, w) = [g EXCEPT !.slabs[p].slot[i] = w]
  <2>1. UpdatedAt(h, p, x, y, i, w)
          = [[h EXCEPT !.slabs[p].free_head = x, !.slabs[p].free_count = y]
             EXCEPT !.slabs[p].slot[i] = w]
    BY DEF UpdatedAt
  <2> HIDE DEF g
  <2> QED BY <1>1, <2>1
<1>3. /\ B = [q \in DOMAIN S |-> B[q]] /\ DOMAIN B = DOMAIN S /\ B[p] = s
      /\ HeapShape(g) /\ g.slabs = B
  BY <1>0 DEF HeapShape
<1>4. Updated(S[p], x, y, i, w) = [s EXCEPT !.slot[i] = w]
  BY DEF Updated
<1>5. g = [h EXCEPT !.slabs = B]
  OBVIOUS
<1>6. B = [S EXCEPT ![p] = s]
  OBVIOUS
<1> HIDE DEF s, B, g
<1>7. [g EXCEPT !.slabs[p].slot[i] = w]
        = [g EXCEPT !.slabs = [B EXCEPT ![p] = [s EXCEPT !.slot[i] = w]]]
  BY <1>3 DEF HeapShape
<1>8. [B EXCEPT ![p] = [s EXCEPT !.slot[i] = w]] = [S EXCEPT ![p] = [s EXCEPT !.slot[i] = w]]
  BY <1>6
<1>9. ASSUME NEW A PROVE [g EXCEPT !.slabs = A] = [h EXCEPT !.slabs = A]
  BY <1>5 DEF HeapShape
<1> QED BY <1>2, <1>4, <1>7, <1>8, <1>9 DEF WithSlab

LEMMA ZeroWritten ==
    ASSUME NEW s, PageShape(s), NEW i, i = s.free_head, i \in DOMAIN s.slot,
           s.slot = [j \in DOMAIN s.slot |-> s.slot[j]], NEW v
    PROVE  [GivenPage(s, Zero) EXCEPT !.slot[i].data = v] = GivenPage(s, v)
<1> DEFINE g == GivenPage(s, Zero)
           k == GivenPage(s, v)
           m == [g EXCEPT !.slot[i].data = v]
<1>1. /\ PageShape(g) /\ g.class = s.class /\ g.next_slab = s.next_slab
      /\ g.free_head = s.slot[i].nxt /\ g.free_count = s.free_count - 1
      /\ g.slot = [s.slot EXCEPT ![i] = [nxt |-> 0, data |-> Zero]]
  BY GivenFields
<1>2. /\ PageShape(k) /\ k.class = s.class /\ k.next_slab = s.next_slab
      /\ k.free_head = s.slot[i].nxt /\ k.free_count = s.free_count - 1
      /\ k.slot = [s.slot EXCEPT ![i] = [nxt |-> 0, data |-> v]]
  BY GivenFields
<1> HIDE DEF g, k
<1>3. /\ PageShape(m) /\ m.class = g.class /\ m.next_slab = g.next_slab
      /\ m.free_head = g.free_head /\ m.free_count = g.free_count
      /\ m.slot = [g.slot EXCEPT ![i].data = v]
  BY <1>1 DEF PageShape
<1> HIDE DEF m
<1>4. [g.slot EXCEPT ![i].data = v] = k.slot
  <2>1. g.slot = [g.slot EXCEPT ![i] = [nxt |-> 0, data |-> Zero]]
    BY <1>1
  <2>2. [[nxt |-> 0, data |-> Zero] EXCEPT !.data = v] = [nxt |-> 0, data |-> v]
    OBVIOUS
  <2> QED BY <1>1, <1>2, <2>1, <2>2
<1> QED BY <1>1, <1>2, <1>3, <1>4 DEF PageShape, g, k, m

LEMMA Popped ==
    ASSUME NEW h, HeapShape(h), NEW S, S = h.slabs, S = [q \in DOMAIN S |-> S[q]],
           NEW p \in DOMAIN S, p # 0, PageShape(S[p]), NEW i, i = S[p].free_head,
           i \in DOMAIN S[p].slot, S[p].slot = [j \in DOMAIN S[p].slot |-> S[p].slot[j]],
           NEW w, NEW v
    PROVE  /\ Pop(h, p).ptr = SlabPtr(p, i)
           /\ Written(Pop(h, p).heap, SlabPtr(p, i), w, v) = WithSlab(h, p, GivenPage(S[p], v))
<1> DEFINE s == S[p]
           g == GivenPage(s, Zero)
           B == [S EXCEPT ![p] = g]
           k == [h EXCEPT !.slabs = B]
<1>1. Pop(h, p).ptr = SlabPtr(p, i)
  BY DEF Pop
<1>2. Pop(h, p).heap = k
  <2> DEFINE x == h.slabs[p].slot[h.slabs[p].free_head].nxt
             y == h.slabs[p].free_count - 1
             j == h.slabs[p].free_head
             e == [nxt |-> 0, data |-> Zero]
  <2>1. Pop(h, p).heap = UpdatedAt(h, p, x, y, j, e)
    BY DEF Pop, UpdatedAt
  <2>2. g = Updated(S[p], x, y, j, e)
    BY DEF GivenPage, Updated
  <2> HIDE DEF g, x, y, j, e
  <2>3. UpdatedAt(h, p, x, y, j, e) = WithSlab(h, p, Updated(h.slabs[p], x, y, j, e))
    BY AtPage DEF Function
  <2> QED BY <2>1, <2>2, <2>3 DEF WithSlab
<1>3. Written(k, SlabPtr(p, i), w, v) = [k EXCEPT !.slabs[p].slot[i].data = v]
  <2> HIDE DEF k
  <2> QED BY DEF Written, SlabPtr, IsBlock
<1>4. /\ HeapShape(k) /\ k.slabs = B /\ B = [q \in DOMAIN B |-> B[q]] /\ DOMAIN B = DOMAIN S
      /\ B[p] = g
  <2> HIDE DEF g
  <2> QED BY DEF HeapShape
<1>5. [g EXCEPT !.slot[i].data = v] = GivenPage(s, v)
  <2> HIDE DEF k, B, g
  <2> QED BY ZeroWritten DEF g
<1>6. k = [h EXCEPT !.slabs = B] /\ B = [S EXCEPT ![p] = g]
  OBVIOUS
<1> HIDE DEF s, g, B, k
<1>7. [k EXCEPT !.slabs[p].slot[i].data = v]
        = [k EXCEPT !.slabs = [B EXCEPT ![p] = [g EXCEPT !.slot[i].data = v]]]
  BY <1>4 DEF HeapShape
<1> DEFINE E == [B EXCEPT ![p] = [g EXCEPT !.slot[i].data = v]]
           A == [S EXCEPT ![p] = GivenPage(s, v)]
<1>8. E = A
  BY <1>5, <1>6
<1>9. Written(k, SlabPtr(p, i), w, v) = [k EXCEPT !.slabs = E]
  BY <1>3, <1>7
<1> HIDE DEF E, A
<1>10. [k EXCEPT !.slabs = A] = [h EXCEPT !.slabs = A]
  BY <1>6 DEF HeapShape
<1>11. Written(k, SlabPtr(p, i), w, v) = [h EXCEPT !.slabs = A]
  BY <1>8, <1>9, <1>10
<1> QED BY <1>1, <1>2, <1>11 DEF s, A, WithSlab

LEMMA Unpopped ==
    ASSUME NEW h, HeapShape(h), Function(h.slabs), NEW p, p \in DOMAIN h.slabs, NEW i
    PROVE  slab_free(h, SlabPtr(p, i)) = WithSlab(h, p, TakenBack(h.slabs[p], i))
<1> DEFINE y == h.slabs[p].free_count + 1
           e == [nxt |-> h.slabs[p].free_head, data |-> Link]
<1>1. slab_free(h, SlabPtr(p, i)) = UpdatedAt(h, p, i, y, i, e)
  BY DEF slab_free, UpdatedAt, SlabPtr
<1>2. TakenBack(h.slabs[p], i) = Updated(h.slabs[p], i, y, i, e)
  BY DEF TakenBack, Updated
<1> HIDE DEF y, e
<1>3. UpdatedAt(h, p, i, y, i, e) = WithSlab(h, p, Updated(h.slabs[p], i, y, i, e))
  BY AtPage
<1> QED BY <1>1, <1>2, <1>3

(* A step of one slot, in the whole heap.                                  *)
LEMMA SlotStep ==
    ASSUME HeapAssumption, NEW h, NEW L, Good(h, L), NEW p \in DOMAIN h.slabs, NEW t, NEW M,
           Served(h.slabs, [h.slabs EXCEPT ![p] = t], M), Distinct(M),
           \A r : IsBlock(r.ptr) => (r \in L <=> r \in M)
    PROVE  Good(WithSlab(h, p, t), M)
<1> DEFINE T == [h.slabs EXCEPT ![p] = t]
           k == WithSlab(h, p, t)
<1>1. /\ HeapShape(h) /\ h.cache \in [Classes -> PageAddrs \cup {0}]
      /\ BlocksOK(h.mem, L) /\ Chained(h.slabs, h.cache)
  BY DEF Good, HeapShape
<1>2. HeapShape(k) /\ k.mem = h.mem /\ k.cache = h.cache /\ k.slabs = T
  BY <1>1 DEF WithSlab, HeapShape
<1> HIDE DEF T, k
<1>3. /\ SlabsOK(T, M) /\ DOMAIN T = DOMAIN h.slabs
      /\ \A q \in DOMAIN h.slabs : /\ T[q].class = h.slabs[q].class
                                   /\ T[q].next_slab = h.slabs[q].next_slab
  BY DEF Served, T
<1>4. Chained(T, h.cache)
  BY <1>1, <1>3, SameChains
<1>5. BlocksOK(h.mem, M)
  BY <1>1, BlocksApart
<1>6. Good(k, M)
  BY <1>1, <1>2, <1>3, <1>4, <1>5 DEF Good, HeapShape
<1> QED BY <1>6 DEF k

Grants(k, ptr, L, w, v) ==
    /\ ptr \in (PageAddrs \cup {0}) \X Nat
    /\ \A r \in L : r.ptr # ptr
    /\ Good(k, L \cup {Granted(ptr, w, v)})

LEMMA OneMore ==
    ASSUME NEW L, Distinct(L), NEW ptr \in (PageAddrs \cup {0}) \X Nat, \A r \in L : r.ptr # ptr,
           NEW w \in Nat, NEW v \in Values
    PROVE  Distinct(L \cup {Granted(ptr, w, v)})
<1>1. /\ Granted(ptr, w, v) \in [ptr: (PageAddrs \cup {0}) \X Nat, len: Nat, val: Values]
      /\ Granted(ptr, w, v).ptr = ptr
  BY DEF Granted
<1> QED BY <1>1 DEF Distinct

LEMMA OneLess ==
    ASSUME NEW L, Distinct(L), NEW r
    PROVE  Distinct(L \ {r})
BY DEF Distinct

LEMMA PopGrants ==
    ASSUME HeapAssumption, NEW h, NEW L, Good(h, L), NEW p \in DOMAIN h.slabs,
           h.slabs[p].free_count > 0, NEW w \in Nat, w <= h.slabs[p].class, NEW v \in Values
    PROVE  LET o == Pop(h, p)
           IN  ~IsBlock(o.ptr) /\ Grants(Written(o.heap, o.ptr, w, v), o.ptr, L, w, v)
<1> DEFINE S == h.slabs
           i == S[p].free_head
           ptr == SlabPtr(p, i)
           T == [S EXCEPT ![p] = GivenPage(S[p], v)]
           e == Granted(ptr, w, v)
<1>1. HeapShape(h) /\ SlabsOK(S, L) /\ Distinct(L)
  BY DEF Good, HeapShape
<1>2. /\ Function(S) /\ DOMAIN S \subseteq PageAddrs /\ PageOK(S[p])
      /\ Listed(S[p], Spare(p, S, L))
  BY <1>1 DEF SlabsOK, Function
<1>3. /\ PageShape(S[p]) /\ S[p].class \in Classes
      /\ S[p].slot \in [SlotsOf(S[p].class) -> [nxt: 0 .. NIL, data: Values \cup {Zero, Link}]]
  <2>1. S[p].class \in Classes /\ S[p] \in SlabPage(S[p].class)
    BY <1>2 DEF PageOK
  <2>2. PageShape(S[p])
    BY <2>1, PageFields
  <2> QED BY <2>1, <2>2 DEF SlabPage
<1>4. i \in SlotsOf(S[p].class)
  <2> DEFINE s == S[p]
             F == Spare(p, S, L)
  <2>1. Listed(s, F) /\ s.free_count > 0
    BY <1>2
  <2>2. F \subseteq SlotsOf(s.class)
    BY DEF Spare
  <2> HIDE DEF s, F
  <2>3. s.free_head \in F
    BY <1>2, <2>1, FirstFree DEF s, PageOK
  <2> QED BY <2>2, <2>3 DEF s
<1>5. p # 0 /\ p \in PageAddrs
  BY <1>2 DEF HeapAssumption
<1> HIDE DEF T, e
<1>6. i \in Nat /\ (\A r \in L : r.ptr # ptr) /\ Served(S, T, L \cup {e})
  <2> HIDE DEF S
  <2> QED BY <1>1, SlotGranted DEF T, e, S
<1>7. ~IsBlock(ptr) /\ ptr \in (PageAddrs \cup {0}) \X Nat
  BY <1>5, <1>6, Pointers
<1>8. Distinct(L \cup {e})
  BY <1>1, <1>6, <1>7, OneMore DEF e
<1>9. \A r : IsBlock(r.ptr) => (r \in L <=> r \in L \cup {e})
  BY <1>7 DEF e, Granted
<1>10. Good(WithSlab(h, p, GivenPage(S[p], v)), L \cup {e})
  BY <1>6, <1>8, <1>9, SlotStep DEF T
<1>11. /\ Pop(h, p).ptr = ptr
       /\ Written(Pop(h, p).heap, ptr, w, v) = WithSlab(h, p, GivenPage(S[p], v))
  <2>1. i \in DOMAIN S[p].slot /\ S[p].slot = [j \in DOMAIN S[p].slot |-> S[p].slot[j]]
    BY <1>3, <1>4
  <2> QED BY <1>1, <1>2, <1>3, <1>5, <2>1, Popped DEF Function
<1> QED BY <1>6, <1>7, <1>10, <1>11 DEF Grants, e

-----------------------------------------------------------------------------
(* A new page, in the whole heap.                                          *)
WithNewPage(h, c, p) ==
    [h EXCEPT !.cache[c] = p,
              !.slabs = [q \in DOMAIN @ \cup {p} |->
                           IF q = p THEN slab_page_init(c, h.cache[c] % WORD) ELSE @[q]]]

LEMMA NewPage ==
    ASSUME HeapAssumption, Clean, NEW h, NEW L, Good(h, L), NEW c \in Classes,
           NEW p \in PageAddrs \ DOMAIN h.slabs
    PROVE  LET k == WithNewPage(h, c, p)
           IN  /\ Good(k, L) /\ p \in DOMAIN k.slabs /\ k.slabs[p].class = c
               /\ k.slabs[p].free_count > 0
<1> DEFINE k == WithNewPage(h, c, p)
           T == WithPage(h.slabs, h.cache, c, p)
           D == [h.cache EXCEPT ![c] = p]
<1>1. /\ HeapShape(h) /\ h.cache \in [Classes -> PageAddrs \cup {0}]
      /\ BlocksOK(h.mem, L) /\ SlabsOK(h.slabs, L) /\ Chained(h.slabs, h.cache) /\ Distinct(L)
  BY DEF Good, HeapShape
<1>2. h.cache[c] % WORD = h.cache[c]
  <2>1. h.cache[c] \in PageAddrs \cup {0}
    BY <1>1
  <2>2. PageAddrs \cup {0} \subseteq 0 .. WORD - 1 /\ WORD \in Nat \ {0}
    BY DEF Clean, HeapAssumption
  <2> HIDE DEF k, T, D
  <2> QED BY ONLY <2>1, <2>2
<1>3. HeapShape(k) /\ k.mem = h.mem /\ k.cache = D /\ k.slabs = T
  <2> DEFINE A == [q \in DOMAIN h.slabs \cup {p} |->
                     IF q = p THEN slab_page_init(c, h.cache[c] % WORD) ELSE h.slabs[q]]
  <2>1. A = T
    BY <1>2 DEF WithPage
  <2>2. k = [h EXCEPT !.cache[c] = p, !.slabs = A]
    BY DEF WithNewPage
  <2> HIDE DEF A, T, k
  <2>3. HeapShape(k) /\ k.mem = h.mem /\ k.cache = D /\ k.slabs = A
    BY <1>1, <2>2 DEF HeapShape
  <2> QED BY <2>1, <2>3
<1> HIDE DEF k, T, D
<1>4. Opened(T, D, L, p, c)
  BY <1>1, PageAdded DEF T, D
<1>5. Good(k, L)
  BY <1>1, <1>3, <1>4 DEF Opened, Good, HeapShape
<1> QED BY <1>3, <1>4, <1>5 DEF Opened, k

(* slab_alloc: a slot of a page of the class, or a new page's.             *)
LEMMA SlabGrants ==
    ASSUME HeapAssumption, Clean, NEW h, NEW L, Good(h, L), NEW c \in Classes,
           NEW p \in {0} \cup (PageAddrs \ DOMAIN h.slabs), NEW w \in Nat, w <= c, NEW v \in Values,
           NEW o, o = slab_alloc(h, c, p), o.ptr # Null
    PROVE  ~IsBlock(o.ptr) /\ Grants(Written(o.heap, o.ptr, w, v), o.ptr, L, w, v)
<1> DEFINE chain == Chain(h, c)
           open == {k \in DOMAIN chain : h.slabs[chain[k]].free_count > 0}
           grown == WithNewPage(h, c, p)
           Done(q) == ~IsBlock(q.ptr) /\ Grants(Written(q.heap, q.ptr, w, v), q.ptr, L, w, v)
<1>1. o = IF open # {} THEN Pop(h, chain[Min(open)])
          ELSE IF p = 0 THEN [ptr |-> Null, heap |-> h] ELSE Pop(grown, p)
  BY DEF slab_alloc, WithNewPage
<1>2. CASE open # {}
  <2>1. /\ DOMAIN h.slabs \subseteq PageAddrs /\ Chained(h.slabs, h.cache)
    BY DEF Good, Chained
  <2>2. PICK n, g : Links(h.slabs, h.cache, c, n, g)
    BY <2>1 DEF Chained
  <2>3. chain = [k \in 0 .. n - 1 |-> g[k]]
    <3> HIDE DEF chain
    <3> QED BY <2>1, <2>2, ChainWalked DEF chain
  <2> DEFINE a == Min(open)
             q == chain[a]
  <2> HIDE DEF chain
  <2>4. open \subseteq Nat
    BY <2>2, <2>3 DEF Links
  <2>5. a \in open
    <3> HIDE DEF open
    <3> QED BY <1>2, <2>4, LeastIn
  <2>6. q \in DOMAIN h.slabs /\ h.slabs[q].class = c /\ h.slabs[q].free_count > 0
    <3>1. a \in 0 .. n - 1 /\ q = g[a] /\ h.slabs[q].free_count > 0
      BY <2>3, <2>5
    <3>2. q \in Members(h.slabs, c)
      BY <2>2, <3>1 DEF Links
    <3> QED BY <3>1, <3>2 DEF Members
  <2>7. o = Pop(h, q)
    BY <1>1, <1>2
  <2> HIDE DEF q, grown, open
  <2>8. w <= h.slabs[q].class
    BY <2>6
  <2> QED BY <2>6, <2>7, <2>8, PopGrants
<1>3. CASE open = {}
  <2>1. p # 0 /\ o = Pop(grown, p)
    BY <1>1, <1>3
  <2> HIDE DEF grown, open, chain
  <2>2. /\ Good(grown, L) /\ p \in DOMAIN grown.slabs /\ grown.slabs[p].class = c
        /\ grown.slabs[p].free_count > 0
    BY <2>1, NewPage DEF grown
  <2>3. w <= grown.slabs[p].class
    BY <2>2
  <2> QED BY <2>1, <2>2, <2>3, PopGrants
<1> QED BY <1>2, <1>3

(* A step of one block, in the whole heap.                                 *)
LEMMA BlockStep ==
    ASSUME HeapAssumption, NEW h, NEW L, Good(h, L), NEW m, NEW M, BlocksOK(m, M), Distinct(M),
           \A r : ~IsBlock(r.ptr) => (r \in L <=> r \in M)
    PROVE  Good([h EXCEPT !.mem = m], M)
<1> DEFINE k == [h EXCEPT !.mem = m]
<1>1. /\ HeapShape(h) /\ h.cache \in [Classes -> PageAddrs \cup {0}]
      /\ SlabsOK(h.slabs, L) /\ Chained(h.slabs, h.cache)
  BY DEF Good, HeapShape
<1>2. HeapShape(k) /\ k.mem = m /\ k.cache = h.cache /\ k.slabs = h.slabs
  BY <1>1 DEF HeapShape
<1> HIDE DEF k
<1>3. SlabsOK(h.slabs, M)
  BY <1>1, SlabsApart
<1>4. Good(k, M)
  BY <1>1, <1>2, <1>3 DEF Good, HeapShape
<1> QED BY <1>4 DEF k

LEMMA BlockGrants ==
    ASSUME HeapAssumption, NEW h, NEW L, Good(h, L), NEW n \in Nat \ {0}, NEW w \in 0 .. n,
           NEW v \in Values, NEW o, o = block_malloc(h, n), o.ptr # Null
    PROVE  Grants(Written(o.heap, o.ptr, w, v), o.ptr, L, w, v)
<1> DEFINE m == h.mem
           a == Min(Fitting(m, n))
           ptr == BlockPtr(a + 1)
           k == Wrote(Taken(m, a, n), a, w, v)
           e == Granted(ptr, w, v)
<1>1. HeapShape(h) /\ BlocksOK(m, L) /\ Distinct(L)
  BY DEF Good, HeapShape
<1>2. Fitting(m, n) # {} /\ o = [ptr |-> ptr, heap |-> [h EXCEPT !.mem = Taken(m, a, n)]]
  BY DEF block_malloc
<1>3. a \in Nat /\ (\A r \in L : r.ptr # ptr) /\ BlocksOK(k, L \cup {e})
  <2> DEFINE b == a
  <2>1. b = Min(Fitting(m, n))
    OBVIOUS
  <2> HIDE DEF b, m
  <2>2. b \in Nat /\ (\A r \in L : r.ptr # BlockPtr(b + 1))
        /\ BlocksOK(Wrote(Taken(m, b, n), b, w, v), L \cup {Granted(BlockPtr(b + 1), w, v)})
    BY <1>1, <1>2, <2>1, BlockGranted
  <2> QED BY <2>2 DEF b
<1>4. Written(o.heap, o.ptr, w, v) = [h EXCEPT !.mem = k]
  <2> DEFINE t == Taken(m, a, n)
             g == [h EXCEPT !.mem = t]
  <2>1. o.ptr = ptr /\ o.heap = g
    BY <1>2
  <2>2. IsBlock(ptr) /\ ptr[2] = a + 1
    BY DEF BlockPtr, IsBlock
  <2> HIDE DEF ptr, t
  <2>3. g.mem = t /\ \A x : [g EXCEPT !.mem = x] = [h EXCEPT !.mem = x]
    BY <1>1 DEF HeapShape
  <2> HIDE DEF g
  <2>4. Written(g, ptr, w, v) = [g EXCEPT !.mem = Wrote(t, a, w, v)]
    BY <2>2, <2>3 DEF Written, Wrote
  <2> QED BY <2>1, <2>3, <2>4 DEF t
<1>5. IsBlock(ptr) /\ ptr \in (PageAddrs \cup {0}) \X Nat
  BY <1>3, Pointers
<1>6. Distinct(L \cup {e})
  <2> HIDE DEF ptr
  <2> QED BY <1>1, <1>3, <1>5, OneMore
<1>7. \A r : ~IsBlock(r.ptr) => (r \in L <=> r \in L \cup {e})
  BY <1>5 DEF Granted
<1> HIDE DEF k, e
<1>8. Good([h EXCEPT !.mem = k], L \cup {e})
  BY <1>3, <1>6, <1>7, BlockStep
<1>9. o.ptr = ptr
  BY <1>2
<1> QED BY <1>3, <1>4, <1>5, <1>8, <1>9 DEF Grants, e

LEMMA LargestClass ==
    ASSUME HeapAssumption
    PROVE  Max(Classes) \in Classes /\ Classes \subseteq Nat /\ Max(Classes) \in Nat
<1>1. Classes \subseteq 1 .. PAGE_SIZE - 2 /\ Classes # {} /\ PAGE_SIZE \in Nat /\ PAGE_SIZE >= 2
  BY DEF HeapAssumption
<1> DEFINE x == PAGE_SIZE - 2
           c == Max(Classes)
<1>2. x \in Nat /\ Classes \in SUBSET (0 .. x)
  BY <1>1
<1> HIDE DEF x, c
<1>3. c \in Classes
  BY <1>1, <1>2, GreatestIn DEF c
<1>4. Classes \subseteq Nat
  BY <1>2
<1>5. c \in Nat
  BY ONLY <1>3, <1>4
<1> QED BY <1>3, <1>4, <1>5 DEF c

LEMMA ClassOf ==
    ASSUME HeapAssumption, NEW n \in Nat, n <= Max(Classes)
    PROVE  SlabClass(n) \in Classes /\ n <= SlabClass(n)
<1> DEFINE fit == {c \in Classes : n <= c}
<1>1. Max(Classes) \in Classes /\ Classes \subseteq Nat
  BY LargestClass
<1>2. fit \in SUBSET Nat /\ fit # {}
  BY <1>1
<1> HIDE DEF fit
<1>3. Min(fit) \in fit
  BY <1>2, LeastIn
<1> QED BY <1>3 DEF SlabClass, fit

(* heap_malloc, and what its client writes.                                *)
LEMMA HeapGrants ==
    ASSUME HeapAssumption, Clean, NEW h, NEW L, Good(h, L), NEW n \in Nat \ {0}, NEW w \in 0 .. n,
           NEW p \in {0} \cup (PageAddrs \ DOMAIN h.slabs), NEW v \in Values,
           NEW o, o = heap_malloc(h, n, p), o.ptr # Null
    PROVE  Grants(Written(o.heap, o.ptr, w, v), o.ptr, L, w, v)
<1>1. CASE n > Max(Classes)
  <2>1. o = block_malloc(h, n)
    BY <1>1 DEF heap_malloc
  <2> QED BY <2>1, BlockGrants
<1>2. CASE ~(n > Max(Classes))
  <2>1. o = slab_alloc(h, SlabClass(n), p)
    BY <1>2 DEF heap_malloc
  <2>2. Max(Classes) \in Nat
    BY LargestClass
  <2>3. SlabClass(n) \in Classes /\ n <= SlabClass(n)
    BY <1>2, <2>2, ClassOf
  <2>4. SlabClass(n) \in Nat /\ w \in Nat /\ w <= SlabClass(n)
    BY <2>3, SlotCount
  <2> QED BY <2>1, <2>3, <2>4, SlabGrants
<1> QED BY <1>1, <1>2

(* heap_free takes back what a client holds.                               *)
LEMMA HeapReleases ==
    ASSUME HeapAssumption, Clean, NEW h, NEW L, Good(h, L), NEW r \in L
    PROVE  Good(heap_free(h, r.ptr), L \ {r})
<1>1. /\ HeapShape(h) /\ BlocksOK(h.mem, L) /\ SlabsOK(h.slabs, L) /\ Distinct(L)
  BY DEF Good, HeapShape
<1>2. Distinct(L \ {r})
  BY <1>1, OneLess
<1>3. CASE IsBlock(r.ptr)
  <2>1. heap_free(h, r.ptr) = block_free(h, r.ptr[2] - 1)
    BY <1>3 DEF heap_free, TakenForSlab, Clean
  <2>2. PICK k : /\ block_free(h, r.ptr[2] - 1) = [h EXCEPT !.mem = k]
                 /\ BlocksOK(k, L \ {r})
    BY <1>1, <1>3, BlockReleased
  <2>3. \A q : ~IsBlock(q.ptr) => (q \in L <=> q \in L \ {r})
    BY <1>3
  <2>4. Good([h EXCEPT !.mem = k], L \ {r})
    BY <1>2, <2>2, <2>3, BlockStep
  <2> QED BY <2>1, <2>2, <2>4
<1>4. CASE ~IsBlock(r.ptr)
  <2> DEFINE S == h.slabs
  <2>1. PICK p \in DOMAIN S : \E j \in SlotsOf(S[p].class) : r.ptr = SlabPtr(p, j)
    BY <1>1, <1>4 DEF SlabsOK, InSlot
  <2>2. PICK i \in SlotsOf(S[p].class) : r.ptr = SlabPtr(p, i)
    BY <2>1
  <2>3. heap_free(h, r.ptr) = slab_free(h, SlabPtr(p, i))
    BY <1>4, <2>2 DEF heap_free
  <2>4. slab_free(h, SlabPtr(p, i)) = WithSlab(h, p, TakenBack(S[p], i))
    BY <1>1, Unpopped DEF SlabsOK, Function
  <2> DEFINE T == [S EXCEPT ![p] = TakenBack(S[p], i)]
  <2> HIDE DEF T
  <2>5. Served(S, T, L \ {r})
    <3> HIDE DEF S
    <3> QED BY <1>1, <2>2, SlotReleased DEF T, S
  <2>6. \A q : IsBlock(q.ptr) => (q \in L <=> q \in L \ {r})
    BY <1>4
  <2>7. Good(WithSlab(h, p, TakenBack(S[p], i)), L \ {r})
    BY <1>2, <2>5, <2>6, SlotStep DEF T
  <2> QED BY <2>3, <2>4, <2>7
<1> QED BY <1>3, <1>4

(* What the heap believes the size of a pointer to be covers its contents. *)
LEMMA SizeCovers ==
    ASSUME HeapAssumption, Clean, NEW h, NEW L, Good(h, L), NEW r \in L
    PROVE  Size(h, r.ptr) \in Nat /\ r.len \in Nat /\ r.len <= Size(h, r.ptr)
<1>1. /\ HeapShape(h) /\ BlocksOK(h.mem, L) /\ SlabsOK(h.slabs, L) /\ Distinct(L)
  BY DEF Good, HeapShape
<1>2. r.len \in Nat
  BY <1>1 DEF Distinct
<1>3. CASE IsBlock(r.ptr)
  <2>1. Size(h, r.ptr) = h.mem[r.ptr[2] - 1].size
    BY <1>3 DEF Size, TakenForSlab, Clean
  <2>2. PICK H : Tiles(h.mem, H) /\ Owned(h.mem, H, L)
    BY <1>1 DEF BlocksOK
  <2>3. PICK a \in H : InBlock(h.mem, r, a)
    BY <1>3, <2>2 DEF Owned
  <2>4. a \in Nat /\ h.mem[a].size \in Nat
    BY <2>2, Leads
  <2>5. r.ptr[2] - 1 = a
    BY <2>3, <2>4 DEF InBlock, BlockPtr
  <2> QED BY <1>2, <2>1, <2>3, <2>4, <2>5 DEF InBlock
<1>4. CASE ~IsBlock(r.ptr)
  <2>1. PICK p \in DOMAIN h.slabs : \E i \in SlotsOf(h.slabs[p].class) :
           r.ptr = SlabPtr(p, i) /\ r.len <= h.slabs[p].class
    BY <1>1, <1>4 DEF SlabsOK, InSlot
  <2>2. Size(h, r.ptr) = h.slabs[p].class
    BY <1>4, <2>1 DEF Size, SlabPtr
  <2>3. h.slabs[p].class \in Nat
    BY <1>1, SlotCount DEF SlabsOK, PageOK
  <2> QED BY <1>2, <2>1, <2>2, <2>3
<1> QED BY <1>3, <1>4

LEMMA AllHold ==
    ASSUME HeapAssumption, NEW h, NEW L, Good(h, L), NEW r \in L
    PROVE  Holds(h, r)
<1>1. /\ HeapShape(h) /\ BlocksOK(h.mem, L) /\ SlabsOK(h.slabs, L) /\ Distinct(L)
  BY DEF Good, HeapShape
<1>2. CASE IsBlock(r.ptr)
  <2>1. PICK H : Tiles(h.mem, H) /\ Owned(h.mem, H, L)
    BY <1>1 DEF BlocksOK
  <2>2. PICK a \in H : InBlock(h.mem, r, a)
    BY <1>2, <2>1 DEF Owned
  <2>3. a \in Nat
    BY <2>1, Leads
  <2>4. r.ptr[2] = a + 1
    BY <2>2, <2>3 DEF InBlock, BlockPtr
  <2> QED BY <1>2, <2>2, <2>3, <2>4 DEF Holds, InBlock
<1>3. CASE ~IsBlock(r.ptr)
  <2>1. PICK p \in DOMAIN h.slabs : \E i \in SlotsOf(h.slabs[p].class) :
           r.ptr = SlabPtr(p, i) /\ h.slabs[p].slot[i].data = r.val
    BY <1>1, <1>3 DEF SlabsOK, InSlot
  <2> QED BY <1>3, <2>1 DEF Holds, SlabPtr
<1> QED BY <1>2, <1>3

(* The new block leaves the size of the old one alone.                     *)
LEMMA SizeSame ==
    ASSUME HeapAssumption, Clean, NEW h, NEW L, NEW n \in Nat \ {0}, Good(h, L), NEW r \in L,
           NEW p \in {0} \cup (PageAddrs \ DOMAIN h.slabs), NEW o, o = heap_malloc(h, n, p),
           o.ptr # Null
    PROVE  Size(o.heap, r.ptr) \in Nat /\ r.len \in Nat /\ r.len <= Size(o.heap, r.ptr)
<1> DEFINE g == o.heap
           k == Written(g, o.ptr, 0, r.val)
           M == L \cup {Granted(o.ptr, 0, r.val)}
<1>1. r.val \in Values
  BY DEF Good, Distinct
<1>2. Grants(k, o.ptr, L, 0, r.val)
  <2> HIDE DEF g, M
  <2> QED BY <1>1, HeapGrants DEF g
<1>3. Good(k, M) /\ o.ptr \in (PageAddrs \cup {0}) \X Nat
  BY <1>2 DEF Grants
<1> HIDE DEF k, M
<1>4. Size(k, r.ptr) \in Nat /\ r.len \in Nat /\ r.len <= Size(k, r.ptr)
  <2>1. r \in M
    BY DEF M
  <2> QED BY <1>3, <2>1, SizeCovers
<1>5. /\ HeapShape(k) /\ SlabsOK(k.slabs, M) /\ BlocksOK(k.mem, M)
  BY <1>3 DEF Good, HeapShape
<1>6. CASE IsBlock(o.ptr)
  <2> DEFINE e == [a \in Units |-> IF a \in o.ptr[2] .. o.ptr[2] + 0 - 1
                                   THEN Data(r.val) ELSE g.mem[a]]
  <2>1. k = [g EXCEPT !.mem = e]
    BY <1>6 DEF Written, k
  <2>2. \A a \in Units : e[a] = g.mem[a]
    BY <1>3
  <2> HIDE DEF e, g
  <2>3. k.slabs = g.slabs /\ k.mem = e
    BY <1>5, <2>1 DEF HeapShape
  <2>4. CASE IsBlock(r.ptr)
    <3>1. PICK H : Tiles(k.mem, H) /\ Owned(k.mem, H, M)
      BY <1>5 DEF BlocksOK
    <3>2. PICK a \in H : InBlock(k.mem, r, a)
      BY <2>4, <3>1 DEF Owned, M
    <3>3. a \in Units /\ a \in Nat
      BY <3>1, Leads DEF Tiles
    <3>4. r.ptr[2] - 1 = a
      BY <3>2, <3>3 DEF InBlock, BlockPtr
    <3> QED BY <1>4, <2>2, <2>3, <2>4, <3>3, <3>4 DEF Size, TakenForSlab, Clean, g
  <2>5. CASE ~IsBlock(r.ptr)
    BY <1>4, <2>3, <2>5 DEF Size, g
  <2> QED BY <2>4, <2>5
<1>7. CASE ~IsBlock(o.ptr)
  <2> DEFINE q == o.ptr[1]
             i == o.ptr[2]
  <2>1. k = [g EXCEPT !.slabs[q].slot[i].data = r.val]
    BY <1>7 DEF Written, k
  <2> HIDE DEF g, q, i
  <2>2. k.mem = g.mem /\ k.slabs = [g.slabs EXCEPT ![q].slot[i].data = r.val]
    BY <1>5, <2>1 DEF HeapShape
  <2>3. CASE IsBlock(r.ptr)
    BY <1>4, <2>2, <2>3 DEF Size, TakenForSlab, Clean, g
  <2>4. CASE ~IsBlock(r.ptr)
    <3>1. PICK s \in DOMAIN k.slabs : \E j \in SlotsOf(k.slabs[s].class) : r.ptr = SlabPtr(s, j)
      BY <1>5, <2>4 DEF SlabsOK, InSlot, M
    <3>2. r.ptr[1] = s
      BY <3>1 DEF SlabPtr
    <3>3. PageShape(k.slabs[s])
      BY <1>5, PageFields DEF SlabsOK, PageOK
    <3>4. s \in DOMAIN g.slabs
      BY <2>2, <3>1
    <3>5. k.slabs[s].class = g.slabs[s].class
      BY <2>2, <3>3, <3>4 DEF PageShape
    <3> QED BY <1>4, <2>4, <3>2, <3>5 DEF Size, g
  <2> QED BY <2>3, <2>4
<1> QED BY <1>6, <1>7

(* heap_realloc: what fits the old block is all that its client wrote.     *)
LEMMA HeapMoves ==
    ASSUME HeapAssumption, Clean, NEW h, NEW L, Good(h, L), NEW r \in L, NEW n \in Nat \ {0},
           n > Size(h, r.ptr), NEW p \in {0} \cup (PageAddrs \ DOMAIN h.slabs),
           NEW o, o = heap_malloc(h, n, p), o.ptr # Null
    PROVE  Good(Moved(o.heap, r, o.ptr), (L \ {r}) \cup {[r EXCEPT !.ptr = o.ptr]})
<1> DEFINE x == r.len
           y == Size(o.heap, r.ptr)
           e == Granted(o.ptr, x, r.val)
           k == Written(o.heap, o.ptr, x, r.val)
<1>1. r \in [ptr: (PageAddrs \cup {0}) \X Nat, len: Nat, val: Values]
  BY DEF Good, Distinct
<1>2. y \in Nat /\ x \in Nat /\ x <= y
  <2> HIDE DEF x, y
  <2> QED BY SizeSame DEF x, y
<1>3. x <= Size(h, r.ptr) /\ Size(h, r.ptr) \in Nat
  BY SizeCovers
<1>4. Min({x, y}) = x
  <2> HIDE DEF x, y
  <2>1. {x, y} \in SUBSET Nat /\ {x, y} # {}
    BY <1>2
  <2>2. Min({x, y}) \in {x, y} /\ Min({x, y}) <= x
    BY <2>1, LeastIn
  <2> QED BY <1>2, <2>2
<1>5. x \in 0 .. n
  BY <1>2, <1>3
<1>6. Moved(o.heap, r, o.ptr) = heap_free(k, r.ptr)
  BY <1>4 DEF Moved
<1> HIDE DEF k, y
<1>7. Grants(k, o.ptr, L, x, r.val)
  <2>1. r.val \in Values
    BY <1>1
  <2> HIDE DEF x
  <2> QED BY <1>5, <2>1, HeapGrants DEF k
<1>8. Good(k, L \cup {e}) /\ (\A q \in L : q.ptr # o.ptr)
  BY <1>7 DEF Grants
<1>9. e # r
  BY <1>8 DEF Granted
<1>10. e = [r EXCEPT !.ptr = o.ptr]
  BY <1>1 DEF Granted
<1> HIDE DEF e, x
<1>11. Good(heap_free(k, r.ptr), (L \cup {e}) \ {r})
  BY <1>8, HeapReleases
<1>12. (L \cup {e}) \ {r} = (L \ {r}) \cup {e}
  BY <1>9
<1> QED BY <1>6, <1>10, <1>11, <1>12

-----------------------------------------------------------------------------
IInv == Good(Heap, live)

LEMMA InitGood ==
    ASSUME HeapAssumption, HeapInit
    PROVE  IInv
<1>1. /\ HEAP_SIZE \in Nat /\ HEAP_SIZE > 1 /\ Units = 0 .. HEAP_SIZE - 1
  BY Sizes
<1>2. /\ mem \in [Units -> Unit] /\ mem[0] = Header(HEAP_SIZE - 1, TRUE)
      /\ \A a \in Units \ {0} : mem[a] = Data(Zero)
  <2>1. Header(HEAP_SIZE - 1, TRUE) \in Unit /\ Data(Zero) \in Unit
    BY <1>1 DEF Header, Data, Unit
  <2> DEFINE A == Header(HEAP_SIZE - 1, TRUE)
             B == Data(Zero)
  <2>2. mem = [a \in Units |-> IF a = 0 THEN A ELSE B]
    BY DEF HeapInit
  <2>3. 0 \in Units
    BY <1>1
  <2>4. A \in Unit /\ B \in Unit
    BY <2>1
  <2> HIDE DEF A, B
  <2>5. /\ mem \in [Units -> Unit] /\ mem[0] = A
        /\ \A a \in Units \ {0} : mem[a] = B
    BY <2>2, <2>3, <2>4
  <2> QED BY <2>5 DEF A, B
<1>3. mem[0].free /\ mem[0].data = "header" /\ mem[0].size = HEAP_SIZE - 1
  BY <1>2 DEF Header
<1>4. \A a \in Units \ {0} : mem[a].free = FALSE
  BY <1>2 DEF Data
<1>5. Tiles(mem, {0})
  <2>1. End(mem, 0) = HEAP_SIZE
    BY <1>1, <1>3 DEF End
  <2>2. {0} \subseteq Units
    BY <1>1
  <2>3. \A a \in Units : mem[a].free => End(mem, a) <= HEAP_SIZE
    BY <1>1, <1>4, <2>1
  <2>4. \A a \in {0} :
           /\ mem[a].data = "header" /\ End(mem, a) <= HEAP_SIZE
           /\ End(mem, a) < HEAP_SIZE => End(mem, a) \in {0}
           /\ \A b \in {0} : b <= a \/ End(mem, a) <= b
    BY <1>1, <1>3, <2>1
  <2> QED BY <1>2, <2>2, <2>3, <2>4 DEF Tiles
<1>6. Apart(mem, {0}) /\ Owned(mem, {0}, {})
  BY <1>1, <1>3 DEF Apart, Owned, End
<1>7. BlocksOK(mem, live)
  BY <1>5, <1>6 DEF BlocksOK, HeapInit
<1>8. DOMAIN slabs = {} /\ slabs = [p \in DOMAIN slabs |-> slabs[p]]
  BY DEF HeapInit
<1>9. SlabsOK(slabs, live)
  BY <1>8 DEF SlabsOK, HeapInit
<1>10. Chained(slabs, cache)
  <2>1. ASSUME NEW c \in Classes PROVE \E n, g : Links(slabs, cache, c, n, g)
    <3> DEFINE g == [k \in {0} |-> 0]
    <3>1. Members(slabs, c) = {} /\ Cardinality({}) = 0
      BY <1>8, FS_EmptySet DEF Members
    <3>2. cache[c] = 0
      BY DEF HeapInit
    <3>3. Links(slabs, cache, c, 0, g)
      BY <3>1, <3>2 DEF Links
    <3> QED BY <3>3
  <2> QED BY <1>8, <2>1 DEF Chained
<1>11. /\ cache \in [Classes -> PageAddrs \cup {0}] /\ Distinct(live)
  BY DEF HeapInit, Distinct
<1> QED BY <1>7, <1>9, <1>10, <1>11 DEF IInv, Good, Heap

LEMMA NextGood ==
    ASSUME HeapAssumption, Clean, IInv, [HeapNext]_heapVars
    PROVE  IInv'
<1>1. Heap.slabs = slabs /\ Good(Heap, live)
  BY DEF Heap, IInv
<1>2. NewPages \subseteq {0} \cup (PageAddrs \ DOMAIN slabs)
  BY DEF NewPages
<1>3. ASSUME NEW h, NEW L, Good(h, L), Become(h), live' = L PROVE IInv'
  <2>1. h = [mem |-> h.mem, slabs |-> h.slabs, cache |-> h.cache]
    BY <1>3 DEF Good
  <2>2. Heap' = h
    BY <1>3, <2>1 DEF Heap, Become
  <2> QED BY <1>3, <2>2 DEF IInv
<1>4. ASSUME NEW n \in Requests, NEW v \in Values, Malloc(n, v) PROVE IInv'
  <2>1. PICK p \in NewPages :
           LET o == heap_malloc(Heap, n, p)
           IN  /\ o.ptr # Null /\ Become(Written(o.heap, o.ptr, n, v))
               /\ live' = live \cup {[ptr |-> o.ptr, len |-> n, val |-> v]}
    BY <1>4 DEF Malloc
  <2> DEFINE o == heap_malloc(Heap, n, p)
             k == Written(o.heap, o.ptr, n, v)
  <2>2. o.ptr # Null /\ Become(k) /\ live' = live \cup {Granted(o.ptr, n, v)}
    BY <2>1 DEF Granted
  <2>3. p \in {0} \cup (PageAddrs \ DOMAIN Heap.slabs)
    BY <1>1, <1>2
  <2>4. n \in Nat \ {0} /\ n \in 0 .. n
    BY DEF HeapAssumption
  <2> HIDE DEF o
  <2>5. Grants(k, o.ptr, live, n, v)
    BY <1>1, <2>2, <2>3, <2>4, HeapGrants DEF o
  <2> HIDE DEF k
  <2> QED BY <1>3, <2>2, <2>5 DEF Grants
<1>5. ASSUME NEW r \in live, Free(r) PROVE IInv'
  <2>1. Good(heap_free(Heap, r.ptr), live \ {r})
    BY <1>1, HeapReleases
  <2> QED BY <1>3, <1>5, <2>1 DEF Free
<1>6. ASSUME NEW r \in live, NEW n \in Requests, Realloc(r, n) PROVE IInv'
  <2>1. PICK p \in NewPages :
           LET o == heap_malloc(Heap, n, p)
           IN  /\ n > Size(Heap, r.ptr) /\ o.ptr # Null /\ Become(Moved(o.heap, r, o.ptr))
               /\ live' = (live \ {r}) \cup {[r EXCEPT !.ptr = o.ptr]}
    BY <1>6 DEF Realloc
  <2> DEFINE o == heap_malloc(Heap, n, p)
             k == Moved(o.heap, r, o.ptr)
             M == (live \ {r}) \cup {[r EXCEPT !.ptr = o.ptr]}
  <2>2. n > Size(Heap, r.ptr) /\ o.ptr # Null /\ Become(k) /\ live' = M
    BY <2>1
  <2>3. p \in {0} \cup (PageAddrs \ DOMAIN Heap.slabs)
    BY <1>1, <1>2
  <2>4. n \in Nat \ {0}
    BY DEF HeapAssumption
  <2> HIDE DEF o
  <2>5. Good(k, M)
    BY <1>1, <2>2, <2>3, <2>4, HeapMoves DEF o
  <2> HIDE DEF k, M
  <2> QED BY <1>3, <2>2, <2>5
<1>7. CASE UNCHANGED heapVars
  BY <1>1, <1>7 DEF heapVars, IInv, Heap
<1> QED BY <1>4, <1>5, <1>6, <1>7 DEF HeapNext

LEMMA HeapHolds ==
    ASSUME HeapAssumption, Clean
    PROVE  HeapSpec => []IInv
<1>1. HeapInit => IInv
  BY InitGood
<1>2. IInv /\ [HeapNext]_heapVars => IInv'
  BY NextGood
<1> QED BY <1>1, <1>2, PTL DEF HeapSpec

LEMMA GoodNow ==
    ASSUME IInv
    PROVE  /\ BlocksOK(mem, live) /\ SlabsOK(slabs, live) /\ Chained(slabs, cache)
           /\ Distinct(live) /\ cache \in [Classes -> PageAddrs \cup {0}] /\ Good(Heap, live)
BY DEF IInv, Good, Heap

(* Blocks, slab pages and chains are of their types (heap.c).              *)
LEMMA HeapTyped == ASSUME HeapAssumption, Clean PROVE HeapSpec => []HeapTypeOK
<1>1. ASSUME IInv PROVE HeapTypeOK
  <2>1. mem \in [Units -> Unit]
    BY <1>1, GoodNow DEF BlocksOK, Tiles
  <2>2. /\ DOMAIN slabs \subseteq PageAddrs
        /\ \A p \in DOMAIN slabs : slabs[p] \in SlabPage(slabs[p].class)
    BY <1>1, GoodNow DEF SlabsOK, PageOK
  <2>3. \A r \in live : r.val \in Values /\ r.len \in Nat
    BY <1>1, GoodNow DEF Distinct
  <2> QED BY <1>1, GoodNow, <2>1, <2>2, <2>3 DEF HeapTypeOK
<1> QED BY <1>1, HeapHolds, PTL

(* What a client wrote is still there, whatever others allocate, free or   *)
(* move (heap_malloc, heap_free, heap_realloc).                            *)
THEOREM HeapContentsKept == ASSUME HeapAssumption, Clean PROVE HeapSpec => []ContentsKept
<1>1. ASSUME IInv PROVE ContentsKept
  BY <1>1, GoodNow, AllHold DEF ContentsKept
<1> QED BY <1>1, HeapHolds, PTL

(* The blocks tile the heap, the used ones are those that clients hold, and*)
(* no two free ones lie side by side (block_malloc, block_free).           *)
LEMMA HeapBlocksTile == ASSUME HeapAssumption, Clean PROVE HeapSpec => []BlocksTile
<1>1. ASSUME IInv PROVE BlocksTile
  <2>1. PICK H : Tiles(mem, H) /\ Apart(mem, H) /\ Owned(mem, H, live)
    BY <1>1, GoodNow DEF BlocksOK
  <2>2. Blocks(mem) = H
    BY <2>1, BlocksFound
  <2>3. \A a \in H : mem[a].data = "header"
    BY <2>1 DEF Tiles
  <2>4. LET last == Max(H) IN last + 1 + mem[last].size = HEAP_SIZE
    <3> DEFINE last == Max(H)
               N == HEAP_SIZE - 1
    <3>1. N \in Nat /\ H \in SUBSET (0 .. N) /\ H # {}
      BY <2>1, Sizes DEF Tiles
    <3> HIDE DEF N, last
    <3>2. last \in H /\ \A y \in H : y <= last
      BY <3>1, GreatestIn DEF last
    <3>3. /\ End(mem, last) \in Nat /\ last < End(mem, last) /\ End(mem, last) <= HEAP_SIZE
          /\ End(mem, last) < HEAP_SIZE => End(mem, last) \in H
          /\ last \in Nat
      BY <2>1, <3>2, Leads
    <3>4. End(mem, last) = HEAP_SIZE
      BY <3>2, <3>3, Sizes
    <3> QED BY <3>4 DEF End, last
  <2>5. {a + 1 : a \in {b \in H : ~mem[b].free}}
          = {r.ptr[2] : r \in {s \in live : IsBlock(s.ptr)}}
    <3> DEFINE A == {a + 1 : a \in {b \in H : ~mem[b].free}}
               B == {r.ptr[2] : r \in {s \in live : IsBlock(s.ptr)}}
    <3>1. ASSUME NEW x \in A PROVE x \in B
      <4>1. PICK a \in H : ~mem[a].free /\ x = a + 1
        BY <3>1
      <4>2. PICK r \in live : r.ptr = BlockPtr(a + 1)
        BY <2>1, <4>1 DEF Owned
      <4>3. IsBlock(r.ptr) /\ r.ptr[2] = x
        BY <4>1, <4>2 DEF IsBlock, BlockPtr
      <4> QED BY <4>3
    <3>2. ASSUME NEW x \in B PROVE x \in A
      <4>1. PICK r \in live : IsBlock(r.ptr) /\ x = r.ptr[2]
        BY <3>2
      <4>2. PICK a \in H : InBlock(mem, r, a)
        BY <2>1, <4>1 DEF Owned
      <4>3. x = a + 1 /\ ~mem[a].free
        BY <4>1, <4>2 DEF InBlock, BlockPtr
      <4> QED BY <4>3
    <3> QED BY <3>1, <3>2
  <2>6. \A a \in H : LET b == a + 1 + mem[a].size
                     IN  b < HEAP_SIZE => ~(mem[a].free /\ mem[b].free)
    BY <2>1 DEF Apart, End
  <2> QED BY <2>2, <2>3, <2>4, <2>5, <2>6 DEF BlocksTile
<1> QED BY <1>1, HeapHolds, PTL

(* A slot is on the free list of its page or a client's, never both, and   *)
(* free_count counts the free ones (slab_alloc, slab_free).                *)
LEMMA HeapSlotsAccounted == ASSUME HeapAssumption, Clean PROVE HeapSpec => []SlotsAccounted
<1>1. ASSUME IInv, NEW p \in DOMAIN slabs
      PROVE  /\ FreeSlots(p) = SlotsOf(slabs[p].class) \ Held(p, slabs[p].class, live)
             /\ slabs[p].free_count = Cardinality(FreeSlots(p))
  <2> DEFINE F == Spare(p, slabs, live)
  <2>1. PageOK(slabs[p]) /\ Listed(slabs[p], F)
    BY <1>1, GoodNow DEF SlabsOK
  <2> HIDE DEF F
  <2>2. FreeSlots(p) = F
    BY <2>1, ListWalked
  <2> QED BY <2>1, <2>2 DEF Listed, F, Spare
<1>2. ASSUME IInv PROVE SlotsAccounted
  BY <1>1, <1>2 DEF SlotsAccounted, Held
<1> QED BY <1>2, HeapHolds, PTL

(* Every slab page is found from the cache of its class, when the page     *)
(* numbers fit into next_slab (slab_alloc).                                *)
LEMMA HeapChainComplete == ASSUME HeapAssumption, Clean PROVE HeapSpec => []ChainComplete
<1>1. ASSUME IInv, NEW p \in DOMAIN slabs
      PROVE  \E k \in DOMAIN Chain(Heap, slabs[p].class) : Chain(Heap, slabs[p].class)[k] = p
  <2> DEFINE c == slabs[p].class
             chain == Chain(Heap, c)
  <2>1. c \in Classes /\ DOMAIN slabs \subseteq PageAddrs /\ Chained(slabs, cache)
    BY <1>1, GoodNow DEF SlabsOK, PageOK
  <2>2. Heap.slabs = slabs /\ Heap.cache = cache
    BY DEF Heap
  <2> HIDE DEF c
  <2>3. PICK n, g : Links(slabs, cache, c, n, g)
    BY <2>1 DEF Chained
  <2>4. chain = [k \in 0 .. n - 1 |-> g[k]]
    <3> DEFINE h == Heap
    <3>1. DOMAIN h.slabs \subseteq PageAddrs /\ Links(h.slabs, h.cache, c, n, g)
      BY <2>1, <2>2, <2>3
    <3> HIDE DEF h
    <3>2. Chain(h, c) = [k \in 0 .. n - 1 |-> g[k]]
      BY <2>1, <3>1, ChainWalked
    <3> QED BY <3>2 DEF h
  <2>5. p \in Members(slabs, c)
    BY DEF Members, c
  <2>6. PICK k \in 0 .. n - 1 : g[k] = p
    BY <2>3, <2>5 DEF Links
  <2> QED BY <2>4, <2>6 DEF c
<1>2. ASSUME IInv PROVE ChainComplete
  BY <1>1, <1>2 DEF ChainComplete
<1> QED BY <1>2, HeapHolds, PTL

(* The structures of the allocator hold together whatever clients allocate,*)
(* free and resize, for every size of the heap, of a page and of the       *)
(* classes (block_malloc, block_free, slab_alloc, slab_free).              *)
THEOREM HeapIsSound == ASSUME HeapAssumption, Clean PROVE HeapSpec => []HeapSound
BY HeapTyped, HeapBlocksTile, HeapSlotsAccounted, HeapChainComplete, PTL DEF HeapSound

-----------------------------------------------------------------------------
(* The numbers of the model.                                               *)
LEMMA SpaceSizes ==
    ASSUME VmmAssumption
    PROVE  /\ LowRegions * ENTRIES \in Nat
           /\ (LowRegions + FarRegions) * ENTRIES \in Nat
           /\ LowRegions * ENTRIES <= (LowRegions + FarRegions) * ENTRIES
           /\ Cardinality(Pages) = (LowRegions + FarRegions) * ENTRIES
           /\ Cardinality(Regions) = LowRegions + FarRegions
           /\ Cardinality(Frames) \in Nat
           /\ IsFiniteSet(Pages) /\ IsFiniteSet(Regions)
           /\ None \notin Frames /\ Huge \notin Frames
<1>1. LowRegions * ENTRIES \in Nat /\ FarRegions * ENTRIES \in Nat
  BY SMTT(30) DEF VmmAssumption
<1>2. (LowRegions + FarRegions) * ENTRIES = LowRegions * ENTRIES + FarRegions * ENTRIES
  BY SMTT(30) DEF VmmAssumption
<1> DEFINE n == (LowRegions + FarRegions) * ENTRIES
<1>3. n \in Nat /\ LowRegions * ENTRIES <= n
  BY <1>1, <1>2
<1>4. IsFiniteSet(Pages) /\ Cardinality(Pages) = n
  <2> HIDE DEF n
  <2>1. Pages = 0 .. n - 1
    BY DEF Pages, n
  <2>2. CASE n = 0
    BY <2>1, <2>2, FS_EmptySet
  <2>3. CASE n > 0
    BY <1>3, <2>1, <2>3, FS_Interval
  <2> QED BY <1>3, <2>2, <2>3
<1>5. IsFiniteSet(Regions) /\ Cardinality(Regions) = LowRegions + FarRegions
  <2> DEFINE k == LowRegions + FarRegions
  <2>1. k \in Nat /\ Regions = 0 .. k - 1
    BY DEF VmmAssumption, Regions
  <2> HIDE DEF k, n
  <2>2. IsFiniteSet(Regions) /\ Cardinality(Regions) = k
    <3>1. CASE k = 0
      <4>1. Regions = {}
        BY <2>1, <3>1
      <4> QED BY <4>1, <3>1, FS_EmptySet
    <3>2. CASE k > 0
      BY <2>1, <3>2, FS_Interval
    <3> QED BY <2>1, <3>1, <3>2
  <2> QED BY <2>2 DEF k
<1>6. Cardinality(Frames) \in Nat
  BY FS_CardinalityType DEF VmmAssumption
<1>7. None \notin Frames /\ Huge \notin Frames
  BY <1>6 DEF VmmAssumption, None, Huge
<1> QED BY <1>1, <1>3, <1>4, <1>5, <1>6, <1>7

LEMMA Divided ==
    ASSUME NEW d \in Nat \ {0}, NEW x \in Int
    PROVE  /\ x \div d \in Int /\ x % d \in 0 .. d - 1
           /\ x = d * (x \div d) + (x % d)
OBVIOUS

LEMMA Product ==
    ASSUME NEW d \in Nat \ {0}, NEW p \in Int, NEW q \in Int, p < q
    PROVE  d * p + d <= d * q
<1>1. p + 1 <= q
  OBVIOUS
<1>2. d * (p + 1) <= d * q
  BY <1>1, SMTT(30)
<1>3. d * (p + 1) = d * p + d
  BY SMTT(30)
<1> QED BY <1>2, <1>3

(* The pages of a region, and the region of a page.                        *)
LEMMA RegionOf ==
    ASSUME VmmAssumption, NEW v \in Pages
    PROVE  Region(v) \in Regions
<1> DEFINE k == v \div ENTRIES
           n == LowRegions + FarRegions
<1>1. v \in Nat /\ v < n * ENTRIES /\ ENTRIES \in Nat \ {0} /\ n \in Nat
  BY SpaceSizes DEF Pages, VmmAssumption
<1>2. k \in Int /\ v % ENTRIES \in 0 .. ENTRIES - 1 /\ v = ENTRIES * k + (v % ENTRIES)
  BY <1>1, Divided
<1>3. ENTRIES * n = n * ENTRIES /\ ENTRIES * n \in Int /\ ENTRIES * k \in Int
      /\ ENTRIES * 0 = 0
  BY <1>1, <1>2, SMTT(30)
<1> HIDE DEF k, n
<1>4. ~(k < 0)
  <2> SUFFICES ASSUME k < 0 PROVE FALSE
    OBVIOUS
  <2>1. ENTRIES * k + ENTRIES <= ENTRIES * 0
    BY <1>1, <1>2, Product
  <2> QED BY <1>1, <1>2, <1>3, <2>1
<1>5. ~(n < k \/ n = k)
  <2>1. n < k => ENTRIES * n + ENTRIES <= ENTRIES * k
    BY <1>1, <1>2, Product
  <2>2. n = k => ENTRIES * n = ENTRIES * k
    OBVIOUS
  <2> QED BY <1>1, <1>2, <1>3, <2>1, <2>2
<1>6. k \in 0 .. n - 1
  BY <1>1, <1>2, <1>4, <1>5
<1>7. Region(v) = k
  BY DEF k, Region
<1>8. Regions = 0 .. n - 1
  BY DEF n, Regions, VmmAssumption
<1> QED BY <1>6, <1>7, <1>8

LEMMA PageOf ==
    ASSUME VmmAssumption, NEW r \in Regions, NEW i \in 1 .. ENTRIES
    PROVE  r * ENTRIES + i - 1 \in Pages /\ Region(r * ENTRIES + i - 1) = r
<1> DEFINE n == LowRegions + FarRegions
           v == r * ENTRIES + i - 1
           k == v \div ENTRIES
<1>1. r \in Nat /\ r < n /\ ENTRIES \in Nat \ {0} /\ n \in Nat /\ i \in Nat
  BY DEF Regions, VmmAssumption
<1>2. ENTRIES * r + ENTRIES <= ENTRIES * n
  BY <1>1, Product
<1>3. ENTRIES * r = r * ENTRIES /\ r * ENTRIES \in Nat /\ ENTRIES * n = n * ENTRIES
      /\ n * ENTRIES \in Nat
  BY <1>1, SMTT(30)
<1>4. v \in Int /\ v >= 0 /\ v < n * ENTRIES
  BY <1>1, <1>2, <1>3
<1>5. k \in Int /\ v % ENTRIES \in 0 .. ENTRIES - 1 /\ v = ENTRIES * k + (v % ENTRIES)
  BY <1>1, <1>4, Divided
<1>6. v \in Pages
  <2>1. Pages = 0 .. n * ENTRIES - 1
    BY DEF Pages
  <2> HIDE DEF n, v
  <2> QED BY <1>3, <1>4, <2>1
<1>7. v = ENTRIES * r + i - 1
  BY <1>3
<1> HIDE DEF k, n, v
<1>8. k < r => ENTRIES * k + ENTRIES <= ENTRIES * r
  BY <1>1, <1>5, Product
<1>9. r < k => ENTRIES * r + ENTRIES <= ENTRIES * k
  BY <1>1, <1>5, Product
<1>10. ENTRIES * k \in Int
  BY <1>1, <1>5
<1>11. k = r
  BY <1>1, <1>3, <1>5, <1>7, <1>8, <1>9, <1>10
<1> QED BY <1>6, <1>11 DEF k, v, Region
-----------------------------------------------------------------------------
(* Steps one after the other lead from D[0] to D[N], when each leads from  *)
(* one of these sets to the next.                                          *)
LEMMA LenIs ==
    ASSUME NEW N \in Nat, NEW s, s = [k \in 1 .. N |-> s[k]]
    PROVE  Len(s) = N
<1> DEFINE S == {s[k] : k \in 1 .. N}
<1>1. s \in [1 .. N -> S]
  OBVIOUS
<1>2. s \in Seq(S)
  BY <1>1
<1>3. Len(s) \in Nat /\ DOMAIN s = 1 .. Len(s) /\ DOMAIN s = 1 .. N
  BY <1>1, <1>2
<1> QED BY <1>3

LEMMA InTurnEnds ==
    ASSUME NEW N \in Nat, NEW steps, steps = [k \in 1 .. N |-> steps[k]],
           NEW D, NEW x \in D[0],
           \A k \in 1 .. N : \A y \in D[k - 1] : steps[k][y] \in D[k]
    PROVE  InTurn(steps, x) \in D[N]
<1> DEFINE Is(f, n) == f = [k \in 0 .. n |-> IF k = 0 THEN x ELSE steps[k][f[k - 1]]]
           S == {n \in Nat : \E f : Is(f, n)}
           u == CHOOSE f : Is(f, N)
<1>1. 0 \in S
  <2>1. Is([k \in 0 .. 0 |-> x], 0)
    OBVIOUS
  <2> QED BY <2>1
<1>2. ASSUME NEW n \in Nat, n \in S PROVE n + 1 \in S
  <2>1. PICK f : Is(f, n)
    BY <1>2
  <2> DEFINE g == [k \in 0 .. n + 1 |-> IF k = n + 1 THEN steps[k][f[n]] ELSE f[k]]
  <2>2. ASSUME NEW k \in 0 .. n + 1
        PROVE  g[k] = IF k = 0 THEN x ELSE steps[k][g[k - 1]]
    <3>1. CASE k = 0
      BY <2>1, <3>1
    <3>2. CASE k # 0
      <4>1. k - 1 \in 0 .. n /\ g[k - 1] = f[k - 1]
        BY <3>2
      <4>2. k # n + 1 => f[k] = steps[k][f[k - 1]]
        <5>1. k # n + 1 => k \in 0 .. n
          OBVIOUS
        <5> QED BY <2>1, <3>2, <5>1
      <4> QED BY <3>2, <4>1, <4>2
    <3> QED BY <3>1, <3>2
  <2>3. Is(g, n + 1)
    BY <2>2
  <2> HIDE DEF g, Is
  <2> QED BY <2>3
<1>3. \E f : Is(f, N)
  <2>1. Nat \subseteq S
    <3> HIDE DEF S
    <3> QED BY <1>1, <1>2, NatSetInduction
  <2> QED BY <2>1
<1>4. Is(u, N)
  <2> HIDE DEF Is
  <2> QED BY <1>3
<1>5. InTurn(steps, x) = u[N]
  BY LenIs DEF InTurn
<1> HIDE DEF u
<1> DEFINE T == {n \in Nat : n <= N => u[n] \in D[n]}
<1>6. 0 \in T
  BY <1>4
<1>7. ASSUME NEW n \in Nat, n \in T PROVE n + 1 \in T
  <2>1. CASE n + 1 <= N
    <3>1. n + 1 \in 1 .. N /\ n + 1 \in 0 .. N /\ (n + 1) - 1 = n /\ u[n] \in D[n]
      BY <1>7, <2>1
    <3>2. \A k \in 0 .. N : u[k] = IF k = 0 THEN x ELSE steps[k][u[k - 1]]
      BY <1>4
    <3>3. u[n + 1] = steps[n + 1][u[n]]
      <4>1. u[n + 1] = IF n + 1 = 0 THEN x ELSE steps[n + 1][u[(n + 1) - 1]]
        BY <3>1, <3>2, Zenon
      <4>2. n + 1 # 0
        BY <3>1
      <4> QED BY <3>1, <4>1, <4>2
    <3>4. \A y \in D[(n + 1) - 1] : steps[n + 1][y] \in D[n + 1]
      BY <3>1
    <3>5. u[n + 1] \in D[n + 1]
      BY <3>1, <3>3, <3>4
    <3> QED BY <3>5
  <2> QED BY <2>1
<1>8. Nat \subseteq T
  <2> HIDE DEF T
  <2> QED BY <1>6, <1>7, NatSetInduction
<1> QED BY <1>5, <1>8

-----------------------------------------------------------------------------
(* The uses of a frame.                                                    *)
Tabled(d) == IF d \in Frames THEN d ELSE None

LEMMA FrameOfPage ==
    ASSUME NEW m, NEW c, NEW v \in Pages
    PROVE  /\ <<"page", v>> \in Uses
           /\ FrameOf(m, c)[<<"page", v>>] = IF v \in Mapped(m) THEN m.pte[v].frame ELSE None
<1>1. <<"page", v>> \in Uses
  BY DEF Uses
<1> QED BY <1>1 DEF FrameOf, Tabled

LEMMA FrameOfCopy ==
    ASSUME NEW m, NEW c, NEW v \in Pages
    PROVE  /\ <<"copy", v>> \in Uses
           /\ FrameOf(m, c)[<<"copy", v>>] = c.pte[v].frame
<1>1. <<"copy", v>> \in Uses
  BY DEF Uses
<1> QED BY <1>1 DEF FrameOf, Tabled

LEMMA FrameOfTable ==
    ASSUME NEW m, NEW c, NEW r \in Regions
    PROVE  /\ <<"table", r>> \in Uses
           /\ FrameOf(m, c)[<<"table", r>>] = Tabled(m.dir[r])
<1>1. <<"table", r>> \in Uses
  BY DEF Uses
<1> QED BY <1>1 DEF FrameOf, Tabled

LEMMA FrameOfChildTable ==
    ASSUME NEW m, NEW c, NEW r \in Regions
    PROVE  /\ <<"childtable", r>> \in Uses
           /\ FrameOf(m, c)[<<"childtable", r>>] = Tabled(c.dir[r])
<1>1. <<"childtable", r>> \in Uses
  BY DEF Uses
<1> QED BY <1>1 DEF FrameOf, Tabled

LEMMA FrameOfKernel ==
    ASSUME NEW m, NEW c, NEW f \in Kernel
    PROVE  /\ <<"kernel", f>> \in Uses
           /\ FrameOf(m, c)[<<"kernel", f>>] = f
<1>1. <<"kernel", f>> \in Uses
  BY DEF Uses
<1> QED BY <1>1 DEF FrameOf, Tabled

LEMMA FrameOfNone ==
    ASSUME NEW m, NEW c, NEW f, \A u \in Uses : FrameOf(m, c)[u] # f
    PROVE  /\ \A v \in Mapped(m) : m.pte[v].frame # f
           /\ \A v \in Pages : c.pte[v].frame # f
<1>1. ASSUME NEW v \in Mapped(m) PROVE m.pte[v].frame # f
  <2>1. v \in Pages
    BY DEF Mapped
  <2>2. <<"page", v>> \in Uses /\ FrameOf(m, c)[<<"page", v>>] = m.pte[v].frame
    BY <2>1, FrameOfPage
  <2> QED BY <2>2
<1>2. ASSUME NEW v \in Pages PROVE c.pte[v].frame # f
  <2>1. <<"copy", v>> \in Uses /\ FrameOf(m, c)[<<"copy", v>>] = c.pte[v].frame
    BY FrameOfCopy
  <2> QED BY <2>1
<1> QED BY <1>1, <1>2

LEMMA UseKinds ==
    ASSUME NEW u \in Uses
    PROVE  \/ \E v \in Pages : u = <<"page", v>>
           \/ \E v \in Pages : u = <<"copy", v>>
           \/ \E r \in Regions : u = <<"table", r>>
           \/ \E r \in Regions : u = <<"childtable", r>>
           \/ \E f \in Kernel : u = <<"kernel", f>>
BY DEF Uses

(* Each frame has one use, and is not free then; o is what is held and a   *)
(* how often a frame is free.                                              *)
Disjoint(o, a) ==
    /\ \A f \in Frames : a[f] \in 0 .. 1
    /\ \A u \in Uses : o[u] \in Frames => a[o[u]] = 0
    /\ \A u, w \in Uses : o[u] = o[w] /\ o[u] \in Frames => u = w

LEMMA DisjointCounts ==
    ASSUME NEW o, NEW a, Disjoint(o, a)
    PROVE  \A f \in Frames : Cardinality({u \in Uses : o[u] = f}) + a[f] <= 1
<1> TAKE f \in Frames
<1> DEFINE S == {u \in Uses : o[u] = f}
<1>1. a[f] \in 0 .. 1
  BY DEF Disjoint
<1>2. CASE S = {}
  BY <1>1, <1>2, FS_EmptySet
<1>3. CASE S # {}
  <2>1. PICK u \in Uses : o[u] = f
    BY <1>3
  <2>2. S = {u} /\ a[f] = 0
    BY <2>1 DEF Disjoint
  <2>3. Cardinality(S) = 1
    BY <2>2, FS_Singleton
  <2> HIDE DEF S
  <2>4. Cardinality(S) + a[f] <= 1
    BY <2>2, <2>3
  <2> QED BY <2>4 DEF S
<1> QED BY <1>2, <1>3

(* A free frame is taken, and used for u or for nothing.                   *)
LEMMA Gains ==
    ASSUME NEW o, NEW a \in [Frames -> Nat], Disjoint(o, a), NEW f \in Frames, a[f] > 0
    PROVE  /\ Disjoint(o, [a EXCEPT ![f] = @ - 1])
           /\ \A u \in Uses : o[u] # f
BY SMTT(30) DEF Disjoint

LEMMA UsedOnce ==
    ASSUME NEW o, NEW a, Disjoint(o, a), NEW f \in Frames, a[f] = 0,
           NEW u \in Uses, NEW p, p[u] = f,
           \A w \in Uses : o[w] # f /\ (w # u => p[w] = o[w])
    PROVE  Disjoint(p, a)
BY SMTT(30) DEF Disjoint

(* Uses end; and a frame that was of use for nothing else may become free. *)
LEMMA Fewer ==
    ASSUME NEW o, NEW a, Disjoint(o, a), NEW p,
           \A u \in Uses : p[u] = o[u] \/ p[u] \notin Frames
    PROVE  Disjoint(p, a)
BY DEF Disjoint

LEMMA Loses ==
    ASSUME NEW o, NEW a, Disjoint(o, a), NEW f \in Frames,
           \A u \in Uses : o[u] # f,
           NEW b, \A g \in Frames : b[g] = a[g] \/ (g = f /\ b[g] \in 0 .. 1)
    PROVE  Disjoint(o, b)
BY DEF Disjoint

-----------------------------------------------------------------------------
(* The invariant, of the memory and of what fork made.  The shape: a huge  *)
(* page is a low region, an entry is in a table, an entry that is not the  *)
(* program's is one of the identity map, and nothing is stored in a page   *)
(* the program does not have.                                              *)
Shaped(m) ==
    /\ \A r \in Regions : m.dir[r] = Huge => r < LowRegions
    /\ \A v \in Pages : m.dir[Region(v)] \notin Frames => m.pte[v].frame = None
    /\ \A v \in Pages :
          m.pte[v].frame # None /\ ~m.pte[v].user => Region(v) < LowRegions
    /\ \A v \in Pages : v \notin Mapped(m) => m.wrote[v] = 0
(* What PagesKeep says, of any memory on the way.                          *)
Keeps(m, c) ==
    /\ \A v \in Mapped(m) : m.mem[m.pte[v].frame] = m.wrote[v]
    /\ \A v \in Pages : c.pte[v].frame # None => m.mem[c.pte[v].frame] = c.wrote[v]
SpaceGood(m, c) ==
    /\ m \in Memory /\ c \in Children
    /\ Shaped(m) /\ Keeps(m, c) /\ Disjoint(FrameOf(m, c), m.avail)

(* A frame that is taken, and not used yet.                                *)
Unused(m, c, f) ==
    f \in Frames /\ m.avail[f] = 0 /\ m.mem[f] = 0 /\ \A u \in Uses : FrameOf(m, c)[u] # f

LEMMA UnusedApart ==
    ASSUME NEW m, NEW c, NEW f, Unused(m, c, f)
    PROVE  /\ \A y \in Mapped(m) : m.pte[y].frame # f
           /\ \A y \in Pages : c.pte[y].frame # f
<1>1. \A u \in Uses : FrameOf(m, c)[u] # f
  BY DEF Unused
<1> QED BY <1>1, FrameOfNone

-----------------------------------------------------------------------------
(* Frames are taken and mapped.                                            *)
LEMMA Picked ==
    ASSUME VmmAssumption, NEW m \in Memory, NEW hint \in Frames, FreeFrames(m) # {}
    PROVE  Pick(m, hint) \in FreeFrames(m)
<1> DEFINE S == {Distance(f, hint) : f \in FreeFrames(m)}
<1>1. S \in SUBSET Nat
  <2>1. ASSUME NEW f \in FreeFrames(m) PROVE Distance(f, hint) \in Nat
    <3> DEFINE n == Cardinality(Frames)
               k == f + n - hint
    <3>1. n \in Nat /\ Frames = 0 .. n - 1
      BY SpaceSizes DEF VmmAssumption
    <3>2. f \in Frames
      BY DEF FreeFrames
    <3>3. n \in Nat \ {0} /\ k \in Int
      BY <3>1, <3>2
    <3> HIDE DEF k, n
    <3>4. k % n \in 0 .. n - 1
      BY <3>3, Divided
    <3> QED BY <3>3, <3>4 DEF Distance, k, n
  <2> QED BY <2>1
<1>2. PICK x \in S : \A y \in S : x <= y
  <2>1. S # {}
    OBVIOUS
  <2> HIDE DEF S
  <2> QED BY <1>1, <2>1, LeastIn
<1>3. \E f \in FreeFrames(m) : \A g \in FreeFrames(m) : Distance(f, hint) <= Distance(g, hint)
  BY <1>2
<1> QED BY <1>3 DEF Pick

Fields(m) ==
    m \in [dir: {m.dir}, pte: {m.pte}, avail: {m.avail}, ref: {m.ref}, mem: {m.mem},
           wrote: {m.wrote}]

LEMMA TakenFields ==
    ASSUME NEW m \in Memory, NEW f \in FreeFrames(m)
    PROVE  LET t == TakenFrame(m, f)
           IN  /\ t \in Memory /\ f \in Frames /\ m.avail[f] > 0
               /\ t.dir = m.dir /\ t.pte = m.pte /\ t.wrote = m.wrote
               /\ t.avail = [m.avail EXCEPT ![f] = @ - 1]
               /\ t.mem = [m.mem EXCEPT ![f] = 0]
<1> DEFINE t == TakenFrame(m, f)
<1>1. f \in Frames /\ m.avail[f] > 0
  BY DEF FreeFrames
<1>2. /\ m.avail \in [Frames -> 0 .. 2] /\ m.ref \in [Frames -> 0 .. 1]
      /\ m.mem \in [Frames -> 0 .. 1]
  BY DEF Memory
<1>3. t.dir = m.dir /\ t.pte = m.pte /\ t.wrote = m.wrote
  BY DEF Memory, TakenFrame
<1>4. t.avail = [m.avail EXCEPT ![f] = @ - 1]
  BY DEF Memory, TakenFrame
<1>5. t.mem = [m.mem EXCEPT ![f] = 0]
  BY DEF Memory, TakenFrame
<1>6. t.ref = [m.ref EXCEPT ![f] = 1]
  BY DEF Memory, TakenFrame
<1>7. Fields(t)
  BY DEF Memory, TakenFrame, Fields
<1>8. t \in Memory
  <2> HIDE DEF t
  <2>1. /\ t.avail \in [Frames -> 0 .. 2] /\ t.ref \in [Frames -> 0 .. 1]
        /\ t.mem \in [Frames -> 0 .. 1]
    BY <1>1, <1>2, <1>4, <1>5, <1>6
  <2> QED BY <1>3, <1>7, <2>1 DEF Memory, Fields
<1> QED BY <1>1, <1>3, <1>4, <1>5, <1>8

LEMMA SameFrames ==
    ASSUME NEW m, NEW n, NEW c, m.dir = n.dir, m.pte = n.pte
    PROVE  FrameOf(m, c) = FrameOf(n, c) /\ Mapped(m) = Mapped(n)
BY DEF FrameOf, Mapped, Present

LEMMA TakeSound ==
    ASSUME NEW m, NEW c, SpaceGood(m, c), NEW f \in FreeFrames(m)
    PROVE  LET t == TakenFrame(m, f)
           IN  /\ SpaceGood(t, c) /\ Unused(t, c, f)
               /\ \A g : Unused(m, c, g) => Unused(t, c, g)
<1> DEFINE t == TakenFrame(m, f)
<1>1. /\ t \in Memory /\ f \in Frames /\ m.avail[f] > 0
      /\ t.dir = m.dir /\ t.pte = m.pte /\ t.wrote = m.wrote
      /\ t.avail = [m.avail EXCEPT ![f] = @ - 1]
      /\ t.mem = [m.mem EXCEPT ![f] = 0]
  BY TakenFields DEF SpaceGood
<1> HIDE DEF t
<1>2. FrameOf(t, c) = FrameOf(m, c) /\ Mapped(t) = Mapped(m)
  BY <1>1, SameFrames
<1>3. Disjoint(FrameOf(t, c), t.avail) /\ \A u \in Uses : FrameOf(m, c)[u] # f
  <2>1. m.avail \in [Frames -> Nat]
    BY DEF SpaceGood, Memory
  <2> QED BY <1>1, <1>2, <2>1, Gains DEF SpaceGood
<1>4. Shaped(t)
  BY <1>1, <1>2 DEF SpaceGood, Shaped
<1>5. Keeps(t, c)
  <2>1. ASSUME NEW v \in Mapped(t) PROVE t.mem[t.pte[v].frame] = t.wrote[v]
    <3>1. m.pte[v].frame # f
      <4>1. v \in Mapped(m)
        BY <1>2, <2>1
      <4> QED BY <1>3, <4>1, FrameOfNone
    <3>2. m.mem[m.pte[v].frame] = m.wrote[v]
      BY <1>2, <2>1 DEF SpaceGood, Keeps
    <3>3. m.mem \in [Frames -> 0 .. 1] /\ m.pte[v].frame \in Frames \cup {None}
      <4>1. v \in Pages /\ m.pte \in [Pages -> Pte] /\ m.mem \in [Frames -> 0 .. 1]
        BY <2>1 DEF SpaceGood, Memory, Mapped
      <4> QED BY <4>1 DEF Pte
    <3>4. m.pte[v].frame \in Frames
      BY <1>2, <2>1, <3>3 DEF Mapped, Present
    <3> QED BY <1>1, <3>1, <3>2, <3>3, <3>4
  <2>2. ASSUME NEW v \in Pages, c.pte[v].frame # None
        PROVE  t.mem[c.pte[v].frame] = c.wrote[v]
    <3>1. c.pte[v].frame # f
      BY <1>3, FrameOfNone
    <3> QED BY <1>1, <2>2, <3>1 DEF SpaceGood, Keeps, Memory, Pte
  <2> QED BY <2>1, <2>2 DEF Keeps
<1>6. m.avail[f] = 1
  BY <1>1 DEF SpaceGood, Disjoint
<1>7. Unused(t, c, f)
  <2>1. m.avail \in [Frames -> 0 .. 2] /\ m.mem \in [Frames -> 0 .. 1]
    BY DEF SpaceGood, Memory
  <2> QED BY <1>1, <1>2, <1>3, <1>6, <2>1 DEF Unused
<1>8. ASSUME NEW g, Unused(m, c, g) PROVE Unused(t, c, g)
  <2>1. m.avail \in [Frames -> 0 .. 2] /\ m.mem \in [Frames -> 0 .. 1]
    BY DEF SpaceGood, Memory
  <2> QED BY <1>1, <1>2, <1>6, <1>8, <2>1 DEF Unused
<1> QED BY <1>1, <1>2, <1>3, <1>4, <1>5, <1>7, <1>8 DEF SpaceGood, t

LEMMA LowPage ==
    ASSUME VmmAssumption, NEW v \in Pages, Region(v) < LowRegions
    PROVE  v \in Frames
<1> DEFINE k == v \div ENTRIES
<1>1. v \in Nat /\ ENTRIES \in Nat \ {0} /\ LowRegions \in Nat
  BY SpaceSizes DEF Pages, VmmAssumption
<1>2. k \in Int /\ v % ENTRIES \in 0 .. ENTRIES - 1 /\ v = ENTRIES * k + (v % ENTRIES)
  BY <1>1, Divided
<1>3. k < LowRegions
  BY DEF Region
<1> HIDE DEF k
<1>4. ENTRIES * k + ENTRIES <= ENTRIES * LowRegions
  BY <1>1, <1>2, <1>3, Product
<1>5. ENTRIES * k \in Int /\ ENTRIES * LowRegions \in Int
  BY <1>1, <1>2, SMTT(30)
<1>6. v < ENTRIES * LowRegions
  BY <1>1, <1>2, <1>4, <1>5
<1>7. /\ ENTRIES * LowRegions <= Cardinality(Frames) /\ Cardinality(Frames) \in Nat
      /\ Frames = 0 .. Cardinality(Frames) - 1
  BY SpaceSizes DEF VmmAssumption
<1> QED BY <1>1, <1>5, <1>6, <1>7

(* A table is put in the place of nothing or of a huge page.               *)
Entry(m, r, v) ==
    IF m.dir[r] = None THEN NotPresent
    ELSE [frame |-> v, user |-> FALSE, write |-> TRUE]
Tables(m, r, f, t) ==
    /\ t \in Memory
    /\ t.dir = [m.dir EXCEPT ![r] = f]
    /\ t.pte = [v \in Pages |-> IF Region(v) = r THEN Entry(m, r, v) ELSE m.pte[v]]
    /\ t.avail = m.avail /\ t.mem = m.mem /\ t.wrote = m.wrote

LEMMA TableSound ==
    ASSUME VmmAssumption, NEW m, NEW c, SpaceGood(m, c), NEW f, Unused(m, c, f),
           NEW r \in Regions, m.dir[r] \notin Frames, NEW t, Tables(m, r, f, t)
    PROVE  /\ SpaceGood(t, c) /\ Mapped(t) = Mapped(m)
           /\ \A g : g # f /\ Unused(m, c, g) => Unused(t, c, g)
<1>1. m \in Memory /\ m.dir \in [Regions -> Frames \cup {None, Huge}] /\ f \in Frames
  BY DEF SpaceGood, Memory, Unused
<1>2. \A v \in Pages : Region(v) \in Regions
  BY RegionOf
<1>3. \A v \in Pages : Region(v) = r => m.pte[v].frame = None
  BY DEF SpaceGood, Shaped
<1>4. \A v \in Pages : Region(v) = r => ~t.pte[v].user \/ t.pte[v].frame = None
  BY DEF Tables, Entry, NotPresent
<1>5. \A v \in Pages : Region(v) # r => t.pte[v] = m.pte[v]
  BY DEF Tables
<1>6. \A q \in Regions : q # r => t.dir[q] = m.dir[q]
  BY <1>1 DEF Tables
<1>7. t.dir[r] = f
  BY <1>1 DEF Tables
<1>8. Mapped(t) = Mapped(m)
  <2>1. ASSUME NEW v \in Pages PROVE v \in Mapped(t) <=> v \in Mapped(m)
    <3>1. CASE Region(v) = r
      BY <1>3, <1>4, <3>1 DEF Mapped, Present
    <3>2. CASE Region(v) # r
      BY <1>2, <1>5, <1>6, <3>2 DEF Mapped, Present
    <3> QED BY <3>1, <3>2
  <2> QED BY <2>1 DEF Mapped
<1>9. \A v \in Mapped(m) : t.pte[v] = m.pte[v]
  BY <1>3, <1>5 DEF Mapped, Present
<1>10. \A u \in Uses : u # <<"table", r>> => FrameOf(t, c)[u] = FrameOf(m, c)[u]
  <2>1. ASSUME NEW v \in Pages PROVE FrameOf(t, c)[<<"page", v>>] = FrameOf(m, c)[<<"page", v>>]
    BY <1>8, <1>9, FrameOfPage
  <2>2. ASSUME NEW v \in Pages PROVE FrameOf(t, c)[<<"copy", v>>] = FrameOf(m, c)[<<"copy", v>>]
    BY FrameOfCopy
  <2>3. ASSUME NEW q \in Regions, q # r
        PROVE  FrameOf(t, c)[<<"table", q>>] = FrameOf(m, c)[<<"table", q>>]
    BY <1>6, <2>3, FrameOfTable
  <2>4. ASSUME NEW q \in Regions
        PROVE  FrameOf(t, c)[<<"childtable", q>>] = FrameOf(m, c)[<<"childtable", q>>]
    BY FrameOfChildTable
  <2>5. ASSUME NEW g \in Kernel
        PROVE  FrameOf(t, c)[<<"kernel", g>>] = FrameOf(m, c)[<<"kernel", g>>]
    BY FrameOfKernel
  <2> QED BY <2>1, <2>2, <2>3, <2>4, <2>5, UseKinds
<1>11. <<"table", r>> \in Uses /\ FrameOf(t, c)[<<"table", r>>] = f
  BY <1>1, <1>7, FrameOfTable DEF Tabled
<1>12. Disjoint(FrameOf(t, c), t.avail)
  <2>1. /\ Disjoint(FrameOf(m, c), m.avail) /\ t.avail = m.avail /\ m.avail[f] = 0
        /\ \A u \in Uses : FrameOf(m, c)[u] # f
    BY DEF SpaceGood, Unused, Tables
  <2> QED BY <1>1, <1>10, <1>11, <2>1, UsedOnce
<1>13. Shaped(t)
  <2>1. ASSUME NEW q \in Regions, t.dir[q] = Huge PROVE q < LowRegions
    BY <1>1, <1>6, <1>7, <2>1, SpaceSizes DEF SpaceGood, Shaped
  <2>2. ASSUME NEW v \in Pages, t.dir[Region(v)] \notin Frames PROVE t.pte[v].frame = None
    <3>1. Region(v) # r
      BY <1>1, <1>7, <2>2
    <3> QED BY <1>2, <1>5, <1>6, <2>2, <3>1 DEF SpaceGood, Shaped
  <2>3. ASSUME NEW v \in Pages, t.pte[v].frame # None, ~t.pte[v].user
        PROVE  Region(v) < LowRegions
    <3>1. CASE Region(v) = r
      <4>1. m.dir[r] # None
        BY <2>3, <3>1 DEF Tables, Entry, NotPresent
      <4>2. m.dir[r] = Huge
        BY <1>1, <4>1
      <4> QED BY <3>1, <4>2 DEF SpaceGood, Shaped
    <3>2. CASE Region(v) # r
      BY <1>5, <2>3, <3>2 DEF SpaceGood, Shaped
    <3> QED BY <3>1, <3>2
  <2>4. ASSUME NEW v \in Pages, v \notin Mapped(t) PROVE t.wrote[v] = 0
    BY <1>8, <2>4 DEF Tables, SpaceGood, Shaped
  <2> QED BY <2>1, <2>2, <2>3, <2>4 DEF Shaped
<1>14. Keeps(t, c)
  BY <1>8, <1>9 DEF Tables, SpaceGood, Keeps
<1>15. ASSUME NEW g, g # f, Unused(m, c, g) PROVE Unused(t, c, g)
  BY <1>10, <1>11, <1>15 DEF Unused, Tables
<1> QED BY <1>8, <1>12, <1>13, <1>14, <1>15 DEF SpaceGood, Tables

LEMMA WithTableSound ==
    ASSUME VmmAssumption, NEW m, NEW c, SpaceGood(m, c), NEW r \in Regions, NEW hint \in Frames
    PROVE  LET t == WithTable(m, r, hint)
           IN  /\ SpaceGood(t, c) /\ Mapped(t) = Mapped(m)
               /\ \A g : Unused(m, c, g) => Unused(t, c, g)
<1> DEFINE f == Pick(m, hint)
           n == TakenFrame(m, f)
           t == WithTable(m, r, hint)
<1>1. CASE m.dir[r] \in Frames \/ FreeFrames(m) = {}
  BY <1>1 DEF WithTable
<1>2. CASE m.dir[r] \notin Frames /\ FreeFrames(m) # {}
  <2>1. m \in Memory /\ f \in FreeFrames(m)
    BY <1>2, Picked DEF SpaceGood
  <2> HIDE DEF f
  <2>2. SpaceGood(n, c) /\ Unused(n, c, f) /\ \A g : Unused(m, c, g) => Unused(n, c, g)
    BY <2>1, TakeSound
  <2>3. n \in Memory /\ n.dir = m.dir /\ n.pte = m.pte /\ m.avail[f] > 0 /\ f \in Frames
    BY <2>1, TakenFields
  <2>4. t = [n EXCEPT !.dir[r] = f,
               !.pte = [v \in Pages |-> IF Region(v) = r THEN Entry(m, r, v) ELSE m.pte[v]]]
    BY <1>2, <2>3 DEF WithTable, f, Entry
  <2>5. Tables(n, r, f, t)
    <3> DEFINE p == [v \in Pages |-> IF Region(v) = r THEN Entry(m, r, v) ELSE m.pte[v]]
    <3>1. p \in [Pages -> Pte]
      <4>1. m.pte \in [Pages -> Pte]
        BY <2>1 DEF Memory
      <4>2. NotPresent \in Pte
        BY DEF NotPresent, Pte
      <4>3. ASSUME NEW v \in Pages, Region(v) = r, m.dir[r] # None PROVE v \in Frames
        <5>1. m.dir[r] = Huge
          BY <1>2, <2>1, <4>3 DEF Memory
        <5> QED BY <4>3, <5>1, LowPage DEF SpaceGood, Shaped
      <4>4. ASSUME NEW v \in Pages, Region(v) = r PROVE Entry(m, r, v) \in Pte
        BY <4>2, <4>3, <4>4 DEF Entry, Pte
      <4> QED BY <4>1, <4>4
    <3> HIDE DEF p, n
    <3>2. t.dir = [n.dir EXCEPT ![r] = f]
      BY <2>3, <2>4 DEF Memory
    <3>3. t.pte = p
      BY <2>3, <2>4 DEF Memory, p
    <3>4. t.avail = n.avail /\ t.mem = n.mem /\ t.wrote = n.wrote /\ t.ref = n.ref
      BY <2>3, <2>4 DEF Memory
    <3>5. Fields(t)
      BY <2>3, <2>4 DEF Memory, Fields
    <3>6. t \in Memory
      <4>1. n.dir \in [Regions -> Frames \cup {None, Huge}]
        BY <2>3 DEF Memory
      <4>2. t.dir \in [Regions -> Frames \cup {None, Huge}]
        BY <2>3, <3>2, <4>1
      <4> HIDE DEF t
      <4> QED BY <2>3, <3>1, <3>3, <3>4, <3>5, <4>2 DEF Fields, Memory
    <3>7. p = [v \in Pages |-> IF Region(v) = r THEN Entry(n, r, v) ELSE n.pte[v]]
      BY <2>3 DEF p, Entry
    <3> QED BY <3>2, <3>3, <3>4, <3>6, <3>7 DEF Tables
  <2> HIDE DEF n, t
  <2>6. n.dir[r] \notin Frames
    BY <1>2, <2>3
  <2>7. /\ SpaceGood(t, c) /\ Mapped(t) = Mapped(n)
        /\ \A g : g # f /\ Unused(n, c, g) => Unused(t, c, g)
    BY <2>2, <2>5, <2>6, TableSound
  <2>8. Mapped(n) = Mapped(m)
    BY <2>3, SameFrames
  <2>9. \A g : Unused(m, c, g) => g # f
    BY <2>3 DEF Unused
  <2> QED BY <2>2, <2>7, <2>8, <2>9 DEF t
<1> QED BY <1>1, <1>2

(* A page is mapped to a frame that is taken.                              *)
MapsTo(m, v, f, w, n) ==
    n = [m EXCEPT !.pte[v] = [frame |-> f, user |-> TRUE, write |-> w]]

LEMMA PteSet ==
    ASSUME VmmAssumption, NEW m, NEW c, SpaceGood(m, c),
           NEW v \in Pages, m.dir[Region(v)] \in Frames, v \notin Mapped(m),
           NEW f, Unused(m, c, f), NEW w \in BOOLEAN,
           NEW n, MapsTo(m, v, f, w, n)
    PROVE  SpaceGood(n, c)
<1> DEFINE e == [frame |-> f, user |-> TRUE, write |-> w]
<1>1. m \in Memory /\ m.pte \in [Pages -> Pte] /\ f \in Frames /\ e \in Pte
  BY DEF SpaceGood, Memory, Unused, Pte
<1>2. /\ n.dir = m.dir /\ n.avail = m.avail /\ n.ref = m.ref /\ n.mem = m.mem
      /\ n.wrote = m.wrote
  BY <1>1 DEF MapsTo, Memory
<1>3. n.pte = [m.pte EXCEPT ![v] = e]
  BY <1>1 DEF MapsTo, Memory
<1>4. n \in Memory
  <2>1. Fields(n)
    BY <1>1 DEF MapsTo, Memory, Fields
  <2> HIDE DEF e
  <2>2. n.pte \in [Pages -> Pte]
    BY <1>1, <1>3
  <2> QED BY <1>1, <1>2, <2>1, <2>2 DEF Fields, Memory
<1>5. n.pte[v] = e /\ \A x \in Pages : x # v => n.pte[x] = m.pte[x]
  BY <1>1, <1>3
<1>6. f # None /\ e.frame = f /\ e.user
  BY <1>1, SpaceSizes
<1> HIDE DEF e
<1>7. v \in Mapped(n) /\ \A x \in Pages : x # v => (x \in Mapped(n) <=> x \in Mapped(m))
  BY <1>2, <1>5, <1>6 DEF Mapped, Present
<1>8. \A u \in Uses : u # <<"page", v>> => FrameOf(n, c)[u] = FrameOf(m, c)[u]
  <2>1. ASSUME NEW x \in Pages, x # v
        PROVE  FrameOf(n, c)[<<"page", x>>] = FrameOf(m, c)[<<"page", x>>]
    BY <1>5, <1>7, <2>1, FrameOfPage
  <2>2. ASSUME NEW x \in Pages PROVE FrameOf(n, c)[<<"copy", x>>] = FrameOf(m, c)[<<"copy", x>>]
    BY FrameOfCopy
  <2>3. ASSUME NEW q \in Regions PROVE FrameOf(n, c)[<<"table", q>>] = FrameOf(m, c)[<<"table", q>>]
    BY <1>2, FrameOfTable
  <2>4. ASSUME NEW q \in Regions
        PROVE  FrameOf(n, c)[<<"childtable", q>>] = FrameOf(m, c)[<<"childtable", q>>]
    BY FrameOfChildTable
  <2>5. ASSUME NEW g \in Kernel
        PROVE  FrameOf(n, c)[<<"kernel", g>>] = FrameOf(m, c)[<<"kernel", g>>]
    BY FrameOfKernel
  <2> QED BY <2>1, <2>2, <2>3, <2>4, <2>5, UseKinds
<1>9. <<"page", v>> \in Uses /\ FrameOf(n, c)[<<"page", v>>] = f
  BY <1>5, <1>6, <1>7, FrameOfPage
<1>10. Disjoint(FrameOf(n, c), n.avail)
  <2>1. /\ Disjoint(FrameOf(m, c), m.avail) /\ m.avail[f] = 0
        /\ \A u \in Uses : FrameOf(m, c)[u] # f
    BY DEF SpaceGood, Unused
  <2> QED BY <1>1, <1>2, <1>8, <1>9, <2>1, UsedOnce
<1>11. Shaped(n)
  BY <1>2, <1>5, <1>6, <1>7 DEF SpaceGood, Shaped
<1>12. Keeps(n, c)
  <2>1. n.mem[n.pte[v].frame] = n.wrote[v]
    BY <1>2, <1>5, <1>6 DEF SpaceGood, Shaped, Unused
  <2>2. ASSUME NEW x \in Mapped(n), x # v PROVE n.mem[n.pte[x].frame] = n.wrote[x]
    <3>1. x \in Pages /\ x \in Mapped(m)
      BY <1>7, <2>2 DEF Mapped
    <3> QED BY <1>2, <1>5, <2>2, <3>1 DEF SpaceGood, Keeps
  <2>3. ASSUME NEW x \in Pages, c.pte[x].frame # None
        PROVE  n.mem[c.pte[x].frame] = c.wrote[x]
    BY <1>2, <2>3 DEF SpaceGood, Keeps
  <2> QED BY <2>1, <2>2, <2>3 DEF Keeps
<1> QED BY <1>4, <1>10, <1>11, <1>12 DEF SpaceGood

LEMMA MapSound ==
    ASSUME VmmAssumption, NEW m, NEW c, SpaceGood(m, c), NEW f, Unused(m, c, f),
           NEW v \in Pages, v \notin Mapped(m), NEW w \in BOOLEAN, NEW hint \in Frames
    PROVE  SpaceGood(vmm_map(m, v, f, w, hint), c)
<1> DEFINE t == WithTable(m, Region(v), hint)
<1>1. SpaceGood(t, c) /\ Unused(t, c, f) /\ v \notin Mapped(t)
  BY RegionOf, WithTableSound
<1> HIDE DEF t
<1>2. CASE t.dir[Region(v)] \in Frames
  BY <1>1, <1>2, PteSet DEF vmm_map, MapsTo, t
<1>3. CASE t.dir[Region(v)] \notin Frames
  BY <1>1, <1>3 DEF vmm_map, t
<1> QED BY <1>2, <1>3

LEMMA FreshSound ==
    ASSUME VmmAssumption, NEW m, NEW c, SpaceGood(m, c), FreeFrames(m) # {},
           NEW v \in Pages, v \notin Mapped(m), NEW w \in BOOLEAN, NEW hint \in Frames
    PROVE  SpaceGood(MapFresh(m, v, w, hint), c)
<1> DEFINE f == Pick(m, hint)
           n == TakenFrame(m, f)
<1>1. m \in Memory /\ f \in FreeFrames(m)
  BY Picked DEF SpaceGood
<1> HIDE DEF f
<1>2. SpaceGood(n, c) /\ Unused(n, c, f)
  BY <1>1, TakeSound
<1>3. n.dir = m.dir /\ n.pte = m.pte
  BY <1>1, TakenFields
<1> HIDE DEF n
<1>4. v \notin Mapped(n)
  BY <1>3, SameFrames
<1> QED BY <1>2, <1>4, MapSound DEF MapFresh, n, f

-----------------------------------------------------------------------------
(* Frames are given back.                                                  *)
Returned(m, f, n) ==
    /\ n \in Memory /\ n.dir = m.dir /\ n.pte = m.pte /\ n.mem = m.mem
    /\ n.wrote = m.wrote
    /\ \A g \in Frames : n.avail[g] = m.avail[g] \/ (g = f /\ n.avail[g] = m.avail[g] + 1)

LEMMA FreeFields ==
    ASSUME NEW m \in Memory, NEW f \in Frames
    PROVE  Returned(m, f, pmm_free(m, f))
<1> DEFINE n == pmm_free(m, f)
<1>1. m.avail \in [Frames -> 0 .. 2]
  BY DEF Memory
<1>2. n.dir = m.dir /\ n.pte = m.pte /\ n.mem = m.mem /\ n.wrote = m.wrote /\ n.ref = m.ref
  BY DEF pmm_free, Memory
<1>3. n.avail = [m.avail EXCEPT ![f] = IF @ < 2 THEN @ + 1 ELSE @]
  BY DEF pmm_free, Memory
<1>4. Fields(n)
  BY DEF pmm_free, Memory, Fields
<1> HIDE DEF n
<1>5. n.avail \in [Frames -> 0 .. 2]
  BY <1>1, <1>3
<1>6. n \in Memory
  BY <1>2, <1>4, <1>5 DEF Memory, Fields
<1>7. \A g \in Frames : n.avail[g] = m.avail[g] \/ (g = f /\ n.avail[g] = m.avail[g] + 1)
  BY <1>1, <1>3
<1> QED BY <1>2, <1>6, <1>7 DEF Returned, n

LEMMA UnrefFields ==
    ASSUME NEW m \in Memory, NEW f \in Frames
    PROVE  Returned(m, f, pmm_unref(m, f))
<1> DEFINE n == [m EXCEPT !.ref[f] = 0]
<1>1. n.dir = m.dir /\ n.pte = m.pte /\ n.mem = m.mem /\ n.wrote = m.wrote
      /\ n.avail = m.avail
  BY DEF Memory
<1>2. n \in Memory
  BY DEF Memory
<1> HIDE DEF n
<1>3. Returned(n, f, pmm_free(n, f))
  BY <1>2, FreeFields
<1>4. CASE m.ref[f] = 0
  BY <1>4 DEF pmm_unref, Returned
<1>5. CASE m.ref[f] # 0
  BY <1>1, <1>3, <1>5 DEF pmm_unref, Returned, n
<1> QED BY <1>4, <1>5

(* The uses that only depend on what the record of a page was before.      *)
LEMMA OtherUses ==
    ASSUME NEW m, NEW n, NEW c, n.dir = m.dir, NEW v \in Pages,
           \A x \in Pages : x # v =>
               (x \in Mapped(n) <=> x \in Mapped(m)) /\ n.pte[x] = m.pte[x],
           NEW u \in Uses, u # <<"page", v>>
    PROVE  FrameOf(n, c)[u] = FrameOf(m, c)[u]
<1>1. ASSUME NEW x \in Pages, x # v
      PROVE  FrameOf(n, c)[<<"page", x>>] = FrameOf(m, c)[<<"page", x>>]
  BY <1>1, FrameOfPage
<1>2. ASSUME NEW x \in Pages PROVE FrameOf(n, c)[<<"copy", x>>] = FrameOf(m, c)[<<"copy", x>>]
  BY FrameOfCopy
<1>3. ASSUME NEW q \in Regions PROVE FrameOf(n, c)[<<"table", q>>] = FrameOf(m, c)[<<"table", q>>]
  BY FrameOfTable
<1>4. ASSUME NEW q \in Regions
      PROVE  FrameOf(n, c)[<<"childtable", q>>] = FrameOf(m, c)[<<"childtable", q>>]
  BY FrameOfChildTable
<1>5. ASSUME NEW g \in Kernel PROVE FrameOf(n, c)[<<"kernel", g>>] = FrameOf(m, c)[<<"kernel", g>>]
  BY FrameOfKernel
<1> QED BY <1>1, <1>2, <1>3, <1>4, <1>5, UseKinds

LEMMA UnmapSound ==
    ASSUME VmmAssumption, NEW m, NEW c, SpaceGood(m, c), NEW v \in Pages,
           Present(m, v) => m.pte[v].user
    PROVE  LET n == Unmapped(m, v)
           IN  /\ SpaceGood(n, c)
               /\ \A x \in Pages : Present(n, x) => Present(m, x) /\ n.pte[x] = m.pte[x]
<1> DEFINE f == m.pte[v].frame
           p == pmm_unref(m, f)
           n == Unmapped(m, v)
<1>1. CASE ~Present(m, v)
  BY <1>1 DEF Unmapped
<1>2. CASE Present(m, v)
  <2>1. m \in Memory /\ m.pte \in [Pages -> Pte] /\ f \in Frames /\ v \in Mapped(m)
    <3>1. m \in Memory /\ m.pte \in [Pages -> Pte]
      BY DEF SpaceGood, Memory
    <3> QED BY <1>2, <3>1 DEF Present, Mapped, Pte
  <2> HIDE DEF f
  <2>2. Returned(m, f, p)
    BY <2>1, UnrefFields
  <2> HIDE DEF p
  <2>3. n = [p EXCEPT !.pte[v] = NotPresent, !.wrote[v] = 0]
    BY <1>2 DEF Unmapped, p, f
  <2>4. p \in Memory
    BY <2>2 DEF Returned
  <2>5. n.dir = m.dir /\ n.mem = m.mem /\ n.avail = p.avail /\ n.ref = p.ref
    BY <2>2, <2>3, <2>4 DEF Memory, Returned
  <2>6. n.pte = [m.pte EXCEPT ![v] = NotPresent]
    BY <2>2, <2>3, <2>4 DEF Memory, Returned
  <2>7. n.wrote = [m.wrote EXCEPT ![v] = 0]
    BY <2>2, <2>3, <2>4 DEF Memory, Returned
  <2>8. n \in Memory
    <3>1. Fields(n)
      BY <2>3, <2>4 DEF Memory, Fields
    <3>2. NotPresent \in Pte
      BY DEF NotPresent, Pte
    <3>3. n.pte \in [Pages -> Pte] /\ n.wrote \in [Pages -> 0 .. 1]
      BY <2>1, <2>6, <2>7, <3>2 DEF Memory
    <3> HIDE DEF n
    <3> QED BY <2>1, <2>4, <2>5, <3>1, <3>3 DEF Fields, Memory
  <2> HIDE DEF n
  <2>9. /\ n.pte[v] = NotPresent /\ n.wrote[v] = 0
        /\ \A x \in Pages : x # v => n.pte[x] = m.pte[x] /\ n.wrote[x] = m.wrote[x]
    <3>1. m.wrote \in [Pages -> 0 .. 1]
      BY <2>1 DEF Memory
    <3> QED BY <2>1, <2>6, <2>7, <3>1
  <2>10. ~Present(n, v)
    BY <2>9 DEF Present, NotPresent
  <2>11. \A x \in Pages : x # v => (Present(n, x) <=> Present(m, x))
    BY <2>5, <2>9 DEF Present
  <2>12. /\ v \notin Mapped(n)
         /\ \A x \in Pages : x # v => (x \in Mapped(n) <=> x \in Mapped(m))
    BY <2>9, <2>10, <2>11 DEF Mapped
  <2>13. \A u \in Uses : u # <<"page", v>> => FrameOf(n, c)[u] = FrameOf(m, c)[u]
    BY <2>5, <2>9, <2>12, OtherUses
  <2>14. FrameOf(n, c)[<<"page", v>>] = None /\ FrameOf(m, c)[<<"page", v>>] = f
         /\ <<"page", v>> \in Uses
    BY <2>1, <2>12, FrameOfPage DEF f
  <2>15. None \notin Frames
    BY SpaceSizes
  <2>16. Disjoint(FrameOf(n, c), n.avail)
    <3>1. Disjoint(FrameOf(m, c), m.avail) /\ m.avail[f] = 0
      BY <2>1, <2>14 DEF SpaceGood, Disjoint
    <3>2. Disjoint(FrameOf(n, c), m.avail)
      BY <2>13, <2>14, <2>15, <3>1, Fewer
    <3>3. \A u \in Uses : FrameOf(n, c)[u] # f
      BY <2>1, <2>13, <2>14, <2>15, <3>1 DEF Disjoint
    <3>4. \A g \in Frames : n.avail[g] = m.avail[g] \/ (g = f /\ n.avail[g] \in 0 .. 1)
      BY <2>2, <2>5, <3>1 DEF Returned
    <3> QED BY <2>1, <3>2, <3>3, <3>4, Loses
  <2>17. Shaped(n)
    <3>1. \A r \in Regions : n.dir[r] = Huge => r < LowRegions
      BY <2>5 DEF SpaceGood, Shaped
    <3>2. n.pte[v].frame = None
      BY <2>9 DEF NotPresent
    <3>3. \A x \in Pages : n.dir[Region(x)] \notin Frames => n.pte[x].frame = None
      BY <2>5, <2>9, <3>2 DEF SpaceGood, Shaped
    <3>4. \A x \in Pages :
            n.pte[x].frame # None /\ ~n.pte[x].user => Region(x) < LowRegions
      BY <2>9, <3>2 DEF SpaceGood, Shaped
    <3>5. \A x \in Pages : x \notin Mapped(n) => n.wrote[x] = 0
      BY <2>9, <2>12 DEF SpaceGood, Shaped
    <3> QED BY <3>1, <3>3, <3>4, <3>5 DEF Shaped
  <2>18. Keeps(n, c)
    <3>1. ASSUME NEW x \in Mapped(n) PROVE n.mem[n.pte[x].frame] = n.wrote[x]
      <4>1. x \in Pages /\ x # v /\ x \in Mapped(m)
        BY <2>12, <3>1 DEF Mapped
      <4> QED BY <2>5, <2>9, <4>1 DEF SpaceGood, Keeps
    <3>2. \A x \in Pages : c.pte[x].frame # None => n.mem[c.pte[x].frame] = c.wrote[x]
      BY <2>5 DEF SpaceGood, Keeps
    <3> QED BY <3>1, <3>2 DEF Keeps
  <2>19. SpaceGood(n, c)
    BY <2>8, <2>16, <2>17, <2>18 DEF SpaceGood
  <2> QED BY <2>9, <2>10, <2>11, <2>19 DEF n
<1> QED BY <1>1, <1>2

(* All pages of a sequence are unmapped, when the program owns them.       *)
LEMMA AllUnmappedSound ==
    ASSUME VmmAssumption, NEW c, SpaceGood(mm, c), NEW N \in Nat, NEW pages \in [1 .. N -> Pages],
           \A k \in 1 .. N : Present(mm, pages[k]) => mm.pte[pages[k]].user
    PROVE  SpaceGood(AllUnmapped(pages), c)
<1> DEFINE steps == [k \in DOMAIN pages |-> [m \in Memory |-> Unmapped(m, pages[k])]]
           E == {m \in Memory : /\ SpaceGood(m, c)
                                /\ \A k \in 1 .. N :
                                      Present(m, pages[k]) => m.pte[pages[k]].user}
           D == [k \in 0 .. N |-> E]
<1>1. steps = [k \in 1 .. N |-> steps[k]]
  BY SMT
<1>2. mm \in D[0]
  BY DEF SpaceGood
<1>3. ASSUME NEW k \in 1 .. N, NEW m \in D[k - 1] PROVE steps[k][m] \in D[k]
  <2>1. m \in Memory /\ SpaceGood(m, c) /\ pages[k] \in Pages
        /\ (\A i \in 1 .. N : Present(m, pages[i]) => m.pte[pages[i]].user)
    BY <1>3
  <2>2. steps[k][m] = Unmapped(m, pages[k])
    BY <2>1
  <2> DEFINE n == Unmapped(m, pages[k])
  <2>3. SpaceGood(n, c)
        /\ \A x \in Pages : Present(n, x) => Present(m, x) /\ n.pte[x] = m.pte[x]
    BY <2>1, UnmapSound
  <2> HIDE DEF n
  <2>4. \A i \in 1 .. N : pages[i] \in Pages
    OBVIOUS
  <2>5. n \in E
    BY <2>1, <2>3, <2>4 DEF SpaceGood
  <2> QED BY <2>2, <2>5 DEF n
<1>4. InTurn(steps, mm) \in D[N]
  <2> HIDE DEF steps, D
  <2> QED BY <1>1, <1>2, <1>3, InTurnEnds
<1>5. AllUnmapped(pages) = InTurn(steps, mm)
  BY DEF AllUnmapped
<1> QED BY <1>4, <1>5

-----------------------------------------------------------------------------
(* Entries change but neither what they lead to nor who may use it.        *)
LEMMA EntriesSound ==
    ASSUME NEW m, NEW c, SpaceGood(m, c), NEW n \in Memory,
           n.dir = m.dir, n.avail = m.avail, n.mem = m.mem, n.wrote = m.wrote,
           \A v \in Pages : n.pte[v].frame = m.pte[v].frame /\ n.pte[v].user = m.pte[v].user
    PROVE  SpaceGood(n, c)
<1>1. Mapped(n) = Mapped(m)
  BY DEF Mapped, Present
<1>2. \A u \in Uses : FrameOf(n, c)[u] = FrameOf(m, c)[u]
  <2>1. ASSUME NEW x \in Pages PROVE FrameOf(n, c)[<<"page", x>>] = FrameOf(m, c)[<<"page", x>>]
    BY <1>1, FrameOfPage
  <2>2. ASSUME NEW x \in Pages PROVE FrameOf(n, c)[<<"copy", x>>] = FrameOf(m, c)[<<"copy", x>>]
    BY FrameOfCopy
  <2>3. ASSUME NEW q \in Regions PROVE FrameOf(n, c)[<<"table", q>>] = FrameOf(m, c)[<<"table", q>>]
    BY FrameOfTable
  <2>4. ASSUME NEW q \in Regions
        PROVE  FrameOf(n, c)[<<"childtable", q>>] = FrameOf(m, c)[<<"childtable", q>>]
    BY FrameOfChildTable
  <2>5. ASSUME NEW g \in Kernel
        PROVE  FrameOf(n, c)[<<"kernel", g>>] = FrameOf(m, c)[<<"kernel", g>>]
    BY FrameOfKernel
  <2> QED BY <2>1, <2>2, <2>3, <2>4, <2>5, UseKinds
<1>3. Disjoint(FrameOf(n, c), n.avail)
  BY <1>2, Fewer DEF SpaceGood
<1>4. Shaped(n)
  BY <1>1 DEF SpaceGood, Shaped
<1>5. Keeps(n, c)
  <2>1. \A v \in Mapped(m) : v \in Pages
    BY DEF Mapped
  <2> QED BY <1>1, <2>1 DEF SpaceGood, Keeps
<1> QED BY <1>3, <1>4, <1>5 DEF SpaceGood

(* The program stores in a page.                                           *)
Stores(m, v, f, x, n) == n = [m EXCEPT !.mem[f] = x, !.wrote[v] = x]

LEMMA StoreSound ==
    ASSUME NEW m, NEW c, SpaceGood(m, c), NEW v \in Mapped(m), NEW x \in 0 .. 1,
           NEW n, Stores(m, v, m.pte[v].frame, x, n)
    PROVE  SpaceGood(n, c)
<1> DEFINE f == m.pte[v].frame
<1>1. m \in Memory /\ f \in Frames /\ v \in Pages
  BY DEF SpaceGood, Memory, Pte, Mapped, Present
<1>2. Stores(m, v, f, x, n)
  OBVIOUS
<1>3. <<"page", v>> \in Uses /\ FrameOf(m, c)[<<"page", v>>] = f
  BY <1>1, FrameOfPage
<1> HIDE DEF f
<1>4. n.dir = m.dir /\ n.pte = m.pte /\ n.avail = m.avail /\ n.ref = m.ref
  BY <1>1, <1>2 DEF Memory, Stores
<1>5. n.mem = [m.mem EXCEPT ![f] = x] /\ n.wrote = [m.wrote EXCEPT ![v] = x]
  BY <1>1, <1>2 DEF Memory, Stores
<1>6. m.mem \in [Frames -> 0 .. 1] /\ m.wrote \in [Pages -> 0 .. 1]
  BY <1>1 DEF Memory
<1>7. n \in Memory
  <2>1. Fields(n)
    BY <1>1, <1>2 DEF Memory, Stores, Fields
  <2>2. n.mem \in [Frames -> 0 .. 1] /\ n.wrote \in [Pages -> 0 .. 1]
    BY <1>1, <1>5, <1>6
  <2> QED BY <1>1, <1>4, <2>1, <2>2 DEF Fields, Memory
<1>8. FrameOf(n, c) = FrameOf(m, c) /\ Mapped(n) = Mapped(m)
  BY <1>4, SameFrames
<1>9. n.mem[f] = x /\ n.wrote[v] = x
  BY <1>1, <1>5, <1>6
<1>10. Disjoint(FrameOf(m, c), m.avail)
  BY DEF SpaceGood
<1>11. ASSUME NEW y \in Mapped(n) PROVE n.mem[n.pte[y].frame] = n.wrote[y]
  <2>1. CASE y = v
    BY <1>4, <1>9, <2>1 DEF f
  <2>2. CASE y # v
    <3>1. y \in Pages /\ y \in Mapped(m)
      BY <1>8, <1>11 DEF Mapped
    <3>2. <<"page", y>> \in Uses /\ FrameOf(m, c)[<<"page", y>>] = m.pte[y].frame
      BY <3>1, FrameOfPage
    <3>3. m.pte[y].frame # f
      BY <1>1, <1>3, <1>10, <2>2, <3>2 DEF Disjoint
    <3>4. n.mem[m.pte[y].frame] = m.mem[m.pte[y].frame] /\ n.wrote[y] = m.wrote[y]
      <4>1. m.pte[y].frame \in Frames
        BY <1>1, <3>1 DEF Memory, Pte, Mapped, Present
      <4> QED BY <1>5, <1>6, <2>2, <3>1, <3>3, <4>1
    <3> QED BY <1>4, <3>1, <3>4 DEF SpaceGood, Keeps
  <2> QED BY <2>1, <2>2
<1>12. ASSUME NEW y \in Pages, c.pte[y].frame # None
       PROVE  n.mem[c.pte[y].frame] = c.wrote[y]
  <2>1. <<"copy", y>> \in Uses /\ FrameOf(m, c)[<<"copy", y>>] = c.pte[y].frame
    BY FrameOfCopy
  <2>2. c.pte[y].frame # f
    BY <1>1, <1>3, <1>10, <2>1 DEF Disjoint
  <2>3. c.pte[y].frame \in Frames
    BY <1>12 DEF SpaceGood, Children, Pte
  <2>4. n.mem[c.pte[y].frame] = m.mem[c.pte[y].frame]
    BY <1>5, <1>6, <2>2, <2>3
  <2> QED BY <1>12, <2>4 DEF SpaceGood, Keeps
<1>13. Keeps(n, c)
  BY <1>11, <1>12 DEF Keeps
<1>14. Shaped(n)
  <2>1. \A y \in Pages : y \notin Mapped(n) => n.wrote[y] = 0
    BY <1>1, <1>5, <1>6, <1>8 DEF SpaceGood, Shaped
  <2> QED BY <1>4, <2>1 DEF SpaceGood, Shaped
<1> QED BY <1>4, <1>7, <1>8, <1>10, <1>13, <1>14 DEF SpaceGood

-----------------------------------------------------------------------------
(* A program ends: what the uses in P hold is still taken.                 *)
Left(m, o, P) ==
    {x \in Memory : /\ x.mem = m.mem /\ x.dir = m.dir /\ x.pte = m.pte
                    /\ \A f \in Frames : x.avail[f] \in 0 .. 1
                    /\ \A u \in P : o[u] \in Frames => x.avail[o[u]] = 0}

LEMMA LeftLess ==
    ASSUME NEW m, NEW o, NEW a, Disjoint(o, a), NEW P \in SUBSET Uses, NEW Q \in SUBSET P,
           NEW x \in Left(m, o, P)
    PROVE  x \in Left(m, o, Q)
BY DEF Left

LEMMA LeftReturned ==
    ASSUME NEW m, NEW o, NEW a, Disjoint(o, a), NEW P \in SUBSET Uses, NEW u \in P,
           o[u] \in Frames, NEW Q \in SUBSET P, u \notin Q,
           NEW x \in Left(m, o, P), NEW n, Returned(x, o[u], n)
    PROVE  n \in Left(m, o, Q)
<1>1. n \in Memory /\ n.mem = m.mem /\ n.dir = m.dir /\ n.pte = m.pte
  BY DEF Left, Returned
<1>2. x.avail[o[u]] = 0 /\ \A f \in Frames : x.avail[f] \in 0 .. 1
  BY DEF Left
<1>3. \A f \in Frames : n.avail[f] \in 0 .. 1
  BY <1>2 DEF Returned
<1>4. ASSUME NEW w \in Q, o[w] \in Frames PROVE n.avail[o[w]] = 0
  <2>1. o[w] # o[u]
    BY <1>4 DEF Disjoint
  <2>2. x.avail[o[w]] = 0
    BY <1>4 DEF Left
  <2> QED BY <1>4, <2>1, <2>2 DEF Returned
<1> QED BY <1>1, <1>3, <1>4 DEF Left

PagesFrom(k) == Uses \ {<<"page", v>> : v \in 0 .. k - 1}
TablesFrom(k) ==
    (Uses \ {<<"page", v>> : v \in Pages}) \ {<<"table", r>> : r \in 0 .. k - 1}

LEMMA DestroyLeaves ==
    ASSUME VmmAssumption, NEW m, NEW c, SpaceGood(m, c)
    PROVE  Destroyed(m) \in
             Left(m, FrameOf(m, c), TablesFrom(Cardinality(Regions)))
<1> DEFINE o == FrameOf(m, c)
           N == Cardinality(Pages)
           M == Cardinality(Regions)
           Dropped(x, v) == IF Present(m, v) /\ m.pte[v].user
                            THEN pmm_unref(x, m.pte[v].frame) ELSE x
           Back(x, r) == IF m.dir[r] \in Frames THEN pmm_free(x, m.dir[r]) ELSE x
           drops == [i \in 1 .. N |-> [x \in Memory |-> Dropped(x, i - 1)]]
           frees == [i \in 1 .. M |-> [x \in Memory |-> Back(x, i - 1)]]
           D == [k \in 0 .. N |-> Left(m, o, PagesFrom(k))]
           E == [k \in 0 .. M |-> Left(m, o, TablesFrom(k))]
           half == InTurn(drops, m)
<1>1. N \in Nat /\ M \in Nat /\ Pages = 0 .. N - 1 /\ Regions = 0 .. M - 1
  <2>1. /\ (LowRegions + FarRegions) * ENTRIES \in Nat
        /\ N = (LowRegions + FarRegions) * ENTRIES /\ M = LowRegions + FarRegions
    BY SpaceSizes
  <2>2. LowRegions \in Nat /\ FarRegions \in Nat
    BY DEF VmmAssumption
  <2>3. Pages = 0 .. N - 1
    BY <2>1 DEF Pages
  <2>4. Regions = 0 .. LowRegions + FarRegions - 1
    BY DEF Regions
  <2> HIDE DEF N, M
  <2>5. Regions = 0 .. M - 1
    BY <2>1, <2>2, <2>4
  <2> QED BY <2>1, <2>2, <2>3, <2>5
<1>2. m \in Memory /\ Disjoint(o, m.avail)
  BY DEF SpaceGood
<1>3. m \in D[0]
  <2>1. \A u \in Uses : o[u] \in Frames => m.avail[o[u]] = 0
    BY <1>2 DEF Disjoint
  <2>2. \A f \in Frames : m.avail[f] \in 0 .. 1
    BY <1>2 DEF Disjoint
  <2> HIDE DEF o
  <2>3. m \in Left(m, o, PagesFrom(0))
    BY <1>2, <2>1, <2>2 DEF Left, PagesFrom
  <2> QED BY <1>1, <2>3
<1>4. ASSUME NEW k \in 1 .. N, NEW x \in D[k - 1] PROVE drops[k][x] \in D[k]
  <2> DEFINE v == k - 1
             f == m.pte[v].frame
             u == <<"page", v>>
  <2>1. v \in Pages /\ v \in 0 .. N /\ k \in 0 .. N
    BY <1>1
  <2>2. x \in Left(m, o, PagesFrom(v)) /\ x \in Memory
    BY <2>1 DEF Left
  <2>3. drops[k][x] = Dropped(x, v)
    BY <2>2
  <2>4. PagesFrom(v) \in SUBSET Uses /\ PagesFrom(k) \in SUBSET PagesFrom(v)
        /\ u \notin PagesFrom(k)
    BY <1>1 DEF PagesFrom
  <2>5. u \in PagesFrom(v)
    <3>1. u \in Uses
      BY <2>1, FrameOfPage
    <3> QED BY <1>1, <3>1 DEF PagesFrom
  <2> HIDE DEF drops, Dropped, u, v, o
  <2>6. CASE Present(m, v) /\ m.pte[v].user
    <3>1. Dropped(x, v) = pmm_unref(x, f) /\ f \in Frames /\ o[u] = f
      <4>1. v \in Mapped(m)
        BY <2>1, <2>6 DEF Mapped
      <4>2. f \in Frames
        BY <1>2, <2>1, <2>6 DEF Memory, Pte, Present
      <4>3. o[u] = f
        BY <2>1, <4>1, FrameOfPage DEF o, u
      <4> QED BY <2>6, <4>2, <4>3 DEF Dropped
    <3> HIDE DEF f
    <3>2. Returned(x, o[u], Dropped(x, v))
      BY <2>2, <3>1, UnrefFields
    <3>3. Dropped(x, v) \in Left(m, o, PagesFrom(k))
      BY <1>2, <2>2, <2>4, <2>5, <3>1, <3>2, LeftReturned
    <3> QED BY <2>1, <2>3, <3>3
  <2>7. CASE ~(Present(m, v) /\ m.pte[v].user)
    <3>1. Dropped(x, v) = x
      BY <2>7 DEF Dropped
    <3>2. x \in Left(m, o, PagesFrom(k))
      BY <1>2, <2>2, <2>4, LeftLess
    <3> QED BY <2>1, <2>3, <3>1, <3>2
  <2> QED BY <2>6, <2>7
<1>5. half \in D[N]
  <2>1. drops = [k \in 1 .. N |-> drops[k]]
    OBVIOUS
  <2> HIDE DEF drops, D, N
  <2> QED BY <1>1, <1>3, <1>4, <2>1, InTurnEnds
<1>6. half \in E[0]
  <2>1. half \in Left(m, o, PagesFrom(N))
    BY <1>1, <1>5
  <2> HIDE DEF half, o, N, M
  <2>2. PagesFrom(N) = TablesFrom(0)
    BY <1>1 DEF PagesFrom, TablesFrom
  <2> QED BY <1>1, <2>1, <2>2
<1>7. ASSUME NEW k \in 1 .. M, NEW x \in E[k - 1] PROVE frees[k][x] \in E[k]
  <2> DEFINE r == k - 1
             f == m.dir[r]
             u == <<"table", r>>
  <2>1. r \in Regions /\ r \in 0 .. M /\ k \in 0 .. M
    BY <1>1
  <2>2. x \in Left(m, o, TablesFrom(r)) /\ x \in Memory
    BY <2>1 DEF Left
  <2>3. frees[k][x] = Back(x, r)
    BY <2>2
  <2>4. TablesFrom(r) \in SUBSET Uses /\ TablesFrom(k) \in SUBSET TablesFrom(r)
        /\ u \notin TablesFrom(k)
    BY <1>1 DEF TablesFrom
  <2>5. u \in TablesFrom(r)
    <3>1. u \in Uses
      BY <2>1, FrameOfTable
    <3> QED BY <1>1, <3>1 DEF TablesFrom
  <2> HIDE DEF frees, Back, u, r, o
  <2>6. CASE m.dir[r] \in Frames
    <3>1. Back(x, r) = pmm_free(x, f) /\ f \in Frames /\ o[u] = f
      BY <2>1, <2>6, FrameOfTable DEF Back, Tabled, o, u
    <3> HIDE DEF f
    <3>2. Returned(x, o[u], Back(x, r))
      BY <2>2, <3>1, FreeFields
    <3>3. Back(x, r) \in Left(m, o, TablesFrom(k))
      BY <1>2, <2>2, <2>4, <2>5, <3>1, <3>2, LeftReturned
    <3> QED BY <2>1, <2>3, <3>3
  <2>7. CASE m.dir[r] \notin Frames
    <3>1. Back(x, r) = x
      BY <2>7 DEF Back
    <3>2. x \in Left(m, o, TablesFrom(k))
      BY <1>2, <2>2, <2>4, LeftLess
    <3> QED BY <2>1, <2>3, <3>1, <3>2
  <2> QED BY <2>6, <2>7
<1>8. InTurn(frees, half) \in E[M]
  <2>1. frees = [k \in 1 .. M |-> frees[k]]
    OBVIOUS
  <2> HIDE DEF frees, E, M, half
  <2> QED BY <1>1, <1>6, <1>7, <2>1, InTurnEnds
<1>9. Destroyed(m) = InTurn(frees, half)
  BY DEF Destroyed
<1> QED BY <1>1, <1>8, <1>9

LEMMA EndSound ==
    ASSUME VmmAssumption, NEW m, NEW c, SpaceGood(m, c)
    PROVE  SpaceGood([Destroyed(m) EXCEPT !.dir = EmptyDir,
                                      !.pte = [v \in Pages |-> NotPresent],
                                      !.wrote = [v \in Pages |-> 0]], c)
<1> DEFINE d == Destroyed(m)
           P == TablesFrom(Cardinality(Regions))
           n == [d EXCEPT !.dir = EmptyDir, !.pte = [v \in Pages |-> NotPresent],
                          !.wrote = [v \in Pages |-> 0]]
<1>1. d \in Left(m, FrameOf(m, c), P)
  BY DestroyLeaves
<1> HIDE DEF d
<1>2. /\ d \in Memory /\ d.mem = m.mem /\ \A f \in Frames : d.avail[f] \in 0 .. 1
      /\ \A u \in P : FrameOf(m, c)[u] \in Frames => d.avail[FrameOf(m, c)[u]] = 0
  BY <1>1 DEF Left
<1>3. /\ n.dir = EmptyDir /\ n.pte = [v \in Pages |-> NotPresent]
      /\ n.wrote = [v \in Pages |-> 0]
  BY <1>2 DEF Memory
<1>4. n.avail = d.avail /\ n.mem = d.mem /\ n.ref = d.ref
  BY <1>2 DEF Memory
<1>5. EmptyDir \in [Regions -> Frames \cup {None, Huge}]
      /\ [v \in Pages |-> NotPresent] \in [Pages -> Pte]
  BY DEF EmptyDir, NotPresent, Pte
<1>6. n \in Memory
  <2>1. Fields(n)
    BY <1>2 DEF Memory, Fields
  <2>2. n.wrote \in [Pages -> 0 .. 1]
    BY <1>3
  <2> HIDE DEF n
  <2> QED BY <1>2, <1>3, <1>4, <1>5, <2>1, <2>2 DEF Fields, Memory
<1> HIDE DEF n
<1>7. None \notin Frames /\ Huge \notin Frames /\ None # Huge
  BY SpaceSizes DEF None, Huge
<1>8. Mapped(n) = {}
  BY <1>3 DEF Mapped, Present, NotPresent
<1>9. \A r \in Regions : n.dir[r] \notin Frames
  BY <1>3, <1>7 DEF EmptyDir
<1>10. ASSUME NEW u \in Uses
       PROVE  FrameOf(n, c)[u] \notin Frames \/ (u \in P /\ FrameOf(n, c)[u] = FrameOf(m, c)[u])
  <2>1. ASSUME NEW x \in Pages PROVE FrameOf(n, c)[<<"page", x>>] \notin Frames
    BY <1>7, <1>8, FrameOfPage
  <2>2. ASSUME NEW q \in Regions PROVE FrameOf(n, c)[<<"table", q>>] \notin Frames
    BY <1>7, <1>9, FrameOfTable DEF Tabled
  <2>3. ASSUME NEW x \in Pages
        PROVE  <<"copy", x>> \in P /\ FrameOf(n, c)[<<"copy", x>>] = FrameOf(m, c)[<<"copy", x>>]
    BY FrameOfCopy DEF TablesFrom
  <2>4. ASSUME NEW q \in Regions
        PROVE  <<"childtable", q>> \in P
               /\ FrameOf(n, c)[<<"childtable", q>>] = FrameOf(m, c)[<<"childtable", q>>]
    BY FrameOfChildTable DEF TablesFrom
  <2>5. ASSUME NEW g \in Kernel
        PROVE  <<"kernel", g>> \in P
               /\ FrameOf(n, c)[<<"kernel", g>>] = FrameOf(m, c)[<<"kernel", g>>]
    BY FrameOfKernel DEF TablesFrom
  <2> HIDE DEF P
  <2> QED BY <2>1, <2>2, <2>3, <2>4, <2>5, UseKinds
<1>11. Disjoint(FrameOf(n, c), n.avail)
  <2> HIDE DEF P
  <2>1. Disjoint(FrameOf(m, c), m.avail)
    BY DEF SpaceGood
  <2> QED BY <1>2, <1>4, <1>10, <2>1 DEF Disjoint
<1>12. Shaped(n)
  BY <1>3, <1>7, <1>8 DEF Shaped, EmptyDir, NotPresent
<1>13. Keeps(n, c)
  BY <1>2, <1>4, <1>8 DEF Keeps, SpaceGood
<1> QED BY <1>6, <1>11, <1>12, <1>13 DEF SpaceGood, n, d

-----------------------------------------------------------------------------
(* A program is killed: its entries are there still, and count no more.    *)
(* Nothing they lead to is a page of the child.                            *)
Others == {u \in Uses : u[1] \notin {"page", "table"}}
Dead(m, c) ==
    /\ m \in Memory /\ c \in Children
    /\ \A v \in Mapped(m), y \in Pages :
          c.pte[y].frame # None => m.pte[v].frame # c.pte[y].frame
    /\ \A y \in Pages : c.pte[y].frame # None => m.mem[c.pte[y].frame] = c.wrote[y]
    /\ \A f \in Frames : m.avail[f] \in 0 .. 1
    /\ \A u \in Others : FrameOf(m, c)[u] \in Frames => m.avail[FrameOf(m, c)[u]] = 0
    /\ \A u, w \in Others : FrameOf(m, c)[u] = FrameOf(m, c)[w]
                            /\ FrameOf(m, c)[u] \in Frames => u = w

LEMMA OtherKinds ==
    /\ \A y \in Pages : <<"copy", y>> \in Others
    /\ \A q \in Regions : <<"childtable", q>> \in Others
    /\ \A g \in Kernel : <<"kernel", g>> \in Others
    /\ \A y \in Pages : <<"page", y>> \notin Others
    /\ \A q \in Regions : <<"table", q>> \notin Others
    /\ \A k : Others \subseteq TablesFrom(k)
BY DEF Others, Uses, TablesFrom

LEMMA KillSound ==
    ASSUME VmmAssumption, NEW m, NEW c, SpaceGood(m, c), NEW n \in Killed(m)
    PROVE  Dead(n, c)
<1> DEFINE d == Destroyed(m)
           o == FrameOf(m, c)
           P == TablesFrom(Cardinality(Regions))
<1>1. d \in Left(m, o, P)
  BY DestroyLeaves
<1>2. PICK fs \in SUBSET FreeFrames(d) : n = TakenAll(d, fs)
  BY DEF Killed
<1> HIDE DEF d
<1>3. /\ d \in Memory /\ d.mem = m.mem /\ d.dir = m.dir /\ d.pte = m.pte
      /\ \A f \in Frames : d.avail[f] \in 0 .. 1
      /\ \A u \in P : o[u] \in Frames => d.avail[o[u]] = 0
  BY <1>1 DEF Left
<1>4. fs \subseteq Frames /\ \A f \in fs : d.avail[f] > 0
  BY DEF FreeFrames
<1>5. /\ d.avail \in [Frames -> 0 .. 2] /\ d.ref \in [Frames -> 0 .. 1]
      /\ d.mem \in [Frames -> 0 .. 1]
  BY <1>3 DEF Memory
<1>6. n.dir = m.dir /\ n.pte = m.pte /\ n.wrote = d.wrote
  BY <1>2, <1>3 DEF TakenAll, Memory
<1>7. n.avail = [f \in Frames |-> IF f \in fs THEN d.avail[f] - 1 ELSE d.avail[f]]
  BY <1>2, <1>3 DEF TakenAll, Memory
<1>8. n.mem = [f \in Frames |-> IF f \in fs THEN 0 ELSE d.mem[f]]
  BY <1>2, <1>3 DEF TakenAll, Memory
<1>9. n.ref = [f \in Frames |-> IF f \in fs THEN 1 ELSE d.ref[f]]
  BY <1>2, <1>3 DEF TakenAll, Memory
<1>10. Fields(n)
  BY <1>2, <1>3 DEF TakenAll, Memory, Fields
<1>11. \A f \in Frames : n.avail[f] \in 0 .. 1 /\ (d.avail[f] = 0 => n.avail[f] = 0)
  BY <1>3, <1>4, <1>7
<1>12. n \in Memory
  <2>1. n.avail \in [Frames -> 0 .. 2]
    <3>1. \A f \in Frames : n.avail[f] \in 0 .. 2
      BY <1>11
    <3> QED BY <1>7, <3>1
  <2>2. n.ref \in [Frames -> 0 .. 1]
    BY <1>5, <1>9
  <2>3. n.mem \in [Frames -> 0 .. 1]
    BY <1>5, <1>8
  <2> QED BY <1>3, <1>6, <1>10, <2>1, <2>2, <2>3 DEF Fields, Memory
<1>13. FrameOf(n, c) = o /\ Mapped(n) = Mapped(m)
  BY <1>6, SameFrames
<1>14. Disjoint(o, m.avail) /\ c \in Children /\ m \in Memory
  BY DEF SpaceGood
<1> HIDE DEF P, o
<1>15. \A u \in Others : u \in Uses /\ u \in P
  BY OtherKinds DEF Others, P
<1>16. ASSUME NEW v \in Mapped(n), NEW y \in Pages, c.pte[y].frame # None
       PROVE  n.pte[v].frame # c.pte[y].frame
  <2>1. v \in Mapped(m) /\ v \in Pages /\ m.pte[v].frame # None
    BY <1>13 DEF Mapped, Present
  <2>2. <<"page", v>> \in Uses /\ o[<<"page", v>>] = m.pte[v].frame
    BY <2>1, FrameOfPage DEF o
  <2>3. <<"copy", y>> \in Uses /\ o[<<"copy", y>>] = c.pte[y].frame
    BY FrameOfCopy DEF o
  <2>4. m.pte[v].frame \in Frames
    BY <1>14, <2>1 DEF Memory, Pte
  <2>5. <<"page", v>> # <<"copy", y>>
    OBVIOUS
  <2> QED BY <1>6, <1>14, <2>2, <2>3, <2>4, <2>5 DEF Disjoint
<1>17. ASSUME NEW y \in Pages, c.pte[y].frame # None
       PROVE  n.mem[c.pte[y].frame] = c.wrote[y]
  <2>1. <<"copy", y>> \in P /\ o[<<"copy", y>>] = c.pte[y].frame
    BY <1>15, OtherKinds, FrameOfCopy DEF o
  <2>2. c.pte[y].frame \in Frames
    BY <1>14, <1>17 DEF Children, Pte
  <2>3. d.avail[c.pte[y].frame] = 0
    BY <1>3, <2>1, <2>2
  <2>4. n.mem[c.pte[y].frame] = m.mem[c.pte[y].frame]
    BY <1>3, <1>4, <1>8, <2>2, <2>3
  <2> QED BY <1>17, <2>4 DEF SpaceGood, Keeps
<1>18. \A u \in Others : o[u] \in Frames => n.avail[o[u]] = 0
  BY <1>3, <1>11, <1>15
<1>19. \A u, w \in Others : o[u] = o[w] /\ o[u] \in Frames => u = w
  BY <1>14, <1>15 DEF Disjoint
<1> QED BY <1>11, <1>12, <1>13, <1>14, <1>16, <1>17, <1>18, <1>19 DEF Dead

(* It may still store in what were its pages.                              *)
LEMMA DeadStore ==
    ASSUME NEW m, NEW c, Dead(m, c), NEW v \in Mapped(m), NEW x \in 0 .. 1,
           NEW n, Stores(m, v, m.pte[v].frame, x, n)
    PROVE  Dead(n, c)
<1> DEFINE f == m.pte[v].frame
<1>1. m \in Memory /\ f \in Frames /\ v \in Pages
  BY DEF Dead, Memory, Pte, Mapped, Present
<1>2. Stores(m, v, f, x, n)
  OBVIOUS
<1>3. \A y \in Pages : c.pte[y].frame # None => f # c.pte[y].frame
  BY DEF Dead
<1> HIDE DEF f
<1>4. n.dir = m.dir /\ n.pte = m.pte /\ n.avail = m.avail /\ n.ref = m.ref
  BY <1>1, <1>2 DEF Memory, Stores
<1>5. n.mem = [m.mem EXCEPT ![f] = x] /\ n.wrote = [m.wrote EXCEPT ![v] = x]
  BY <1>1, <1>2 DEF Memory, Stores
<1>6. m.mem \in [Frames -> 0 .. 1] /\ m.wrote \in [Pages -> 0 .. 1]
  BY <1>1 DEF Memory
<1>7. n \in Memory
  <2>1. Fields(n)
    BY <1>1, <1>2 DEF Memory, Stores, Fields
  <2>2. n.mem \in [Frames -> 0 .. 1] /\ n.wrote \in [Pages -> 0 .. 1]
    BY <1>1, <1>5, <1>6
  <2> QED BY <1>1, <1>4, <2>1, <2>2 DEF Fields, Memory
<1>8. FrameOf(n, c) = FrameOf(m, c) /\ Mapped(n) = Mapped(m)
  BY <1>4, SameFrames
<1>9. ASSUME NEW y \in Pages, c.pte[y].frame # None
      PROVE  n.mem[c.pte[y].frame] = c.wrote[y]
  <2>1. c.pte[y].frame \in Frames
    BY <1>9 DEF Dead, Children, Pte
  <2>2. n.mem[c.pte[y].frame] = m.mem[c.pte[y].frame]
    BY <1>3, <1>5, <1>6, <1>9, <2>1
  <2> QED BY <1>9, <2>2 DEF Dead
<1> QED BY <1>4, <1>7, <1>8, <1>9 DEF Dead

(* The next program finds an empty space.                                  *)
LEMMA DeadEnds ==
    ASSUME VmmAssumption, NEW m, NEW c, Dead(m, c)
    PROVE  SpaceGood([m EXCEPT !.dir = EmptyDir, !.pte = [v \in Pages |-> NotPresent],
                               !.wrote = [v \in Pages |-> 0]], c)
<1> DEFINE n == [m EXCEPT !.dir = EmptyDir, !.pte = [v \in Pages |-> NotPresent],
                          !.wrote = [v \in Pages |-> 0]]
<1>1. m \in Memory /\ c \in Children
  BY DEF Dead
<1>2. /\ n.dir = EmptyDir /\ n.pte = [v \in Pages |-> NotPresent]
      /\ n.wrote = [v \in Pages |-> 0]
  BY <1>1 DEF Memory
<1>3. n.avail = m.avail /\ n.mem = m.mem /\ n.ref = m.ref
  BY <1>1 DEF Memory
<1>4. EmptyDir \in [Regions -> Frames \cup {None, Huge}]
      /\ [v \in Pages |-> NotPresent] \in [Pages -> Pte]
  BY DEF EmptyDir, NotPresent, Pte
<1>5. n \in Memory
  <2>1. Fields(n)
    BY <1>1 DEF Memory, Fields
  <2>2. n.wrote \in [Pages -> 0 .. 1]
    BY <1>2
  <2> HIDE DEF n
  <2> QED BY <1>1, <1>2, <1>3, <1>4, <2>1, <2>2 DEF Fields, Memory
<1> HIDE DEF n
<1>6. None \notin Frames /\ Huge \notin Frames /\ None # Huge
  BY SpaceSizes DEF None, Huge
<1>7. Mapped(n) = {}
  BY <1>2 DEF Mapped, Present, NotPresent
<1>8. \A r \in Regions : n.dir[r] \notin Frames
  BY <1>2, <1>6 DEF EmptyDir
<1>9. ASSUME NEW u \in Uses
      PROVE  FrameOf(n, c)[u] \notin Frames
             \/ (u \in Others /\ FrameOf(n, c)[u] = FrameOf(m, c)[u])
  <2>1. ASSUME NEW x \in Pages PROVE FrameOf(n, c)[<<"page", x>>] \notin Frames
    BY <1>6, <1>7, FrameOfPage
  <2>2. ASSUME NEW q \in Regions PROVE FrameOf(n, c)[<<"table", q>>] \notin Frames
    BY <1>6, <1>8, FrameOfTable DEF Tabled
  <2>3. ASSUME NEW x \in Pages
        PROVE  /\ <<"copy", x>> \in Others
               /\ FrameOf(n, c)[<<"copy", x>>] = FrameOf(m, c)[<<"copy", x>>]
    BY FrameOfCopy, OtherKinds
  <2>4. ASSUME NEW q \in Regions
        PROVE  /\ <<"childtable", q>> \in Others
               /\ FrameOf(n, c)[<<"childtable", q>>] = FrameOf(m, c)[<<"childtable", q>>]
    BY FrameOfChildTable, OtherKinds
  <2>5. ASSUME NEW g \in Kernel
        PROVE  /\ <<"kernel", g>> \in Others
               /\ FrameOf(n, c)[<<"kernel", g>>] = FrameOf(m, c)[<<"kernel", g>>]
    BY FrameOfKernel, OtherKinds
  <2> QED BY <2>1, <2>2, <2>3, <2>4, <2>5, UseKinds
<1>10. Disjoint(FrameOf(n, c), n.avail)
  BY <1>3, <1>9 DEF Disjoint, Dead
<1>11. Shaped(n)
  BY <1>2, <1>6, <1>7 DEF Shaped, EmptyDir, NotPresent
<1>12. Keeps(n, c)
  BY <1>3, <1>7 DEF Keeps, Dead
<1> QED BY <1>1, <1>5, <1>10, <1>11, <1>12 DEF SpaceGood, n

-----------------------------------------------------------------------------
(* Fork.  Copies that are sound, of a space that does not change and in    *)
(* which no low region has a table.                                        *)
Copied(m) ==
    {a \in Copies : /\ SpaceGood(a.m, a.c)
                    /\ a.m.dir = m.dir /\ a.m.pte = m.pte /\ a.m.wrote = m.wrote
                    /\ \A r \in Regions : a.c.dir[r] = Huge => r < LowRegions}

Filled(m, f, x, n) == n = [m EXCEPT !.mem[f] = x]
ChildGets(c, v, e, x, d) == d = [c EXCEPT !.pte[v] = e, !.wrote[v] = x]

LEMMA CopyFields ==
    ASSUME NEW m \in Memory, NEW f \in Frames, NEW x \in 0 .. 1,
           NEW n, Filled(m, f, x, n)
    PROVE  /\ n \in Memory /\ n.dir = m.dir /\ n.pte = m.pte /\ n.wrote = m.wrote
           /\ n.avail = m.avail /\ n.mem[f] = x
           /\ \A g \in Frames : g # f => n.mem[g] = m.mem[g]
<1>1. n.mem = [m.mem EXCEPT ![f] = x]
  BY DEF Memory, Filled
<1>2. n.dir = m.dir /\ n.pte = m.pte /\ n.wrote = m.wrote /\ n.avail = m.avail
  BY DEF Memory, Filled
<1>3. n \in Memory
  BY DEF Memory, Filled
<1>4. m.mem \in [Frames -> 0 .. 1]
  BY DEF Memory
<1> QED BY <1>1, <1>2, <1>3, <1>4

LEMMA ChildFields ==
    ASSUME NEW c \in Children, NEW v \in Pages, NEW e \in Pte, NEW x \in 0 .. 1,
           NEW n, ChildGets(c, v, e, x, n)
    PROVE  /\ n \in Children /\ n.dir = c.dir /\ n.pte[v] = e /\ n.wrote[v] = x
           /\ \A y \in Pages : y # v => n.pte[y] = c.pte[y] /\ n.wrote[y] = c.wrote[y]
<1>1. n.dir = c.dir
  BY DEF Children, ChildGets
<1>2. n.pte = [c.pte EXCEPT ![v] = e] /\ n.wrote = [c.wrote EXCEPT ![v] = x]
  BY DEF Children, ChildGets
<1>3. c.pte \in [Pages -> Pte] /\ c.wrote \in [Pages -> {None, 0, 1}]
  BY DEF Children
<1>4. n.pte \in [Pages -> Pte] /\ n.wrote \in [Pages -> {None, 0, 1}]
  BY <1>2, <1>3
<1>5. n \in [dir: {n.dir}, pte: {n.pte}, wrote: {n.wrote}]
  BY DEF Children, ChildGets
<1>6. n \in Children
  BY <1>1, <1>4, <1>5 DEF Children
<1> QED BY <1>1, <1>2, <1>3, <1>6

LEMMA CopySet ==
    ASSUME VmmAssumption, NEW m, NEW c, SpaceGood(m, c), NEW f, Unused(m, c, f),
           NEW v \in Mapped(m), NEW n, Filled(m, f, m.wrote[v], n),
           NEW e \in Pte, e.frame = f,
           NEW d, ChildGets(c, v, e, m.wrote[v], d)
    PROVE  SpaceGood(n, d)
<1>1. /\ m \in Memory /\ c \in Children /\ f \in Frames /\ v \in Pages
      /\ m.wrote[v] \in 0 .. 1
  BY DEF SpaceGood, Unused, Memory, Mapped
<1>2. /\ n \in Memory /\ n.dir = m.dir /\ n.pte = m.pte /\ n.wrote = m.wrote
      /\ n.avail = m.avail /\ n.mem[f] = m.wrote[v]
      /\ \A g \in Frames : g # f => n.mem[g] = m.mem[g]
  BY <1>1, CopyFields
<1>3. /\ d \in Children /\ d.dir = c.dir /\ d.pte[v] = e /\ d.wrote[v] = m.wrote[v]
      /\ \A y \in Pages : y # v => d.pte[y] = c.pte[y] /\ d.wrote[y] = c.wrote[y]
  BY <1>1, ChildFields
<1>4. /\ d.pte[v] = e /\ d.wrote[v] = m.wrote[v]
      /\ \A y \in Pages : y # v => d.pte[y] = c.pte[y] /\ d.wrote[y] = c.wrote[y]
  BY <1>3
<1>5. /\ n.mem[f] = m.wrote[v]
      /\ \A g \in Frames : g # f => n.mem[g] = m.mem[g]
  BY <1>2
<1>6. Mapped(n) = Mapped(m)
  BY <1>2, SameFrames
<1>7. \A u \in Uses : u # <<"copy", v>> => FrameOf(n, d)[u] = FrameOf(m, c)[u]
  <2>1. ASSUME NEW y \in Pages PROVE FrameOf(n, d)[<<"page", y>>] = FrameOf(m, c)[<<"page", y>>]
    BY <1>2, <1>6, FrameOfPage
  <2>2. ASSUME NEW y \in Pages, y # v
        PROVE  FrameOf(n, d)[<<"copy", y>>] = FrameOf(m, c)[<<"copy", y>>]
    BY <1>4, <2>2, FrameOfCopy
  <2>3. ASSUME NEW q \in Regions PROVE FrameOf(n, d)[<<"table", q>>] = FrameOf(m, c)[<<"table", q>>]
    BY <1>2, FrameOfTable
  <2>4. ASSUME NEW q \in Regions
        PROVE  FrameOf(n, d)[<<"childtable", q>>] = FrameOf(m, c)[<<"childtable", q>>]
    BY <1>3, FrameOfChildTable
  <2>5. ASSUME NEW g \in Kernel
        PROVE  FrameOf(n, d)[<<"kernel", g>>] = FrameOf(m, c)[<<"kernel", g>>]
    BY FrameOfKernel
  <2> QED BY <2>1, <2>2, <2>3, <2>4, <2>5, UseKinds
<1>8. <<"copy", v>> \in Uses /\ FrameOf(n, d)[<<"copy", v>>] = f
  BY <1>1, <1>4, FrameOfCopy
<1>9. \A u \in Uses : FrameOf(m, c)[u] # f
  BY DEF Unused
<1>13. /\ \A y \in Mapped(m) : m.pte[y].frame # f
       /\ \A y \in Pages : c.pte[y].frame # f
  BY UnusedApart
<1>10. Disjoint(FrameOf(n, d), n.avail)
  <2>1. Disjoint(FrameOf(m, c), m.avail) /\ m.avail[f] = 0
    BY DEF SpaceGood, Unused
  <2> QED BY <1>1, <1>2, <1>7, <1>8, <1>9, <2>1, UsedOnce
<1>11. Shaped(n)
  BY <1>2, <1>6 DEF SpaceGood, Shaped
<1>12. Keeps(n, d)
  <2>1. ASSUME NEW y \in Mapped(n) PROVE n.mem[n.pte[y].frame] = n.wrote[y]
    <3>1. y \in Mapped(m) /\ m.pte[y].frame \in Frames /\ m.pte[y].frame # f
      <4>1. y \in Mapped(m) /\ y \in Pages /\ m.pte[y].frame # None
        BY <1>6, <2>1 DEF Mapped, Present
      <4>2. m.pte[y].frame \in Frames
        BY <1>1, <4>1 DEF Memory, Pte
      <4> QED BY <1>13, <4>1, <4>2
    <3> QED BY <1>2, <1>5, <3>1 DEF SpaceGood, Keeps
  <2>2. ASSUME NEW y \in Pages, d.pte[y].frame # None
        PROVE  n.mem[d.pte[y].frame] = d.wrote[y]
    <3>1. CASE y = v
      BY <1>4, <1>5, <3>1
    <3>2. CASE y # v
      <4>1. d.pte[y] = c.pte[y] /\ d.wrote[y] = c.wrote[y]
        BY <1>4, <3>2
      <4>2. c.pte[y].frame \in Frames /\ c.pte[y].frame # f
        <5>1. c.pte[y].frame \in Frames
          BY <1>1, <2>2, <4>1 DEF Children, Pte
        <5> QED BY <1>13, <5>1
      <4> QED BY <1>5, <2>2, <4>1, <4>2 DEF SpaceGood, Keeps
    <3> QED BY <3>1, <3>2
  <2> QED BY <2>1, <2>2 DEF Keeps
<1> QED BY <1>2, <1>3, <1>10, <1>11, <1>12 DEF SpaceGood

LowHuge(m) == \A r \in Regions : r < LowRegions => m.dir[r] = Huge

LEMMA ShortSound ==
    ASSUME NEW m, NEW a \in Copied(m)
    PROVE  [a EXCEPT !.enough = FALSE] \in Copied(m)
<1> DEFINE b == [a EXCEPT !.enough = FALSE]
<1>1. b \in Copies /\ b.m = a.m /\ b.c = a.c
  BY DEF Copied, Copies
<1> HIDE DEF b
<1>2. b \in Copied(m)
  BY <1>1 DEF Copied
<1> QED BY <1>2 DEF b

LEMMA CopyPageSound ==
    ASSUME VmmAssumption, NEW m, LowHuge(m), NEW a \in Copied(m), NEW v \in Pages,
           NEW hint \in Frames
    PROVE  CopyPage(a, v, hint) \in Copied(m)
<1> DEFINE f == Pick(a.m, hint)
           there == a.m.pte[v]
           r == Region(v)
           b == CopyPage(a, v, hint)
<1>1. /\ a.m \in Memory /\ a.c \in Children /\ SpaceGood(a.m, a.c)
      /\ a.m.dir = m.dir /\ a.m.pte = m.pte /\ a.m.wrote = m.wrote
      /\ \A q \in Regions : a.c.dir[q] = Huge => q < LowRegions
  BY DEF Copied, Copies
<1>2. r \in Regions /\ Huge \notin Frames
  BY RegionOf, SpaceSizes
<1> HIDE DEF r
<1>3. CASE ~a.enough \/ ~Present(a.m, v) \/ a.c.dir[r] = None
  BY <1>3 DEF CopyPage, r
<1>4. CASE a.enough /\ Present(a.m, v) /\ a.c.dir[r] # None
  <2>1. a.m.dir[r] \in Frames /\ ~(r < LowRegions)
    BY <1>1, <1>2, <1>4 DEF Present, LowHuge, r
  <2>2. a.c.dir[r] # Huge
    BY <1>1, <1>2, <2>1
  <2>3. there.user /\ v \in Mapped(a.m) /\ there \in Pte
    <3>1. there.user
      BY <1>1, <1>4, <2>1 DEF SpaceGood, Shaped, Present, r
    <3>2. there \in Pte
      BY <1>1 DEF Memory
    <3> QED BY <1>4, <3>1, <3>2 DEF Mapped
  <2>4. CASE FreeFrames(a.m) = {}
    <3>1. b = [a EXCEPT !.enough = FALSE]
      BY <1>4, <2>2, <2>4 DEF CopyPage, r
    <3> QED BY <3>1, ShortSound
  <2>5. CASE FreeFrames(a.m) # {}
    <3> DEFINE n == TakenFrame(a.m, f)
               e == [there EXCEPT !.frame = f]
               k == [n EXCEPT !.mem[f] = a.m.mem[there.frame]]
               d == [a.c EXCEPT !.pte[v] = e, !.wrote[v] = a.m.wrote[v]]
    <3>1. b = [a EXCEPT !.m = k, !.c = d]
      BY <1>4, <2>2, <2>5 DEF CopyPage, r
    <3>2. f \in FreeFrames(a.m)
      BY <1>1, <2>5, Picked
    <3> HIDE DEF f, b
    <3>3. SpaceGood(n, a.c) /\ Unused(n, a.c, f)
      BY <1>1, <3>2, TakeSound
    <3>4. n \in Memory /\ n.dir = m.dir /\ n.pte = m.pte /\ n.wrote = m.wrote /\ f \in Frames
      BY <1>1, <3>2, TakenFields
    <3>5. e \in Pte /\ e.frame = f
      BY <2>3, <3>4 DEF Pte
    <3>6. a.m.mem[there.frame] = n.wrote[v] /\ a.m.wrote[v] = n.wrote[v]
      BY <1>1, <2>3, <3>4 DEF SpaceGood, Keeps
    <3> HIDE DEF n, e
    <3>7. v \in Mapped(n)
      BY <1>1, <2>3, <3>4, SameFrames
    <3>8. Filled(n, f, n.wrote[v], k)
      BY <3>6 DEF Filled
    <3>9. ChildGets(a.c, v, e, n.wrote[v], d)
      BY <3>6 DEF ChildGets
    <3> HIDE DEF k, d
    <3>10. SpaceGood(k, d)
      BY <3>3, <3>5, <3>7, <3>8, <3>9, CopySet
    <3>11. n.wrote[v] \in 0 .. 1
      BY <3>4 DEF Memory
    <3>12. k \in Memory /\ k.dir = m.dir /\ k.pte = m.pte /\ k.wrote = m.wrote
      BY <3>4, <3>8, <3>11, CopyFields
    <3>13. d \in Children /\ d.dir = a.c.dir
      BY <1>1, <3>5, <3>9, <3>11, ChildFields
    <3>14. b.m = k /\ b.c = d /\ b \in Copies
      BY <3>1, <3>12, <3>13 DEF Copies, Copied
    <3> QED BY <1>1, <3>10, <3>12, <3>13, <3>14 DEF Copied, b
  <2> QED BY <2>4, <2>5
<1> QED BY <1>3, <1>4

ChildTabled(c, r, f, d) == d = [c EXCEPT !.dir[r] = f]

LEMMA ChildTableSet ==
    ASSUME VmmAssumption, NEW m, NEW c, SpaceGood(m, c), NEW f, Unused(m, c, f),
           NEW r \in Regions, c.dir[r] = None,
           NEW d, ChildTabled(c, r, f, d)
    PROVE  /\ SpaceGood(m, d) /\ d.dir[r] = f
           /\ \A q \in Regions : q # r => d.dir[q] = c.dir[q]
<1>1. c \in Children /\ f \in Frames /\ c.dir \in [Regions -> Frames \cup {None, Huge}]
  BY DEF SpaceGood, Unused, Children
<1>2. d.dir = [c.dir EXCEPT ![r] = f] /\ d.pte = c.pte /\ d.wrote = c.wrote
  BY <1>1 DEF Children, ChildTabled
<1>3. d \in Children
  BY <1>1 DEF Children, ChildTabled
<1>4. d.dir[r] = f /\ \A q \in Regions : q # r => d.dir[q] = c.dir[q]
  BY <1>1, <1>2
<1> SUFFICES ASSUME NEW k \in Children, k.dir[r] = f, k.pte = c.pte, k.wrote = c.wrote,
                    \A q \in Regions : q # r => k.dir[q] = c.dir[q]
             PROVE  SpaceGood(m, k)
  BY <1>2, <1>3, <1>4
<1>5. \A u \in Uses : u # <<"childtable", r>> => FrameOf(m, k)[u] = FrameOf(m, c)[u]
  <2>1. ASSUME NEW y \in Pages PROVE FrameOf(m, k)[<<"page", y>>] = FrameOf(m, c)[<<"page", y>>]
    BY FrameOfPage
  <2>2. ASSUME NEW y \in Pages PROVE FrameOf(m, k)[<<"copy", y>>] = FrameOf(m, c)[<<"copy", y>>]
    BY FrameOfCopy
  <2>3. ASSUME NEW q \in Regions PROVE FrameOf(m, k)[<<"table", q>>] = FrameOf(m, c)[<<"table", q>>]
    BY FrameOfTable
  <2>4. ASSUME NEW q \in Regions, q # r
        PROVE  FrameOf(m, k)[<<"childtable", q>>] = FrameOf(m, c)[<<"childtable", q>>]
    BY <2>4, FrameOfChildTable
  <2>5. ASSUME NEW g \in Kernel
        PROVE  FrameOf(m, k)[<<"kernel", g>>] = FrameOf(m, c)[<<"kernel", g>>]
    BY FrameOfKernel
  <2> QED BY <2>1, <2>2, <2>3, <2>4, <2>5, UseKinds
<1>6. <<"childtable", r>> \in Uses /\ FrameOf(m, k)[<<"childtable", r>>] = f
  BY <1>1, FrameOfChildTable DEF Tabled
<1>7. Disjoint(FrameOf(m, k), m.avail)
  <2>1. /\ Disjoint(FrameOf(m, c), m.avail) /\ m.avail[f] = 0
        /\ \A u \in Uses : FrameOf(m, c)[u] # f
    BY DEF SpaceGood, Unused
  <2> QED BY <1>1, <1>5, <1>6, <2>1, UsedOnce
<1> QED BY <1>7 DEF SpaceGood, Keeps

LEMMA TabledSound ==
    ASSUME VmmAssumption, NEW m, NEW a \in Copied(m), NEW r \in Regions, NEW hint \in Frames,
           FreeFrames(a.m) # {}, a.c.dir[r] = None
    PROVE  [a EXCEPT !.m = TakenFrame(a.m, Pick(a.m, hint)),
                     !.c = [a.c EXCEPT !.dir[r] = Pick(a.m, hint)]] \in Copied(m)
<1> DEFINE f == Pick(a.m, hint)
           n == TakenFrame(a.m, f)
           d == [a.c EXCEPT !.dir[r] = f]
           b == [a EXCEPT !.m = n, !.c = d]
<1>1. /\ a.m \in Memory /\ a.c \in Children /\ SpaceGood(a.m, a.c)
      /\ a.m.dir = m.dir /\ a.m.pte = m.pte /\ a.m.wrote = m.wrote
      /\ \A q \in Regions : a.c.dir[q] = Huge => q < LowRegions
      /\ a.c.dir \in [Regions -> Frames \cup {None, Huge}]
  BY DEF Copied, Copies, Children
<1>2. f \in FreeFrames(a.m)
  BY <1>1, Picked
<1> HIDE DEF f
<1>3. SpaceGood(n, a.c) /\ Unused(n, a.c, f)
  BY <1>1, <1>2, TakeSound
<1>4. n \in Memory /\ n.dir = m.dir /\ n.pte = m.pte /\ n.wrote = m.wrote /\ f \in Frames
  BY <1>1, <1>2, TakenFields
<1> HIDE DEF n
<1>9. ChildTabled(a.c, r, f, d)
  BY DEF ChildTabled
<1> HIDE DEF d
<1>5. /\ SpaceGood(n, d) /\ d.dir[r] = f
      /\ \A q \in Regions : q # r => d.dir[q] = a.c.dir[q]
  BY <1>3, <1>9, ChildTableSet
<1>6. \A q \in Regions : d.dir[q] = Huge => q < LowRegions
  BY <1>1, <1>4, <1>5, SpaceSizes
<1>7. b.m = n /\ b.c = d /\ b \in Copies
  BY <1>4, <1>5 DEF Copied, Copies, SpaceGood
<1>8. b \in Copied(m)
  BY <1>4, <1>5, <1>6, <1>7 DEF Copied
<1> QED BY <1>8 DEF b, n, d, f

LEMMA CopyRegionSound ==
    ASSUME VmmAssumption, NEW m, LowHuge(m), NEW a \in Copied(m), NEW r \in Regions,
           NEW hint \in Frames
    PROVE  CopyRegion(a, r, hint) \in Copied(m)
<1> DEFINE f == Pick(a.m, hint)
           tabled == IF a.c.dir[r] # None \/ ~a.enough THEN a
                     ELSE IF FreeFrames(a.m) = {} THEN [a EXCEPT !.enough = FALSE]
                     ELSE [a EXCEPT !.m = TakenFrame(a.m, f),
                                    !.c = [a.c EXCEPT !.dir[r] = f]]
           steps == [i \in 1 .. ENTRIES |->
                       [x \in Copies |-> CopyPage(x, r * ENTRIES + i - 1, hint)]]
           D == [k \in 0 .. ENTRIES |-> Copied(m)]
<1>1. tabled \in Copied(m)
  BY TabledSound, ShortSound
<1>2. ENTRIES \in Nat
  BY DEF VmmAssumption
<1> HIDE DEF tabled
<1>3. tabled \in D[0]
  BY <1>1, <1>2
<1>4. ASSUME NEW k \in 1 .. ENTRIES, NEW x \in D[k - 1] PROVE steps[k][x] \in D[k]
  <2>1. x \in Copied(m) /\ x \in Copies
    BY <1>2, <1>4 DEF Copied
  <2>2. steps[k][x] = CopyPage(x, r * ENTRIES + k - 1, hint)
    BY <2>1
  <2>3. r * ENTRIES + k - 1 \in Pages
    BY PageOf
  <2>4. CopyPage(x, r * ENTRIES + k - 1, hint) \in Copied(m)
    BY <2>1, <2>3, CopyPageSound
  <2> QED BY <1>2, <2>2, <2>4
<1>5. InTurn(steps, tabled) \in D[ENTRIES]
  <2>1. steps = [k \in 1 .. ENTRIES |-> steps[k]]
    OBVIOUS
  <2> HIDE DEF steps, D
  <2> QED BY <1>2, <1>3, <1>4, <2>1, InTurnEnds
<1>6. CASE a.m.dir[r] \notin Frames
  BY <1>6 DEF CopyRegion
<1>7. CASE a.m.dir[r] \in Frames
  <2>1. CopyRegion(a, r, hint) = InTurn(steps, tabled)
    BY <1>7 DEF CopyRegion, tabled
  <2> HIDE DEF steps
  <2> QED BY <1>2, <1>5, <2>1
<1> QED BY <1>6, <1>7

LEMMA ForkSound ==
    ASSUME VmmAssumption, SpaceGood(mm, NoChild), LowHuge(mm), NEW hint \in Frames
    PROVE  InTurn([i \in 1 .. Cardinality(Regions) |->
                     [a \in Copies |-> CopyRegion(a, i - 1, hint)]],
                  [m |-> mm, c |-> [NoChild EXCEPT !.dir = EmptyDir],
                   enough |-> TRUE]) \in Copied(mm)
<1> DEFINE N == Cardinality(Regions)
           steps == [i \in 1 .. N |-> [a \in Copies |-> CopyRegion(a, i - 1, hint)]]
           d == [NoChild EXCEPT !.dir = EmptyDir]
           start == [m |-> mm, c |-> d, enough |-> TRUE]
           D == [k \in 0 .. N |-> Copied(mm)]
<1>1. N \in Nat /\ Regions = 0 .. N - 1
  <2>1. N = LowRegions + FarRegions /\ LowRegions \in Nat /\ FarRegions \in Nat
    BY SpaceSizes DEF VmmAssumption
  <2>2. Regions = 0 .. LowRegions + FarRegions - 1
    BY DEF Regions
  <2> HIDE DEF N
  <2> QED BY <2>1, <2>2
<1>2. None \notin Frames /\ Huge \notin Frames /\ None # Huge
  BY SpaceSizes DEF None, Huge
<1>3. start \in Copied(mm)
  <2>1. d.dir = EmptyDir /\ d.pte = NoChild.pte /\ d.wrote = NoChild.wrote
    BY DEF NoChild
  <2>2. d \in Children /\ mm \in Memory
    <3>1. NoChild \in Children
      BY DEF NoChild, NotPresent, Pte, Children
    <3>2. EmptyDir \in [Regions -> Frames \cup {None, Huge}]
      BY DEF EmptyDir
    <3> QED BY <3>1, <3>2 DEF Children, SpaceGood
  <2> HIDE DEF d
  <2>3. \A u \in Uses : FrameOf(mm, d)[u] = FrameOf(mm, NoChild)[u]
    <3>1. ASSUME NEW y \in Pages
          PROVE  FrameOf(mm, d)[<<"page", y>>] = FrameOf(mm, NoChild)[<<"page", y>>]
      BY FrameOfPage
    <3>2. ASSUME NEW y \in Pages
          PROVE  FrameOf(mm, d)[<<"copy", y>>] = FrameOf(mm, NoChild)[<<"copy", y>>]
      BY <2>1, FrameOfCopy
    <3>3. ASSUME NEW q \in Regions
          PROVE  FrameOf(mm, d)[<<"table", q>>] = FrameOf(mm, NoChild)[<<"table", q>>]
      BY FrameOfTable
    <3>4. ASSUME NEW q \in Regions
          PROVE  FrameOf(mm, d)[<<"childtable", q>>] = FrameOf(mm, NoChild)[<<"childtable", q>>]
      <4>1. Tabled(EmptyDir[q]) = None /\ Tabled(NoChild.dir[q]) = None
        BY <1>2 DEF Tabled, EmptyDir, NoChild
      <4> QED BY <2>1, <4>1, FrameOfChildTable
    <3>5. ASSUME NEW g \in Kernel
          PROVE  FrameOf(mm, d)[<<"kernel", g>>] = FrameOf(mm, NoChild)[<<"kernel", g>>]
      BY FrameOfKernel
    <3> QED BY <3>1, <3>2, <3>3, <3>4, <3>5, UseKinds
  <2>4. SpaceGood(mm, d)
    <3>1. Disjoint(FrameOf(mm, d), mm.avail)
      BY <2>3, Fewer DEF SpaceGood
    <3> QED BY <2>1, <2>2, <3>1 DEF SpaceGood, Keeps
  <2>5. \A q \in Regions : d.dir[q] = Huge => q < LowRegions
    BY <1>2, <2>1 DEF EmptyDir
  <2>6. start.m = mm /\ start.c = d /\ start \in Copies
    BY <2>2 DEF Copies
  <2> QED BY <2>4, <2>5, <2>6 DEF Copied
<1> HIDE DEF start
<1>4. ASSUME NEW k \in 1 .. N, NEW x \in D[k - 1] PROVE steps[k][x] \in D[k]
  <2>1. x \in Copied(mm) /\ x \in Copies /\ k - 1 \in Regions
    BY <1>1, <1>4 DEF Copied
  <2>2. steps[k][x] = CopyRegion(x, k - 1, hint)
    BY <2>1
  <2>3. CopyRegion(x, k - 1, hint) \in Copied(mm)
    BY <2>1, CopyRegionSound
  <2> QED BY <1>1, <2>2, <2>3
<1>5. InTurn(steps, start) \in D[N]
  <2>1. steps = [k \in 1 .. N |-> steps[k]] /\ start \in D[0]
    BY <1>1, <1>3
  <2> HIDE DEF steps, D, N
  <2> QED BY <1>1, <1>4, <2>1, InTurnEnds
<1> QED BY <1>1, <1>5 DEF start

-----------------------------------------------------------------------------
(* The invariant, and what keeps it.                                       *)
SpaceInv ==
    /\ VmmTypeOK
    /\ running => SpaceGood(mm, child)
    /\ ~running => Dead(mm, child)

LEMMA SpaceStays ==
    ASSUME vma' \in [1 .. VMA_MAX -> VMA], brk' \in 0 .. LowRegions * ENTRIES,
           mmap_bump' \in Pages \cup {Cardinality(Pages)}, running' \in BOOLEAN,
           running' => SpaceGood(mm', child'), ~running' => Dead(mm', child')
    PROVE  SpaceInv'
BY DEF SpaceInv, VmmTypeOK, SpaceGood, Dead

LEMMA SpaceSame ==
    ASSUME SpaceInv, UNCHANGED <<mm, child, running>>,
           vma' \in [1 .. VMA_MAX -> VMA], brk' \in 0 .. LowRegions * ENTRIES,
           mmap_bump' \in Pages \cup {Cardinality(Pages)}
    PROVE  SpaceInv'
<1>1. running' => SpaceGood(mm', child')
  BY DEF SpaceInv
<1>2. ~running' => Dead(mm', child')
  BY DEF SpaceInv
<1>3. running' \in BOOLEAN
  BY DEF SpaceInv, VmmTypeOK
<1> QED BY <1>1, <1>2, <1>3, SpaceStays

(* A call ends, with the frames it needed or with the program killed.      *)
LEMMA CallEnds ==
    ASSUME VmmAssumption, NEW m, NEW e \in BOOLEAN, OutOfMemory(m, e),
           SpaceGood(m, child')
    PROVE  /\ running' \in BOOLEAN
           /\ running' => SpaceGood(mm', child')
           /\ ~running' => Dead(mm', child')
<1>1. CASE e
  BY <1>1 DEF OutOfMemory
<1>2. CASE ~e
  <2>1. mm' \in Killed(m) /\ ~running'
    BY <1>2 DEF OutOfMemory
  <2> QED BY <1>2, <2>1, KillSound DEF OutOfMemory
<1> QED BY <1>1, <1>2

LEMMA AreaAdded ==
    ASSUME VmmAssumption, VmmTypeOK, NEW first \in Nat, NEW last \in Nat, NEW w \in BOOLEAN
    PROVE  vmm_vma_add(first, last, w) \in [1 .. VMA_MAX -> VMA]
<1>1. vma \in [1 .. VMA_MAX -> VMA]
  BY DEF VmmTypeOK
<1>2. [start |-> first, end |-> last, write |-> w] \in VMA
  BY DEF VMA
<1> QED BY <1>1, <1>2 DEF vmm_vma_add

LEMMA AreasRemoved ==
    ASSUME VmmTypeOK, NEW first, NEW last
    PROVE  vmm_vma_remove(first, last) \in [1 .. VMA_MAX -> VMA]
<1>1. vma \in [1 .. VMA_MAX -> VMA] /\ NoArea \in VMA
  BY DEF VmmTypeOK, NoArea, VMA
<1> QED BY <1>1 DEF vmm_vma_remove

LEMMA InitHolds == ASSUME VmmAssumption, VmmInit PROVE SpaceInv
<1>1. None \notin Frames /\ Huge \notin Frames /\ None # Huge
  BY SpaceSizes DEF None, Huge
<1>2. NotPresent \in Pte /\ NoArea \in VMA /\ NoChild \in Children
  BY DEF NotPresent, Pte, NoArea, VMA, NoChild, Children
<1>3. mm \in Memory
  BY <1>2 DEF VmmInit, EmptyDir, Memory
<1>4. VmmTypeOK
  <2>1. 0 \in 0 .. LowRegions * ENTRIES
        /\ LowRegions * ENTRIES \in Pages \cup {Cardinality(Pages)}
    BY SpaceSizes DEF Pages
  <2> QED BY <1>2, <1>3, <2>1 DEF VmmInit, VmmTypeOK
<1>5. /\ mm.dir = EmptyDir /\ mm.pte = [v \in Pages |-> NotPresent]
      /\ mm.avail = [f \in Frames |-> IF f \in Kernel THEN 0 ELSE 1]
      /\ mm.wrote = [v \in Pages |-> 0] /\ child = NoChild
  BY DEF VmmInit
<1>6. Mapped(mm) = {}
  BY <1>5 DEF Mapped, Present, NotPresent
<1>7. Shaped(mm) /\ Keeps(mm, child)
  BY <1>1, <1>5, <1>6 DEF Shaped, Keeps, EmptyDir, NotPresent, NoChild
<1>8. \A u \in Uses : FrameOf(mm, child)[u] \in Frames =>
                        u = <<"kernel", FrameOf(mm, child)[u]>> /\ FrameOf(mm, child)[u] \in Kernel
  <2>1. ASSUME NEW y \in Pages PROVE FrameOf(mm, child)[<<"page", y>>] \notin Frames
    BY <1>1, <1>6, FrameOfPage
  <2>2. ASSUME NEW y \in Pages PROVE FrameOf(mm, child)[<<"copy", y>>] \notin Frames
    BY <1>1, <1>5, FrameOfCopy DEF NoChild, NotPresent
  <2>3. ASSUME NEW q \in Regions PROVE FrameOf(mm, child)[<<"table", q>>] \notin Frames
    <3>1. mm.dir[q] \notin Frames
      BY <1>1, <1>5 DEF EmptyDir
    <3> QED BY <1>1, <3>1, FrameOfTable DEF Tabled
  <2>4. ASSUME NEW q \in Regions PROVE FrameOf(mm, child)[<<"childtable", q>>] \notin Frames
    <3>1. child.dir[q] \notin Frames
      BY <1>1, <1>5 DEF NoChild
    <3> QED BY <1>1, <3>1, FrameOfChildTable DEF Tabled
  <2>5. ASSUME NEW g \in Kernel PROVE FrameOf(mm, child)[<<"kernel", g>>] = g
    BY FrameOfKernel
  <2> QED BY <2>1, <2>2, <2>3, <2>4, <2>5, UseKinds
<1>9. Disjoint(FrameOf(mm, child), mm.avail)
  <2>1. \A f \in Kernel : f \in Frames
    BY DEF VmmAssumption
  <2> QED BY <1>5, <1>8, <2>1 DEF Disjoint
<1>10. running
  BY DEF VmmInit
<1> QED BY <1>2, <1>3, <1>4, <1>5, <1>7, <1>9, <1>10 DEF SpaceInv, SpaceGood

LEMMA MmapHolds ==
    ASSUME VmmAssumption, SpaceInv, NEW first \in Pages, NEW len \in 1 .. MaxLen,
           NEW w \in BOOLEAN, sys_mmap(first, len, w)
    PROVE  SpaceInv'
<1>1. /\ first \in Nat /\ first + len \in Nat /\ Cardinality(Pages) \in Nat
      /\ Pages = 0 .. Cardinality(Pages) - 1
  BY SpaceSizes DEF Pages, VmmAssumption
<1>2. vma' \in [1 .. VMA_MAX -> VMA]
  BY <1>1, AreaAdded DEF SpaceInv, sys_mmap
<1>3. mmap_bump' \in Pages \cup {Cardinality(Pages)}
  BY <1>1 DEF SpaceInv, VmmTypeOK, sys_mmap
<1>4. UNCHANGED <<mm, brk, child, running>>
  BY DEF sys_mmap
<1>5. brk' \in 0 .. LowRegions * ENTRIES
  BY <1>4 DEF SpaceInv, VmmTypeOK
<1> QED BY <1>2, <1>3, <1>4, <1>5, SpaceSame

LEMMA ProtectHolds ==
    ASSUME VmmAssumption, SpaceInv, NEW first \in Pages, NEW len \in 1 .. MaxLen, Careful,
           NEW w \in BOOLEAN, sys_mprotect(first, len, w)
    PROVE  SpaceInv'
<1> DEFINE S == first .. first + len - 1
           p == [v \in Pages |-> IF v \in S /\ Present(mm, v)
                                 THEN [mm.pte[v] EXCEPT !.user = TRUE, !.write = w]
                                 ELSE mm.pte[v]]
<1>1. running /\ mm \in Memory /\ mm.pte \in [Pages -> Pte]
  BY DEF SpaceInv, SpaceGood, Memory, sys_mprotect
<1>2. \A v \in S : Present(mm, v) => mm.pte[v].user
  BY DEF sys_mprotect, Own
<1>3. mm' = [mm EXCEPT !.pte = p]
  BY DEF sys_mprotect
<1>4. \A v \in Pages : p[v] \in Pte /\ p[v].frame = mm.pte[v].frame /\ p[v].user = mm.pte[v].user
  <2> TAKE v \in Pages
  <2>1. mm.pte[v] \in Pte
    BY <1>1
  <2>2. CASE v \in S /\ Present(mm, v)
    <3>1. p[v] = [mm.pte[v] EXCEPT !.user = TRUE, !.write = w] /\ mm.pte[v].user
      BY <1>2, <2>2
    <3>2. mm.pte[v].user = TRUE
      BY <2>1, <3>1 DEF Pte
    <3> HIDE DEF p
    <3> QED BY <2>1, <3>1, <3>2 DEF Pte
  <2>3. CASE ~(v \in S /\ Present(mm, v))
    BY <2>1, <2>3
  <2> QED BY <2>2, <2>3
<1>5. p \in [Pages -> Pte]
  BY <1>4
<1> HIDE DEF p
<1>6. /\ mm'.dir = mm.dir /\ mm'.avail = mm.avail /\ mm'.mem = mm.mem
      /\ mm'.wrote = mm.wrote /\ mm'.pte = p
  BY <1>1, <1>3 DEF Memory
<1>7. mm' \in Memory
  BY <1>1, <1>3, <1>5 DEF Memory
<1>8. SpaceGood(mm', child)
  BY <1>1, <1>4, <1>6, <1>7, EntriesSound DEF SpaceInv
<1>9. vma' \in [1 .. VMA_MAX -> VMA]
  <2>1. \A i \in 1 .. VMA_MAX : vma[i] \in VMA
    BY DEF SpaceInv, VmmTypeOK
  <2>2. \A i \in 1 .. VMA_MAX : [vma[i] EXCEPT !.write = w] \in VMA
    BY <2>1 DEF VMA
  <2> QED BY <2>1, <2>2 DEF sys_mprotect
<1>10. UNCHANGED <<brk, mmap_bump, child, running>>
  BY DEF sys_mprotect
<1>11. SpaceGood(mm', child')
  BY <1>8, <1>10
<1> QED BY <1>1, <1>9, <1>10, <1>11, SpaceStays DEF SpaceInv, VmmTypeOK

LEMMA MunmapHolds ==
    ASSUME VmmAssumption, SpaceInv, NEW first \in Pages, NEW len \in 1 .. MaxLen, Careful,
           sys_munmap(first, len)
    PROVE  SpaceInv'
<1> DEFINE pages == [i \in 1 .. len |-> first + i - 1]
<1>1. /\ first \in Nat /\ len \in Nat /\ Cardinality(Pages) \in Nat
      /\ Pages = 0 .. Cardinality(Pages) - 1 /\ first + len <= Cardinality(Pages)
  BY SpaceSizes DEF Pages, VmmAssumption, sys_munmap
<1>2. pages \in [1 .. len -> Pages]
  BY <1>1
<1>3. \A k \in 1 .. len : Present(mm, pages[k]) => mm.pte[pages[k]].user
  <2>1. \A k \in 1 .. len : pages[k] \in first .. first + len - 1
    BY <1>1
  <2> QED BY <2>1 DEF sys_munmap, Own
<1>4. mm' = AllUnmapped(pages)
  BY DEF sys_munmap
<1> HIDE DEF pages
<1>5. SpaceGood(mm', child)
  BY <1>1, <1>2, <1>3, <1>4, AllUnmappedSound DEF SpaceInv, sys_munmap
<1>6. vma' \in [1 .. VMA_MAX -> VMA]
  BY AreasRemoved DEF SpaceInv, sys_munmap
<1>7. running /\ UNCHANGED <<brk, mmap_bump, child, running>>
  BY DEF sys_munmap
<1>8. SpaceGood(mm', child')
  BY <1>5, <1>7
<1> QED BY <1>6, <1>7, <1>8, SpaceStays DEF SpaceInv, VmmTypeOK

LEMMA GrowHolds ==
    ASSUME VmmAssumption, SpaceInv, NEW new \in 0 .. LowRegions * ENTRIES, BrkGrow(new)
    PROVE  SpaceInv'
<1>1. brk \in Nat /\ new \in Nat
  BY SpaceSizes DEF SpaceInv, VmmTypeOK
<1>2. vma' \in [1 .. VMA_MAX -> VMA]
  BY <1>1, AreaAdded DEF SpaceInv, BrkGrow
<1>3. UNCHANGED <<mm, mmap_bump, child, running>> /\ brk' = new
  BY DEF BrkGrow
<1>4. mmap_bump' \in Pages \cup {Cardinality(Pages)}
  BY <1>3 DEF SpaceInv, VmmTypeOK
<1> QED BY <1>2, <1>3, <1>4, SpaceSame

LEMMA ShrinkHolds ==
    ASSUME VmmAssumption, SpaceInv, NEW new \in 0 .. LowRegions * ENTRIES, Careful,
           BrkShrink(new)
    PROVE  SpaceInv'
<1> DEFINE N == brk - new
           pages == [i \in 1 .. N |-> brk - i]
<1>1. /\ brk \in 0 .. LowRegions * ENTRIES /\ new \in Nat /\ new < brk
      /\ LowRegions * ENTRIES <= Cardinality(Pages)
      /\ LowRegions * ENTRIES \in Nat /\ Cardinality(Pages) \in Nat
      /\ Pages = 0 .. Cardinality(Pages) - 1
  BY SpaceSizes DEF SpaceInv, VmmTypeOK, BrkShrink, Pages
<1>2. N \in Nat
  BY <1>1
<1>3. pages \in [1 .. N -> Pages]
  BY <1>1
<1>4. \A k \in 1 .. N : Present(mm, pages[k]) => mm.pte[pages[k]].user
  <2>1. \A k \in 1 .. N : pages[k] \in new .. brk - 1
    BY <1>1
  <2> QED BY <2>1 DEF BrkShrink, Own
<1>5. mm' = AllUnmapped(pages)
  BY DEF BrkShrink
<1> HIDE DEF pages, N
<1>6. SpaceGood(mm', child)
  BY <1>2, <1>3, <1>4, <1>5, AllUnmappedSound DEF SpaceInv, BrkShrink
<1>7. vma' \in [1 .. VMA_MAX -> VMA]
  BY AreasRemoved DEF SpaceInv, BrkShrink
<1>8. running /\ UNCHANGED <<mmap_bump, child, running>> /\ brk' = new
  BY DEF BrkShrink
<1>9. SpaceGood(mm', child')
  BY <1>6, <1>8
<1> QED BY <1>7, <1>8, <1>9, SpaceStays DEF SpaceInv, VmmTypeOK

LEMMA MallocHolds ==
    ASSUME VmmAssumption, SpaceInv, NEW n \in 1 .. MaxLen, NEW hint \in Hints,
           sys_malloc(n, hint)
    PROVE  SpaceInv'
<1> DEFINE WithFrame(m, v) == IF Present(m, v) \/ FreeFrames(m) = {} THEN m
                           ELSE MapFresh(m, v, TRUE, hint)
           steps == [i \in 1 .. n |-> [x \in Memory |-> WithFrame(x, brk + i - 1)]]
           E == {m \in Memory : SpaceGood(m, child)}
           D == [k \in 0 .. n |-> E]
<1>1. /\ brk \in Nat /\ n \in Nat /\ brk + n <= LowRegions * ENTRIES
      /\ LowRegions * ENTRIES <= Cardinality(Pages)
      /\ LowRegions * ENTRIES \in Nat /\ Cardinality(Pages) \in Nat
      /\ Pages = 0 .. Cardinality(Pages) - 1 /\ hint \in Frames
  BY SpaceSizes DEF SpaceInv, VmmTypeOK, sys_malloc, Pages, VmmAssumption
<1>2. ASSUME NEW k \in 1 .. n, NEW x \in D[k - 1] PROVE steps[k][x] \in D[k]
  <2> DEFINE v == brk + k - 1
  <2>1. x \in Memory /\ SpaceGood(x, child) /\ v \in Pages
    BY <1>1
  <2>2. steps[k][x] = WithFrame(x, v)
    BY <2>1
  <2>5. D[k] = E /\ x \in E
    BY <1>1, <2>1
  <2> HIDE DEF v, steps, D, E
  <2>3. CASE Present(x, v) \/ FreeFrames(x) = {}
    BY <2>2, <2>3, <2>5
  <2>4. CASE ~(Present(x, v) \/ FreeFrames(x) = {})
    <3>1. v \notin Mapped(x)
      BY <2>4 DEF Mapped
    <3>2. SpaceGood(MapFresh(x, v, TRUE, hint), child)
      BY <1>1, <2>1, <2>4, <3>1, FreshSound
    <3>3. MapFresh(x, v, TRUE, hint) \in E
      BY <3>2 DEF SpaceGood, E
    <3> QED BY <2>2, <2>4, <2>5, <3>3
  <2> QED BY <2>3, <2>4
<1>3. InTurn(steps, mm) \in D[n]
  <2>1. steps = [k \in 1 .. n |-> steps[k]]
    OBVIOUS
  <2>2. mm \in D[0]
    BY <1>1 DEF SpaceInv, SpaceGood, sys_malloc
  <2> HIDE DEF steps, D
  <2> QED BY <1>1, <1>2, <2>1, <2>2, InTurnEnds
<1> DEFINE m == InTurn(steps, mm)
           e == \A v \in brk .. brk + n - 1 : Present(m, v)
<1>4. OutOfMemory(m, e) /\ e \in BOOLEAN
  BY DEF sys_malloc
<1> HIDE DEF steps
<1>5. UNCHANGED <<vma, mmap_bump, child>>
  BY DEF sys_malloc
<1>6. m \in E
  BY <1>1, <1>3
<1>7. SpaceGood(m, child')
  BY <1>5, <1>6
<1>8. brk' \in 0 .. LowRegions * ENTRIES
  <2>1. brk' = brk + n \/ brk' = brk
    BY DEF sys_malloc
  <2> QED BY <1>1, <2>1
<1> HIDE DEF m, e
<1>9. /\ running' \in BOOLEAN
      /\ running' => SpaceGood(mm', child')
      /\ ~running' => Dead(mm', child')
  BY <1>4, <1>7, CallEnds
<1> QED BY <1>5, <1>8, <1>9, SpaceStays DEF SpaceInv, VmmTypeOK

LEMMA StoreHolds ==
    ASSUME SpaceInv, NEW v \in Pages, Store(v, 1)
    PROVE  SpaceInv'
<1>1. v \in Mapped(mm)
  BY DEF Store, Mapped
<1>2. Stores(mm, v, mm.pte[v].frame, 1, mm')
  BY DEF Store, Stores
<1>3. UNCHANGED <<vma, brk, mmap_bump, child, running>>
  BY DEF Store
<1>4. running => SpaceGood(mm', child')
  BY <1>1, <1>2, <1>3, StoreSound DEF SpaceInv
<1>5. ~running => Dead(mm', child')
  BY <1>1, <1>2, <1>3, DeadStore DEF SpaceInv
<1> QED BY <1>3, <1>4, <1>5, SpaceStays DEF SpaceInv, VmmTypeOK

LEMMA WriteFaultHolds ==
    ASSUME SpaceInv, NEW v \in Pages, WriteFault(v)
    PROVE  SpaceInv'
<1> DEFINE e == [mm.pte[v] EXCEPT !.write = TRUE]
           p == [mm.pte EXCEPT ![v] = e]
<1>1. running /\ mm \in Memory /\ mm.pte \in [Pages -> Pte]
  BY DEF SpaceInv, SpaceGood, Memory, WriteFault
<1>2. mm' = [mm EXCEPT !.pte[v].write = TRUE]
  BY DEF WriteFault
<1>3. /\ mm'.dir = mm.dir /\ mm'.avail = mm.avail /\ mm'.mem = mm.mem
      /\ mm'.wrote = mm.wrote /\ mm'.ref = mm.ref
  BY <1>1, <1>2 DEF Memory
<1>4. mm'.pte = p
  BY <1>1, <1>2 DEF Memory
<1>5. e \in Pte /\ e.frame = mm.pte[v].frame /\ e.user = mm.pte[v].user
  BY <1>1 DEF Pte
<1> HIDE DEF e
<1>6. p \in [Pages -> Pte]
  BY <1>1, <1>5
<1>7. \A x \in Pages :
        p[x].frame = mm.pte[x].frame /\ p[x].user = mm.pte[x].user
  BY <1>1, <1>5
<1> HIDE DEF p
<1>8. mm' \in Memory
  <2>1. mm' \in [dir: {mm'.dir}, pte: {mm'.pte}, avail: {mm'.avail}, ref: {mm'.ref},
                 mem: {mm'.mem}, wrote: {mm'.wrote}]
    BY <1>1, <1>2 DEF Memory
  <2> QED BY <1>1, <1>3, <1>4, <1>6, <2>1 DEF Memory
<1>9. SpaceGood(mm', child)
  BY <1>1, <1>3, <1>4, <1>7, <1>8, EntriesSound DEF SpaceInv
<1>10. UNCHANGED <<vma, brk, mmap_bump, child, running>>
  BY DEF WriteFault
<1>11. SpaceGood(mm', child')
  BY <1>9, <1>10
<1> QED BY <1>1, <1>10, <1>11, SpaceStays DEF SpaceInv, VmmTypeOK

LEMMA DemandHolds ==
    ASSUME VmmAssumption, SpaceInv, NEW v \in Pages, NEW hint \in Hints,
           DemandFault(v, hint)
    PROVE  SpaceInv'
<1> DEFINE i == Min(vmm_find_vma(v))
<1>1. hint \in Frames
  BY DEF VmmAssumption
<1>2. i \in 1 .. VMA_MAX
  <2>1. vmm_find_vma(v) \in SUBSET Nat /\ vmm_find_vma(v) # {}
        /\ vmm_find_vma(v) \subseteq 1 .. VMA_MAX
    BY DEF vmm_find_vma, DemandFault
  <2> QED BY <2>1, LeastIn
<1> HIDE DEF i
<1>3. vma[i].write \in BOOLEAN
  <2>1. vma[i] \in VMA
    BY <1>2 DEF SpaceInv, VmmTypeOK
  <2> QED BY <2>1 DEF VMA
<1> DEFINE m == IF FreeFrames(mm) = {} THEN mm ELSE MapFresh(mm, v, vma[i].write, hint)
<1>4. v \notin Mapped(mm) /\ SpaceGood(mm, child)
  BY DEF DemandFault, Mapped, SpaceInv
<1>5. OutOfMemory(m, Present(m, v)) /\ UNCHANGED <<vma, brk, mmap_bump, child>>
  BY DEF DemandFault, i
<1>6. SpaceGood(m, child')
  BY <1>1, <1>3, <1>4, <1>5, FreshSound
<1>7. Present(m, v) \in BOOLEAN
  BY DEF Present
<1> HIDE DEF m
<1>8. /\ running' \in BOOLEAN
      /\ running' => SpaceGood(mm', child')
      /\ ~running' => Dead(mm', child')
  BY <1>5, <1>6, <1>7, CallEnds
<1> QED BY <1>5, <1>8, SpaceStays DEF SpaceInv, VmmTypeOK

LEMMA NextProgramHolds ==
    ASSUME VmmAssumption, SpaceInv, NextProgram
    PROVE  SpaceInv'
<1>1. SpaceGood(mm', child)
  <2>1. CASE running
    BY <2>1, EndSound DEF SpaceInv, NextProgram
  <2>2. CASE ~running
    BY <2>2, DeadEnds DEF SpaceInv, NextProgram
  <2> QED BY <2>1, <2>2
<1>2. vma' \in [1 .. VMA_MAX -> VMA]
  BY DEF NextProgram, NoArea, VMA
<1>3. brk' \in 0 .. LowRegions * ENTRIES
  BY SpaceSizes DEF NextProgram
<1>4. running' /\ UNCHANGED <<mmap_bump, child>>
  BY DEF NextProgram
<1>5. SpaceGood(mm', child')
  BY <1>1, <1>4
<1> QED BY <1>2, <1>3, <1>4, <1>5, SpaceStays DEF SpaceInv, VmmTypeOK

LEMMA ForkHolds ==
    ASSUME VmmAssumption, SpaceInv, Careful, NEW hint \in Hints, Fork(hint)
    PROVE  SpaceInv'
<1> DEFINE made == InTurn([i \in 1 .. Cardinality(Regions) |->
                             [a \in Copies |-> CopyRegion(a, i - 1, hint)]],
                          [m |-> mm, c |-> [NoChild EXCEPT !.dir = EmptyDir],
                           enough |-> TRUE])
<1>1. hint \in Frames
  BY DEF VmmAssumption
<1>2. SpaceGood(mm, NoChild)
  BY DEF SpaceInv, Fork
<1>3. LowHuge(mm)
  <2>1. \A r \in 0 .. LowRegions - 1 : mm.dir[r] = Huge
    BY DEF Fork
  <2>2. \A r \in Regions : r < LowRegions => r \in 0 .. LowRegions - 1
    BY DEF Regions, VmmAssumption
  <2> QED BY <2>1, <2>2 DEF LowHuge
<1>4. made \in Copied(mm)
  BY <1>1, <1>2, <1>3, ForkSound
<1>5. /\ OutOfMemory(made.m, made.enough) /\ child' = made.c
      /\ UNCHANGED <<vma, brk, mmap_bump>>
  BY DEF Fork
<1> HIDE DEF made
<1>6. SpaceGood(made.m, child') /\ made.enough \in BOOLEAN
  BY <1>4, <1>5 DEF Copied, Copies
<1> DEFINE m == made.m
           e == made.enough
<1>7. OutOfMemory(m, e) /\ SpaceGood(m, child') /\ e \in BOOLEAN
  BY <1>5, <1>6
<1> HIDE DEF m, e
<1>8. /\ running' \in BOOLEAN
      /\ running' => SpaceGood(mm', child')
      /\ ~running' => Dead(mm', child')
  BY <1>7, CallEnds
<1> QED BY <1>5, <1>8, SpaceStays DEF SpaceInv, VmmTypeOK

LEMMA SpaceHolds == ASSUME VmmAssumption, Careful PROVE VmmSpec => []SpaceInv
<1>1. VmmInit => SpaceInv
  BY InitHolds
<1>2. SpaceInv /\ [VmmNext]_vmmVars => SpaceInv'
  <2> SUFFICES ASSUME SpaceInv, [VmmNext]_vmmVars PROVE SpaceInv'
    OBVIOUS
  <2>1. ASSUME NEW v \in Pages, NEW len \in 1 .. MaxLen, NEW w \in BOOLEAN,
               sys_mmap(v, len, w) \/ sys_mprotect(v, len, w)
        PROVE  SpaceInv'
    BY <2>1, MmapHolds, ProtectHolds
  <2>2. ASSUME NEW v \in Pages, NEW len \in 1 .. MaxLen, sys_munmap(v, len)
        PROVE  SpaceInv'
    BY <2>2, MunmapHolds
  <2>3. ASSUME NEW b \in 0 .. LowRegions * ENTRIES, BrkGrow(b) \/ BrkShrink(b)
        PROVE  SpaceInv'
    BY <2>3, GrowHolds, ShrinkHolds
  <2>4. ASSUME NEW n \in 1 .. MaxLen, NEW hint \in Hints, sys_malloc(n, hint)
        PROVE  SpaceInv'
    BY <2>4, MallocHolds
  <2>5. ASSUME NEW v \in Pages, Store(v, 1) \/ WriteFault(v) PROVE SpaceInv'
    BY <2>5, StoreHolds, WriteFaultHolds
  <2>6. ASSUME NEW v \in Pages, NEW hint \in Hints, DemandFault(v, hint) PROVE SpaceInv'
    BY <2>6, DemandHolds
  <2>7. CASE NextProgram
    BY <2>7, NextProgramHolds
  <2>8. ASSUME NEW hint \in Hints, Fork(hint) PROVE SpaceInv'
    BY <2>8, ForkHolds
  <2>9. CASE UNCHANGED vmmVars
    <3>1. UNCHANGED <<mm, vma, brk, mmap_bump, child, running>>
      BY <2>9 DEF vmmVars
    <3> QED BY <3>1, SpaceSame DEF SpaceInv, VmmTypeOK
  <2> QED BY <2>1, <2>2, <2>3, <2>4, <2>5, <2>6, <2>7, <2>8, <2>9 DEF VmmNext
<1> QED BY <1>1, <1>2, PTL DEF VmmSpec

(* An address space keeps its types, whatever a program that forks,        *)
(* protects and gives back only its own pages asks for, and when a call    *)
(* finds no frame and the kernel kills it (pmm_alloc, oom_kill).           *)
THEOREM SpaceTyped == ASSUME VmmAssumption, Careful PROVE VmmSpec => []VmmTypeOK
<1>1. SpaceInv => VmmTypeOK
  BY DEF SpaceInv
<1> QED BY <1>1, SpaceHolds, PTL

(* A frame is a page, a table, a page or table of the child or the         *)
(* kernel's, one of these, or free once, through every fault, unmapping,   *)
(* fork and exit; when a call finds no frame, the program killed for it    *)
(* has none left, its successor gets none twice, and the child keeps its   *)
(* own (vmm_map, vmm_unmap, vmm_page_fault, vmm_cow_fork, vmm_destroy,     *)
(* oom_kill).                                                              *)
THEOREM FramesHaveOneUse ==
    ASSUME VmmAssumption, Careful PROVE VmmSpec => []FramesAccounted
<1>1. SpaceInv => FramesAccounted
  <2> SUFFICES ASSUME SpaceInv PROVE FramesAccounted
    OBVIOUS
  <2> DEFINE P == {u \in Uses : running \/ u[1] \notin {"page", "table"}}
             o == FrameOf(mm, child)
  <2>1. CASE running
    <3>1. P = Uses /\ Disjoint(o, mm.avail)
      BY <2>1 DEF SpaceInv, SpaceGood
    <3>2. \A f \in Frames : Cardinality({u \in Uses : o[u] = f}) + mm.avail[f] <= 1
      BY <3>1, DisjointCounts
    <3> HIDE DEF P, o
    <3> QED BY <3>1, <3>2 DEF FramesAccounted, P, o
  <2>2. CASE ~running
    <3>1. P = Others /\ Dead(mm, child)
      BY <2>2 DEF SpaceInv, Others
    <3> HIDE DEF P
    <3>2. ASSUME NEW f \in Frames
          PROVE  Cardinality({u \in Others : o[u] = f}) + mm.avail[f] <= 1
      <4> DEFINE S == {u \in Others : o[u] = f}
      <4>1. mm.avail[f] \in 0 .. 1
        BY <3>1 DEF Dead
      <4>2. CASE S = {}
        BY <4>1, <4>2, FS_EmptySet
      <4>3. CASE S # {}
        <5>1. PICK u \in Others : o[u] = f
          BY <4>3
        <5>2. S = {u} /\ mm.avail[f] = 0
          BY <3>1, <5>1 DEF Dead
        <5>3. Cardinality(S) = 1
          BY <5>2, FS_Singleton
        <5> QED BY <5>2, <5>3
      <4> QED BY <4>2, <4>3
    <3> QED BY <3>1, <3>2 DEF FramesAccounted, P
  <2> QED BY <2>1, <2>2
<1> QED BY <1>1, SpaceHolds, PTL

(* A page holds what the program stored in it, zeros before, until it is   *)
(* unmapped or the program killed; its copy in the child holds what the    *)
(* program had stored when it forked, whatever either maps, gives back or  *)
(* writes later, and when the program is killed for want of a frame, by    *)
(* the fork itself or after it (vmm_page_fault, vmm_cow_fork, sys_munmap,  *)
(* oom_kill).                                                              *)
THEOREM PagesAreKept == ASSUME VmmAssumption, Careful PROVE VmmSpec => []PagesKeep
<1>1. SpaceInv => PagesKeep
  BY DEF SpaceInv, SpaceGood, Dead, Keeps, PagesKeep, CopiedPages
<1> QED BY <1>1, SpaceHolds, PTL
=============================================================================
