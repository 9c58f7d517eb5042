-------------------------------- MODULE Heap --------------------------------
(***************************************************************************)
(* The kernel heap (heap.c).  Small requests are served from slab pages,   *)
(* pages of equal slots with a free list through the slots themselves;     *)
(* large ones from a first-fit heap of blocks, each behind a header.       *)
(* heap_free and heap_realloc tell the two apart by what lies at the start *)
(* of the page the pointer is in.                                          *)
(*                                                                         *)
(* Memory is counted in units of 16 bytes: a block header is one unit, a   *)
(* slab header two.  A unit holds a header or data; data is zero, a value  *)
(* its owner wrote, or a link of the allocator.                            *)
(***************************************************************************)
EXTENDS Naturals, Sequences, FiniteSetsExt

CONSTANTS
    HEAP_SIZE,    \* units of the block heap (131072)
    PAGE_SIZE,    \* units of a page (256)
    Classes,      \* the slot sizes, 1 .. 2^k (slab_sizes, 16 to 2048 bytes)
    PageAddrs,    \* page numbers pmm_alloc may return
    WORD,         \* page numbers that fit into the 32 bits of next_slab
    Requests,     \* sizes that clients ask for
    Values,       \* what clients write
    LooksLikeSlab \* those that have the obj_size and class_idx of a slab

HeapAssumption ==
    /\ HEAP_SIZE \in Nat \ {0, 1}
    /\ PAGE_SIZE \in Nat \ {0, 1}
    /\ Classes \subseteq 1 .. PAGE_SIZE - 2 /\ Classes # {}
    /\ Requests \subseteq Nat \ {0}
    /\ PageAddrs \subseteq Nat \ {0} /\ IsFiniteSet(PageAddrs)
    /\ WORD \in Nat \ {0}
    /\ LooksLikeSlab \subseteq Values

VARIABLES
    mem,    \* the block heap, unit by unit
    slabs,  \* page -> slab page, for the pages the slab tier has taken
    cache,  \* slab_cache: class -> the page its chain starts with, 0 if none
    live    \* history: what clients hold and wrote

heapVars == <<mem, slabs, cache, live>>

-----------------------------------------------------------------------------
Units == 0 .. HEAP_SIZE - 1
Zero == "zero"
Link == "link"
Data(v) == [size |-> 0, free |-> FALSE, data |-> v]
Header(n, f) == [size |-> n, free |-> f, data |-> "header"]
Unit == [size: 0 .. HEAP_SIZE, free: BOOLEAN,
         data: Values \cup {Zero, Link, "header"}]

NumSlots(c) == (PAGE_SIZE - 2) \div c
NIL == PAGE_SIZE                              \* SLAB_NIL
SlotsOf(c) == 0 .. NumSlots(c) - 1
(* A slot holds the index of the next free slot, or data (nxt is NIL).     *)
SlabPage(c) == [class: {c}, free_head: SlotsOf(c) \cup {NIL},
                free_count: 0 .. NumSlots(c), next_slab: Nat,
                slot: [SlotsOf(c) -> [nxt: 0 .. NIL,
                                      data: Values \cup {Zero, Link}]]]

(* A pointer: a unit of the block heap, or a slot of a page.               *)
BlockPtr(a) == <<0, a>>
SlabPtr(p, i) == <<p, i>>
IsBlock(ptr) == ptr[1] = 0
Null == <<>>

HeapTypeOK ==
    /\ mem \in [Units -> Unit]
    /\ DOMAIN slabs \subseteq PageAddrs
    /\ \A p \in DOMAIN slabs : slabs[p] \in SlabPage(slabs[p].class)
    /\ cache \in [Classes -> PageAddrs \cup {0}]
    /\ \A r \in live : r.val \in Values /\ r.len \in Nat

Heap == [mem |-> mem, slabs |-> slabs, cache |-> cache]
Become(h) ==
    /\ mem' = h.mem
    /\ slabs' = h.slabs
    /\ cache' = h.cache

(* heap_init: one free block.                                              *)
HeapInit ==
    /\ mem = [a \in Units |-> IF a = 0 THEN Header(HEAP_SIZE - 1, TRUE)
                              ELSE Data(Zero)]
    /\ slabs = <<>>
    /\ cache = [c \in Classes |-> 0]
    /\ live = {}

-----------------------------------------------------------------------------
(* The block tier.  The headers, found from the first one on by the sizes. *)
Blocks(m) ==
    LET from[a \in 0 .. HEAP_SIZE] ==
          IF a = HEAP_SIZE THEN {}
          ELSE {a} \cup LET next == a + 1 + m[a].size
                        IN IF next >= HEAP_SIZE THEN {} ELSE from[next]
    IN  from[0]

Fitting(m, n) == {a \in Blocks(m) : m[a].free /\ m[a].size >= n}

Splits(m, a, n) == m[a].size >= n + 2

(* The block at a is taken, its rest split off if it is worth a header,    *)
(* and zeroed.                                                             *)
Taken(m, a, n) ==
    LET size == IF Splits(m, a, n) THEN n ELSE m[a].size
    IN  [b \in Units |->
           IF b = a THEN Header(size, FALSE)
           ELSE IF b \in a + 1 .. a + size THEN Data(Zero)
           ELSE IF b = a + size + 1 /\ Splits(m, a, n)
                THEN Header(m[a].size - n - 1, TRUE)
           ELSE m[b]]

block_malloc(h, n) ==
    IF Fitting(h.mem, n) = {} THEN [ptr |-> Null, heap |-> h]
    ELSE LET a == Min(Fitting(h.mem, n))
         IN  [ptr |-> BlockPtr(a + 1),
              heap |-> [h EXCEPT !.mem = Taken(@, a, n)]]

(* Free blocks that follow the block at a.                                 *)
FreeRun(m, a) ==
    LET run[b \in 0 .. HEAP_SIZE] ==
          IF b >= HEAP_SIZE THEN 0
          ELSE IF ~m[b].free THEN 0
          ELSE 1 + m[b].size + run[b + 1 + m[b].size]
    IN  run[a + 1 + m[a].size]


(* block_free merges into the block before if that is free, then swallows  *)
(* the free blocks behind.                                                 *)
block_free(h, a) ==
    LET m == [h.mem EXCEPT ![a].free = TRUE]
        before == {b \in Blocks(m) : b < a}
        prev == IF before = {} THEN a ELSE Max(before)
        b == IF m[prev].free THEN prev ELSE a
        size == IF b = a THEN m[a].size ELSE m[b].size + 1 + m[a].size
        merged == [m EXCEPT ![b] = Header(size, TRUE)]
    IN  [h EXCEPT !.mem = [merged EXCEPT ![b].size = @ + FreeRun(merged, b)]]

-----------------------------------------------------------------------------
(* The slab tier.  Pages of a chain, as next_slab leads through them; what *)
(* is no slab page ends it.                                                *)
Chain(h, c) ==
    LET at[k \in 0 .. Cardinality(PageAddrs)] ==
          IF k = 0 THEN h.cache[c]
          ELSE IF at[k - 1] \in DOMAIN h.slabs
               THEN h.slabs[at[k - 1]].next_slab ELSE 0
    IN  [k \in {j \in DOMAIN at : at[j] \in DOMAIN h.slabs} |-> at[k]]


slab_page_init(c, next) ==
    [class |-> c, free_head |-> 0, free_count |-> NumSlots(c),
     next_slab |-> next,
     slot |-> [i \in SlotsOf(c) |->
                 [nxt |-> IF i + 1 < NumSlots(c) THEN i + 1 ELSE NIL,
                  data |-> Link]]]

(* The first slot of the free list of page p, zeroed.                      *)
Pop(h, p) ==
    LET s == h.slabs[p]
    IN  [ptr |-> SlabPtr(p, s.free_head),
         heap |-> [h EXCEPT !.slabs[p].free_head = s.slot[s.free_head].nxt,
                            !.slabs[p].free_count = @ - 1,
                            !.slabs[p].slot[s.free_head] =
                               [nxt |-> 0, data |-> Zero]]]

(* slab_alloc takes the first page of the chain with a free slot, or a new *)
(* page p, which becomes the first; p is 0 when pmm_alloc fails.           *)
slab_alloc(h, c, p) ==
    LET open == {k \in DOMAIN Chain(h, c) :
                   h.slabs[Chain(h, c)[k]].free_count > 0}
        page == slab_page_init(c, h.cache[c] % WORD)
        grown == [h EXCEPT !.cache[c] = p,
                    !.slabs = [q \in DOMAIN @ \cup {p} |->
                                 IF q = p THEN page ELSE @[q]]]
    IN  IF open # {} THEN Pop(h, Chain(h, c)[Min(open)])
        ELSE IF p = 0 THEN [ptr |-> Null, heap |-> h]
        ELSE Pop(grown, p)

(* Mutant: the slot is not linked to the rest of the free list.            *)
slab_free_LosesList(h, ptr) ==
    [h EXCEPT !.slabs[ptr[1]].free_head = ptr[2],
              !.slabs[ptr[1]].free_count = @ + 1,
              !.slabs[ptr[1]].slot[ptr[2]] = [nxt |-> NIL, data |-> Link]]

slab_free(h, ptr) ==
    [h EXCEPT !.slabs[ptr[1]].free_head = ptr[2],
              !.slabs[ptr[1]].free_count = @ + 1,
              !.slabs[ptr[1]].slot[ptr[2]] =
                 [nxt |-> h.slabs[ptr[1]].free_head, data |-> Link]]

-----------------------------------------------------------------------------
SlabClass(n) == Min({c \in Classes : n <= c})

(* heap_malloc.  A new page, should one be needed, is any that is free.    *)
heap_malloc(h, n, p) ==
    IF n > Max(Classes) THEN block_malloc(h, n)
    ELSE slab_alloc(h, SlabClass(n), p)

NewPages == IF PageAddrs \subseteq DOMAIN slabs THEN {0}
            ELSE PageAddrs \ DOMAIN slabs

(* ptr_in_slab, for a block: the unit at the start of the pointer's page.  *)
PageBase(a) == a - (a % PAGE_SIZE)
TakenForSlab(h, a) == h.mem[PageBase(a)].data \in LooksLikeSlab

(* heap_free.  A block that is taken for a slot: its first bytes and those *)
(* at the start of the page are overwritten by links, and it stays used.   *)
heap_free(h, ptr) ==
    IF ~IsBlock(ptr) THEN slab_free(h, ptr)
    ELSE IF TakenForSlab(h, ptr[2])
         THEN [h EXCEPT !.mem[ptr[2]] = Data(Link),
                        !.mem[PageBase(ptr[2])] = Data(Link)]
    ELSE block_free(h, ptr[2] - 1)

(* The size heap_realloc believes a block has.                             *)
Size(h, ptr) ==
    IF ~IsBlock(ptr) THEN h.slabs[ptr[1]].class
    ELSE IF TakenForSlab(h, ptr[2]) THEN Min(Classes)
    ELSE h.mem[ptr[2] - 1].size

(* What a client writes and reads: len units from ptr on.                  *)
Written(h, ptr, len, v) ==
    IF IsBlock(ptr)
    THEN [h EXCEPT !.mem = [a \in Units |->
            IF a \in ptr[2] .. ptr[2] + len - 1 THEN Data(v) ELSE @[a]]]
    ELSE [h EXCEPT !.slabs[ptr[1]].slot[ptr[2]].data = v]

Holds(h, r) ==
    IF IsBlock(r.ptr)
    THEN \A a \in r.ptr[2] .. r.ptr[2] + r.len - 1 : h.mem[a] = Data(r.val)
    ELSE h.slabs[r.ptr[1]].slot[r.ptr[2]].data = r.val

Malloc(n, v) ==
    \E p \in NewPages :
      LET r == heap_malloc(Heap, n, p) IN
        /\ r.ptr # Null
        /\ Become(Written(r.heap, r.ptr, n, v))
        /\ live' = live \cup {[ptr |-> r.ptr, len |-> n, val |-> v]}

Free(r) ==
    /\ Become(heap_free(Heap, r.ptr))
    /\ live' = live \ {r}

(* Mutant: the contents are not copied.                                    *)
Moved_NotCopied(h, r, q) == heap_free(h, r.ptr)

(* The copy of heap_realloc: contents, then the old block goes.            *)
Moved(h, r, q) ==
    heap_free(Written(h, q, Min({r.len, Size(h, r.ptr)}), r.val), r.ptr)

(* heap_realloc, when the request does not fit the old block (otherwise    *)
(* it returns the old pointer).  Clients write no more after it.           *)
Realloc(r, n) ==
    \E p \in NewPages :
      LET q == heap_malloc(Heap, n, p) IN
        /\ n > Size(Heap, r.ptr)
        /\ q.ptr # Null
        /\ Become(Moved(q.heap, r, q.ptr))
        /\ live' = (live \ {r}) \cup {[r EXCEPT !.ptr = q.ptr]}

HeapNext ==
    \/ \E n \in Requests, v \in Values : Malloc(n, v)
    \/ \E r \in live : Free(r) \/ \E n \in Requests : Realloc(r, n)

HeapSpec == HeapInit /\ [][HeapNext]_heapVars

-----------------------------------------------------------------------------
(* What a client wrote is still there, whatever others allocate, free or   *)
(* move: no unit is given to two clients, no header lies over data.        *)
ContentsKept == \A r \in live : Holds(Heap, r)

(* The blocks tile the heap: the sizes lead from header to header to the   *)
(* end, the used ones are exactly those that clients hold, and no two free *)
(* ones lie side by side.                                                  *)
BlocksTile ==
    /\ \A a \in Blocks(mem) : mem[a].data = "header"
    /\ LET last == Max(Blocks(mem)) IN last + 1 + mem[last].size = HEAP_SIZE
    /\ {a + 1 : a \in {b \in Blocks(mem) : ~mem[b].free}}
         = {r.ptr[2] : r \in {s \in live : IsBlock(s.ptr)}}
    /\ \A a \in Blocks(mem) :
         LET b == a + 1 + mem[a].size IN
           b < HEAP_SIZE => ~(mem[a].free /\ mem[b].free)

(* The slots of page p that its free list leads to.                        *)
FreeSlots(p) ==
    LET s == slabs[p]
        at[k \in 0 .. NumSlots(s.class)] ==
          IF k = 0 THEN s.free_head
          ELSE IF at[k - 1] \in SlotsOf(s.class) THEN s.slot[at[k - 1]].nxt
          ELSE NIL
    IN  {at[k] : k \in DOMAIN at} \ {NIL}

(* A slot is on the free list of its page or a client's, and never both;   *)
(* free_count tells how many are free.                                     *)
SlotsAccounted ==
    \A p \in DOMAIN slabs :
        LET held == {i \in SlotsOf(slabs[p].class) :
                        \E r \in live : r.ptr = SlabPtr(p, i)}
        IN  /\ FreeSlots(p) = SlotsOf(slabs[p].class) \ held
            /\ slabs[p].free_count = Cardinality(FreeSlots(p))

(* Every slab page is found from the cache of its class, so its free slots *)
(* are used again ("64-bit physical memory, no 4 GB cap", pmm.c:2).        *)
ChainComplete ==
    \A p \in DOMAIN slabs :
        LET chain == Chain(Heap, slabs[p].class)
        IN  \E k \in DOMAIN chain : chain[k] = p

(* All that the allocator's structures promise: its types, blocks that     *)
(* tile, slots that are free or used, chains that reach every page         *)
(* (block_malloc, block_free, slab_alloc, slab_free).                      *)
HeapSound == HeapTypeOK /\ BlocksTile /\ SlotsAccounted /\ ChainComplete
=============================================================================
