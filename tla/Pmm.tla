-------------------------------- MODULE Pmm ---------------------------------
(***************************************************************************)
(* Physical pages (pmm.c): a buddy allocator.  A free block of 2^o pages   *)
(* is an element of the doubly linked list of order o, whose links lie in  *)
(* the first free page itself; a bitmap has one bit per free page, and a   *)
(* byte per page counts references.  The kernel calls it one call at a     *)
(* time: page faults, system calls and the shell with interrupts masked or *)
(* no one to interrupt them that allocates.                                *)
(***************************************************************************)
EXTENDS Naturals, FiniteSets, SequencesExt

CONSTANTS
    MAX_ORDER,     \* the largest block is 2^MAX_ORDER pages (10 in pmm.c)
    reserved,      \* pages below this index hold the allocator's own tables
    total_pages,   \* pages up to the end of memory
    Lifo           \* TRUE: clients free in the reverse order of allocation

PmmAssumption ==
    /\ MAX_ORDER \in Nat
    /\ reserved \in Nat
    /\ total_pages \in Nat \ {0}
    /\ Lifo \in BOOLEAN

VARIABLES
    heads,   \* order -> first block of its list
    node,    \* page -> links stored in the page
    bfree,   \* the pages whose bit is set
    refcnt,  \* page -> PMM_REFCNT
    used     \* history: the blocks clients hold, in order of allocation

vars == <<heads, node, bfree, refcnt, used>>

-----------------------------------------------------------------------------
Pages == 0 .. total_pages - 1
Orders == 0 .. MAX_ORDER
NIL == total_pages                        \* BUDDY_NIL
BuddyNode == [prev: Pages \cup {NIL}, next: Pages \cup {NIL}]
BlockPages(idx, o) == idx .. idx + 2^o - 1

TypeOK ==
    /\ heads \in [Orders -> Pages \cup {NIL}]
    /\ node \in [Pages -> BuddyNode]
    /\ bfree \subseteq Pages
    /\ refcnt \in [Pages -> 0 .. 255]
    /\ used \in Seq([idx: Pages, order: Orders])

(* The lists and the bitmap as one value, so that steps can be composed.   *)
State == [heads |-> heads, node |-> node, bfree |-> bfree]
Become(m) ==
    /\ heads' = m.heads
    /\ node' = m.node
    /\ bfree' = m.bfree

list_push(m, o, idx) ==
    LET first == m.heads[o]
        linked == [m.node EXCEPT ![idx] = [prev |-> NIL, next |-> first]]
    IN  [m EXCEPT !.heads[o] = idx,
                  !.node = IF first = NIL THEN linked
                           ELSE [linked EXCEPT ![first].prev = idx]]

(* A block that is the first of some list, whichever, is taken for the     *)
(* first of list o.                                                        *)
list_remove(m, o, idx) ==
    LET n == m.node[idx]
        skipped == IF n.prev = NIL THEN [m EXCEPT !.heads[o] = n.next]
                   ELSE [m EXCEPT !.node[n.prev].next = n.next]
    IN  IF n.next = NIL THEN skipped
        ELSE [skipped EXCEPT !.node[n.next].prev = n.prev]

(* buddy_add_range: the largest aligned block that fits, again and again.  *)
FirstOrder(idx, last) ==
    CHOOSE o \in Orders :
        /\ o = 0 \/ (idx % 2^o = 0 /\ idx + 2^o <= last)
        /\ \A p \in o + 1 .. MAX_ORDER : idx % 2^p # 0 \/ idx + 2^p > last
buddy_add_range(m, first, last) ==
    LET add[idx \in first .. last] ==     \* the range from idx on, last first
            IF idx = last THEN <<>>
            ELSE LET o == FirstOrder(idx, last)
                 IN  <<<<idx, o>>>> \o add[idx + 2^o]
    IN  FoldLeft(LAMBDA acc, b :
                   [list_push(acc, b[2], b[1]) EXCEPT
                        !.bfree = @ \cup BlockPages(b[1], b[2])],
                 m, add[first])

(* pmm_init, for a memory map with one usable range.                       *)
Init ==
    LET empty == [heads |-> [o \in Orders |-> NIL],
                  node |-> [p \in Pages |-> [prev |-> 0, next |-> 0]],
                  bfree |-> {}]
        m == buddy_add_range(empty, reserved, total_pages)
    IN  /\ heads = m.heads
        /\ node = m.node
        /\ bfree = m.bfree
        /\ refcnt = [p \in Pages |-> 0]
        /\ used = <<>>

-----------------------------------------------------------------------------
(* The lists that pmm_alloc_order looks at, smallest order first.          *)
Sources(order) == {o \in order .. MAX_ORDER : heads[o] # NIL}

(* The upper halves of a block of order found that is cut down to order.   *)
SplitTo(m, idx, found, order) ==
    FoldLeft(LAMBDA acc, k :
               [list_push(acc, found - k, idx + 2^(found - k)) EXCEPT
                    !.bfree = @ \cup {idx + 2^(found - k)}],
             m, [k \in 1 .. found - order |-> k])

(* pmm_alloc_order; the page is zeroed, links and all.  With no list to    *)
(* take from, oom_kill frees nothing and the call fails: no step.          *)
pmm_alloc_order(order) ==
    /\ Sources(order) # {}
    /\ LET found == Min(Sources(order))
           idx == heads[found]
           m == SplitTo(list_remove(State, found, idx), idx, found, order)
           zeroed == [p \in Pages |->
                        IF p \in BlockPages(idx, order)
                        THEN [prev |-> 0, next |-> 0] ELSE m.node[p]]
       IN  /\ Become([m EXCEPT !.node = zeroed,
                               !.bfree = @ \ BlockPages(idx, order)])
           /\ refcnt' = [refcnt EXCEPT ![idx] = 1]
           /\ used' = Append(used, [idx |-> idx, order |-> order])

Buddy(idx, o) == IF (idx \div 2^o) % 2 = 0 THEN idx + 2^o ELSE idx - 2^o

(* Mutant: the bit of the buddy is not looked at.                          *)
Mergeable_AnyBuddy(m, idx, o) ==
    /\ o < MAX_ORDER
    /\ Buddy(idx, o) < total_pages
    /\ Buddy(idx, o) >= reserved

(* A free buddy is merged only by the test of its first page's bit.        *)
Mergeable(m, idx, o) ==
    /\ o < MAX_ORDER
    /\ Buddy(idx, o) < total_pages
    /\ Buddy(idx, o) \in m.bfree

(* pmm_free_order: merge upwards while the buddy's bit is set; the steps   *)
(* below are <<lists, first page, order>> after k merges, or as many as    *)
(* there are.                                                              *)
Merged(idx0, order) ==
    LET step[k \in 0 .. MAX_ORDER] ==
          IF k = 0 THEN <<State, idx0, order>>
          ELSE LET m == step[k - 1][1]
                   idx == step[k - 1][2]
                   o == step[k - 1][3]
                   bud == Buddy(idx, o)
               IN  IF ~Mergeable(m, idx, o) THEN step[k - 1]
                   ELSE <<[list_remove(m, o, bud) EXCEPT
                             !.bfree = @ \ BlockPages(bud, o)],
                          IF bud < idx THEN bud ELSE idx,
                          o + 1>>
    IN  step[MAX_ORDER]

pmm_free_order(idx, order) ==
    LET r == Merged(idx, order)
    IN  Become([list_push(r[1], r[3], r[2]) EXCEPT
                  !.bfree = @ \cup BlockPages(r[2], r[3])])

(* A client gives a block back: by pmm_free_order, or, one page, by        *)
(* pmm_unref, whose count falls from 1 to 0 since nothing calls pmm_ref.   *)
Free ==
    \E i \in 1 .. Len(used) :
        /\ Lifo => i = Len(used)
        /\ pmm_free_order(used[i].idx, used[i].order)
        /\ \/ UNCHANGED refcnt
           \/ /\ used[i].order = 0
              /\ refcnt[used[i].idx] = 1
              /\ refcnt' = [refcnt EXCEPT ![used[i].idx] = 0]
        /\ used' = RemoveAt(used, i)

Next == Free \/ \E order \in Orders : pmm_alloc_order(order)

Spec == Init /\ [][Next]_vars

-----------------------------------------------------------------------------
InUse == UNION {BlockPages(used[i].idx, used[i].order) : i \in DOMAIN used}

(* pmm_free_pages counts bits: they are the pages nobody uses.             *)
FreeCountReal == bfree = (reserved .. total_pages - 1) \ InUse

(* A page belongs to one client, or its bit is set; those below reserved   *)
(* belong to nobody.                                                       *)
PagesAccounted ==
    /\ FreeCountReal
    /\ InUse \subseteq reserved .. total_pages - 1
    /\ \A i, j \in DOMAIN used : i # j =>
         BlockPages(used[i].idx, used[i].order)
           \cap BlockPages(used[j].idx, used[j].order) = {}

(* The list of order o from its head on, cut after total_pages elements.   *)
Walk(o) ==
    LET at[k \in 0 .. total_pages] ==
          IF k = 0 THEN heads[o]
          ELSE IF at[k - 1] = NIL THEN NIL ELSE node[at[k - 1]].next
    IN  [k \in {j \in 0 .. total_pages : at[j] # NIL} |-> at[k]]

(* Bitmap and lists agree: every free page lies in exactly one block of    *)
(* one list, the lists end, their back links are right, and no two free    *)
(* buddies are left unmerged.                                              *)
ListsMatchBitmap ==
    LET blocks == UNION {{<<Walk(o)[k], o>> : k \in DOMAIN Walk(o)} :
                            o \in Orders}
    IN  /\ \A o \in Orders :
             /\ total_pages \notin DOMAIN Walk(o)
             /\ \A k \in DOMAIN Walk(o) :
                  node[Walk(o)[k]].prev = IF k = 0 THEN NIL ELSE Walk(o)[k - 1]
        /\ UNION {BlockPages(b[1], b[2]) : b \in blocks} = bfree
        /\ \A b, c \in blocks : b # c =>
             /\ BlockPages(b[1], b[2]) \cap BlockPages(c[1], c[2]) = {}
             /\ b[2] = c[2] /\ b[2] < MAX_ORDER => Buddy(b[1], b[2]) # c[1]
=============================================================================
