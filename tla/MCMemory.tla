------------------------------ MODULE MCMemory ------------------------------
(* The two allocators of the kernel, pages and heap, and the address space *)
(* of a program, in four settings.  They share no state, so a behaviour is *)
(* one of one setting: `part` says which, the others keep their initial    *)
(* state.  The heap and the space are those this module extends.           *)
EXTENDS Heap, Vmm

VARIABLES part, heads, node, bfree, refcnt, used

buddy == <<heads, node, bfree, refcnt, used>>

(* Blocks of one and two pages, freed in any order.                        *)
Pair == INSTANCE Pmm WITH
    MAX_ORDER <- 1, reserved <- 1, total_pages <- 6, Lifo <- FALSE
(* Blocks of up to eight pages, the latest freed first.                    *)
Stack == INSTANCE Pmm WITH
    MAX_ORDER <- 3, reserved <- 1, total_pages <- 8, Lifo <- TRUE

(* The space: a program and its successor, with one region below the end   *)
(* of the identity map and one beyond it; it asks for what it was given.   *)

ASSUME /\ HeapAssumption /\ VmmAssumption
       /\ Pair!PmmAssumption /\ Stack!PmmAssumption

MemoryInit ==
    /\ part \in {"pair", "stack", "heap", "space"}
    /\ IF part = "stack" THEN Stack!Init ELSE Pair!Init
    /\ HeapInit
    /\ VmmInit

MemoryNext ==
    /\ UNCHANGED part
    /\ \/ /\ \/ part = "pair" /\ Pair!Next
             \/ part = "stack" /\ Stack!Next
          /\ UNCHANGED <<heapVars, vmmVars>>
       \/ part = "heap" /\ HeapNext /\ UNCHANGED <<buddy, vmmVars>>
       \/ part = "space" /\ VmmNext /\ UNCHANGED <<buddy, heapVars>>

MemorySpec ==
    MemoryInit /\ [][MemoryNext]_<<part, buddy, heapVars, vmmVars>>

-----------------------------------------------------------------------------
(* A page has one user or a set bit, and the lists of the buddy allocator  *)
(* hold exactly the free ones, merged as far as they can be                *)
(* (pmm_alloc_order, pmm_free_order); the tables of the space have their   *)
(* types.                                                                  *)
PagesAccounted ==
    /\ VmmTypeOK
    /\ IF part = "stack" THEN Stack!TypeOK ELSE Pair!TypeOK
    /\ IF part = "stack" THEN Stack!PagesAccounted ELSE Pair!PagesAccounted
    /\ IF part = "stack" THEN Stack!ListsMatchBitmap ELSE Pair!ListsMatchBitmap
=============================================================================
