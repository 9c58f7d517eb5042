-------------------------------- MODULE Vmm ---------------------------------
(***************************************************************************)
(* The address space of the program that runs: vmm.c, and the calls of     *)
(* syscall.c that change it.                                               *)
(*                                                                         *)
(* A page directory has one entry per region: none, a huge page, or a      *)
(* page table.  The low regions start as huge pages, the kernel's identity *)
(* map, which programs may not touch; the first page mapped there splits   *)
(* the region into a table of identity entries.  The upper levels are left *)
(* out.  Frames come from the promise of Pmm: any that is free; when none  *)
(* is, the kernel kills the program that asked, see OutOfMemory.           *)
(***************************************************************************)
EXTENDS Integers, FiniteSets, Sequences, FiniteSetsExt

CONSTANTS
    ENTRIES,     \* pages of a region (512)
    LowRegions,  \* regions of the identity map (the first gigabyte)
    FarRegions,  \* regions beyond it
    Frames,      \* frames of physical memory, those of the identity map first
    Kernel,      \* frames the kernel uses for itself
    Hints,       \* bound: where the search for a free frame may start
    MaxLen,      \* bound: pages of one request
    MaxRest,     \* bound: frames the rest of a call takes after a kill
    VMA_MAX,     \* areas of a program (32)
    Careful      \* TRUE: programs fork, protect and give back only pages
                 \* they were given, and none beside the identity map

VmmAssumption ==
    /\ ENTRIES \in Nat \ {0} /\ LowRegions \in Nat /\ FarRegions \in Nat
    /\ IsFiniteSet(Frames) /\ Frames = 0 .. Cardinality(Frames) - 1
    /\ ENTRIES * LowRegions <= Cardinality(Frames) /\ Kernel \subseteq Frames
    /\ VMA_MAX \in Nat \ {0} /\ Careful \in BOOLEAN /\ Hints \subseteq Frames
    /\ MaxLen \in Nat /\ MaxRest \in Nat

VARIABLES
    mm,         \* the space and physical memory, see Memory
    vma,        \* the area table of the program
    brk,        \* its break, in pages: requests are whole pages
    mmap_bump,  \* next address of mmap, kept from program to program
    child,      \* what fork made: its directory, tables and their contents
    running     \* FALSE: the program was killed for want of a frame

vmmVars == <<mm, vma, brk, mmap_bump, child, running>>

-----------------------------------------------------------------------------
Regions == 0 .. LowRegions + FarRegions - 1
Low == 0 .. LowRegions * ENTRIES - 1
Pages == 0 .. (LowRegions + FarRegions) * ENTRIES - 1
Region(v) == v \div ENTRIES
PagesOf(r) == r * ENTRIES .. r * ENTRIES + ENTRIES - 1

None == -1
Huge == -2
Pte == [frame: Frames \cup {None}, user: BOOLEAN, write: BOOLEAN]
NotPresent == [frame |-> None, user |-> FALSE, write |-> FALSE]

(* dir and pte: the space; avail: how often a frame is on a free list; ref:*)
(* its count; mem: its contents, 0 when it is zeroed; wrote: history, what *)
(* the program has stored in a page since it was mapped.                   *)
Memory == [dir: [Regions -> Frames \cup {None, Huge}], pte: [Pages -> Pte],
           avail: [Frames -> 0 .. 2], ref: [Frames -> 0 .. 1],
           mem: [Frames -> 0 .. 1], wrote: [Pages -> 0 .. 1]]

(* What fork makes of it for the child.                                    *)
Children == [dir: [Regions -> Frames \cup {None, Huge}], pte: [Pages -> Pte],
             wrote: [Pages -> {None, 0, 1}]]
VMA == [start: Nat, end: Nat, write: BOOLEAN]
NoArea == [start |-> 0, end |-> 0, write |-> FALSE]
NoChild == [dir |-> [r \in Regions |-> None], pte |-> [v \in Pages |-> NotPresent],
            wrote |-> [v \in Pages |-> None]]

VmmTypeOK ==
    /\ mm \in Memory /\ child \in Children
    /\ vma \in [1 .. VMA_MAX -> VMA]
    /\ brk \in 0 .. LowRegions * ENTRIES
    /\ mmap_bump \in Pages \cup {Cardinality(Pages)}
    /\ running \in BOOLEAN

(* vmm_create_space and vmm_map_kernel.                                    *)
EmptyDir == [r \in Regions |-> IF r < LowRegions THEN Huge ELSE None]

VmmInit ==
    /\ mm = [dir |-> EmptyDir, pte |-> [v \in Pages |-> NotPresent],
             avail |-> [f \in Frames |-> IF f \in Kernel THEN 0 ELSE 1],
             ref |-> [f \in Frames |-> IF f \in Kernel THEN 1 ELSE 0],
             mem |-> [f \in Frames |-> 0], wrote |-> [v \in Pages |-> 0]]
    /\ vma = [i \in 1 .. VMA_MAX |-> NoArea]
    /\ brk = 0
    /\ mmap_bump = LowRegions * ENTRIES
    /\ child = NoChild
    /\ running = TRUE

-----------------------------------------------------------------------------
(* Frames.  An action says where it starts to look (hint); pmm_alloc then  *)
(* takes the next free one, round the end.                                 *)
FreeFrames(m) == {f \in Frames : m.avail[f] > 0}
Distance(f, hint) == (f + Cardinality(Frames) - hint) % Cardinality(Frames)
Pick(m, hint) ==
    CHOOSE f \in FreeFrames(m) :
        \A g \in FreeFrames(m) : Distance(f, hint) <= Distance(g, hint)
(* Mutant: a frame is handed out as its last user left it.                 *)
TakenFrame_NotZeroed(m, f) == [m EXCEPT !.avail[f] = @ - 1, !.ref[f] = 1]
TakenFrame(m, f) == [m EXCEPT !.avail[f] = @ - 1, !.ref[f] = 1, !.mem[f] = 0]

pmm_free(m, f) == [m EXCEPT !.avail[f] = IF @ < 2 THEN @ + 1 ELSE @]
pmm_unref(m, f) ==
    IF m.ref[f] = 0 THEN m ELSE pmm_free([m EXCEPT !.ref[f] = 0], f)

Present(m, v) == m.dir[Region(v)] \in Frames /\ m.pte[v].frame # None

(* pte_get with alloc: the table of the region is there afterwards, unless *)
(* no frame is left.                                                       *)
WithTable(m, r, hint) ==
    IF m.dir[r] \in Frames \/ FreeFrames(m) = {} THEN m
    ELSE LET f == Pick(m, hint)
             entry(v) == IF m.dir[r] = None THEN NotPresent
                         ELSE [frame |-> v, user |-> FALSE, write |-> TRUE]
         IN  [TakenFrame(m, f) EXCEPT
                !.dir[r] = f,
                !.pte = [v \in Pages |-> IF Region(v) = r THEN entry(v) ELSE @[v]]]

(* vmm_map: without a frame for the table nothing is mapped.               *)
vmm_map(m, v, frame, write, hint) ==
    LET t == WithTable(m, Region(v), hint)
    IN  IF t.dir[Region(v)] \notin Frames THEN t
        ELSE [t EXCEPT !.pte[v] = [frame |-> frame, user |-> TRUE,
                                   write |-> write]]

(* A fresh frame, zeroed, mapped for the program.                          *)
MapFresh(m, v, write, hint) ==
    LET f == Pick(m, hint)
    IN  vmm_map(TakenFrame(m, f), v, f, write, hint)

(* Mutant: the frame is given back, the entry stays.                       *)
Unmapped_EntryStays(m, v) ==
    IF Present(m, v)
    THEN [pmm_unref(m, m.pte[v].frame) EXCEPT !.wrote[v] = 0] ELSE m
(* vmm_unmap, after pmm_unref of what vmm_virt_to_phys finds.              *)
Unmapped(m, v) ==
    IF Present(m, v)
    THEN [pmm_unref(m, m.pte[v].frame) EXCEPT !.pte[v] = NotPresent,
                                              !.wrote[v] = 0]
    ELSE m

(* Steps, a sequence of functions, one after the other.                    *)
InTurn(steps, x) ==
    LET u[k \in 0 .. Len(steps)] == IF k = 0 THEN x ELSE steps[k][u[k - 1]]
    IN  u[Len(steps)]
(* The pages of a sequence are unmapped.                                   *)
AllUnmapped(pages) ==
    InTurn([k \in DOMAIN pages |-> [m \in Memory |-> Unmapped(m, pages[k])]], mm)

(* vmm_destroy: at an exit, a fault of another kind, or a kill.  User pages*)
(* lose a reference, tables are freed and keep their count.                *)
Destroyed(m) ==
    LET Dropped(x, v) == IF Present(m, v) /\ m.pte[v].user
                         THEN pmm_unref(x, m.pte[v].frame) ELSE x
        Freed(x, r) == IF m.dir[r] \in Frames THEN pmm_free(x, m.dir[r]) ELSE x
    IN  InTurn([i \in 1 .. Cardinality(Regions) |-> [x \in Memory |-> Freed(x, i - 1)]],
               InTurn([i \in 1 .. Cardinality(Pages) |->
                         [x \in Memory |-> Dropped(x, i - 1)]], m))

(* pmm_alloc finds no frame and runs oom_kill, which counts the pages of a *)
(* space from its second 512 GB on only and finds none: kernel_panic marks *)
(* the program that runs dead, destroys its space, which stays loaded with *)
(* its entries, and comes back, and the allocation is tried once more.     *)
(* Whatever of the call is still done then, in a space nobody owns, takes  *)
(* some of the frames that are free now.  No process is left to kill if it *)
(* needs more: the machine halts.                                          *)
TakenAll(m, fs) ==
    [m EXCEPT !.avail = [f \in Frames |-> IF f \in fs THEN @[f] - 1 ELSE @[f]],
              !.ref = [f \in Frames |-> IF f \in fs THEN 1 ELSE @[f]],
              !.mem = [f \in Frames |-> IF f \in fs THEN 0 ELSE @[f]]]
Killed(m) ==
    LET d == Destroyed(m)
    IN  {TakenAll(d, fs) : fs \in {s \in SUBSET FreeFrames(d) : Cardinality(s) <= MaxRest}}
(* The end of a call that came as far as m, with all it needed or without. *)
OutOfMemory(m, enough) ==
    /\ running' = enough
    /\ IF enough THEN mm' = m ELSE mm' \in Killed(m)

(* What a careful program gives back or protects: not an identity entry.   *)
Own(v) == ~Careful \/ ~Present(mm, v) \/ mm.pte[v].user

-----------------------------------------------------------------------------
(* Areas.                                                                  *)
Live(a) == a.start < a.end
Overlaps(a, first, last) == Live(a) /\ a.end > first /\ a.start < last
Slots == {i \in 1 .. VMA_MAX : vma[i].start = vma[i].end}

(* vmm_vma_add; with a full table the area is forgotten.                   *)
vmm_vma_add(first, last, write) ==
    IF Slots = {} THEN vma
    ELSE [vma EXCEPT ![Min(Slots)] =
            [start |-> first, end |-> last, write |-> write]]
vmm_vma_remove(first, last) ==
    [i \in 1 .. VMA_MAX |->
        IF Overlaps(vma[i], first, last) THEN NoArea ELSE vma[i]]
vmm_find_vma(v) == {i \in 1 .. VMA_MAX : v >= vma[i].start /\ v < vma[i].end}

-----------------------------------------------------------------------------
(* sys_mmap, anonymous: fixed, or at the next address.                     *)
sys_mmap(first, len, write) ==
    LET fixed == first # mmap_bump
    IN  /\ running /\ first + len <= Cardinality(Pages)
        /\ vma' = vmm_vma_add(first, first + len, write)
        /\ mmap_bump' = IF fixed THEN mmap_bump ELSE mmap_bump + len
        /\ UNCHANGED <<mm, brk, child, running>>

(* sys_mprotect: the areas it touches, and the pages that are there.       *)
sys_mprotect(first, len, write) ==
    /\ running /\ first + len <= Cardinality(Pages)
    /\ \A v \in first .. first + len - 1 : Own(v)
    /\ vma' = [i \in 1 .. VMA_MAX |->
                 IF Overlaps(vma[i], first, first + len)
                 THEN [vma[i] EXCEPT !.write = write] ELSE vma[i]]
    /\ mm' = [mm EXCEPT !.pte =
                [v \in Pages |->
                    IF v \in first .. first + len - 1 /\ Present(mm, v)
                    THEN [@[v] EXCEPT !.user = TRUE, !.write = write]
                    ELSE @[v]]]
    /\ UNCHANGED <<brk, mmap_bump, child, running>>

(* sys_munmap.                                                             *)
sys_munmap(first, len) ==
    /\ running /\ first + len <= Cardinality(Pages)
    /\ \A v \in first .. first + len - 1 : Own(v)
    /\ vma' = vmm_vma_remove(first, first + len)
    /\ mm' = AllUnmapped([i \in 1 .. len |-> first + i - 1])
    /\ UNCHANGED <<brk, mmap_bump, child, running>>

(* sys_brk, BRK_BASE being page 0: up, an area and no page.                *)
BrkGrow(new) ==
    /\ running /\ new > brk
    /\ vma' = vmm_vma_add(brk, new, TRUE)
    /\ brk' = new
    /\ UNCHANGED <<mm, mmap_bump, child, running>>

(* Down: the pages from the top, then the areas.                           *)
BrkShrink(new) ==
    /\ running /\ new < brk
    /\ \A v \in new .. brk - 1 : Own(v)
    /\ mm' = AllUnmapped([i \in 1 .. brk - new |-> brk - i])
    /\ vma' = vmm_vma_remove(new, brk)
    /\ brk' = new
    /\ UNCHANGED <<mmap_bump, child, running>>

(* sys_malloc, n pages: every page from the break on gets a frame, unless  *)
(* vmm_virt_to_phys finds one.  Without a frame for a page the call fails; *)
(* one that is missing for a table vmm_map passes over in silence, and the *)
(* break moves.                                                            *)
sys_malloc(n, hint) ==
    LET Backed(m, v) == IF Present(m, v) \/ FreeFrames(m) = {} THEN m
                        ELSE MapFresh(m, v, TRUE, hint)
        m == InTurn([i \in 1 .. n |-> [x \in Memory |-> Backed(x, brk + i - 1)]], mm)
        enough == \A v \in brk .. brk + n - 1 : Present(m, v)
    IN  /\ running /\ brk + n <= LowRegions * ENTRIES
        /\ OutOfMemory(m, enough)
        /\ brk' \in {brk + n} \cup (IF enough THEN {} ELSE {brk})
        /\ UNCHANGED <<vma, mmap_bump, child>>

-----------------------------------------------------------------------------
(* The program uses a page it may use; when it was killed it may still do  *)
(* so for a while, by the entries of its destroyed space.                  *)
Store(v, x) ==
    /\ Present(mm, v) /\ mm.pte[v].user /\ mm.pte[v].write
    /\ mm' = [mm EXCEPT !.mem[mm.pte[v].frame] = x, !.wrote[v] = x]
    /\ UNCHANGED <<vma, brk, mmap_bump, child, running>>

(* vmm_page_fault on a page that is there and must not be written: counts  *)
(* are never above 1, so the page is made writable and never copied.       *)
WriteFault(v) ==
    /\ running /\ Present(mm, v) /\ ~mm.pte[v].write
    /\ mm' = [mm EXCEPT !.pte[v].write = TRUE]
    /\ UNCHANGED <<vma, brk, mmap_bump, child, running>>

(* On a page of an area that is not there.  Of two areas the first counts. *)
DemandFault(v, hint) ==
    LET write == vma[Min(vmm_find_vma(v))].write
        m == IF FreeFrames(mm) = {} THEN mm ELSE MapFresh(mm, v, write, hint)
    IN  /\ running /\ mm.dir[Region(v)] # Huge /\ ~Present(mm, v)
        /\ vmm_find_vma(v) # {}
        /\ OutOfMemory(m, Present(m, v))
        /\ UNCHANGED <<vma, brk, mmap_bump, child>>

(* Mutant: the space of a program that was killed is destroyed again.      *)
NextProgram_KilledTwice ==
    /\ mm' = [Destroyed(mm) EXCEPT
                 !.dir = EmptyDir, !.pte = [v \in Pages |-> NotPresent],
                 !.wrote = [v \in Pages |-> 0]]
    /\ vma' = [i \in 1 .. VMA_MAX |-> NoArea]
    /\ brk' = 0
    /\ running' = TRUE
    /\ UNCHANGED <<mmap_bump, child>>
(* The program ends and the next one starts; mmap_bump goes on.  The space *)
(* of a program that was killed is not destroyed a second time.            *)
NextProgram ==
    /\ mm' = [(IF running THEN Destroyed(mm) ELSE mm) EXCEPT
                 !.dir = EmptyDir, !.pte = [v \in Pages |-> NotPresent],
                 !.wrote = [v \in Pages |-> 0]]
    /\ vma' = [i \in 1 .. VMA_MAX |-> NoArea]
    /\ brk' = 0
    /\ running' = TRUE
    /\ UNCHANGED <<mmap_bump, child>>

-----------------------------------------------------------------------------
(* vmm_cow_fork: a frame for each user page, filled from the parent's.  In *)
(* a region the child has as a huge page the entries go to the frame that  *)
(* the huge page starts with, which is taken for a page table.  The copy   *)
(* goes on until a frame is missing; the parent is killed then, and what   *)
(* is still copied of its destroyed space is not followed.                 *)
Copies == [m: Memory, c: Children, enough: BOOLEAN]
CopyPage(acc, v, hint) ==
    LET f == Pick(acc.m, hint)
        table == acc.c.dir[Region(v)]
        there == acc.m.pte[v]
        Hit(m) == [m EXCEPT !.mem[Region(v) * ENTRIES] = 1]
    IN  IF ~acc.enough \/ ~Present(acc.m, v) \/ table = None THEN acc
        ELSE IF table = Huge /\ ~there.user THEN [acc EXCEPT !.m = Hit(@)]
        ELSE IF FreeFrames(acc.m) = {} THEN [acc EXCEPT !.enough = FALSE]
        ELSE IF table = Huge THEN [acc EXCEPT !.m = Hit(TakenFrame(@, f))]
        ELSE [acc EXCEPT !.m = [TakenFrame(@, f) EXCEPT
                                  !.mem[f] = acc.m.mem[there.frame]],
                         !.c = [@ EXCEPT !.pte[v] = [there EXCEPT !.frame = f],
                                         !.wrote[v] = acc.m.wrote[v]]]
CopyRegion(acc, r, hint) ==
    LET f == Pick(acc.m, hint)
        tabled == IF acc.c.dir[r] # None \/ ~acc.enough THEN acc
                  ELSE IF FreeFrames(acc.m) = {} THEN [acc EXCEPT !.enough = FALSE]
                  ELSE [acc EXCEPT !.m = TakenFrame(@, f), !.c = [@ EXCEPT !.dir[r] = f]]
    IN  IF acc.m.dir[r] \notin Frames THEN acc
        ELSE InTurn([i \in 1 .. ENTRIES |->
                       [a \in Copies |-> CopyPage(a, r * ENTRIES + i - 1, hint)]],
                    tabled)
Fork(hint) ==
    LET made == InTurn([i \in 1 .. Cardinality(Regions) |->
                          [a \in Copies |-> CopyRegion(a, i - 1, hint)]],
                       [m |-> mm, c |-> [NoChild EXCEPT !.dir = EmptyDir],
                        enough |-> TRUE])
    IN  /\ running /\ child = NoChild
        /\ Careful => \A r \in 0 .. LowRegions - 1 : mm.dir[r] = Huge
        /\ OutOfMemory(made.m, made.enough)
        /\ child' = made.c
        /\ UNCHANGED <<vma, brk, mmap_bump>>

-----------------------------------------------------------------------------
VmmNext ==
    \/ \E v \in Pages, len \in 1 .. MaxLen, w \in BOOLEAN :
         \/ (v >= LowRegions * ENTRIES \/ v = mmap_bump) /\ sys_mmap(v, len, w)
         \/ sys_mprotect(v, len, w)
    \/ \E v \in Pages, len \in 1 .. MaxLen : sys_munmap(v, len)
    \/ \E b \in 0 .. LowRegions * ENTRIES : BrkGrow(b) \/ BrkShrink(b)
    \/ \E n \in 1 .. MaxLen, hint \in Hints : sys_malloc(n, hint)
    \/ \E v \in Pages : Store(v, 1)
    \/ \E v \in Pages : WriteFault(v)
    \/ \E v \in Pages, hint \in Hints : DemandFault(v, hint)
    \/ NextProgram
    \/ \E hint \in Hints : Fork(hint)

VmmSpec == VmmInit /\ [][VmmNext]_vmmVars

-----------------------------------------------------------------------------
Mapped(m) == {v \in Pages : Present(m, v) /\ m.pte[v].user}
CopiedPages == {v \in Pages : child.pte[v].frame # None}

(* What a frame can be in use for, and the frame it then is.               *)
Uses == ({"page", "copy"} \X Pages) \cup ({"table", "childtable"} \X Regions)
            \cup ({"kernel"} \X Kernel)
FrameOf(m, c) ==
    LET table(d) == IF d \in Frames THEN d ELSE None
    IN  [u \in Uses |->
            CASE u[1] = "page" -> IF u[2] \in Mapped(m) THEN m.pte[u[2]].frame
                                  ELSE None
              [] u[1] = "copy" -> c.pte[u[2]].frame
              [] u[1] = "table" -> table(m.dir[u[2]])
              [] u[1] = "childtable" -> table(c.dir[u[2]])
              [] u[1] = "kernel" -> u[2]]

(* A frame is a page of the program, one of its page tables, a page or a   *)
(* table of the child, or the kernel's: one of these, or free once, through*)
(* faults, unmapping, exits and failures; a program that was killed has    *)
(* none (vmm_page_fault, sys_munmap, vmm_destroy, oom_kill).               *)
FramesAccounted ==
    LET held == {u \in Uses : running \/ u[1] \notin {"page", "table"}}
    IN  \A f \in Frames :
            Cardinality({u \in held : FrameOf(mm, child)[u] = f}) + mm.avail[f] <= 1

(* A page of a program holds what the program stored in it since it was    *)
(* mapped, and 0 before, until the program is killed; the child holds what *)
(* its parent had stored, whatever becomes of the parent (vmm_page_fault,  *)
(* vmm_cow_fork, oom_kill).                                                *)
PagesKeep ==
    /\ running => \A v \in Mapped(mm) : mm.mem[mm.pte[v].frame] = mm.wrote[v]
    /\ \A v \in CopiedPages : mm.mem[child.pte[v].frame] = child.wrote[v]
=============================================================================
