-------------------------------- MODULE Jfs ---------------------------------
(***************************************************************************)
(* The journalled file system (jfs.c): inodes and block bitmap in memory,  *)
(* data blocks, journal and super block on disk.  A call runs to its end   *)
(* with interrupts masked; a power loss can fall between any two of its    *)
(* sector writes, and nothing but the super block is read again at start.  *)
(*                                                                         *)
(* A block is SLOTS units; a unit is a directory entry or a piece of a     *)
(* file.  The size of a directory, which only grows, is left out.          *)
(***************************************************************************)
EXTENDS Integers, Sequences, FiniteSetsExt

CONSTANTS
    JFS_MAX_INODES, \* inodes; number 0 is the root directory
    JFS_MAX_BLOCKS, \* blocks the bitmap covers
    FREE_BLOCKS,    \* free_blocks of a new super block (65000)
    PTRS,           \* block pointers of an inode (12)
    SLOTS,          \* directory entries in a block (7)
    JOURNAL,        \* entries of the journal (16)
    Names, Values,  \* file names, pieces of contents
    Ranges,         \* <<offset, count>> of the writes that are made
    MaxBoots        \* bound: restarts

JfsAssumption ==
    /\ {JFS_MAX_INODES, JFS_MAX_BLOCKS, PTRS, SLOTS, JOURNAL} \subseteq Nat \ {0}
    /\ FREE_BLOCKS \in Nat
    /\ Ranges \subseteq Nat \X (Nat \ {0})
    /\ MaxBoots \in Nat

VARIABLES
    fs,       \* jfs.c's state, memory and disk
    boots,    \* restarts so far
    written   \* history: inode -> position -> what was last written there

jfsVars == <<fs, boots, written>>

-----------------------------------------------------------------------------
Inodes == 0 .. JFS_MAX_INODES - 1
Root == 0
Blocks == 0 .. JFS_MAX_BLOCKS - 1
Positions == 0 .. PTRS * SLOTS - 1
NoBlock == JFS_MAX_BLOCKS
NoInode == JFS_MAX_INODES

(* A unit with ino = 0 is a free directory slot.                           *)
Unit == [ino: Inodes, what: Names \cup Values \cup {"zero"}]
ZeroUnit == [ino |-> 0, what |-> "zero"]
DirEntry(n, i) == [ino |-> i, what |-> n]
Piece(v) == [ino |-> 0, what |-> v]
ZeroBlock == [s \in 0 .. SLOTS - 1 |-> ZeroUnit]

JournalEntry == [op: {"WRITE", "UNLINK", "MKDIR", "CREATE", "none"}, ino: Inodes]
NoEntry == [op |-> "none", ino |-> 0]
SuperSector == [op |-> "super", ino |-> 0]
Super == [free_blocks: Int, free_inodes: Int]

FsState ==
    [super: Super, super_disk: Super,
     type: [Inodes -> {"FREE", "FILE", "DIR"}],
     ptrs: [Inodes -> [0 .. PTRS - 1 -> Blocks]],
     size: [Inodes -> Nat],
     used: SUBSET Blocks,
     disk: [Blocks -> [0 .. SLOTS - 1 -> Unit]],
     head: 0 .. JOURNAL - 1, tail: 0 .. JOURNAL - 1, count: 0 .. JOURNAL - 1,
     entries: [0 .. JOURNAL - 1 -> JournalEntry],
     log: [0 .. JOURNAL - 1 -> JournalEntry \cup {SuperSector}]]

JfsTypeOK ==
    /\ fs \in FsState
    /\ boots \in 0 .. MaxBoots
    /\ \A i \in Inodes : DOMAIN written[i] \subseteq Positions

FreshSuper == [free_blocks |-> FREE_BLOCKS, free_inodes |-> JFS_MAX_INODES - 1]

(* jfs_init: the super block is sup, the rest of memory starts empty.      *)
Mounted(sup, disk, log) ==
    [super |-> sup, super_disk |-> sup,
     type |-> [i \in Inodes |-> IF i = Root THEN "DIR" ELSE "FREE"],
     ptrs |-> [i \in Inodes |-> [k \in 0 .. PTRS - 1 |-> 0]],
     size |-> [i \in Inodes |-> 0],
     used |-> {},
     disk |-> disk,
     head |-> 0, tail |-> 0, count |-> 0,
     entries |-> [j \in 0 .. JOURNAL - 1 |-> NoEntry],
     log |-> log]

JfsInit ==
    /\ fs = Mounted(FreshSuper, [b \in Blocks |-> ZeroBlock],
                    [j \in 0 .. JOURNAL - 1 |-> IF j = 0 THEN SuperSector ELSE NoEntry])
    /\ boots = 0
    /\ written = [i \in Inodes |-> <<>>]

-----------------------------------------------------------------------------
(* Blocks, inodes and the journal.                                         *)

(* Mutant: a block is handed out with its old contents.                    *)
jfs_alloc_block_NotZeroed(f) ==
    LET free == Blocks \ f.used
        b == IF free = {} THEN NoBlock ELSE Min(free)
    IN  IF free = {} THEN [blk |-> b, fs |-> f]
        ELSE [blk |-> b, fs |-> [f EXCEPT !.used = @ \cup {b},
                                          !.super.free_blocks = @ - 1]]
jfs_alloc_block(f) ==
    LET free == Blocks \ f.used
        b == IF free = {} THEN NoBlock ELSE Min(free)
    IN  IF free = {} THEN [blk |-> b, fs |-> f]
        ELSE [blk |-> b, fs |-> [f EXCEPT !.used = @ \cup {b},
                                          !.super.free_blocks = @ - 1,
                                          !.disk[b] = ZeroBlock]]

jfs_alloc_inode(f) ==
    LET free == {i \in Inodes \ {Root} : f.type[i] = "FREE"}
    IN  IF free = {} THEN NoInode ELSE Min(free)

(* Mutant: the head stays where it was.                                    *)
jfs_journal_flush_KeepsHead(f) ==
    LET pending == {(f.head + i) % JOURNAL : i \in 0 .. f.count - 1}
    IN  [f EXCEPT !.log = [j \in 0 .. JOURNAL - 1 |->
                             IF j = 0 THEN SuperSector
                             ELSE IF j \in pending THEN f.entries[j] ELSE @[j]],
                  !.count = 0,
                  !.super_disk = f.super]
(* The first journal sector is the sector of the super block, which is     *)
(* written last.                                                           *)
jfs_journal_flush(f) ==
    LET pending == {(f.head + i) % JOURNAL : i \in 0 .. f.count - 1}
    IN  [f EXCEPT !.log = [j \in 0 .. JOURNAL - 1 |->
                             IF j = 0 THEN SuperSector
                             ELSE IF j \in pending THEN f.entries[j] ELSE @[j]],
                  !.head = f.tail,
                  !.count = 0,
                  !.super_disk = f.super]

jfs_journal_commit(f, op, i) ==
    LET g == [f EXCEPT !.entries[f.tail] = [op |-> op, ino |-> i],
                       !.tail = (@ + 1) % JOURNAL]
    IN  IF f.count + 1 >= JOURNAL
        THEN jfs_journal_flush([g EXCEPT !.count = JOURNAL])
        ELSE [g EXCEPT !.count = @ + 1]

(* jfs_create and jfs_mkdir: an inode of type t, or none.                  *)
jfs_make(f, op, t) ==
    LET i == jfs_alloc_inode(f)
    IN  IF i = NoInode THEN [ino |-> i, fs |-> f]
        ELSE [ino |-> i,
              fs |-> jfs_journal_flush(jfs_journal_commit(
                       [f EXCEPT !.super.free_inodes = @ - 1,
                                 !.type[i] = t,
                                 !.size[i] = 0,
                                 !.ptrs[i] = [k \in 0 .. PTRS - 1 |-> 0]], op, i))]

Owned(f, i) == {f.ptrs[i][k] : k \in 0 .. PTRS - 1} \ {0}

(* Mutant: the blocks go back to the bitmap, the pointers stay.            *)
jfs_unlink_KeepsPointers(f, i) ==
    LET g == jfs_journal_commit(f, "UNLINK", i)
    IN  jfs_journal_flush(
          [g EXCEPT !.used = @ \ Owned(f, i),
                    !.super.free_blocks = @ + Cardinality(Owned(f, i) \cap f.used),
                    !.super.free_inodes = @ + 1,
                    !.type[i] = "FREE",
                    !.size[i] = 0])
jfs_unlink(f, i) ==
    LET g == jfs_journal_commit(f, "UNLINK", i)
    IN  jfs_journal_flush(
          [g EXCEPT !.used = @ \ Owned(f, i),
                    !.super.free_blocks = @ + Cardinality(Owned(f, i) \cap f.used),
                    !.ptrs[i] = [k \in 0 .. PTRS - 1 |-> 0],
                    !.super.free_inodes = @ + 1,
                    !.type[i] = "FREE",
                    !.size[i] = 0])

-----------------------------------------------------------------------------
(* Directories and files.  Position p of an inode is unit p % SLOTS of the *)
(* block its pointer p \div SLOTS names; pointer 0 names no block.         *)
Backed(f, i) == {p \in Positions : f.ptrs[i][p \div SLOTS] # 0}
UnitAt(f, i, p) == f.disk[f.ptrs[i][p \div SLOTS]][p % SLOTS]

Matches(f, d, n) ==
    {p \in Backed(f, d) : UnitAt(f, d, p).ino # 0 /\ UnitAt(f, d, p).what = n}

(* The inode that a name stands for: the first match, or none.             *)
jfs_dir_lookup(f, d, n) ==
    IF f.type[d] # "DIR" \/ Matches(f, d, n) = {} THEN NoInode
    ELSE UnitAt(f, d, Min(Matches(f, d, n))).ino

(* The entry goes to the first free slot, or to a new block.               *)
jfs_dir_add(f, d, n, i) ==
    LET slots == {p \in Backed(f, d) : UnitAt(f, d, p).ino = 0}
        p == Min(slots)
        room == {k \in 0 .. PTRS - 1 : f.ptrs[d][k] = 0}
        a == jfs_alloc_block(f)
    IN  IF slots # {}
        THEN [ok |-> TRUE,
              fs |-> [f EXCEPT !.disk[f.ptrs[d][p \div SLOTS]][p % SLOTS] = DirEntry(n, i)]]
        ELSE IF room = {} \/ a.blk = NoBlock THEN [ok |-> FALSE, fs |-> f]
        ELSE [ok |-> TRUE,
              fs |-> [a.fs EXCEPT !.ptrs[d][Min(room)] = a.blk,
                                  !.disk[a.blk] = [ZeroBlock EXCEPT ![0] = DirEntry(n, i)]]]

(* ino is what the lookup after a successful create finds.                 *)
jfs_ops_create(f, d, n) ==
    LET m == jfs_make(f, "CREATE", "FILE")
        a == jfs_dir_add(m.fs, d, n, m.ino)
    IN  IF m.ino = NoInode THEN [ok |-> FALSE, ino |-> NoInode, fs |-> f]
        ELSE IF ~a.ok THEN [ok |-> FALSE, ino |-> NoInode, fs |-> jfs_unlink(a.fs, m.ino)]
        ELSE [ok |-> TRUE, ino |-> jfs_dir_lookup(a.fs, d, n), fs |-> a.fs]

jfs_ops_mkdir(f, d, n) ==
    LET m == jfs_make(f, "MKDIR", "DIR")
    IN  IF m.ino = NoInode THEN f ELSE jfs_dir_add(m.fs, d, n, m.ino).fs

(* Mutant: the inode is freed, its directory entry stays.                  *)
jfs_ops_unlink_KeepsEntry(f, d, n) == jfs_unlink(f, jfs_dir_lookup(f, d, n))
jfs_ops_unlink(f, d, n) ==
    LET p == Min(Matches(f, d, n))
    IN  jfs_unlink([f EXCEPT !.disk[f.ptrs[d][p \div SLOTS]][p % SLOTS] = ZeroUnit],
                   jfs_dir_lookup(f, d, n))

(* The part of a write that falls into block k of the file.  full: there   *)
(* was no block left for it.  Beyond the last pointer nothing is stored.   *)
WriteBlock(f, i, k, range, v) ==
    LET here == {p \in range : p \div SLOTS = k}
        needs == k < PTRS /\ f.ptrs[i][k] = 0
        a == IF needs THEN jfs_alloc_block(f) ELSE [blk |-> f.ptrs[i][k], fs |-> f]
    IN  IF k >= PTRS THEN [full |-> FALSE, fs |-> jfs_journal_commit(f, "WRITE", i)]
        ELSE IF a.blk = NoBlock THEN [full |-> TRUE, fs |-> f]
        ELSE [full |-> FALSE,
              fs |-> jfs_journal_commit(
                       [a.fs EXCEPT !.ptrs[i][k] = a.blk,
                                    !.disk[a.blk] = [s \in 0 .. SLOTS - 1 |->
                          IF k * SLOTS + s \in here THEN Piece(v) ELSE @[s]]],
                       "WRITE", i)]

(* Size and journal are brought up to date only if every block was there.  *)
(* done: the number of units that were written, as returned.               *)
jfs_write(f, i, v, offset, count) ==
    LET range == offset .. offset + count - 1
        first == offset \div SLOTS
        blocks == (offset + count - 1) \div SLOTS - first + 1
        upto[n \in 0 .. blocks] ==
          IF n = 0 THEN [full |-> FALSE, next |-> first, fs |-> f]
          ELSE LET before == upto[n - 1]
                   w == WriteBlock(before.fs, i, before.next, range, v)
               IN  IF before.full \/ w.full THEN [before EXCEPT !.full = TRUE]
                   ELSE [full |-> FALSE, next |-> before.next + 1, fs |-> w.fs]
        end == upto[blocks]
    IN  IF end.full
        THEN [done |-> Cardinality({p \in range : p \div SLOTS < end.next}), fs |-> end.fs]
        ELSE [done |-> count,
              fs |-> jfs_journal_flush([end.fs EXCEPT !.size[i] =
                       IF offset + count > @ THEN offset + count ELSE @])]

(* What jfs_read returns for one position below the size of the file.      *)
jfs_read(f, i, p) == IF p \in Backed(f, i) THEN UnitAt(f, i, p).what ELSE "zero"

-----------------------------------------------------------------------------
(* The calls.  Paths have at most two components.                          *)
Found(d, n) == jfs_dir_lookup(fs, d, n) # NoInode
Dirs == {Root} \cup {i \in {jfs_dir_lookup(fs, Root, n) : n \in Names} \ {NoInode} :
                       fs.type[i] = "DIR"}
Files == {i \in {jfs_dir_lookup(fs, d, n) : d \in Dirs, n \in Names} \ {NoInode} :
            fs.type[i] = "FILE"}

Forget(f) == [i \in Inodes |-> IF f.type[i] = "FILE" THEN written[i] ELSE <<>>]

Create(d, n) ==
    /\ fs' = jfs_ops_create(fs, d, n).fs
    /\ written' = Forget(fs')

Mkdir(d, n) ==
    /\ fs' = jfs_ops_mkdir(fs, d, n)
    /\ written' = Forget(fs')

Unlink(d, n) ==
    /\ Found(d, n)
    /\ fs' = jfs_ops_unlink(fs, d, n)
    /\ written' = Forget(fs')

(* The history holds what is reported as written, and stored: what goes to *)
(* block 0 or beyond the last pointer is not.                              *)
Write(i, v, offset, count) ==
    /\ fs.type[i] = "FILE"
    /\ LET w == jfs_write(fs, i, v, offset, count)
           new == (offset .. offset + w.done - 1) \cap Backed(w.fs, i)
       IN  /\ fs' = w.fs
           /\ written' = [written EXCEPT ![i] =
                            [p \in new \cup DOMAIN @ |-> IF p \in new THEN v ELSE @[p]]]

(* Power fails and the machine starts again.  If it fails when a flush has *)
(* written the first journal sector and not yet the super block there is   *)
(* no super block to be found.                                             *)
Restart(lost) ==
    /\ boots < MaxBoots
    /\ boots' = boots + 1
    /\ fs' = Mounted(IF lost THEN FreshSuper ELSE fs.super_disk, fs.disk, fs.log)
    /\ written' = [i \in Inodes |-> <<>>]

JfsCall ==
    /\ \/ \E d \in Dirs, n \in Names : Create(d, n) \/ Mkdir(d, n) \/ Unlink(d, n)
       \/ \E i \in Files, v \in Values, r \in Ranges : Write(i, v, r[1], r[2])
    /\ UNCHANGED boots

JfsNext == JfsCall \/ \E lost \in BOOLEAN : Restart(lost)

JfsSpec == JfsInit /\ [][JfsNext]_jfsVars

-----------------------------------------------------------------------------
(* Every block in use belongs to one place in one inode, and no inode      *)
(* points at a block that the bitmap calls free: jfs_alloc_block,          *)
(* jfs_free_block and the pointers agree.  Block 0, which no pointer can   *)
(* name, is the exception.                                                 *)
OneOwner ==
    /\ \A b \in Blocks \ {0} :
         LET owners == {p \in Inodes \X (0 .. PTRS - 1) : fs.ptrs[p[1]][p[2]] = b}
         IN  Cardinality(owners) = IF b \in fs.used THEN 1 ELSE 0
    /\ \A i \in Inodes : fs.type[i] = "FREE" => Owned(fs, i) = {}

(* What a directory that can be reached lists exists, and is listed once:  *)
(* jfs_dir_add, jfs_ops_unlink and the reuse of inodes and of blocks with  *)
(* old entries never leave a name for a file that is gone.                 *)
EntriesLive ==
    LET entries == {e \in Dirs \X Positions :
                      e[2] \in Backed(fs, e[1]) /\ UnitAt(fs, e[1], e[2]).ino # 0}
        target(e) == UnitAt(fs, e[1], e[2]).ino
    IN  /\ \A e \in entries : fs.type[target(e)] # "FREE"
        /\ \A e1, e2 \in entries : target(e1) = target(e2) => e1 = e2

(* Until a restart, the counts of the super block are those of the tables, *)
(* whatever calls fail half-way (jfs_ops_create takes its inode back).     *)
CountsTrue ==
    boots = 0 =>
      /\ fs.super.free_inodes = Cardinality({i \in Inodes : fs.type[i] = "FREE"})
      /\ fs.super.free_blocks + Cardinality(fs.used) = FREE_BLOCKS

(* A read returns what was last stored at that place of that file, and     *)
(* zeros where nothing was: never what another file, or an earlier owner   *)
(* of the block, left there (jfs_write, jfs_read, jfs_alloc_block).        *)
ContentsKept ==
    \A i \in Inodes : fs.type[i] = "FILE" =>
      \A p \in Positions : p < fs.size[i] =>
        jfs_read(fs, i, p) = IF p \in DOMAIN written[i] THEN written[i][p] ELSE "zero"

(* "JFS adds journaling on top for crash consistency" (docs/kernel.md:80): *)
(* after a restart the file system lists the names it listed before.       *)
SurvivesRestart ==
    [][\A lost \in BOOLEAN :
         Restart(lost) => \A n \in Names : Found(Root, n) => Found(Root, n)']_jfsVars

(* Between calls the log on disk holds the entry committed last, unless    *)
(* its sector is the one of the super block: jfs_journal_flush writes all  *)
(* entries since the head, however many commits flushed on their own.      *)
LogHoldsRest ==
    LET last == (fs.tail + JOURNAL - 1) % JOURNAL
    IN  fs.count = 0 /\ last # 0 /\ fs.entries[last] # NoEntry
          => fs.log[last] = fs.entries[last]
=============================================================================
