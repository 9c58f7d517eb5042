-------------------------------- MODULE Fat ---------------------------------
(***************************************************************************)
(* The FAT32 volume mounted at "/" (kernel.c): the allocation table, one   *)
(* directory, and the files that are open.  Positions and sizes count      *)
(* sectors; a call reads or writes one sector.  The table is written       *)
(* through its one-sector cache, so the cache always agrees with the disk. *)
(***************************************************************************)
EXTENDS Integers, FiniteSetsExt, SequencesExt

CONSTANTS
    Clus,       \* data clusters, numbers from 2 on
    SPC,        \* sectors of a cluster
    SLOTS,      \* entries of the directory, which never grows
    Names,      \* 8.3 names
    FD_MAX,     \* descriptors
    MaxSize,    \* bound: sectors of a file
    Values,     \* what a sector may hold, 0 excluded
    Preload,    \* clusters of a file the disk was made with, exactly full
    Careful     \* TRUE: a file is open once and not renamed or deleted
                \* meanwhile, as the shell's commands do one at a time, and
                \* nobody appends where a chain has no cluster left

FatAssumption ==
    /\ Clus = 2 .. Cardinality(Clus) + 1 /\ SPC \in Nat \ {0}
    /\ SLOTS \in Nat \ {0} /\ FD_MAX \in Nat \ {0} /\ MaxSize \in Nat
    /\ Names # {} /\ Values \subseteq Nat \ {0} /\ Careful \in BOOLEAN
    /\ Preload \in Nat /\ Preload <= Cardinality(Clus)

VARIABLES
    fat,    \* the table: the next cluster of a chain
    dir,    \* the entries of the directory
    sec,    \* contents of the data sectors
    fds,    \* open files: the FD of the volume and the offset of the VFS
    text    \* history: what was written to the file of a name

fatVars == <<fat, dir, sec, fds, text>>

-----------------------------------------------------------------------------
Free == 0
End == -1
NoEntry == [name |-> "", start |-> 0, size |-> 0, isdir |-> FALSE]
Entry == [name: Names, start: Clus \cup {0}, size: 0 .. MaxSize, isdir: BOOLEAN]
Closed == [open |-> FALSE, name |-> "", start |-> 0, cur |-> 0, pos |-> 0,
           size |-> 0, off |-> 0]

FatTypeOK ==
    /\ fat \in [Clus -> Clus \cup {Free, End}]
    /\ dir \in [1 .. SLOTS -> Entry \cup {NoEntry}]
    /\ sec \in [Clus \X (0 .. SPC - 1) -> Values \cup {0}]
    /\ DOMAIN fds = 1 .. FD_MAX
    /\ \A d \in 1 .. FD_MAX : fds[d].open => fds[d].pos <= MaxSize + 1
    /\ text \in [Names -> Seq(Values)]

(* The volume when the system starts: empty, or with one file of whole     *)
(* clusters, as the tools that build the disk image leave it.              *)
FatInit ==
    \E full \in BOOLEAN, v \in Values :
        LET k == IF full THEN Preload ELSE 0
            n == CHOOSE x \in Names : TRUE
            first == [NoEntry EXCEPT !.name = n, !.start = 2, !.size = k * SPC]
        IN  /\ fat = [c \in Clus |-> IF c > k + 1 THEN Free
                                     ELSE IF c = k + 1 THEN End ELSE c + 1]
            /\ dir = [i \in 1 .. SLOTS |-> IF i = 1 /\ k > 0 THEN first
                                           ELSE NoEntry]
            /\ sec = [s \in Clus \X (0 .. SPC - 1) |-> IF s[1] <= k + 1 THEN v
                                                       ELSE 0]
            /\ fds = [d \in 1 .. FD_MAX |-> Closed]
            /\ text = [x \in Names |-> IF x = n THEN [i \in 1 .. k * SPC |-> v]
                                       ELSE <<>>]

-----------------------------------------------------------------------------
(* fat32_find_raw_in: the first entry of that name.                        *)
Entries(n) == {i \in 1 .. SLOTS : dir[i].name = n}
FreeSlots == {i \in 1 .. SLOTS : dir[i] = NoEntry}
FreeFds == {d \in 1 .. FD_MAX : ~fds[d].open}
IsOpen(n) == \E d \in 1 .. FD_MAX : fds[d].open /\ fds[d].name = n

(* fat32_alloc_cluster: the first free cluster, marked as an end.          *)
Allocated(f, c) == [f EXCEPT ![c] = End]
FreeClus(f) == {c \in Clus : f[c] = Free}

(* Along the chain as far as it goes.                                      *)
WalkTo(start, steps) ==
    FoldLeft(LAMBDA c, i : IF c \in Clus THEN fat[c] ELSE c, start,
             [i \in 1 .. steps |-> i])

(* patch_dir_size and patch_dir_cluster: the first entry with the name the *)
(* descriptor was opened under.                                            *)
Patched(n, start, size) ==
    IF Entries(n) = {} THEN dir
    ELSE [dir EXCEPT ![Min(Entries(n))] =
            [@ EXCEPT !.start = start, !.size = size]]

-----------------------------------------------------------------------------
(* fat32_ops_lookup and vfs_open: a descriptor with a state of its own.    *)
OpenFd(d, e) ==
    fds' = [fds EXCEPT ![d] =
              [Closed EXCEPT !.open = TRUE, !.name = e.name, !.start = e.start,
                             !.cur = e.start, !.size = e.size]]

Open(n) ==
    /\ Entries(n) # {} /\ FreeFds # {}
    /\ Careful => ~IsOpen(n) /\ ~dir[Min(Entries(n))].isdir
    /\ OpenFd(Min(FreeFds), dir[Min(Entries(n))])
    /\ UNCHANGED <<fat, dir, sec, text>>

(* The shell creates a file after the open has failed, for whatever reason.*)
(* fat32_ops_create: an entry where there is room, then the lookup.        *)
Create(n) ==
    LET slot == Min(FreeSlots)
        entry == [NoEntry EXCEPT !.name = n]
        found == IF Entries(n) # {} THEN dir[Min(Entries(n))] ELSE entry
    IN  /\ Entries(n) = {} \/ FreeFds = {}
        /\ Careful => Entries(n) = {}
        /\ dir' = IF FreeSlots = {} THEN dir ELSE [dir EXCEPT ![slot] = entry]
        /\ IF FreeFds # {} /\ FreeSlots # {} THEN OpenFd(Min(FreeFds), found)
           ELSE UNCHANGED fds
        /\ text' = IF Entries(n) = {} THEN [text EXCEPT ![n] = <<>>] ELSE text
        /\ UNCHANGED <<fat, sec>>

Close(d) ==
    /\ fds[d].open
    /\ fds' = [fds EXCEPT ![d] = Closed]
    /\ UNCHANGED <<fat, dir, sec, text>>

(* cmd_append: vfs_seek to the end of the file as this descriptor knows it.*)
SeekEnd(d) ==
    /\ fds[d].open /\ fds[d].off = 0 /\ fds[d].pos = 0
    /\ fds' = [fds EXCEPT ![d].off = fds[d].size]
    /\ UNCHANGED <<fat, dir, sec, text>>

(* Where a call at the offset of the VFS finds the descriptor.             *)
(* Mutant: the place moves, the cluster stays.                             *)
Placed_KeepsCluster(f) == [f EXCEPT !.pos = f.off]
Placed(f) ==
    IF f.pos = f.off THEN f
    ELSE [f EXCEPT !.pos = f.off, !.cur = WalkTo(f.start, f.off \div SPC)]

(* fat32_ops_read and fat32_read_raw.                                      *)
Read(d) ==
    LET f == Placed(fds[d])
        cur == IF (f.pos + 1) % SPC = 0 /\ f.cur \in Clus THEN fat[f.cur] ELSE f.cur
    IN  /\ fds[d].open
        /\ fds' = [fds EXCEPT ![d] =
                     IF f.pos >= f.size THEN f
                     ELSE [f EXCEPT !.pos = @ + 1, !.off = @ + 1, !.cur = cur]]
        /\ UNCHANGED <<fat, dir, sec, text>>

(* fat32_ops_write and fat32_write_raw.  The first write of an empty file  *)
(* allocates its cluster; one that fills a cluster moves on to the next, or*)
(* allocates it, and fails without it although the sector is written.  One *)
(* that starts behind the last cluster, as an append to a file that fills  *)
(* its clusters does, goes to a sector that is none of the file's (here    *)
(* none of the volume's, and what is linked there is taken for an end).    *)
(* Mutant: the new cluster is not linked.                                  *)
fat_link_Forgotten(f, c, new) == f
fat_link(f, c, new) == IF c \in Clus THEN [f EXCEPT ![c] = new] ELSE f

Write(d, v) ==
    LET f == Placed(fds[d])
        new == Min(FreeClus(fat))
        start == IF f.start = 0 THEN new ELSE f.start
        cur == IF f.start = 0 THEN new ELSE f.cur
        fat1 == IF f.start = 0 THEN Allocated(fat, new) ELSE fat
        size == IF f.pos + 1 > f.size THEN f.pos + 1 ELSE f.size
        known == IF Entries(f.name) = {} THEN 0 ELSE dir[Min(Entries(f.name))].size
        filled == (f.pos + 1) % SPC = 0
        wanted == filled /\ (cur \in Clus => fat1[cur] = End)
        next == Min(FreeClus(fat1))
        full == wanted /\ FreeClus(fat1) = {}
    IN  /\ fds[d].open /\ f.pos < MaxSize
        /\ Careful => f.start = 0 \/ f.cur \in Clus
        /\ IF f.start = 0 /\ FreeClus(fat) = {}
           THEN /\ fds' = [fds EXCEPT ![d] = f]
                /\ UNCHANGED <<fat, dir, sec, text>>
           ELSE /\ sec' = IF cur \in Clus THEN [sec EXCEPT ![cur, f.pos % SPC] = v]
                          ELSE sec
                /\ fat' = IF wanted /\ ~full
                          THEN fat_link(Allocated(fat1, next), cur, next) ELSE fat1
                /\ dir' = IF f.start = 0 \/ size > f.size
                          THEN Patched(f.name, start,
                                       IF size > f.size THEN size ELSE known)
                          ELSE dir
                /\ fds' = [fds EXCEPT ![d] =
                             [f EXCEPT !.start = start, !.size = size,
                                !.pos = @ + 1,
                                !.off = IF full THEN @ ELSE @ + 1,
                                !.cur = IF full \/ ~filled THEN cur
                                        ELSE IF wanted THEN next ELSE fat1[cur]]]
                /\ text' = [text EXCEPT ![f.name] =
                              [i \in 1 .. Max({Len(@), f.pos + 1}) |->
                                 IF i = f.pos + 1 THEN v
                                 ELSE IF i <= Len(@) THEN @[i] ELSE v]]

(* fat32_delete_file_in: the entry, then every cluster of its chain.       *)
ChainOf(f, c) ==
    LET hop(x) == IF x \in Clus THEN f[x] ELSE x
        reached == FoldLeft(LAMBDA acc, i : acc \cup {hop(x) : x \in acc}, {c},
                            [i \in 1 .. Cardinality(Clus) |-> i])
    IN  reached \cap Clus

Unlink(n) ==
    LET i == Min(Entries(n))
    IN  /\ Entries(n) # {}
        /\ Careful => ~IsOpen(n)
        /\ dir' = [dir EXCEPT ![i] = NoEntry]
        /\ fat' = [c \in Clus |-> IF c \in ChainOf(fat, dir[i].start) THEN Free
                                  ELSE fat[c]]
        /\ text' = [text EXCEPT ![n] = <<>>]
        /\ UNCHANGED <<sec, fds>>

(* fat32_rename_in: only the name changes.                                 *)
Rename(old, new) ==
    /\ Entries(old) # {} /\ Entries(new) = {}
    /\ Careful => ~IsOpen(old)
    /\ dir' = [dir EXCEPT ![Min(Entries(old))].name = new]
    /\ text' = [text EXCEPT ![new] = text[old], ![old] = <<>>]
    /\ UNCHANGED <<fat, sec, fds>>

(* fat32_ops_mkdir: a cluster and an entry; the cluster keeps what it held.*)
Mkdir(n) ==
    /\ Careful => Entries(n) = {} /\ FreeSlots # {}
    /\ FreeClus(fat) # {}
    /\ LET c == Min(FreeClus(fat))
           entry == [NoEntry EXCEPT !.name = n, !.start = c, !.isdir = TRUE]
       IN  /\ fat' = Allocated(fat, c)
           /\ dir' = IF FreeSlots = {} THEN dir
                     ELSE [dir EXCEPT ![Min(FreeSlots)] = entry]
    /\ text' = IF Entries(n) = {} THEN [text EXCEPT ![n] = <<>>] ELSE text
    /\ UNCHANGED <<sec, fds>>

FatNext ==
    \/ \E n \in Names : Open(n) \/ Create(n) \/ Unlink(n) \/ Mkdir(n)
    \/ \E d \in 1 .. FD_MAX : Close(d) \/ SeekEnd(d) \/ Read(d)
    \/ \E d \in 1 .. FD_MAX, v \in Values : Write(d, v)
    \/ \E old, new \in Names : Rename(old, new)

FatSpec == FatInit /\ [][FatNext]_fatVars

-----------------------------------------------------------------------------
Used == {i \in 1 .. SLOTS : dir[i] # NoEntry}
FileChain(i) == ChainOf(fat, dir[i].start)

(* A cluster is free or in the chain of exactly one entry, through writes, *)
(* deletions and a full disk (fat32_alloc_cluster, fat32_delete_file_in).  *)
OneOwner ==
    /\ \A i, j \in Used : i # j => FileChain(i) \cap FileChain(j) = {}
    /\ {c \in Clus : fat[c] # Free} = UNION {FileChain(i) : i \in Used}
    /\ \A i \in Used : \A c \in FileChain(i) : fat[c] # Free

(* The size of an entry fits its chain, and the sectors along the chain    *)
(* hold what was written, whoever else wrote meanwhile (fat32_write_raw).  *)
FileHolds ==
    \A i \in Used :
        LET n == dir[i].name
            at(p) == WalkTo(dir[i].start, (p - 1) \div SPC)
        IN  ~dir[i].isdir =>
              /\ dir[i].size = Len(text[n])
              /\ \A p \in 1 .. dir[i].size :
                    /\ at(p) \in Clus
                    /\ sec[at(p), (p - 1) % SPC] = text[n][p]
=============================================================================
