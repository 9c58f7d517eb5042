-------------------------------- MODULE Vfs ---------------------------------
(***************************************************************************)
(* Descriptors, the table of open inodes, and the pipes behind descriptors *)
(* (vfs.c), on top of the journalled file system (Jfs).  All programs and  *)
(* the shell share one descriptor table; the first STDIO descriptors are   *)
(* the console's.                                                          *)
(*                                                                         *)
(* Paths lead to JFS: FAT32 comes in by the same operations, and is not    *)
(* part of this module.  What flows through a pipe is in module Pipe.      *)
(***************************************************************************)
EXTENDS Jfs

CONSTANTS
    FD_MAX,     \* descriptors (256)
    STDIO,      \* descriptors that fd_alloc never hands out (3)
    MAX_INODE,  \* entries of inode_table (1024)
    Pipes,      \* heap blocks that can hold a pipe
    MaxOffset   \* bound: largest file offset

VfsAssumption ==
    /\ FD_MAX \in Nat \ {0} /\ STDIO \in 0 .. FD_MAX
    /\ MAX_INODE \in Nat \ {0}
    /\ Pipes \subseteq Nat
    /\ MaxOffset \in Nat

VARIABLES
    fd_table,     \* descriptor -> entry
    inode_table,  \* slot -> open inode
    pipes,        \* the heap blocks that hold a pipe now
    unlinked      \* history: slots whose file has been removed since

fdVars == <<fd_table, inode_table, pipes, unlinked>>
vfsVars == <<jfsVars, fdVars>>

-----------------------------------------------------------------------------
Fds == 0 .. FD_MAX - 1
Slots == 0 .. MAX_INODE - 1
NULL == -1

FdEntry == [in_use: BOOLEAN, type: {"FILE", "DIR", "PIPE"},
            inode: Slots \cup {NULL}, pipe_data: Pipes \cup {NULL},
            offset: Nat]
Closed == [in_use |-> FALSE, type |-> "FILE", inode |-> NULL,
           pipe_data |-> NULL, offset |-> 0]
Console == [Closed EXCEPT !.in_use = TRUE]
OnInode(s, t) == [Console EXCEPT !.inode = s, !.type = t]
OnPipe(p) == [Console EXCEPT !.pipe_data = p, !.type = "PIPE"]

NoOpenInode == [valid |-> FALSE, refcount |-> 0, ino |-> 0]
OpenInode(i) == [valid |-> TRUE, refcount |-> 1, ino |-> i]

VfsTypeOK ==
    /\ fd_table \in [Fds -> FdEntry]
    /\ inode_table \in [Slots -> {NoOpenInode} \cup
                          [valid: {TRUE}, refcount: 1 .. FD_MAX, ino: Inodes]]
    /\ pipes \subseteq Pipes
    /\ unlinked \subseteq Slots

(* vfs_core_init: nothing is open but the console.                         *)
FdInit ==
    /\ fd_table = [d \in Fds |-> IF d < STDIO THEN Console ELSE Closed]
    /\ inode_table = [s \in Slots |-> NoOpenInode]
    /\ pipes = {}
    /\ unlinked = {}

(* The file system once its first directory has been made.  Block 0 is     *)
(* gone with the name of that directory, so a create finds what it made.   *)
VfsInit ==
    /\ \E n \in Names :
         fs = jfs_ops_mkdir(Mounted(FreshSuper, [b \in Blocks |-> ZeroBlock],
                              [j \in 0 .. JOURNAL - 1 |-> NoEntry]), Root, n)
    /\ boots = 0
    /\ written = [i \in Inodes |-> <<>>]
    /\ FdInit

-----------------------------------------------------------------------------
FreeFds(t) == {d \in Fds : d >= STDIO /\ ~t[d].in_use}
FreeSlots == {s \in Slots : ~inode_table[s].valid}
IsOpen(d) == fd_table[d].in_use
Ino(d) == inode_table[fd_table[d].inode].ino

(* vfs_read, vfs_write and vfs_seek refuse a descriptor without inode      *)
(* before they look at its type.                                           *)
Usable(d) == IsOpen(d) /\ fd_table[d].inode # NULL

(* fd_alloc and inode_alloc; without a slot the descriptor is given back.  *)
Install(i) ==
    LET d == Min(FreeFds(fd_table))
        s == Min(FreeSlots)
    IN  IF FreeFds(fd_table) = {} \/ FreeSlots = {}
        THEN UNCHANGED <<fd_table, inode_table, unlinked>>
        ELSE /\ fd_table' = [fd_table EXCEPT ![d] = OnInode(s, fs'.type[i])]
             /\ inode_table' = [inode_table EXCEPT ![s] = OpenInode(i)]
             /\ unlinked' = unlinked \ {s}

vfs_open(dir, n) ==
    /\ Found(dir, n)
    /\ UNCHANGED <<jfsVars, pipes>>
    /\ Install(jfs_dir_lookup(fs, dir, n))

(* Also without a free descriptor the file has been made.                  *)
vfs_create(dir, n) ==
    LET made == jfs_ops_create(fs, dir, n)
    IN  /\ Create(dir, n)
        /\ UNCHANGED <<boots, pipes>>
        /\ IF made.ok THEN Install(made.ino)
           ELSE UNCHANGED <<fd_table, inode_table, unlinked>>

vfs_mkdir(dir, n) ==
    /\ Mkdir(dir, n)
    /\ UNCHANGED <<boots, fdVars>>

(* Open descriptors are not looked at.                                     *)
vfs_unlink(dir, n) ==
    /\ Unlink(dir, n)
    /\ unlinked' = unlinked \cup {s \in Slots : inode_table[s].valid /\
                                   inode_table[s].ino = jfs_dir_lookup(fs, dir, n)}
    /\ UNCHANGED <<boots, fd_table, inode_table, pipes>>

vfs_write(d, v, n) ==
    /\ Usable(d) /\ fd_table[d].offset + n <= MaxOffset
    /\ Write(Ino(d), v, fd_table[d].offset, n)
    /\ fd_table' = [fd_table EXCEPT ![d].offset =
                      @ + jfs_write(fs, Ino(d), v, @, n).done]
    /\ UNCHANGED <<boots, inode_table, pipes, unlinked>>

vfs_read(d, n) ==
    /\ Usable(d) /\ fs.type[Ino(d)] = "FILE"
    /\ fd_table[d].offset < fs.size[Ino(d)]
    /\ fd_table' = [fd_table EXCEPT ![d].offset = Min({@ + n, fs.size[Ino(d)]})]
    /\ UNCHANGED <<jfsVars, inode_table, pipes, unlinked>>

vfs_seek(d, to) ==
    /\ Usable(d)
    /\ fd_table' = [fd_table EXCEPT ![d].offset = to]
    /\ UNCHANGED <<jfsVars, inode_table, pipes, unlinked>>

-----------------------------------------------------------------------------
Refer(t, s) == IF s = NULL THEN t ELSE [t EXCEPT ![s].refcount = @ + 1]

(* inode_deref: the last reference frees the slot.                         *)
Drop(t, s) ==
    CASE s = NULL -> t
      [] s # NULL /\ t[s].refcount > 1 -> [t EXCEPT ![s].refcount = @ - 1]
      [] OTHER -> [t EXCEPT ![s] = NoOpenInode]

(* What closing d leaves of the inodes and the pipes.  Either end of a     *)
(* pipe frees it.                                                          *)
(* Mutant: no pipe is freed.                                               *)
AfterClose_KeepsPipe(d) ==
    [inodes |-> Drop(inode_table, fd_table[d].inode), pipes |-> pipes]
AfterClose(d) ==
    [inodes |-> Drop(inode_table, fd_table[d].inode),
     pipes |-> pipes \ {fd_table[d].pipe_data}]

vfs_close(d) ==
    /\ IsOpen(d)
    /\ fd_table' = [fd_table EXCEPT ![d] = Closed]
    /\ inode_table' = AfterClose(d).inodes
    /\ pipes' = AfterClose(d).pipes
    /\ unlinked' = {s \in unlinked : inode_table'[s].valid}
    /\ UNCHANGED jfsVars

vfs_dup(d) ==
    /\ IsOpen(d) /\ FreeFds(fd_table) # {}
    /\ fd_table' = [fd_table EXCEPT ![Min(FreeFds(fd_table))] = fd_table[d]]
    /\ inode_table' = Refer(inode_table, fd_table[d].inode)
    /\ UNCHANGED <<jfsVars, pipes, unlinked>>

(* Mutant: what the new descriptor was open on is not closed.              *)
vfs_dup2_NoClose(d, e) ==
    /\ d # e /\ IsOpen(d)
    /\ fd_table' = [fd_table EXCEPT ![e] = fd_table[d]]
    /\ inode_table' = Refer(inode_table, fd_table[d].inode)
    /\ UNCHANGED <<jfsVars, pipes, unlinked>>
vfs_dup2(d, e) ==
    /\ d # e /\ IsOpen(d)
    /\ fd_table' = [fd_table EXCEPT ![e] = fd_table[d]]
    /\ LET after == IF IsOpen(e) THEN AfterClose(e)
                    ELSE [inodes |-> inode_table, pipes |-> pipes]
       IN  /\ inode_table' = Refer(after.inodes, fd_table[d].inode)
           /\ pipes' = after.pipes
    /\ unlinked' = {s \in unlinked : inode_table'[s].valid}
    /\ UNCHANGED jfsVars

(* Without two free descriptors the new pipe is freed again.               *)
sys_pipe ==
    LET p == Min(Pipes \ pipes)
        r == Min(FreeFds(fd_table))
        w == Min(FreeFds(fd_table) \ {r})
    IN  /\ Pipes # pipes /\ Cardinality(FreeFds(fd_table)) >= 2
        /\ fd_table' = [fd_table EXCEPT ![r] = OnPipe(p), ![w] = OnPipe(p)]
        /\ pipes' = pipes \cup {p}
        /\ UNCHANGED <<jfsVars, inode_table, unlinked>>

VfsNext ==
    \/ \E dir \in Dirs, n \in Names :
         vfs_open(dir, n) \/ vfs_create(dir, n) \/ vfs_mkdir(dir, n) \/ vfs_unlink(dir, n)
    \/ \E d \in Fds :
         \/ \E r \in Ranges, v \in Values : vfs_write(d, v, r[2])
         \/ \E r \in Ranges : vfs_read(d, r[2]) \/ vfs_seek(d, r[1])
         \/ vfs_close(d) \/ vfs_dup(d) \/ \E e \in Fds : vfs_dup2(d, e)
    \/ sys_pipe

VfsSpec == VfsInit /\ [][VfsNext]_vfsVars

-----------------------------------------------------------------------------
(* The reference count of an open inode is the number of descriptors on    *)
(* it: open, dup, dup2 and close keep inode_ref and inode_deref in step,   *)
(* so a slot is reused only when no descriptor leads to it.                *)
RefsMatch ==
    \A s \in Slots :
      LET users == Cardinality({d \in Fds : IsOpen(d) /\ fd_table[d].inode = s})
      IN  /\ inode_table[s].valid <=> users > 0
          /\ inode_table[s].valid => inode_table[s].refcount = users

(* A pipe is freed by the last close at the latest.                        *)
NoPipeLeak ==
    \A p \in pipes : \E d \in Fds : IsOpen(d) /\ fd_table[d].pipe_data = p

(* While its name is not removed, what a descriptor leads to is in use and *)
(* of the type it had when it was opened, whatever was closed, duplicated  *)
(* and reused meanwhile.                                                   *)
OpenFileStays ==
    \A d \in Fds : Usable(d) /\ fd_table[d].inode \notin unlinked =>
                     fs.type[Ino(d)] = fd_table[d].type

(* pipe.c:176: "The caller is responsible for closing both ends before     *)
(* destroying the pipe": no open descriptor is left on a freed pipe.       *)
PipeHeld ==
    \A d \in Fds : IsOpen(d) /\ fd_table[d].type = "PIPE" => fd_table[d].pipe_data \in pipes
=============================================================================
