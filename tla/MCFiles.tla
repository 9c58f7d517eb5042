------------------------------ MODULE MCFiles -------------------------------
(* Files and pipes: the journalled file system by itself, descriptors on   *)
(* top of it, the FAT32 volume, the commands of the shell on that volume,  *)
(* and the buffer of a pipe, in seven settings.  A behaviour is one of one *)
(* setting: `part` says which.  The buffer shares no state with the rest   *)
(* (sys_pipe's descriptors do not lead to it), and stays empty in the      *)
(* other settings.                                                         *)
EXTENDS Pipe, Vfs

CONSTANTS n1, n2, w1, w2

VARIABLES part, fat, dir, sec, fds, text, node, taken, cwd_clus,
          cwd_path

volume == <<fat, dir, sec, fds, text>>
tree == <<node, taken, cwd_clus, cwd_path>>

-----------------------------------------------------------------------------
(* Values of the constants.  Vfs: descriptors of files and of two pipes.   *)
SomeDatas == {<<>>, <<1>>, <<2, 1>>, <<1, 2, 2>>, <<2, 1, 1, 2>>}

(* Files and directories are made and removed, with a restart.             *)
Tree == INSTANCE Jfs WITH
    JFS_MAX_INODES <- 4, JFS_MAX_BLOCKS <- 4, FREE_BLOCKS <- 12, PTRS <- 1,
    SLOTS <- 2, JOURNAL <- 2, Names <- {n1, n2}, Values <- {}, Ranges <- {},
    MaxBoots <- 1
(* Writes from one block into the next, and past the last pointer.         *)
Across == INSTANCE Jfs WITH
    JFS_MAX_INODES <- 4, JFS_MAX_BLOCKS <- 4, FREE_BLOCKS <- 12, PTRS <- 2,
    SLOTS <- 2, JOURNAL <- 1, Names <- {n1, n2}, Values <- {w1, w2},
    Ranges <- {<<1, 2>>, <<3, 2>>}, MaxBoots <- 0
(* One file; a unit is written or read at a time, seeks go to the start.   *)
OneFile == INSTANCE Vfs WITH
    JFS_MAX_INODES <- 3, JFS_MAX_BLOCKS <- 3, FREE_BLOCKS <- 12, PTRS <- 1,
    SLOTS <- 2, JOURNAL <- 1, Names <- {n1}, Values <- {w1},
    Ranges <- {<<0, 1>>}, MaxBoots <- 0,
    FD_MAX <- 4, STDIO <- 1, MAX_INODE <- 2, Pipes <- {}, MaxOffset <- 1

(* The FAT32 volume, with a file of one full cluster.                      *)
Volume == INSTANCE Fat WITH
    Clus <- 2 .. 3, SPC <- 2, SLOTS <- 2, Names <- {"a", "b"}, FD_MAX <- 2,
    MaxSize <- 4, Values <- {1, 2}, Preload <- 1, Careful <- TRUE

(* Directories in directories and texts of one piece or two, on two        *)
(* clusters.                                                               *)
Commands == INSTANCE Shell WITH
    Clus <- 1 .. 2, SLOTS <- 3, Words <- {"A", "B.TXT"},
    Mounts <- {"jfs"}, Sealed <- {"B.TXT"}, Lines <- {<<"x">>, <<"x", "y">>},
    PATH <- 2, MaxText <- 2, Careful <- TRUE

ASSUME /\ JfsAssumption /\ VfsAssumption
       /\ Tree!JfsAssumption /\ Across!JfsAssumption
       /\ OneFile!JfsAssumption /\ OneFile!VfsAssumption
       /\ Volume!FatAssumption /\ Commands!ShellAssumption

Parts == {"tree", "across", "files", "dups", "pipe", "volume", "shell"}

FilesInit ==
    /\ Init
    /\ part \in Parts
    /\ IF part = "tree" THEN Tree!JfsInit /\ FdInit
       ELSE IF part = "across" THEN Across!JfsInit /\ FdInit
       ELSE IF part = "files" THEN OneFile!VfsInit
       ELSE VfsInit
    /\ Volume!FatInit /\ (part # "volume" => Volume!Used = {})
    /\ Commands!ShellInit

FilesNext ==
    /\ UNCHANGED part
    /\ \/ /\ \/ part = "tree" /\ Tree!JfsNext
             \/ part = "across" /\ Across!JfsNext
          /\ UNCHANGED <<fdVars, vars, volume, tree>>
       \/ /\ \/ part = "files" /\ OneFile!VfsNext
             \/ part = "dups" /\ VfsNext
          /\ UNCHANGED <<vars, volume, tree>>
       \/ part = "pipe" /\ Next /\ UNCHANGED <<vfsVars, volume, tree>>
       \/ /\ part = "volume" /\ Volume!FatNext
          /\ UNCHANGED <<vfsVars, vars, tree>>
       \/ /\ part = "shell" /\ Commands!ShellNext
          /\ UNCHANGED <<vfsVars, vars, volume>>

FilesSpec ==
    FilesInit /\ [][FilesNext]_<<part, vars, vfsVars, volume, tree>>

-----------------------------------------------------------------------------
(* Blocks, pointers and bitmap agree (jfs_alloc_block, jfs_unlink); a      *)
(* cluster is in the chain of one entry or free (fat32_alloc_cluster,      *)
(* fat_link, fat32_delete_file_in).                                        *)
BlocksOwned ==
    /\ part = "tree" => Tree!OneOwner
    /\ part = "across" => Across!OneOwner
    /\ part = "files" => OneFile!OneOwner
    /\ part = "volume" => Volume!OneOwner

(* Names stand for inodes in use, each for one, the free counts are those  *)
(* of the tables, and the log on disk has the latest entry (jfs_dir_add,   *)
(* jfs_ops_create, jfs_journal_flush).  A directory of the FAT32 volume    *)
(* has one entry, and the path of the shell leads where its cluster does   *)
(* (cmd_cd, cmd_rmdir).  All tables have their types.                      *)
NamesLive ==
    /\ TypeOK
    /\ part = "tree" => /\ Tree!JfsTypeOK /\ Tree!EntriesLive
                        /\ Tree!CountsTrue /\ Tree!LogHoldsRest
    /\ part = "across" =>
          Across!JfsTypeOK /\ Across!EntriesLive /\ Across!CountsTrue
    /\ part = "files" => OneFile!JfsTypeOK /\ OneFile!VfsTypeOK
    /\ part \in {"dups", "pipe"} => JfsTypeOK /\ VfsTypeOK
    /\ Volume!FatTypeOK /\ Commands!ShellTypeOK
    /\ part = "shell" => Commands!CwdTrue /\ Commands!TreeSound

(* Files keep what was written to them, by jfs_write or by vfs_write       *)
(* through descriptors that share or do not share an offset and stay on    *)
(* their file, or by fat32_write_raw through a cached chain, as long as no *)
(* write starts behind its last cluster (kernel.c:1141), or by the commands*)
(* of the shell (cmd_write, cmd_append, cmd_cp).                           *)
TextsKept ==
    /\ part = "across" => Across!ContentsKept
    /\ part = "files" => OneFile!ContentsKept /\ OneFile!OpenFileStays
    /\ part = "volume" => Volume!FileHolds
    /\ part = "shell" => Commands!TextMeant
=============================================================================
