------------------------------- MODULE Shell --------------------------------
(***************************************************************************)
(* The commands of the kernel's shell on the FAT32 volume (kernel.c), with *)
(* the walk along a path (vfs.c).  The shell keeps the current directory   *)
(* twice: as a cluster, which cd, rename and the search of rmdir use, and  *)
(* as a path, which everything that opens, makes or removes a file uses.   *)
(* A cluster is a row of cells of 32 bytes, each an entry of a directory   *)
(* or a piece of a text: nothing clears it when it changes hands.  Chains  *)
(* of more than one cluster, and files that stay open, are left to Fat.    *)
(* Words are typed names without a slash, in upper case and of at most     *)
(* eight letters, either without a dot or with three letters after it      *)
(* (Sealed).  The shell does not cut its line after the first word: a      *)
(* command of two words that opens the first asks for the rest of the line *)
(* with it, which only a name that is Sealed hides.                        *)
(***************************************************************************)
EXTENDS Integers, FiniteSetsExt, SequencesExt

CONSTANTS
    Clus,       \* data clusters, the root's excepted
    SLOTS,      \* cells of a cluster; a directory never grows
    Words,      \* typed names
    Mounts,     \* names other volumes are mounted at ("jfs")
    Sealed,     \* the words with a dot and a full extension
    Lines,      \* texts typed after a name, in pieces
    PATH,       \* names cwd_path has room for (127 bytes)
    MaxText,    \* bound: pieces of a file, which leave room in a cluster
    Careful     \* TRUE: a file gets a name that is free and sealed, no
                \* shorter text than it has and a cluster; a directory gets
                \* a name that is free, an entry and a cluster no text was
                \* in, and is removed by rmdir

ShellAssumption ==
    /\ Clus \subseteq Nat \ {0} /\ Sealed \subseteq Words
    /\ SLOTS \in Nat \ {0} /\ PATH \in Nat /\ MaxText \in 0 .. SLOTS - 1
    /\ Careful \in BOOLEAN

VARIABLES
    node,       \* the cells of a cluster
    taken,      \* clusters that are not free in the table
    cwd_clus,   \* the current directory, 0 for the root
    cwd_path    \* the same, as the names cd was given

shellVars == <<node, taken, cwd_clus, cwd_path>>

-----------------------------------------------------------------------------
Root == 0
Nowhere == -1
NoEntry == [name |-> <<>>, dir |-> FALSE, to |-> 0, size |-> 0,
            meant |-> <<>>]     \* history: what the commands meant it to hold
Piece(v) == [NoEntry EXCEPT !.name = <<v>>]

ShellTypeOK ==
    /\ taken \subseteq Clus /\ cwd_clus \in Clus \cup {Root}
    /\ \A d \in Clus \cup {Root}, i \in 1 .. SLOTS :
          /\ node[d][i].to \in Clus \cup {0}
          /\ node[d][i].size \in 0 .. MaxText
    /\ cwd_path \in Seq(Words \cup {""})

ShellInit ==
    /\ node = [d \in Clus \cup {Root} |-> [i \in 1 .. SLOTS |-> NoEntry]]
    /\ taken = {} /\ cwd_clus = Root /\ cwd_path = <<>>

-----------------------------------------------------------------------------
(* fat32_find_raw_in and write_dir_entry_in.                               *)
Named(d, n) == {i \in 1 .. SLOTS : node[d][i].name = n}
Folders(d, n) == {i \in Named(d, n) : node[d][i].dir}
Free(d) == {i \in 1 .. SLOTS : node[d][i] = NoEntry}
Added(d, e) ==
    IF Free(d) = {} THEN node ELSE [node EXCEPT ![d][Min(Free(d))] = e]

(* What to_83 makes of a word and the rest of its line.                    *)
Joined(w, rest) == IF w \in Sealed THEN <<w>> ELSE <<w>> \o rest

(* What format_83_name makes of a word in front of another: the name ends  *)
(* at the blank, but the extension is looked for behind it as well.        *)
Cut(w, v) == IF w \in Sealed \/ v \notin Sealed THEN <<w>> ELSE <<w, "", v>>

(* find_mount: whether what is below the path is on another volume.        *)
Elsewhere(path) == path # <<>> /\ path[1] \in Mounts

(* path_walk: by the first entry of each name.  A file on the way is read  *)
(* as if it were a directory; one without a cluster leads nowhere.         *)
Walk(path) ==
    IF Elsewhere(path) THEN Nowhere ELSE
    FoldLeft(LAMBDA d, w :
                 IF d = Nowhere \/ Named(d, <<w>>) = {} THEN Nowhere
                 ELSE LET e == node[d][Min(Named(d, <<w>>))]
                      IN  IF e.to = 0 THEN Nowhere ELSE e.to,
             Root, path)

(* sh_fullpath: the directory of a name that is typed with "/" or without. *)
Where(abs) == IF abs THEN Root ELSE Walk(cwd_path)

(* ls: every entry of the current cluster.                                 *)
Listed == {node[cwd_clus][i].name : i \in (1 .. SLOTS) \ Free(cwd_clus)}

(* fat32_read_raw: the first pieces of the cluster, as many as the size of *)
(* the entry says.                                                         *)
Text(e) ==
    [k \in 1 .. e.size |->
        LET cell == node[e.to][k].name IN IF cell = <<>> THEN "" ELSE Head(cell)]

IsFile(d, n) == Folders(d, n) = {}

-----------------------------------------------------------------------------
(* cd, to the root for "/", ".." or nothing.                               *)
CdRoot ==
    /\ cwd_clus' = Root /\ cwd_path' = <<>>
    /\ UNCHANGED <<node, taken>>

(* cd: the first directory of the name; strlcat cuts a path too long, and  *)
(* what is left of the last name is no one's.                              *)
Cd(w) ==
    /\ Folders(cwd_clus, <<w>>) # {}
    /\ Careful => Len(cwd_path) < PATH
    /\ cwd_clus' = node[cwd_clus][Min(Folders(cwd_clus, <<w>>))].to
    /\ cwd_path' = IF Len(cwd_path) < PATH THEN Append(cwd_path, w)
                   ELSE Append(SubSeq(cwd_path, 1, PATH), "")
    /\ UNCHANGED <<node, taken>>

(* fat32_alloc_cluster: the first free cluster.                            *)
FreeClus == Clus \ taken
Pieces(c) ==
    {i \in 1 .. SLOTS :
        node[c][i].name # <<>> /\ Head(node[c][i].name) \notin Words}

(* mkdir: neither is the name looked for nor the cluster cleared, and an   *)
(* entry that finds no room is dropped.                                    *)
Mkdir(w, abs) ==
    LET d == Where(abs)
        c == Min(FreeClus)
    IN  /\ d # Nowhere /\ FreeClus # {}
        /\ Careful => Named(d, <<w>>) = {} /\ Free(d) # {} /\ Pieces(c) = {}
        /\ node' = Added(d, [NoEntry EXCEPT !.name = <<w>>, !.dir = TRUE,
                                            !.to = c])
        /\ taken' = taken \cup {c}
        /\ UNCHANGED <<cwd_clus, cwd_path>>

(* fat32_ops_unlink: the first entry of the name, whatever it is, and its  *)
(* cluster, which keeps what it holds.                                     *)
Unlinked(d, n) ==
    LET i == Min(Named(d, n))
    IN  /\ d # Nowhere /\ Named(d, n) # {}
        /\ node' = [node EXCEPT ![d][i] = NoEntry]
        /\ taken' = taken \ {node[d][i].to}
        /\ UNCHANGED <<cwd_clus, cwd_path>>

Rm(w, abs) ==
    /\ Careful => IsFile(Where(abs), <<w>>)
    /\ Unlinked(Where(abs), <<w>>)

(* rmdir: the directory is found and looked at from the cluster, the name  *)
(* is removed along the path.                                              *)
Rmdir(w) ==
    LET found == Folders(cwd_clus, <<w>>)
        d == node[cwd_clus][Min(found)].to
    IN  /\ found # {}
        /\ Free(d) = 1 .. SLOTS
        /\ Unlinked(Where(FALSE), <<w>>)

(* rename, with fat32_rename_in: in the current cluster.                   *)
Rename(word, new) ==
    LET old == Cut(word, new) IN
    /\ Named(cwd_clus, old) # {} /\ Named(cwd_clus, <<new>>) = {}
    /\ node' = [node EXCEPT ![cwd_clus][Min(Named(cwd_clus, old))].name =
                  <<new>>]
    /\ UNCHANGED <<taken, cwd_clus, cwd_path>>

-----------------------------------------------------------------------------
(* sh_open, and sh_create for a name that is not there: the entry of the   *)
(* file, and the directory with it.                                        *)
Opened(d, n) ==
    IF Named(d, n) # {} THEN node
    ELSE Added(d, [NoEntry EXCEPT !.name = n])

Touch(w, abs) ==
    LET d == Where(abs)
    IN  /\ d # Nowhere
        /\ Careful => Free(d) # {}
        /\ node' = Opened(d, <<w>>)
        /\ UNCHANGED <<taken, cwd_clus, cwd_path>>

(* The cells of a cluster after `new` is written from `at`.                *)
Over(cells, at, new) ==
    [k \in 1 .. SLOTS |-> IF k \in at + 1 .. at + Len(new) THEN Piece(new[k - at])
                          ELSE cells[k]]

(* fat32_ops_write and fat32_write_raw: the first write of a file takes a  *)
(* cluster, or fails; the entry is that of the name (patch_dir_cluster,    *)
(* patch_dir_size).  The file is made first where there is none.           *)
Put(d, n, at, new, meant) ==
    LET tree == Opened(d, n)
        i == CHOOSE k \in 1 .. SLOTS :
                 tree[d][k].name = n /\ \A j \in 1 .. k - 1 : tree[d][j].name # n
        e == tree[d][i]
        c == IF e.to = 0 THEN Min(FreeClus) ELSE e.to
    IN  /\ d # Nowhere /\ at + Len(new) <= MaxText
        /\ Careful => /\ IsFile(d, n) /\ Named(d, n) \cup Free(d) # {}
                      /\ e.to = 0 => FreeClus # {}
        /\ IF \/ \A k \in 1 .. SLOTS : tree[d][k].name # n
              \/ e.to = 0 /\ FreeClus = {}
              \/ new = <<>>
           THEN node' = tree /\ UNCHANGED taken
           ELSE /\ node' = [tree EXCEPT
                             ![d][i].to = c, ![d][i].meant = meant,
                             ![d][i].size = Max({@, at + Len(new)}),
                             ![c] = Over(@, at, new)]
                /\ taken' = taken \cup {c}
        /\ UNCHANGED <<cwd_clus, cwd_path>>

TextOf(d, n) ==
    IF d = Nowhere \/ Named(d, n) = {} THEN <<>>
    ELSE Text(node[d][Min(Named(d, n))])

(* write: from the start; what the file had behind it stays.               *)
Write(w, line) ==
    LET n == Joined(w, line)
    IN  /\ Careful => w \in Sealed /\ Len(TextOf(Where(FALSE), n)) <= Len(line)
        /\ Put(Where(FALSE), n, 0, line, line)

(* append: from the end.                                                   *)
AppendTo(w, line) ==
    LET n == Joined(w, line)
        had == TextOf(Where(FALSE), n)
    IN  /\ Careful => w \in Sealed
        /\ Put(Where(FALSE), n, Len(had), line, had \o line)

(* cp: opened one after the other, read to the end and written from the    *)
(* start.                                                                  *)
Cp(src, dst) ==
    LET n == Joined(src, <<dst>>)
        had == TextOf(Where(FALSE), n)
    IN  /\ Where(FALSE) # Nowhere /\ Named(Where(FALSE), n) # {}
        /\ Careful => /\ src \in Sealed /\ IsFile(Where(FALSE), n)
                      /\ Len(TextOf(Where(FALSE), <<dst>>)) <= Len(had)
        /\ Put(Where(FALSE), <<dst>>, 0, had, had)

ShellNext ==
    \/ CdRoot
    \/ \E w \in Words :
          \/ Cd(w) \/ Rmdir(w)
          \/ \E abs \in BOOLEAN : Mkdir(w, abs) \/ Rm(w, abs) \/ Touch(w, abs)
          \/ \E line \in Lines : Write(w, line) \/ AppendTo(w, line)
          \/ \E v \in Words : Rename(w, v) \/ Cp(w, v)

ShellSpec == ShellInit /\ [][ShellNext]_shellVars

-----------------------------------------------------------------------------
(* The path and the cluster are one directory (cmd_cd, vfs_open): what can *)
(* be opened is what ls lists.                                             *)
CwdTrue ==
    /\ Walk(cwd_path) = cwd_clus
    /\ \A w \in Words : Named(Walk(cwd_path), <<w>>) # {} <=> <<w>> \in Listed

(* A cluster that is taken has one entry, in a directory that can be       *)
(* reached; a directory lists only what was put in it, and a cluster that  *)
(* is free names nothing, so that none made anew shows what a removed one  *)
(* held (fat32_ops_mkdir, fat32_ops_unlink, cmd_rmdir).                    *)
Below(S) == 
    {node[p[1]][p[2]].to :
        p \in {q \in S \X (1 .. SLOTS) : node[q[1]][q[2]].dir}}
Dirs == FoldSet(LAMBDA c, S : S \cup Below(S), {Root}, Clus)
Entries == {p \in Dirs \X (1 .. SLOTS) : node[p[1]][p[2]] # NoEntry}
TreeSound ==
    /\ \A c \in Clus :
          Cardinality({p \in Entries : node[p[1]][p[2]].to = c}) =
             IF c \in taken THEN 1 ELSE 0
    /\ \A d \in Dirs : Pieces(d) = {}
    /\ \A c \in FreeClus : Free(c) = (1 .. SLOTS) \ Pieces(c)

(* A file holds what the commands meant it to hold: the last text written, *)
(* what was appended to it, or what the source of a copy held              *)
(* (cmd_write, cmd_append, cmd_cp).                                        *)
TextMeant ==
    \A p \in Entries :
        LET e == node[p[1]][p[2]] IN ~e.dir => Text(e) = e.meant
=============================================================================
