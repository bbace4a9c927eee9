--------------------------------- MODULE FsMeta --------------------------------
(***************************************************************************)
(* The file system's own data: the maps of inodes and sectors, the inodes, *)
(* the root directory, the cache of inodes, and the descriptors of open    *)
(* files (fs/main.c, fs/open.c, fs/link.c, fs/misc.c).                     *)
(*                                                                         *)
(* task_fs handles one message after the other, so a handler is one step.  *)
(* The file system is made anew at every boot (mkfs): what a handler had   *)
(* changed when a panic or an assertion stops the machine is never seen,   *)
(* and left out.  So are the contents of files (i_size, fd_pos).           *)
(***************************************************************************)
EXTENDS Integers, FiniteSetsExt

CONSTANTS
    Users,          \* the processes that call the file system
    Names,          \* the names of regular files; as long as each other, and
                    \* shorter than a name in the directory can be
    NR_TTY,         \* the number of terminals
    NR_INODES,      \* bound: the bits of the inode map that are used
    NR_SECTS,       \* the bits of the sector map
    NR_DEFAULT_FILE_SECTS,  \* the sectors of a file
    n_1st_sect,     \* the first sector for data
    NR_FILES,       \* the length of filp of a process
    NR_FILE_DESC,   \* the length of f_desc_table
    NR_INODE,       \* the length of inode_table
    MaxCnt          \* bound: the references to an inode that are counted

ASSUME SizesAssumption ==
    /\ {NR_TTY, NR_INODES, NR_SECTS, MaxCnt} \subseteq Nat
    /\ {NR_DEFAULT_FILE_SECTS, n_1st_sect} \subseteq Nat \ {0}
    /\ {NR_FILES, NR_FILE_DESC, NR_INODE} \subseteq Nat \ {0}
    /\ NR_INODES > NR_TTY /\ NR_SECTS > NR_DEFAULT_FILE_SECTS

VARIABLES
    imap,           \* the inodes whose bit is set in the inode map
    smap,           \* the bits that are set in the sector map
    disk,           \* per inode: its record on the disk
    dir,            \* the directory, entry by entry, and one past its end
    dir_size,       \* the entries of the directory, by i_size of its inode
    inode_table,    \* the cache
    f_desc_table,   \* per descriptor: its slot of the cache, 0 if it is free
    filp,           \* per process: its descriptors, 0 if there is none
    halted          \* what stopped the machine

fdVars == <<f_desc_table, filp>>
vars == <<imap, smap, disk, dir, dir_size, inode_table, fdVars, halted>>

ROOT_INODE == 1
Inodes == 1 .. NR_INODES
Slots == 1 .. NR_INODE
Descs == 1 .. NR_FILE_DESC
Fds == 0 .. NR_FILES - 1

\* The entries mkfs makes: `.', which is also what the path `/' leads to, and the
\* terminals.
SpecialNames == 0 .. NR_TTY
NoName == -1
NoEntry == [inode |-> 0, name |-> NoName]

ASSUME NamesAssumption == NoName \notin Names

Modes == {"none", "regular", "directory", "char"}
NoInode == [mode |-> "none", start |-> 0]
FreeSlot == [cnt |-> 0, num |-> 0, mode |-> "none", start |-> 0]

\* The bits of the sector map for a file that starts at a sector.  Bit 0 is
\* reserved.
Run(start) == LET b == start - n_1st_sect + 1 IN b .. b + NR_DEFAULT_FILE_SECTS - 1

TypeOK ==
    /\ imap \subseteq Inodes
    /\ smap \subseteq 0 .. NR_SECTS - 1
    /\ disk \in [Inodes -> [mode : Modes, start : Nat]]
    /\ dir \in [0 .. NR_INODES -> [inode : Inodes \cup {0},
                                   name : Names \cup SpecialNames \cup {NoName}]]
    /\ dir_size \in 0 .. NR_INODES
    /\ inode_table \in [Slots -> [cnt : 0 .. MaxCnt + 1, num : Inodes \cup {0},
                                  mode : Modes, start : Nat]]
    /\ f_desc_table \in [Descs -> Slots \cup {0}]
    /\ filp \in [Users -> [Fds -> Descs \cup {0}]]
    /\ halted \in {"no", "full", "smap", "assert", "flg"}

\* init_fs: mkfs, and the inode of the root directory is in use for good.
Init ==
    /\ imap = 1 .. NR_TTY + 1
    /\ smap = 0 .. NR_DEFAULT_FILE_SECTS
    /\ disk = [i \in Inodes |->
                CASE i = ROOT_INODE -> [mode |-> "directory", start |-> n_1st_sect]
                  [] i \in 2 .. NR_TTY + 1 -> [mode |-> "char", start |-> i - 2]
                  [] i > NR_TTY + 1 -> NoInode]
    /\ dir = [p \in 0 .. NR_INODES |->
                IF p <= NR_TTY THEN [inode |-> p + 1, name |-> p] ELSE NoEntry]
    /\ dir_size = NR_TTY + 1
    /\ inode_table = [s \in Slots |->
                        IF s = 1 THEN [cnt |-> 1, num |-> ROOT_INODE,
                                       mode |-> "directory", start |-> n_1st_sect]
                        ELSE FreeSlot]
    /\ f_desc_table = [d \in Descs |-> 0]
    /\ filp = [u \in Users |-> [fd \in Fds |-> 0]]
    /\ halted = "no"

Halt(why) ==
    /\ halted' = why
    /\ UNCHANGED <<imap, smap, disk, dir, dir_size, inode_table, fdVars>>

-----------------------------------------------------------------------------
(***************************************************************************)
(* search_file, get_inode, put_inode and the tables of descriptors.        *)
(***************************************************************************)
\* Mutation: the search ends one entry early.
SearchEarly(name) ==
    LET found == {p \in 0 .. dir_size - 2 : dir[p].name = name} IN
    IF found = {} THEN 0 ELSE dir[Min(found)].inode

\* The name is compared before the end is, so the search looks at one entry past
\* the directory.
SearchFile(name) ==
    LET found == {p \in 0 .. dir_size : dir[p].name = name} IN
    IF found = {} THEN 0 ELSE dir[Min(found)].inode

FreeSlots == {s \in Slots : inode_table[s].cnt = 0}
Caching(num) == {s \in Slots : inode_table[s].cnt > 0 /\ inode_table[s].num = num}

\* get_inode panics.
TableFull(num) == FreeSlots = {} /\ Caching(num) = {}

\* Mutation: get_inode stops at the first slot it could use.
SlotForFirst(num) == Min(Caching(num) \cup FreeSlots)

SlotFor(num) == Min(IF Caching(num) # {} THEN Caching(num) ELSE FreeSlots)

\* Mutation: an inode that is there is not counted again.
GetInodeUncounted(num) ==
    LET s == SlotFor(num) IN
    IF inode_table[s].cnt > 0 THEN inode_table
    ELSE [inode_table EXCEPT ![s] =
            [cnt |-> 1, num |-> num, mode |-> disk[num].mode, start |-> disk[num].start]]

\* inode_table after get_inode.
GetInode(num) ==
    LET s == SlotFor(num) IN
    IF inode_table[s].cnt > 0 THEN [inode_table EXCEPT ![s].cnt = @ + 1]
    ELSE [inode_table EXCEPT ![s] =
            [cnt |-> 1, num |-> num, mode |-> disk[num].mode, start |-> disk[num].start]]

\* put_inode of one slot.  What a free slot holds is never read.
PutInode(slot) == IF slot.cnt = 1 THEN FreeSlot ELSE [slot EXCEPT !.cnt = @ - 1]

FreeFds(u) == {fd \in Fds : filp[u][fd] = 0}
FreeDescs == {d \in Descs : f_desc_table[d] = 0}
HasRoom(u) == FreeFds(u) # {} /\ FreeDescs # {}

\* The end of do_open: the process, a descriptor and the inode are connected.
Connect(u, slot) ==
    /\ filp' = [filp EXCEPT ![u][Min(FreeFds(u))] = Min(FreeDescs)]
    /\ f_desc_table' = [f_desc_table EXCEPT ![Min(FreeDescs)] = slot]

-----------------------------------------------------------------------------
(***************************************************************************)
(* do_open.                                                                *)
(***************************************************************************)
\* The tables are looked at first, whatever is opened.
OpenWithoutRoom(u) ==
    /\ halted = "no"
    /\ ~HasRoom(u)
    /\ Halt("full")

\* Without O_CREAT.  A name that is not found changes nothing.
Open(u, name) ==
    /\ halted = "no" /\ HasRoom(u)
    /\ LET num == SearchFile(name) IN
        /\ num # 0
        /\ IF TableFull(num) THEN Halt("full")
           ELSE LET table == GetInode(num)
                    mode == table[SlotFor(num)].mode
                IN  /\ table[SlotFor(num)].cnt <= MaxCnt
                    /\ IF mode = "none" \/ (mode = "directory" /\ num # ROOT_INODE)
                       THEN Halt("assert")
                       ELSE /\ inode_table' = table
                            /\ Connect(u, SlotFor(num))
                            /\ UNCHANGED <<imap, smap, disk, dir, dir_size, halted>>

NewInode == Min(Inodes \ imap)
FirstBit == Min((0 .. NR_SECTS - 1) \ smap)

\* Mutation: one bit too few is taken.
NewBitsShort == FirstBit .. FirstBit + NR_DEFAULT_FILE_SECTS - 2

NewBits == FirstBit .. FirstBit + NR_DEFAULT_FILE_SECTS - 1
NoSectors == (0 .. NR_SECTS - 1) \subseteq smap

\* The record alloc_smap_bit and new_inode make.
NewRecord == [mode |-> "regular", start |-> FirstBit - 1 + n_1st_sect]

\* Mutation: an entry that was deleted is not used again.
NewPositionAtEnd == dir_size

\* new_dir_entry: the first entry that is free, or the end.
NewPosition ==
    LET free == {p \in 0 .. dir_size - 1 : dir[p].inode = 0} IN
    IF free = {} THEN dir_size ELSE Min(free)

\* With O_CREAT; a name that exists changes nothing.  The inode map never runs
\* out (NR_INODES).
CanCreate(u, name) ==
    /\ halted = "no" /\ HasRoom(u)
    /\ SearchFile(name) = 0
    /\ imap # Inodes

CreateFits ==
    /\ ~NoSectors
    /\ NewBits \subseteq (0 .. NR_SECTS - 1) \ smap
    /\ ~TableFull(NewInode)

\* alloc_smap_bit finds a bit of the run set (its first assertion), or too few bits (the
\* second one), or get_inode finds no slot.
CreateHalts(u, name) ==
    /\ CanCreate(u, name)
    /\ ~CreateFits
    /\ Halt(IF ~NoSectors /\ NewBits \cap smap # {} THEN "assert"
            ELSE IF NoSectors \/ ~(NewBits \subseteq 0 .. NR_SECTS - 1) THEN "smap"
            ELSE "full")

Create(u, name) ==
    /\ CanCreate(u, name)
    /\ CreateFits
    /\ imap' = imap \cup {NewInode}
    /\ smap' = smap \cup NewBits
    /\ inode_table' = [GetInode(NewInode) EXCEPT ![SlotFor(NewInode)] =
                        [cnt |-> 1, num |-> NewInode,
                         mode |-> NewRecord.mode, start |-> NewRecord.start]]
    /\ disk' = [disk EXCEPT ![NewInode] = NewRecord]
    /\ dir' = [dir EXCEPT ![NewPosition] = [inode |-> NewInode, name |-> name]]
    /\ dir_size' = IF NewPosition = dir_size THEN dir_size + 1 ELSE dir_size
    /\ Connect(u, SlotFor(NewInode))
    /\ UNCHANGED halted

-----------------------------------------------------------------------------
(***************************************************************************)
(* do_close and do_unlink.                                                 *)
(***************************************************************************)
\* The process closes a descriptor it has.
Close(u, fd) ==
    /\ halted = "no"
    /\ filp[u][fd] # 0
    /\ LET d == filp[u][fd]
           s == f_desc_table[d]
       IN  IF inode_table[s].cnt = 0 THEN Halt("assert")
           ELSE /\ inode_table' = [inode_table EXCEPT ![s] = PutInode(@)]
                /\ f_desc_table' = [f_desc_table EXCEPT ![d] = 0]
                /\ filp' = [filp EXCEPT ![u][fd] = 0]
                /\ UNCHANGED <<imap, smap, disk, dir, dir_size, halted>>

\* Mutation: only special files are kept.
KeptUnlessRegular(slot) == slot.mode # "regular"

\* do_unlink does not remove the file of a slot get_inode has returned.
Kept(slot) == slot.mode # "regular" \/ slot.cnt > 1

CanUnlink(name, num) == halted = "no" /\ num # 0 /\ num = SearchFile(name)

\* The file is open, or special.  What get_inode has counted stays.
UnlinkRefused(name) ==
    \E num \in Inodes :
        /\ CanUnlink(name, num)
        /\ IF TableFull(num) THEN Halt("full")
           ELSE LET slot == GetInode(num)[SlotFor(num)] IN
                /\ Kept(slot)
                /\ slot.cnt <= MaxCnt
                /\ inode_table' = GetInode(num)
                /\ UNCHANGED <<imap, smap, disk, dir, dir_size, fdVars, halted>>

\* Mutation: the bit before the first one of the file is cleared, not the last.
FreedBitsShifted(start) == {b - 1 : b \in Run(start)}

FreedBits(start) == Run(start)

\* The entries of the directory that are used before a position: what do_unlink
\* takes for the size when it removes the last one.
UsedBefore(p) == Cardinality({q \in 0 .. p - 1 : dir[q].inode # 0})

Unlink(name) ==
    \E num \in Inodes :
        /\ CanUnlink(name, num)
        /\ ~TableFull(num)
        /\ LET s == SlotFor(num)
               slot == GetInode(num)[s]
               bits == FreedBits(slot.start)
               at == {p \in 0 .. dir_size - 1 : dir[p].inode = num}
           IN  /\ ~Kept(slot)
               /\ IF num \notin imap \/ ~(bits \subseteq smap) THEN Halt("assert")
                  ELSE IF at = {} THEN Halt("flg")
                  ELSE /\ imap' = imap \ {num}
                       /\ smap' = smap \ bits
                       /\ disk' = [disk EXCEPT ![num] = NoInode]
                       /\ inode_table' = [inode_table EXCEPT ![s] = FreeSlot]
                       /\ dir' = [dir EXCEPT ![Min(at)] = NoEntry]
                       /\ dir_size' = IF Min(at) = dir_size - 1
                                      THEN UsedBefore(Min(at)) ELSE dir_size
                       /\ UNCHANGED <<fdVars, halted>>

-----------------------------------------------------------------------------
Next ==
    \/ \E u \in Users :
        \/ OpenWithoutRoom(u)
        \/ \E name \in Names : Create(u, name) \/ CreateHalts(u, name)
        \/ \E name \in Names \cup SpecialNames : Open(u, name)
        \/ \E fd \in Fds : Close(u, fd)
    \/ \E name \in Names \cup SpecialNames : Unlink(name) \/ UnlinkRefused(name)

Spec == Init /\ [][Next]_vars

-----------------------------------------------------------------------------
\* The sector map is the sum of the files: no file is in another one's sectors,
\* and none keeps its sectors when it is removed.
Stored == {i \in imap : disk[i].mode \in {"regular", "directory"}}

MapsExact ==
    /\ \A i, j \in Stored : i # j => Run(disk[i].start) \cap Run(disk[j].start) = {}
    /\ smap = {0} \cup UNION {Run(disk[i].start) : i \in Stored}

\* The cache has one slot for an inode, and what the slot says is on the disk:
\* two opens never work on two copies.
CacheAgrees ==
    \A s \in Slots : inode_table[s].cnt > 0 =>
        LET slot == inode_table[s] IN
        /\ slot.num \in imap
        /\ Caching(slot.num) = {s}
        /\ disk[slot.num] = [mode |-> slot.mode, start |-> slot.start]

\* An inode is counted at least as often as it is open: its slot is not given
\* away, and its file not removed, under a descriptor.
RefsCoverDescs ==
    /\ \A s \in Slots :
        inode_table[s].cnt >= Cardinality({d \in Descs : f_desc_table[d] = s})
    /\ \A d \in Descs : f_desc_table[d] # 0 <=> \E u \in Users, fd \in Fds : filp[u][fd] = d
    /\ inode_table[1].num = ROOT_INODE /\ inode_table[1].cnt > 0

\* While a descriptor is open it stays with the same file, whatever others
\* create, close and unlink.
OpenFilesStay ==
    [][\A d \in Descs :
        LET s == f_desc_table[d] IN
        s # 0 /\ f_desc_table'[d] = s =>
            /\ inode_table'[s].num = inode_table[s].num
            /\ disk'[inode_table[s].num] = disk[inode_table[s].num]]_vars

\* Within its size, the directory leads from different names to different files
\* that exist.
DirectoryMaps ==
    \A p, q \in 0 .. dir_size - 1 : dir[p].inode # 0 =>
        /\ dir[p].inode \in imap
        /\ p # q => dir[p].inode # dir[q].inode /\ dir[p].name # dir[q].name

\* There are sectors for one more file.
RoomForFile ==
    LET free == (0 .. NR_SECTS - 1) \ smap IN
    \E b \in free : b .. b + NR_DEFAULT_FILE_SECTS - 1 \subseteq free

\* The assertions about the maps, the counts and the modes never fail, but for the one
\* that alloc_smap_bit has found all its sectors (open.c:327): that one fails when a file
\* is created after the sectors are used up, and never while there are enough.
AssertsHold ==
    /\ halted # "assert"
    /\ halted = "smap" => ~RoomForFile

-----------------------------------------------------------------------------
\* link.c:193, assert(flg): the file that is unlinked is in the directory.
UnlinkFindsEntry == halted # "flg"
=============================================================================
