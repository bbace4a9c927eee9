------------------------------ MODULE FsMetaProofs -----------------------------
(***************************************************************************)
(* The maps, the directory, the cache of inodes and the descriptors agree, *)
(* for tables, files and processes of any number.                          *)
(*                                                                         *)
(* Each of the tables of FS is right only because of the others: a slot of *)
(* the cache may be given away because no descriptor is left on it, an     *)
(* inode because no slot caches it, its sectors because no other inode has *)
(* them.  The directory keeps its inodes apart even behind its end, where  *)
(* the search looks at one entry.                                          *)
(*                                                                         *)
(* The second half is about the loops of FsBytes: they do what FsMeta      *)
(* takes for granted, for bytes, maps and files of any size.  A loop has a *)
(* closed form (LoopState): what its variables are after each turn.  One   *)
(* turn takes the closed form to itself, so the recursive function exists  *)
(* and is the closed form, turn after turn.                                *)
(***************************************************************************)
EXTENDS FsBytes, Loops, TLAPS

\* The positions of the directory.
Entries == 0 .. NR_INODES

\* Every entry, also behind the end of the directory, has an inode of its own.
EntriesAgree ==
    /\ \A p \in Entries : dir[p].inode = 0 <=> dir[p].name = NoName
    /\ \A p, q \in Entries : dir[p].inode # 0 =>
            dir[p].inode \in imap /\ (p # q => dir[p].inode # dir[q].inode)

\* The descriptors on a slot of the cache.
DescsOn(s) == {d \in Descs : f_desc_table[d] = s}

\* A slot is counted for its descriptors, and the first one for the root directory.
CountsAgree ==
    /\ \A s \in Slots : inode_table[s].cnt >= Cardinality(DescsOn(s))
    /\ inode_table[1].cnt > Cardinality(DescsOn(1))
    /\ inode_table[1].num = ROOT_INODE

\* A descriptor belongs to one process, under one number.
FilpsAgree ==
    /\ \A d \in Descs : f_desc_table[d] # 0 <=> \E u \in Users, fd \in Fds : filp[u][fd] = d
    /\ \A u, v \in Users : \A fd, fe \in Fds :
            filp[u][fd] # 0 /\ filp[u][fd] = filp[v][fe] => u = v /\ fd = fe

\* Sectors are given out in runs, from the first one for data on: a run is free or
\* in use as a whole.
RunsAligned ==
    \A i \in Stored : \E k \in 0 .. NR_SECTS :
        disk[i].start = n_1st_sect + k * NR_DEFAULT_FILE_SECTS

\* Every inode in use is of some kind, and the root directory is the only directory.
KindsAgree ==
    \A i \in imap :
        disk[i].mode # "none" /\ (disk[i].mode = "directory" <=> i = ROOT_INODE)

\* No assertion fails, but for the one about the number of sectors.
NoneFails == halted # "assert"

\* The inductive invariant.
IInv ==
    /\ TypeOK
    /\ EntriesAgree
    /\ DirectoryMaps
    /\ CountsAgree
    /\ FilpsAgree
    /\ CacheAgrees
    /\ KindsAgree
    /\ RunsAligned
    /\ MapsExact
    /\ NoneFails

-----------------------------------------------------------------------------
(***************************************************************************)
(* The tables, the runs of sectors, and the operators of FsMeta.           *)
(***************************************************************************)
\* The sizes are numbers, and the tables are not empty.
LEMMA Sizes ==
  /\ NR_TTY \in Nat /\ NR_INODES \in Nat /\ NR_SECTS \in Nat /\ MaxCnt \in Nat
  /\ NR_DEFAULT_FILE_SECTS \in Nat \ {0} /\ n_1st_sect \in Nat \ {0}
  /\ NR_FILES \in Nat \ {0} /\ NR_FILE_DESC \in Nat \ {0} /\ NR_INODE \in Nat \ {0}
  /\ NR_INODES > NR_TTY /\ NR_SECTS > NR_DEFAULT_FILE_SECTS
  /\ ROOT_INODE \in Inodes /\ 1 \in Slots /\ 0 \notin Slots /\ 0 \notin Inodes /\ 0 \notin Descs
  /\ Inodes \subseteq Nat /\ Slots \subseteq Nat /\ Descs \subseteq Nat /\ Fds \subseteq Nat
  /\ Entries \subseteq Nat
BY SizesAssumption DEF ROOT_INODE, Inodes, Slots, Descs, Fds, Entries

\* The loops find the first entry they look for.
LEMMA MinIsLeast ==
  ASSUME NEW S, S \subseteq Nat, S # {}
  PROVE  Min(S) \in S /\ \A k \in S : Min(S) <= k
<1>1. \E m \in S : \A k \in S : m <= k
  BY LeastElement
<1> QED
  BY <1>1 DEF Min

\* The bits of the runs of sectors.
Bits(k) == k * NR_DEFAULT_FILE_SECTS + 1 .. k * NR_DEFAULT_FILE_SECTS + NR_DEFAULT_FILE_SECTS

\* A file that starts where the k-th run does has the bits of that run.
LEMMA RunIsBits ==
  ASSUME NEW k \in Nat
  PROVE  Run(n_1st_sect + k * NR_DEFAULT_FILE_SECTS) = Bits(k)
<1>1. k * NR_DEFAULT_FILE_SECTS \in Nat
  BY Sizes
<1> DEFINE m == k * NR_DEFAULT_FILE_SECTS
<1>2. m \in Nat
  BY <1>1
<1> HIDE DEF m
<1>3. Run(n_1st_sect + m) = m + 1 .. m + NR_DEFAULT_FILE_SECTS
  BY <1>2, Sizes DEF Run
<1> QED
  BY <1>3 DEF m, Bits

\* Two runs with a bit in common are the same run.
LEMMA RunsDiffer ==
  ASSUME NEW j \in Nat, NEW k \in Nat, Bits(j) \cap Bits(k) # {}
  PROVE  j = k
<1> DEFINE D == NR_DEFAULT_FILE_SECTS
<1>1. PICK b \in Int : /\ j * D + 1 <= b /\ b <= j * D + D
                       /\ k * D + 1 <= b /\ b <= k * D + D
  BY Sizes DEF Bits
<1>2. D \in Nat /\ j * D \in Nat /\ k * D \in Nat
  BY Sizes
<1>3. ~(j < k)
  <2> SUFFICES ASSUME j < k PROVE FALSE
    OBVIOUS
  <2>1. j * D + D <= k * D
    BY <1>2, ProductsGrow
  <2> HIDE DEF D
  <2> QED
    BY <1>1, <1>2, <2>1
<1>4. ~(k < j)
  <2> SUFFICES ASSUME k < j PROVE FALSE
    OBVIOUS
  <2>1. k * D + D <= j * D
    BY <1>2, ProductsGrow
  <2> HIDE DEF D
  <2> QED
    BY <1>1, <1>2, <2>1
<1> QED
  BY <1>3, <1>4

\* Every bit but the reserved one is in a run.
LEMMA BitIsInRun ==
  ASSUME NEW b \in Nat \ {0}
  PROVE  \E k \in Nat : k < b /\ b \in Bits(k)
<1> DEFINE D == NR_DEFAULT_FILE_SECTS
           S == {k \in Nat : b <= k * D + D}
<1>1. D \in Nat \ {0} /\ \A k \in Nat : k * D \in Nat
  BY Sizes
<1>2. b - 1 \in S
  <2>1. (b - 1) * D >= b - 1
    BY <1>1
  <2> HIDE DEF D
  <2>2. (b - 1) * D \in Nat
    BY <1>1
  <2> QED
    BY <1>1, <2>1, <2>2
<1>3. PICK k \in S : \A j \in S : k <= j
  <2> HIDE DEF S
  <2>1. S \subseteq Nat
    BY DEF S
  <2> QED
    BY <1>2, <2>1, LeastElement
<1>4. k * D + 1 <= b
  <2>1. CASE k = 0
    <3>1. k * D = 0
      BY <1>1, <2>1
    <3> QED
      BY <3>1
  <2>2. CASE k # 0
    <3>1. k - 1 \in Nat /\ k - 1 \notin S
      BY <1>3, <2>2
    <3>2. ~(b <= (k - 1) * D + D)
      BY <3>1
    <3>3. (k - 1) * D + D = k * D
      BY <1>1
    <3> HIDE DEF D, S
    <3>4. k * D \in Nat
      BY <1>1 DEF S
    <3> QED
      BY <3>2, <3>3, <3>4
  <2> QED
    BY <2>1, <2>2
<1>5. k \in Nat /\ k < b
  BY <1>2, <1>3
<1>6. k * D \in Nat /\ b <= k * D + D
  BY <1>1
<1>7. b \in Bits(k)
  <2> HIDE DEF S
  <2> QED
    BY <1>1, <1>4, <1>6 DEF Bits
<1> QED
  BY <1>5, <1>7

-----------------------------------------------------------------------------
(***************************************************************************)
(* What the handlers change.                                               *)
(***************************************************************************)
diskVars == <<imap, smap, disk, dir, dir_size>>

\* get_inode counts an inode in a slot that caches it, or reads it into a free one.
Gets(num, s) ==
    /\ s \in Slots /\ num \in imap
    /\ \/ /\ inode_table[s].cnt > 0 /\ inode_table[s].cnt < MaxCnt
          /\ inode_table[s].num = num
          /\ inode_table' = [inode_table EXCEPT ![s].cnt = @ + 1]
       \/ /\ inode_table[s].cnt = 0 /\ Caching(num) = {}
          /\ inode_table' = [inode_table EXCEPT ![s] =
                [cnt |-> 1, num |-> num, mode |-> disk[num].mode, start |-> disk[num].start]]

\* A process gets a descriptor that was free.
Connects(u, fd, d, s) ==
    /\ fd \in Fds /\ d \in Descs
    /\ filp[u][fd] = 0 /\ f_desc_table[d] = 0
    /\ filp' = [filp EXCEPT ![u][fd] = d]
    /\ f_desc_table' = [f_desc_table EXCEPT ![d] = s]

\* do_open of a file that is there.
Opens(u, fd, d, num, s) ==
    /\ Gets(num, s)
    /\ Connects(u, fd, d, s)
    /\ UNCHANGED diskVars

\* The inode is in no slot, the run of sectors free, and the name new.
Creates(u, fd, d, name, num, s, p, k) ==
    /\ num \in Inodes \ imap /\ s \in Slots /\ inode_table[s].cnt = 0
    /\ k \in 0 .. NR_SECTS
    /\ Bits(k) \subseteq 0 .. NR_SECTS - 1 /\ Bits(k) \cap smap = {}
    /\ p \in 0 .. dir_size /\ p < NR_INODES
    /\ name \in Names /\ \A q \in 0 .. dir_size : dir[q].name # name
    /\ imap' = imap \cup {num}
    /\ smap' = smap \cup Bits(k)
    /\ disk' = [disk EXCEPT ![num] =
            [mode |-> "regular", start |-> n_1st_sect + k * NR_DEFAULT_FILE_SECTS]]
    /\ inode_table' = [inode_table EXCEPT ![s] = [cnt |-> 1, num |-> num,
            mode |-> "regular", start |-> n_1st_sect + k * NR_DEFAULT_FILE_SECTS]]
    /\ dir' = [dir EXCEPT ![p] = [inode |-> num, name |-> name]]
    /\ dir_size' = IF p = dir_size THEN dir_size + 1 ELSE dir_size
    /\ Connects(u, fd, d, s)

\* do_close.
Closes(u, fd, d, s) ==
    /\ fd \in Fds /\ d \in Descs /\ s \in Slots
    /\ filp[u][fd] = d /\ f_desc_table[d] = s /\ inode_table[s].cnt > 0
    /\ inode_table' = [inode_table EXCEPT ![s] = PutInode(@)]
    /\ f_desc_table' = [f_desc_table EXCEPT ![d] = 0]
    /\ filp' = [filp EXCEPT ![u][fd] = 0]
    /\ UNCHANGED diskVars

\* A refused do_unlink keeps its reference to the inode.
Refuses(num, s) ==
    /\ Gets(num, s)
    /\ UNCHANGED <<diskVars, fdVars>>

\* Nobody has the file open: get_inode had to read it in.
Unlinks(num, s, p) ==
    /\ num \in imap /\ disk[num].mode = "regular" /\ Caching(num) = {}
    /\ s \in Slots /\ inode_table[s].cnt = 0
    /\ p \in 0 .. dir_size - 1 /\ dir[p].inode = num
    /\ imap' = imap \ {num}
    /\ smap' = smap \ Run(disk[num].start)
    /\ disk' = [disk EXCEPT ![num] = NoInode]
    /\ inode_table' = [inode_table EXCEPT ![s] = FreeSlot]
    /\ dir' = [dir EXCEPT ![p] = NoEntry]
    /\ dir_size' \in 0 .. dir_size
    /\ UNCHANGED fdVars

\* The inode search_file returns is one in use; a name it does not find is not in
\* the directory.
LEMMA SearchIs ==
  ASSUME IInv, NEW name
  PROVE  /\ SearchFile(name) # 0 => SearchFile(name) \in imap
         /\ SearchFile(name) = 0 /\ name # NoName =>
                \A p \in 0 .. dir_size : dir[p].name # name
<1> DEFINE found == {p \in 0 .. dir_size : dir[p].name = name}
<1>1. found \subseteq Entries /\ found \subseteq Nat
  BY Sizes DEF IInv, TypeOK, Entries
<1>2. SearchFile(name) = IF found = {} THEN 0 ELSE dir[Min(found)].inode
  BY DEF SearchFile
<1>3. CASE found = {}
  BY <1>2, <1>3
<1>4. CASE found # {}
  <2>1. Min(found) \in found
    BY <1>1, <1>4, MinIsLeast
  <2>2. PICK p \in Entries : p = Min(found) /\ dir[p].name = name
    BY <1>1, <2>1
  <2>3. SearchFile(name) = dir[p].inode
    BY <1>2, <1>4, <2>2
  <2> QED
    BY <2>2, <2>3 DEF IInv, EntriesAgree
<1> QED
  BY <1>3, <1>4

\* The slot get_inode uses has the inode, or is free when none has.
LEMMA SlotIs ==
  ASSUME TypeOK, NEW num \in Inodes, ~TableFull(num)
  PROVE  /\ SlotFor(num) \in Slots
         /\ inode_table[SlotFor(num)].cnt \in Nat
         /\ inode_table[SlotFor(num)].cnt > 0 => inode_table[SlotFor(num)].num = num
         /\ inode_table[SlotFor(num)].cnt = 0 => Caching(num) = {}
<1> DEFINE S == IF Caching(num) # {} THEN Caching(num) ELSE FreeSlots
<1>1. S # {} /\ S \subseteq Slots /\ S \subseteq Nat
  BY Sizes DEF TableFull, Caching, FreeSlots
<1>2. PICK s \in Slots : s = SlotFor(num) /\ s \in S
  BY <1>1, MinIsLeast DEF SlotFor
<1>3. inode_table[s].cnt \in Nat
  BY <1>2, Sizes DEF TypeOK
<1>4. CASE Caching(num) # {}
  BY <1>2, <1>3, <1>4 DEF Caching
<1>5. CASE Caching(num) = {}
  BY <1>2, <1>3, <1>5 DEF FreeSlots
<1> QED
  BY <1>2, <1>3, <1>4, <1>5

\* What get_inode returns is as it is on the disk.
LEMMA GotIsOnDisk ==
  ASSUME IInv, NEW num \in Inodes, ~TableFull(num)
  PROVE  /\ GetInode(num)[SlotFor(num)].mode = disk[num].mode
         /\ GetInode(num)[SlotFor(num)].start = disk[num].start
         /\ GetInode(num)[SlotFor(num)].cnt = inode_table[SlotFor(num)].cnt + 1
<1> DEFINE s == SlotFor(num)
<1>1. s \in Slots /\ inode_table[s] \in [cnt : 0 .. MaxCnt + 1, num : Inodes \cup {0},
                                         mode : Modes, start : Nat]
  BY SlotIs DEF IInv, TypeOK
<1>2. inode_table \in [Slots -> [cnt : 0 .. MaxCnt + 1, num : Inodes \cup {0},
                                 mode : Modes, start : Nat]]
  BY DEF IInv, TypeOK
<1>3. CASE inode_table[s].cnt > 0
  <2>1. inode_table[s].num = num
    BY <1>3, SlotIs DEF IInv
  <2>2. disk[num] = [mode |-> inode_table[s].mode, start |-> inode_table[s].start]
    BY <1>1, <1>3, <2>1 DEF IInv, CacheAgrees
  <2>3. GetInode(num) = [inode_table EXCEPT ![s].cnt = @ + 1]
    BY <1>3 DEF GetInode
  <2> HIDE DEF s
  <2>4. GetInode(num)[s] = [inode_table[s] EXCEPT !.cnt = @ + 1]
    BY <1>1, <1>2, <2>3
  <2> QED
    BY <1>1, <2>2, <2>4 DEF s
<1>4. CASE ~(inode_table[s].cnt > 0)
  <2>1. inode_table[s].cnt = 0
    BY <1>1, <1>4, Sizes
  <2>2. GetInode(num) = [inode_table EXCEPT ![s] =
            [cnt |-> 1, num |-> num, mode |-> disk[num].mode, start |-> disk[num].start]]
    BY <1>4 DEF GetInode
  <2> HIDE DEF s
  <2> QED
    BY <1>1, <1>2, <2>1, <2>2 DEF s
<1> QED
  BY <1>3, <1>4

\* A step that stores what get_inode returns counts the inode, or reads it in.
LEMMA GetsIs ==
  ASSUME IInv, NEW num \in imap, ~TableFull(num),
         GetInode(num)[SlotFor(num)].cnt <= MaxCnt, inode_table' = GetInode(num)
  PROVE  Gets(num, SlotFor(num))
<1> DEFINE s == SlotFor(num)
<1>1. num \in Inodes
  BY DEF IInv, TypeOK
<1>2. /\ s \in Slots /\ inode_table[s].cnt \in Nat
      /\ inode_table[s].cnt > 0 => inode_table[s].num = num
      /\ inode_table[s].cnt = 0 => Caching(num) = {}
  BY <1>1, SlotIs DEF IInv
<1>3. inode_table[s].cnt + 1 <= MaxCnt
  BY <1>1, GotIsOnDisk
<1>4. CASE inode_table[s].cnt > 0
  <2>1. inode_table' = [inode_table EXCEPT ![s].cnt = @ + 1]
    BY <1>4 DEF GetInode
  <2> QED
    BY <1>2, <1>3, <1>4, <2>1, Sizes DEF Gets
<1>5. CASE ~(inode_table[s].cnt > 0)
  <2>1. inode_table' = [inode_table EXCEPT ![s] =
            [cnt |-> 1, num |-> num, mode |-> disk[num].mode, start |-> disk[num].start]]
    BY <1>5 DEF GetInode
  <2> QED
    BY <1>2, <1>5, <2>1 DEF Gets
<1> QED
  BY <1>4, <1>5

\* The first run with a free bit is free.
LEMMA NewRunIsFree ==
  ASSUME IInv, ~NoSectors
  PROVE  \E k \in 0 .. NR_SECTS :
            /\ NewBits = Bits(k) /\ NewBits \cap smap = {}
            /\ NewRecord.start = n_1st_sect + k * NR_DEFAULT_FILE_SECTS
<1> DEFINE free == (0 .. NR_SECTS - 1) \ smap
<1>1. free # {} /\ free \subseteq Nat
  BY DEF NoSectors
<1>2. /\ FirstBit \in free /\ FirstBit \in Nat /\ FirstBit < NR_SECTS
      /\ \A b \in free : FirstBit <= b
  <2>1. FirstBit \in free /\ \A b \in free : FirstBit <= b
    BY <1>1, MinIsLeast DEF FirstBit
  <2> QED
    BY <1>1, <2>1, Sizes
<1>3. 0 \in smap
  BY DEF IInv, MapsExact
<1>4. PICK k \in Nat : k < FirstBit /\ FirstBit \in Bits(k)
  <2>1. FirstBit # 0
    BY <1>2, <1>3
  <2> QED
    BY <1>2, <2>1, BitIsInRun
<1>5. Bits(k) \cap smap = {}
  <2> SUFFICES ASSUME NEW b \in Bits(k), b \in smap
               PROVE  FALSE
    OBVIOUS
  <2>1. b # 0
    <3>1. k * NR_DEFAULT_FILE_SECTS \in Nat
      BY Sizes
    <3> QED
      BY <3>1, Sizes DEF Bits
  <2>2. PICK i \in Stored : b \in Run(disk[i].start)
    BY <2>1 DEF IInv, MapsExact
  <2>3. PICK j \in 0 .. NR_SECTS : disk[i].start = n_1st_sect + j * NR_DEFAULT_FILE_SECTS
    BY DEF IInv, RunsAligned
  <2>4. b \in Bits(j) /\ j \in Nat
    BY <2>2, <2>3, RunIsBits
  <2>5. j = k
    BY <2>4, RunsDiffer
  <2>6. FirstBit \in Run(disk[i].start)
    BY <1>4, <2>3, <2>4, <2>5, RunIsBits
  <2>7. FirstBit \in smap
    BY <2>6 DEF IInv, MapsExact
  <2> QED
    BY <1>2, <2>7
<1>6. FirstBit = k * NR_DEFAULT_FILE_SECTS + 1
  <2> DEFINE m == k * NR_DEFAULT_FILE_SECTS
  <2>1. m \in Nat
    BY Sizes
  <2>2. m + 1 <= FirstBit
    BY <1>4 DEF Bits
  <2>3. m + 1 \in Bits(k)
    <3> HIDE DEF m
    <3> QED
      BY <2>1, Sizes DEF Bits, m
  <2>4. m + 1 \in free
    <3> HIDE DEF m
    <3> QED
      BY <1>2, <1>5, <2>1, <2>2, <2>3, Sizes
  <2> HIDE DEF m
  <2>5. FirstBit <= m + 1
    BY <1>2, <2>4
  <2> QED
    BY <1>2, <2>1, <2>2, <2>5 DEF m
<1>7. NewBits = Bits(k) /\ NewRecord.start = n_1st_sect + k * NR_DEFAULT_FILE_SECTS
  <2> DEFINE m == k * NR_DEFAULT_FILE_SECTS
  <2>1. m \in Nat /\ FirstBit = m + 1 /\ Bits(k) = m + 1 .. m + NR_DEFAULT_FILE_SECTS
    BY <1>6, Sizes DEF Bits
  <2> HIDE DEF m
  <2>2. NewBits = Bits(k)
    BY <2>1, Sizes DEF NewBits
  <2>3. NewRecord.start = n_1st_sect + m
    BY <2>1, Sizes DEF NewRecord
  <2> QED
    BY <2>2, <2>3 DEF m
<1>8. k \in 0 .. NR_SECTS
  BY <1>2, <1>4, Sizes
<1> QED
  BY <1>5, <1>7, <1>8

\* A descriptor on a slot is among those that the slot is counted for.
LEMMA DescsAreFinite ==
  ASSUME NEW s
  PROVE  /\ IsFiniteSet(DescsOn(s)) /\ Cardinality(DescsOn(s)) \in Nat
         /\ \A d \in DescsOn(s) : Cardinality(DescsOn(s)) > 0
<1>1. IsFiniteSet(Descs)
  BY Sizes, FS_Interval DEF Descs
<1>2. IsFiniteSet(DescsOn(s))
  BY <1>1, FS_Subset DEF DescsOn
<1>3. Cardinality(DescsOn(s)) \in Nat
  BY <1>2, FS_CardinalityType
<1>4. Cardinality(DescsOn(s)) = 0 <=> DescsOn(s) = {}
  BY <1>2, FS_EmptySet
<1> QED
  BY <1>2, <1>3, <1>4

\* While inodes are left the directory has room for one more entry.
LEMMA DirectoryFits ==
  ASSUME IInv, imap # Inodes, \A p \in 0 .. dir_size - 1 : dir[p].inode # 0
  PROVE  dir_size < NR_INODES
<1> DEFINE P == 0 .. dir_size - 1
           f == [p \in P |-> dir[p].inode]
<1>1. dir_size \in Nat /\ P \subseteq Entries /\ imap \subseteq Inodes
  BY Sizes DEF IInv, TypeOK, Entries
<1>2. IsFiniteSet(Inodes) /\ Cardinality(Inodes) = NR_INODES
  BY Sizes, FS_Interval DEF Inodes
<1>3. IsFiniteSet(imap) /\ Cardinality(imap) <= NR_INODES /\ Cardinality(imap) # NR_INODES
  BY <1>1, <1>2, FS_Subset
<1>4. f \in Injection(P, imap)
  <2>1. \A p \in P : dir[p].inode \in imap
    BY <1>1 DEF IInv, EntriesAgree
  <2>2. \A p, q \in P : dir[p].inode = dir[q].inode => p = q
    BY <1>1 DEF IInv, EntriesAgree
  <2> QED
    BY <2>1, <2>2 DEF Injection, IsInjective
<1>5. Cardinality(P) <= Cardinality(imap)
  <2> HIDE DEF f, P
  <2> QED
    BY <1>3, <1>4, FS_Injection
<1>6. Cardinality(P) = dir_size
  <2>1. dir_size - 1 \in Int /\ 0 \in Int
    BY <1>1
  <2>2. Cardinality(P) = IF 0 > dir_size - 1 THEN 0 ELSE dir_size - 1 - 0 + 1
    BY <2>1, FS_Interval
  <2> HIDE DEF P
  <2> QED
    BY <1>1, <2>2
<1>7. Cardinality(imap) \in Nat
  BY <1>3, FS_CardinalityType
<1> QED
  BY <1>1, <1>3, <1>5, <1>6, <1>7, Sizes

\* do_open connects a number of the process that is free with a free descriptor.
LEMMA ConnectIs ==
  ASSUME IInv, NEW u \in Users, NEW s, HasRoom(u), Connect(u, s)
  PROVE  \E fd, d : Connects(u, fd, d, s)
<1>1. Min(FreeFds(u)) \in FreeFds(u)
  BY MinIsLeast, Sizes DEF HasRoom, FreeFds
<1>2. Min(FreeDescs) \in FreeDescs
  BY MinIsLeast, Sizes DEF HasRoom, FreeDescs
<1>3. Connects(u, Min(FreeFds(u)), Min(FreeDescs), s)
  BY <1>1, <1>2 DEF Connects, Connect, FreeFds, FreeDescs
<1> QED
  BY <1>3

\* The tables stay as they are.
Stays == UNCHANGED <<diskVars, inode_table, fdVars>>

\* do_open of a file that exists.
LEMMA OpenIs ==
  ASSUME IInv, NEW u \in Users, NEW name, Open(u, name)
  PROVE  /\ halted' \in {"no", "full", "smap"}
         /\ Stays \/ \E fd, d, num, s : Opens(u, fd, d, num, s)
<1> DEFINE num == SearchFile(name)
<1>1. num \in imap /\ num \in Inodes
  BY SearchIs DEF Open, IInv, TypeOK
<1>2. CASE TableFull(num)
  <2>1. Halt("full")
    BY <1>2 DEF Open
  <2> QED
    BY <2>1 DEF Halt, Stays, diskVars, fdVars
<1>3. CASE ~TableFull(num)
  <2>1. GetInode(num)[SlotFor(num)].mode = disk[num].mode
    BY <1>1, <1>3, GotIsOnDisk
  <2>2. /\ disk[num].mode # "none"
        /\ disk[num].mode = "directory" <=> num = ROOT_INODE
    BY <1>1 DEF IInv, KindsAgree
  <2>3. /\ GetInode(num)[SlotFor(num)].cnt <= MaxCnt
        /\ inode_table' = GetInode(num)
        /\ Connect(u, SlotFor(num))
        /\ UNCHANGED <<imap, smap, disk, dir, dir_size, halted>>
        /\ halted = "no" /\ HasRoom(u)
    BY <1>3, <2>1, <2>2 DEF Open
  <2>4. Gets(num, SlotFor(num))
    BY <1>1, <1>3, <2>3, GetsIs
  <2>5. PICK fd, d : Connects(u, fd, d, SlotFor(num))
    BY <2>3, ConnectIs
  <2>6. Opens(u, fd, d, num, SlotFor(num))
    BY <2>3, <2>4, <2>5 DEF Opens, diskVars
  <2> QED
    BY <2>3, <2>6
<1> QED
  BY <1>2, <1>3

\* do_open of a file that is created.
LEMMA CreateIs ==
  ASSUME IInv, NEW u \in Users, NEW name \in Names, Create(u, name)
  PROVE  /\ halted' \in {"no", "full", "smap"}
         /\ \E fd, d, num, s, p, k : Creates(u, fd, d, name, num, s, p, k)
<1> DEFINE num == NewInode
           s == SlotFor(num)
           p == NewPosition
<1>1. num \in Inodes \ imap
  <2>1. Inodes \ imap # {} /\ Inodes \ imap \subseteq Nat
    BY Sizes DEF Create, CanCreate, IInv, TypeOK
  <2> QED
    BY <2>1, MinIsLeast DEF NewInode
<1>2. s \in Slots /\ inode_table[s].cnt = 0
  <2>1. ~TableFull(num)
    BY DEF Create, CreateFits
  <2>2. /\ s \in Slots /\ inode_table[s].cnt \in Nat
        /\ inode_table[s].cnt > 0 => inode_table[s].num = num
    BY <1>1, <2>1, SlotIs DEF IInv
  <2>3. inode_table[s].cnt > 0 => inode_table[s].num \in imap
    BY <2>2 DEF IInv, CacheAgrees
  <2> QED
    BY <1>1, <2>2, <2>3
<1>3. PICK k \in 0 .. NR_SECTS :
        /\ NewBits = Bits(k) /\ NewBits \cap smap = {}
        /\ NewRecord.start = n_1st_sect + k * NR_DEFAULT_FILE_SECTS
  BY NewRunIsFree DEF Create, CreateFits
<1>4. p \in 0 .. dir_size /\ p < NR_INODES
  <2> DEFINE free == {q \in 0 .. dir_size - 1 : dir[q].inode = 0}
  <2>1. dir_size \in Nat /\ dir_size <= NR_INODES /\ imap # Inodes
    BY Sizes DEF IInv, TypeOK, Create, CanCreate
  <2>2. CASE free = {}
    <3>1. p = dir_size
      BY <2>2 DEF NewPosition
    <3>2. dir_size < NR_INODES
      BY <2>1, <2>2, DirectoryFits
    <3> QED
      BY <2>1, <3>1, <3>2
  <2>3. CASE free # {}
    <3>1. p \in free
      BY <2>1, <2>3, MinIsLeast DEF NewPosition
    <3> QED
      BY <2>1, <3>1, Sizes
  <2> QED
    BY <2>2, <2>3
<1>5. \A q \in 0 .. dir_size : dir[q].name # name
  BY SearchIs, NamesAssumption DEF Create, CanCreate
<1>6. inode_table' = [inode_table EXCEPT ![s] = [cnt |-> 1, num |-> num,
            mode |-> "regular", start |-> n_1st_sect + k * NR_DEFAULT_FILE_SECTS]]
  <2>1. inode_table' = [GetInode(num) EXCEPT ![s] = [cnt |-> 1, num |-> num,
            mode |-> NewRecord.mode, start |-> NewRecord.start]]
    BY DEF Create
  <2>2. \E r : GetInode(num) = [inode_table EXCEPT ![s] = r]
    BY <1>2 DEF GetInode
  <2>3. DOMAIN inode_table = Slots
    BY DEF IInv, TypeOK
  <2> HIDE DEF s, num
  <2>4. inode_table' = [inode_table EXCEPT ![s] = [cnt |-> 1, num |-> num,
            mode |-> NewRecord.mode, start |-> NewRecord.start]]
    BY <2>1, <2>2, <2>3
  <2> QED
    BY <1>3, <2>4 DEF NewRecord
<1>7. PICK fd, d : Connects(u, fd, d, s)
  BY ConnectIs DEF Create, CanCreate
<1>8. NewRecord = [mode |-> "regular", start |-> n_1st_sect + k * NR_DEFAULT_FILE_SECTS]
  BY <1>3 DEF NewRecord
<1>9. /\ Bits(k) \subseteq 0 .. NR_SECTS - 1 /\ Bits(k) \cap smap = {}
      /\ imap' = imap \cup {num}
      /\ smap' = smap \cup Bits(k)
      /\ disk' = [disk EXCEPT ![num] =
            [mode |-> "regular", start |-> n_1st_sect + k * NR_DEFAULT_FILE_SECTS]]
      /\ dir' = [dir EXCEPT ![p] = [inode |-> num, name |-> name]]
      /\ dir_size' = IF p = dir_size THEN dir_size + 1 ELSE dir_size
  BY <1>3, <1>8 DEF Create, CreateFits
<1>10. Creates(u, fd, d, name, num, s, p, k)
  BY <1>1, <1>2, <1>4, <1>5, <1>6, <1>7, <1>9 DEF Creates
<1> QED
  BY <1>10 DEF Create, CanCreate

\* A file that cannot be created stops the machine, and not by an assertion.
LEMMA CreateHaltsIs ==
  ASSUME IInv, NEW u, NEW name, CreateHalts(u, name)
  PROVE  halted' \in {"no", "full", "smap"} /\ Stays
<1>1. ~(~NoSectors /\ NewBits \cap smap # {})
  BY NewRunIsFree
<1> QED
  BY <1>1 DEF CreateHalts, Halt, Stays, diskVars, fdVars

\* do_close.  The slot of a descriptor that is open is counted.
LEMMA CloseIs ==
  ASSUME IInv, NEW u \in Users, NEW fd \in Fds, Close(u, fd)
  PROVE  /\ halted' \in {"no", "full", "smap"}
         /\ \E d, s : Closes(u, fd, d, s)
<1> DEFINE d == filp[u][fd]
           s == f_desc_table[d]
<1>1. d \in Descs
  BY DEF Close, IInv, TypeOK
<1>2. s \in Slots
  BY <1>1 DEF Close, IInv, TypeOK, FilpsAgree
<1>3. inode_table[s].cnt \in Nat /\ inode_table[s].cnt > 0
  <2>1. d \in DescsOn(s)
    BY <1>1 DEF DescsOn
  <2>2. Cardinality(DescsOn(s)) > 0 /\ Cardinality(DescsOn(s)) \in Nat
    BY <2>1, DescsAreFinite
  <2>3. inode_table[s].cnt >= Cardinality(DescsOn(s)) /\ inode_table[s].cnt \in Nat
    <3> HIDE DEF s
    <3>1. inode_table[s] \in [cnt : 0 .. MaxCnt + 1, num : Inodes \cup {0},
                              mode : Modes, start : Nat]
      BY <1>2 DEF IInv, TypeOK
    <3>2. inode_table[s].cnt >= Cardinality(DescsOn(s))
      BY <1>2 DEF IInv, CountsAgree
    <3> QED
      BY <3>1, <3>2, Sizes
  <2> QED
    BY <2>2, <2>3
<1>4. Closes(u, fd, d, s)
  BY <1>1, <1>2, <1>3 DEF Close, Closes, diskVars
<1>5. UNCHANGED halted /\ halted = "no"
  BY <1>3 DEF Close
<1> QED
  BY <1>4, <1>5

\* do_unlink of a file that is open, or special.
LEMMA RefusedIs ==
  ASSUME IInv, NEW name, UnlinkRefused(name)
  PROVE  /\ halted' \in {"no", "full", "smap"}
         /\ Stays \/ \E num, s : Refuses(num, s)
<1>1. PICK num \in Inodes :
        /\ CanUnlink(name, num)
        /\ IF TableFull(num) THEN Halt("full")
           ELSE LET slot == GetInode(num)[SlotFor(num)] IN
                /\ Kept(slot)
                /\ slot.cnt <= MaxCnt
                /\ inode_table' = GetInode(num)
                /\ UNCHANGED <<imap, smap, disk, dir, dir_size, fdVars, halted>>
  BY DEF UnlinkRefused
<1>2. num \in imap /\ halted = "no"
  BY <1>1, SearchIs DEF CanUnlink
<1>3. CASE TableFull(num)
  BY <1>1, <1>3 DEF Halt, Stays, diskVars, fdVars
<1>4. CASE ~TableFull(num)
  <2>1. /\ GetInode(num)[SlotFor(num)].cnt <= MaxCnt
        /\ inode_table' = GetInode(num)
        /\ UNCHANGED <<imap, smap, disk, dir, dir_size, fdVars, halted>>
    BY <1>1, <1>4
  <2>2. Gets(num, SlotFor(num))
    BY <1>2, <1>4, <2>1, GetsIs
  <2>3. Refuses(num, SlotFor(num))
    BY <2>1, <2>2 DEF Refuses, diskVars
  <2> QED
    BY <1>2, <2>1, <2>3
<1> QED
  BY <1>3, <1>4

\* do_unlink of a file that nobody has open.
LEMMA UnlinkIs ==
  ASSUME IInv, NEW name, Unlink(name)
  PROVE  /\ halted' \in {"no", "full", "smap", "flg"}
         /\ Stays \/ \E num, s, p : Unlinks(num, s, p)
<1>1. PICK num \in Inodes :
        /\ CanUnlink(name, num)
        /\ ~TableFull(num)
        /\ LET s == SlotFor(num)
               slot == GetInode(num)[s]
               bits == FreedBits(slot.start)
               at == {p \in 0 .. dir_size - 1 : dir[p].inode = num}
           IN  /\ ~Kept(slot)
               /\ IF num \notin imap \/ ~(bits \subseteq smap) THEN Halt("assert")
                  ELSE IF at = {} THEN Halt("flg")
                  ELSE /\ imap' = imap \ {num}
                       /\ smap' = smap \ bits
                       /\ disk' = [disk EXCEPT ![num] = NoInode]
                       /\ inode_table' = [inode_table EXCEPT ![s] = FreeSlot]
                       /\ dir' = [dir EXCEPT ![Min(at)] = NoEntry]
                       /\ dir_size' = IF Min(at) = dir_size - 1
                                      THEN UsedBefore(Min(at)) ELSE dir_size
                       /\ UNCHANGED <<fdVars, halted>>
  BY DEF Unlink
<1> DEFINE s == SlotFor(num)
           slot == GetInode(num)[s]
           bits == FreedBits(slot.start)
           at == {p \in 0 .. dir_size - 1 : dir[p].inode = num}
           p == Min(at)
<1>2. num \in imap /\ halted = "no"
  BY <1>1, SearchIs DEF CanUnlink
<1>3. /\ slot.mode = disk[num].mode /\ slot.start = disk[num].start
      /\ slot.cnt = inode_table[s].cnt + 1
  BY <1>1, GotIsOnDisk
<1>4. /\ s \in Slots /\ inode_table[s].cnt \in Nat
      /\ inode_table[s].cnt = 0 => Caching(num) = {}
  BY <1>1, SlotIs DEF IInv
<1>5. disk[num].mode = "regular" /\ inode_table[s].cnt = 0 /\ Caching(num) = {}
  <2>1. slot.mode = "regular" /\ ~(slot.cnt > 1)
    BY <1>1 DEF Kept
  <2> HIDE DEF s, slot
  <2> QED
    BY <1>3, <1>4, <2>1
<1>6. bits = Run(disk[num].start) /\ bits \subseteq smap
  <2>1. num \in Stored
    BY <1>2, <1>5 DEF Stored
  <2> QED
    BY <1>3, <2>1 DEF FreedBits, IInv, MapsExact
<1>7. CASE at = {}
  <2>1. Halt("flg")
    BY <1>1, <1>2, <1>6, <1>7
  <2> QED
    BY <2>1 DEF Halt, Stays, diskVars, fdVars
<1>8. CASE at # {}
  <2>1. dir_size \in Nat /\ at \subseteq Nat
    BY Sizes DEF IInv, TypeOK
  <2>2. p \in at
    BY <1>8, <2>1, MinIsLeast
  <2>3. p \in 0 .. dir_size - 1 /\ dir[p].inode = num /\ p \in Nat
    BY <2>1, <2>2
  <2>4. /\ imap' = imap \ {num}
        /\ smap' = smap \ bits
        /\ disk' = [disk EXCEPT ![num] = NoInode]
        /\ inode_table' = [inode_table EXCEPT ![s] = FreeSlot]
        /\ dir' = [dir EXCEPT ![p] = NoEntry]
        /\ dir_size' = IF p = dir_size - 1 THEN UsedBefore(p) ELSE dir_size
        /\ UNCHANGED <<fdVars, halted>>
    BY <1>1, <1>2, <1>6, <1>8
  <2>5. UsedBefore(p) \in 0 .. p
    <3> HIDE DEF p
    <3> DEFINE used == {q \in 0 .. p - 1 : dir[q].inode # 0}
    <3>0. p - 1 \in Int /\ 0 \in Int
      BY <2>3
    <3>1. IsFiniteSet(0 .. p - 1) /\ Cardinality(0 .. p - 1) = p
      <4>1. /\ IsFiniteSet(0 .. p - 1)
            /\ Cardinality(0 .. p - 1) = IF 0 > p - 1 THEN 0 ELSE p - 1 - 0 + 1
        BY <3>0, FS_Interval
      <4> QED
        BY <2>3, <4>1
    <3>2. used \subseteq 0 .. p - 1
      OBVIOUS
    <3>3. IsFiniteSet(used) /\ Cardinality(used) <= p
      <4> HIDE DEF used
      <4> QED
        BY <3>1, <3>2, FS_Subset
    <3>4. Cardinality(used) \in Nat
      BY <3>3, FS_CardinalityType
    <3> QED
      BY <2>3, <3>3, <3>4 DEF UsedBefore
  <2>6. dir_size' \in 0 .. dir_size
    <3> HIDE DEF p
    <3> QED
      BY <2>1, <2>3, <2>4, <2>5
  <2>7. Unlinks(num, s, p)
    BY <1>2, <1>4, <1>5, <1>6, <2>3, <2>4, <2>6 DEF Unlinks
  <2> QED
    BY <1>2, <2>4, <2>7
<1> QED
  BY <1>7, <1>8

\* Every step leaves the tables as they are, or is one of the five; no assertion
\* fails.
LEMMA StepsAre ==
  ASSUME IInv, [Next]_vars
  PROVE  /\ halted' \in {"no", "full", "smap", "flg"}
         /\ \/ Stays
            \/ \E u \in Users : \E fd, d, num, s : Opens(u, fd, d, num, s)
            \/ \E u \in Users : \E fd, d, name, num, s, p, k :
                    Creates(u, fd, d, name, num, s, p, k)
            \/ \E u \in Users : \E fd, d, s : Closes(u, fd, d, s)
            \/ \E num, s : Refuses(num, s)
            \/ \E num, s, p : Unlinks(num, s, p)
<1>1. CASE UNCHANGED vars
  BY <1>1 DEF vars, Stays, diskVars, fdVars, IInv, TypeOK, NoneFails
<1>2. ASSUME NEW u \in Users, OpenWithoutRoom(u)
      PROVE  halted' = "full" /\ Stays
  BY <1>2 DEF OpenWithoutRoom, Halt, Stays, diskVars, fdVars
<1>3. ASSUME NEW u \in Users, NEW name \in Names, Create(u, name)
      PROVE  /\ halted' \in {"no", "full", "smap"}
             /\ \E fd, d, num, s, p, k : Creates(u, fd, d, name, num, s, p, k)
  BY <1>3, CreateIs
<1>4. ASSUME NEW u \in Users, NEW name \in Names, CreateHalts(u, name)
      PROVE  halted' \in {"no", "full", "smap"} /\ Stays
  BY <1>4, CreateHaltsIs
<1>5. ASSUME NEW u \in Users, NEW name \in Names \cup SpecialNames, Open(u, name)
      PROVE  /\ halted' \in {"no", "full", "smap"}
             /\ Stays \/ \E fd, d, num, s : Opens(u, fd, d, num, s)
  BY <1>5, OpenIs
<1>6. ASSUME NEW u \in Users, NEW fd \in Fds, Close(u, fd)
      PROVE  /\ halted' \in {"no", "full", "smap"}
             /\ \E d, s : Closes(u, fd, d, s)
  BY <1>6, CloseIs
<1>7. ASSUME NEW name \in Names \cup SpecialNames, Unlink(name)
      PROVE  /\ halted' \in {"no", "full", "smap", "flg"}
             /\ Stays \/ \E num, s, p : Unlinks(num, s, p)
  BY <1>7, UnlinkIs
<1>8. ASSUME NEW name \in Names \cup SpecialNames, UnlinkRefused(name)
      PROVE  /\ halted' \in {"no", "full", "smap"}
             /\ Stays \/ \E num, s : Refuses(num, s)
  BY <1>8, RefusedIs
<1>9. CASE Next
  <2>1. ASSUME NEW u \in Users, \E name \in Names : Create(u, name) \/ CreateHalts(u, name)
        PROVE  /\ halted' \in {"no", "full", "smap"}
               /\ Stays \/ \E v \in Users : \E fd, d, name, num, s, p, k :
                                Creates(v, fd, d, name, num, s, p, k)
    BY <1>3, <1>4, <2>1
  <2>2. ASSUME NEW u \in Users, \E name \in Names \cup SpecialNames : Open(u, name)
        PROVE  /\ halted' \in {"no", "full", "smap"}
               /\ Stays \/ \E v \in Users : \E fd, d, num, s : Opens(v, fd, d, num, s)
    BY <1>5, <2>2
  <2>3. ASSUME NEW u \in Users, \E fd \in Fds : Close(u, fd)
        PROVE  /\ halted' \in {"no", "full", "smap"}
               /\ \E v \in Users : \E fd, d, s : Closes(v, fd, d, s)
    BY <1>6, <2>3
  <2> QED
    BY <1>2, <1>7, <1>8, <1>9, <2>1, <2>2, <2>3 DEF Next
<1> QED
  BY <1>1, <1>9

-----------------------------------------------------------------------------
(***************************************************************************)
(* The tables agree after each of the steps.                               *)
(***************************************************************************)
SlotRecords == [cnt : 0 .. MaxCnt + 1, num : Inodes \cup {0}, mode : Modes, start : Nat]

\* The count of a slot is a number.
LEMMA CountsAreNumbers ==
  ASSUME NEW table \in [Slots -> SlotRecords]
  PROVE  \A t \in Slots : table[t].cnt \in Nat
<1>1. 0 .. MaxCnt + 1 \subseteq Nat
  BY Sizes
<1>2. \A r \in SlotRecords : r.cnt \in 0 .. MaxCnt + 1
  BY DEF SlotRecords
<1> QED
  BY <1>1, <1>2

\* The cache agrees when two slots never have the same inode.
OneSlotEach ==
    \A s \in Slots : inode_table[s].cnt > 0 =>
        /\ inode_table[s].num \in imap
        /\ \A t \in Slots :
                inode_table[t].cnt > 0 /\ inode_table[t].num = inode_table[s].num => t = s
        /\ disk[inode_table[s].num] =
                [mode |-> inode_table[s].mode, start |-> inode_table[s].start]

\* CacheAgrees, slot by slot.
LEMMA CacheIs == CacheAgrees <=> OneSlotEach
<1>1. ASSUME NEW s \in Slots, inode_table[s].cnt > 0
      PROVE  Caching(inode_table[s].num) = {s} <=>
                \A t \in Slots :
                    inode_table[t].cnt > 0 /\ inode_table[t].num = inode_table[s].num => t = s
  BY <1>1 DEF Caching
<1> QED
  BY <1>1 DEF CacheAgrees, OneSlotEach

\* Steps that leave the disk and the directory alone.
LEMMA DiskFrame ==
  ASSUME IInv, UNCHANGED diskVars
  PROVE  EntriesAgree' /\ DirectoryMaps' /\ KindsAgree' /\ RunsAligned' /\ MapsExact'
<1>1. EntriesAgree'
  BY DEF diskVars, IInv, EntriesAgree
<1>2. DirectoryMaps'
  BY DEF diskVars, IInv, DirectoryMaps
<1>3. KindsAgree'
  BY DEF diskVars, IInv, KindsAgree
<1>4. Stored' = Stored
  BY DEF diskVars, Stored
<1>5. RunsAligned'
  BY <1>4 DEF diskVars, IInv, RunsAligned
<1>6. MapsExact'
  BY <1>4 DEF diskVars, IInv, MapsExact
<1> QED
  BY <1>1, <1>2, <1>3, <1>5, <1>6

\* What get_inode does to a slot.
LEMMA GetsKeeps ==
  ASSUME IInv, NEW num, NEW s, Gets(num, s), UNCHANGED diskVars
  PROVE  /\ inode_table' \in [Slots -> SlotRecords]
         /\ CacheAgrees'
         /\ \A t \in Slots : inode_table'[t].cnt = inode_table[t].cnt + (IF t = s THEN 1 ELSE 0)
         /\ \A t \in Slots : inode_table[t].cnt > 0 => inode_table'[t].num = inode_table[t].num
<1>1. /\ s \in Slots /\ num \in imap /\ num \in Inodes
      /\ inode_table \in [Slots -> SlotRecords]
      /\ disk[num] \in [mode : Modes, start : Nat]
      /\ inode_table[s].cnt \in Nat
  <2>1. s \in Slots /\ num \in imap /\ num \in Inodes
    BY DEF Gets, IInv, TypeOK
  <2>2. /\ inode_table \in [Slots -> SlotRecords]
        /\ disk[num] \in [mode : Modes, start : Nat]
    BY <2>1 DEF IInv, TypeOK, SlotRecords
  <2>3. inode_table[s].cnt \in 0 .. MaxCnt + 1
    BY <2>1, <2>2 DEF SlotRecords
  <2> QED
    BY <2>1, <2>2, <2>3, Sizes
<1>2. PICK r \in SlotRecords :
        /\ inode_table' = [inode_table EXCEPT ![s] = r]
        /\ r.num = num /\ r.cnt = inode_table[s].cnt + 1
        /\ disk[num] = [mode |-> r.mode, start |-> r.start]
        /\ \A t \in Slots : inode_table[t].cnt > 0 /\ inode_table[t].num = num => t = s
        /\ inode_table[s].cnt > 0 => inode_table[s].num = num
  <2>1. CASE /\ inode_table[s].cnt > 0 /\ inode_table[s].cnt < MaxCnt
             /\ inode_table[s].num = num
             /\ inode_table' = [inode_table EXCEPT ![s].cnt = @ + 1]
    <3> DEFINE r == [inode_table[s] EXCEPT !.cnt = @ + 1]
    <3>1. /\ r \in SlotRecords /\ r.num = num /\ r.cnt = inode_table[s].cnt + 1
          /\ r.mode = inode_table[s].mode /\ r.start = inode_table[s].start
      BY <1>1, <2>1, Sizes DEF SlotRecords
    <3>2. inode_table' = [inode_table EXCEPT ![s] = r]
      BY <1>1, <2>1
    <3>3. /\ disk[num] = [mode |-> inode_table[s].mode, start |-> inode_table[s].start]
          /\ \A t \in Slots : inode_table[t].cnt > 0 /\ inode_table[t].num = num => t = s
      BY <1>1, <2>1, CacheIs DEF IInv, OneSlotEach
    <3> HIDE DEF r
    <3> QED
      BY <2>1, <3>1, <3>2, <3>3
  <2>2. CASE /\ inode_table[s].cnt = 0 /\ Caching(num) = {}
             /\ inode_table' = [inode_table EXCEPT ![s] =
                [cnt |-> 1, num |-> num, mode |-> disk[num].mode, start |-> disk[num].start]]
    <3> DEFINE r == [cnt |-> 1, num |-> num, mode |-> disk[num].mode,
                     start |-> disk[num].start]
    <3>1. /\ r \in SlotRecords /\ r.num = num /\ r.cnt = inode_table[s].cnt + 1
          /\ disk[num] = [mode |-> r.mode, start |-> r.start]
      BY <1>1, <2>2, Sizes DEF SlotRecords
    <3>2. \A t \in Slots : inode_table[t].cnt > 0 /\ inode_table[t].num = num => t = s
      BY <2>2 DEF Caching
    <3>3. inode_table' = [inode_table EXCEPT ![s] = r]
      BY <2>2
    <3>4. inode_table[s].cnt > 0 => inode_table[s].num = num
      BY <2>2
    <3> HIDE DEF r
    <3> QED
      BY <3>1, <3>2, <3>3, <3>4
  <2> QED
    BY <2>1, <2>2 DEF Gets
<1>3. inode_table' \in [Slots -> SlotRecords]
  BY <1>1, <1>2
<1>4. \A t \in Slots : inode_table'[t] = IF t = s THEN r ELSE inode_table[t]
  BY <1>1, <1>2
<1>5. CacheAgrees'
  <2>1. OneSlotEach'
    <3>1. imap' = imap /\ disk' = disk
      BY DEF diskVars
    <3>2. ASSUME NEW t \in Slots, t # s, inode_table[t].cnt > 0
          PROVE  inode_table[t].num # num
      BY <1>2, <3>2
    <3> QED
      BY <1>1, <1>2, <1>4, <3>1, <3>2, CacheIs DEF IInv, OneSlotEach
  <2> QED
    BY <2>1, CacheIs, PTL
<1>6. \A t \in Slots : inode_table[t].cnt \in Nat
  BY <1>1, CountsAreNumbers
<1> QED
  BY <1>2, <1>3, <1>4, <1>5, <1>6

\* Connecting a descriptor.
LEMMA ConnectsKeeps ==
  ASSUME IInv, NEW u \in Users, NEW fd, NEW d, NEW s \in Slots, Connects(u, fd, d, s)
  PROVE  /\ f_desc_table' \in [Descs -> Slots \cup {0}]
         /\ filp' \in [Users -> [Fds -> Descs \cup {0}]]
         /\ FilpsAgree'
         /\ \A t \in Slots : /\ Cardinality(DescsOn(t)') \in Nat
                             /\ Cardinality(DescsOn(t)') =
                                    Cardinality(DescsOn(t)) + (IF t = s THEN 1 ELSE 0)
<1>1. /\ fd \in Fds /\ d \in Descs /\ d # 0 /\ s # 0
      /\ f_desc_table \in [Descs -> Slots \cup {0}]
      /\ filp \in [Users -> [Fds -> Descs \cup {0}]]
      /\ filp[u][fd] = 0 /\ f_desc_table[d] = 0
  BY Sizes DEF Connects, IInv, TypeOK
<1>2. /\ f_desc_table' \in [Descs -> Slots \cup {0}]
      /\ filp' \in [Users -> [Fds -> Descs \cup {0}]]
  BY <1>1 DEF Connects
<1>3. /\ \A v \in Users, fe \in Fds :
            filp'[v][fe] = IF v = u /\ fe = fd THEN d ELSE filp[v][fe]
      /\ \A e \in Descs : f_desc_table'[e] = IF e = d THEN s ELSE f_desc_table[e]
  BY <1>1 DEF Connects
<1>4. \A v \in Users, fe \in Fds : filp[v][fe] # d
  BY <1>1 DEF IInv, FilpsAgree
<1>5. FilpsAgree'
  <2>1. \A e \in Descs :
            f_desc_table'[e] # 0 <=> \E v \in Users, fe \in Fds : filp'[v][fe] = e
    <3> SUFFICES ASSUME NEW e \in Descs
                 PROVE  f_desc_table'[e] # 0 <=>
                            \E v \in Users, fe \in Fds : filp'[v][fe] = e
      OBVIOUS
    <3>1. CASE e = d
      <4>1. filp'[u][fd] = d /\ f_desc_table'[d] = s
        BY <1>1, <1>3
      <4> QED
        BY <1>1, <3>1, <4>1
    <3>2. CASE e # d
      <4>1. f_desc_table'[e] = f_desc_table[e]
        BY <1>3, <3>2
      <4>2. \A v \in Users, fe \in Fds : filp'[v][fe] = e <=> filp[v][fe] = e
        BY <1>1, <1>3, <3>2, Sizes
      <4>3. f_desc_table[e] # 0 <=> \E v \in Users, fe \in Fds : filp[v][fe] = e
        BY DEF IInv, FilpsAgree
      <4> QED
        BY <4>1, <4>2, <4>3
    <3> QED
      BY <3>1, <3>2
  <2>2. \A v, w \in Users : \A fe, ff \in Fds :
            filp'[v][fe] # 0 /\ filp'[v][fe] = filp'[w][ff] => v = w /\ fe = ff
    BY <1>1, <1>3, <1>4 DEF IInv, FilpsAgree
  <2> QED
    BY <2>1, <2>2 DEF FilpsAgree
<1>6. ASSUME NEW t \in Slots
      PROVE  /\ Cardinality(DescsOn(t)') \in Nat
             /\ Cardinality(DescsOn(t)') =
                    Cardinality(DescsOn(t)) + (IF t = s THEN 1 ELSE 0)
  <2>1. IsFiniteSet(DescsOn(t)) /\ Cardinality(DescsOn(t)) \in Nat
    BY DescsAreFinite
  <2>2. CASE t = s
    <3>1. DescsOn(t)' = DescsOn(t) \cup {d} /\ d \notin DescsOn(t)
      BY <1>1, <1>3, <2>2 DEF DescsOn
    <3> QED
      BY <2>1, <2>2, <3>1, FS_AddElement
  <2>3. CASE t # s
    <3>1. DescsOn(t)' = DescsOn(t)
      BY <1>1, <1>3, <2>3, Sizes DEF DescsOn
    <3> QED
      BY <2>1, <2>3, <3>1
  <2> QED
    BY <2>2, <2>3
<1> QED
  BY <1>2, <1>5, <1>6

\* do_open.
LEMMA OpensKeeps ==
  ASSUME IInv, halted' \in {"no", "full", "smap", "flg"},
         NEW u \in Users, NEW fd, NEW d, NEW num, NEW s, Opens(u, fd, d, num, s)
  PROVE  IInv'
<1>1. Gets(num, s) /\ Connects(u, fd, d, s) /\ UNCHANGED diskVars
  BY DEF Opens
<1>2. /\ inode_table' \in [Slots -> SlotRecords]
      /\ CacheAgrees'
      /\ \A t \in Slots : inode_table'[t].cnt = inode_table[t].cnt + (IF t = s THEN 1 ELSE 0)
      /\ \A t \in Slots : inode_table[t].cnt > 0 => inode_table'[t].num = inode_table[t].num
  BY <1>1, GetsKeeps
<1>3. s \in Slots
  BY <1>1 DEF Gets
<1>4. /\ f_desc_table' \in [Descs -> Slots \cup {0}]
      /\ filp' \in [Users -> [Fds -> Descs \cup {0}]]
      /\ FilpsAgree'
      /\ \A t \in Slots : /\ Cardinality(DescsOn(t)') \in Nat
                          /\ Cardinality(DescsOn(t)') =
                                 Cardinality(DescsOn(t)) + (IF t = s THEN 1 ELSE 0)
  BY <1>1, <1>3, ConnectsKeeps
<1>5. TypeOK'
  BY <1>1, <1>2, <1>4 DEF IInv, TypeOK, SlotRecords, diskVars
<1>6. CountsAgree'
  <2>1. \A t \in Slots : inode_table[t].cnt \in Nat /\ Cardinality(DescsOn(t)) \in Nat
    BY DescsAreFinite, Sizes DEF IInv, TypeOK
  <2>2. \A t \in Slots : inode_table'[t].cnt >= Cardinality(DescsOn(t)')
    BY <1>2, <1>4, <2>1 DEF IInv, CountsAgree
  <2>3. inode_table'[1].cnt > Cardinality(DescsOn(1)') /\ inode_table'[1].num = ROOT_INODE
    BY <1>2, <1>4, <2>1, Sizes DEF IInv, CountsAgree
  <2> QED
    BY <2>2, <2>3 DEF CountsAgree, DescsOn
<1> QED
  BY <1>1, <1>2, <1>4, <1>5, <1>6, DiskFrame DEF IInv, NoneFails

\* do_unlink that refuses.
LEMMA RefusesKeeps ==
  ASSUME IInv, halted' \in {"no", "full", "smap", "flg"}, NEW num, NEW s, Refuses(num, s)
  PROVE  IInv'
<1>1. Gets(num, s) /\ UNCHANGED diskVars /\ UNCHANGED fdVars /\ s \in Slots
  BY DEF Refuses, Gets
<1>2. /\ inode_table' \in [Slots -> SlotRecords]
      /\ CacheAgrees'
      /\ \A t \in Slots : inode_table'[t].cnt = inode_table[t].cnt + (IF t = s THEN 1 ELSE 0)
      /\ \A t \in Slots : inode_table[t].cnt > 0 => inode_table'[t].num = inode_table[t].num
  BY <1>1, GetsKeeps
<1>3. TypeOK'
  BY <1>1, <1>2 DEF IInv, TypeOK, SlotRecords, diskVars, fdVars
<1>4. FilpsAgree'
  BY <1>1 DEF IInv, FilpsAgree, fdVars
<1>5. CountsAgree'
  <2>1. \A t \in Slots : inode_table[t].cnt \in Nat /\ Cardinality(DescsOn(t)) \in Nat
    BY DescsAreFinite, Sizes DEF IInv, TypeOK
  <2>2. \A t \in Slots : DescsOn(t)' = DescsOn(t)
    BY <1>1 DEF DescsOn, fdVars
  <2>3. \A t \in Slots : inode_table'[t].cnt >= Cardinality(DescsOn(t)')
    BY <1>2, <2>1, <2>2 DEF IInv, CountsAgree
  <2>4. inode_table'[1].cnt > Cardinality(DescsOn(1)') /\ inode_table'[1].num = ROOT_INODE
    BY <1>2, <2>1, <2>2, Sizes DEF IInv, CountsAgree
  <2> QED
    BY <2>3, <2>4 DEF CountsAgree, DescsOn
<1> QED
  BY <1>1, <1>2, <1>3, <1>4, <1>5, DiskFrame DEF IInv, NoneFails

\* put_inode.
LEMMA PutIs ==
  ASSUME NEW r \in SlotRecords, r.cnt > 0
  PROVE  /\ PutInode(r) \in SlotRecords
         /\ PutInode(r).cnt = r.cnt - 1
         /\ r.cnt > 1 => /\ PutInode(r).num = r.num /\ PutInode(r).mode = r.mode
                         /\ PutInode(r).start = r.start
<1>1. CASE r.cnt = 1
  BY <1>1, Sizes DEF PutInode, FreeSlot, SlotRecords, Modes
<1>2. CASE r.cnt # 1
  <2>1. PutInode(r) = [r EXCEPT !.cnt = @ - 1]
    BY <1>2 DEF PutInode
  <2>2. r.cnt \in 0 .. MaxCnt + 1
    BY DEF SlotRecords
  <2> QED
    BY <2>1, <2>2, Sizes DEF SlotRecords
<1> QED
  BY <1>1, <1>2

\* do_close.
LEMMA ClosesKeeps ==
  ASSUME IInv, halted' \in {"no", "full", "smap", "flg"},
         NEW u \in Users, NEW fd, NEW d, NEW s, Closes(u, fd, d, s)
  PROVE  IInv'
<1>1. /\ fd \in Fds /\ d \in Descs /\ d # 0 /\ s \in Slots /\ s # 0
      /\ filp[u][fd] = d /\ f_desc_table[d] = s /\ inode_table[s].cnt > 0
      /\ UNCHANGED diskVars
      /\ f_desc_table \in [Descs -> Slots \cup {0}]
      /\ filp \in [Users -> [Fds -> Descs \cup {0}]]
      /\ inode_table \in [Slots -> SlotRecords]
  BY Sizes DEF Closes, IInv, TypeOK, SlotRecords
<1>2. /\ f_desc_table' \in [Descs -> Slots \cup {0}]
      /\ filp' \in [Users -> [Fds -> Descs \cup {0}]]
  BY <1>1 DEF Closes
<1>3. /\ \A v \in Users, fe \in Fds :
            filp'[v][fe] = IF v = u /\ fe = fd THEN 0 ELSE filp[v][fe]
      /\ \A e \in Descs : f_desc_table'[e] = IF e = d THEN 0 ELSE f_desc_table[e]
  BY <1>1 DEF Closes
<1>4. \A v \in Users, fe \in Fds : filp[v][fe] = d => v = u /\ fe = fd
  BY <1>1 DEF IInv, FilpsAgree
<1>5. FilpsAgree'
  <2>1. \A e \in Descs :
            f_desc_table'[e] # 0 <=> \E v \in Users, fe \in Fds : filp'[v][fe] = e
    <3> SUFFICES ASSUME NEW e \in Descs
                 PROVE  f_desc_table'[e] # 0 <=>
                            \E v \in Users, fe \in Fds : filp'[v][fe] = e
      OBVIOUS
    <3>1. CASE e = d
      <4>1. f_desc_table'[e] = 0
        BY <1>3, <3>1
      <4>2. \A v \in Users, fe \in Fds : filp'[v][fe] # d
        BY <1>1, <1>3, <1>4
      <4> QED
        BY <3>1, <4>1, <4>2
    <3>2. CASE e # d
      <4>1. f_desc_table'[e] = f_desc_table[e]
        BY <1>3, <3>2
      <4>2. \A v \in Users, fe \in Fds : filp'[v][fe] = e <=> filp[v][fe] = e
        BY <1>1, <1>3, <3>2, Sizes
      <4>3. f_desc_table[e] # 0 <=> \E v \in Users, fe \in Fds : filp[v][fe] = e
        BY DEF IInv, FilpsAgree
      <4> QED
        BY <4>1, <4>2, <4>3
    <3> QED
      BY <3>1, <3>2
  <2>2. \A v, w \in Users : \A fe, ff \in Fds :
            filp'[v][fe] # 0 /\ filp'[v][fe] = filp'[w][ff] => v = w /\ fe = ff
    BY <1>1, <1>3, <1>4 DEF IInv, FilpsAgree
  <2> QED
    BY <2>1, <2>2 DEF FilpsAgree
<1>6. \A t \in Slots : inode_table'[t] = IF t = s THEN PutInode(inode_table[s])
                                         ELSE inode_table[t]
  BY <1>1 DEF Closes
<1>7. /\ PutInode(inode_table[s]) \in SlotRecords
      /\ PutInode(inode_table[s]).cnt = inode_table[s].cnt - 1
      /\ inode_table[s].cnt > 1 =>
            /\ PutInode(inode_table[s]).num = inode_table[s].num
            /\ PutInode(inode_table[s]).mode = inode_table[s].mode
            /\ PutInode(inode_table[s]).start = inode_table[s].start
  BY <1>1, PutIs
<1>8. inode_table' \in [Slots -> SlotRecords]
  BY <1>1, <1>7 DEF Closes
<1>9. TypeOK'
  BY <1>1, <1>2, <1>8 DEF IInv, TypeOK, SlotRecords, diskVars
<1>10. \A t \in Slots : inode_table[t].cnt \in Nat
  BY <1>1, CountsAreNumbers
<1>11. CacheAgrees'
  <2>1. ASSUME NEW t \in Slots, inode_table'[t].cnt > 0
        PROVE  /\ inode_table[t].cnt > 0
               /\ inode_table'[t].num = inode_table[t].num
               /\ inode_table'[t].mode = inode_table[t].mode
               /\ inode_table'[t].start = inode_table[t].start
    BY <1>1, <1>6, <1>7, <1>10, <2>1
  <2>2. imap' = imap /\ disk' = disk
    BY <1>1 DEF diskVars
  <2>3. OneSlotEach'
    BY <2>1, <2>2, CacheIs DEF IInv, OneSlotEach
  <2> QED
    BY <2>3, CacheIs, PTL
<1>12. ASSUME NEW t \in Slots
       PROVE  /\ Cardinality(DescsOn(t)') \in Nat
              /\ Cardinality(DescsOn(t)') =
                    Cardinality(DescsOn(t)) - (IF t = s THEN 1 ELSE 0)
  <2>1. /\ IsFiniteSet(DescsOn(t)) /\ Cardinality(DescsOn(t)) \in Nat
        /\ \A e \in DescsOn(t) : Cardinality(DescsOn(t)) > 0
    BY DescsAreFinite
  <2>2. CASE t = s
    <3>1. DescsOn(t)' = DescsOn(t) \ {d} /\ d \in DescsOn(t)
      BY <1>1, <1>3, <2>2 DEF DescsOn
    <3>2. Cardinality(DescsOn(t) \ {d}) = Cardinality(DescsOn(t)) - 1
      BY <2>1, <3>1, FS_RemoveElement
    <3> QED
      BY <2>1, <2>2, <3>1, <3>2
  <2>3. CASE t # s
    <3>1. DescsOn(t)' = DescsOn(t)
      BY <1>1, <1>3, <2>3, Sizes DEF DescsOn
    <3> QED
      BY <2>1, <2>3, <3>1
  <2> QED
    BY <2>2, <2>3
<1>13. CountsAgree'
  <2>1. \A t \in Slots : Cardinality(DescsOn(t)) \in Nat
    BY DescsAreFinite
  <2>2. \A t \in Slots : inode_table'[t].cnt = inode_table[t].cnt - (IF t = s THEN 1 ELSE 0)
    BY <1>6, <1>7, <1>10
  <2>3. \A t \in Slots : inode_table'[t].cnt >= Cardinality(DescsOn(t)')
    BY <1>10, <1>12, <2>1, <2>2 DEF IInv, CountsAgree
  <2>4. inode_table'[1].cnt > Cardinality(DescsOn(1)')
    BY <1>10, <1>12, <2>1, <2>2, Sizes DEF IInv, CountsAgree
  <2>5. inode_table'[1].num = ROOT_INODE
    <3>1. CASE s = 1
      <4>1. d \in DescsOn(1)
        BY <1>1, <3>1 DEF DescsOn
      <4>2. Cardinality(DescsOn(1)) > 0 /\ Cardinality(DescsOn(1)) \in Nat
        BY <4>1, DescsAreFinite
      <4>3. inode_table[s].cnt > 1
        BY <1>10, <3>1, <4>2, Sizes DEF IInv, CountsAgree
      <4> QED
        BY <1>6, <1>7, <3>1, <4>3, Sizes DEF IInv, CountsAgree
    <3>2. CASE s # 1
      BY <1>6, <3>2, Sizes DEF IInv, CountsAgree
    <3> QED
      BY <3>1, <3>2
  <2> QED
    BY <2>3, <2>4, <2>5 DEF CountsAgree, DescsOn
<1> QED
  BY <1>1, <1>5, <1>9, <1>11, <1>13, DiskFrame DEF IInv, NoneFails

\* The first slot is in use, for the root directory.
LEMMA RootIsThere ==
  ASSUME IInv
  PROVE  ROOT_INODE \in imap /\ inode_table[1].cnt > 0
<1>1. inode_table[1].cnt > 0 /\ inode_table[1].num = ROOT_INODE
  <2>1. Cardinality(DescsOn(1)) \in Nat
    BY DescsAreFinite
  <2>2. inode_table[1].cnt \in 0 .. MaxCnt + 1
    BY Sizes DEF IInv, TypeOK
  <2> QED
    BY <2>1, <2>2, Sizes DEF IInv, CountsAgree
<1> QED
  BY <1>1, Sizes DEF IInv, CacheAgrees

\* do_open that creates a file.
LEMMA CreatesKeeps ==
  ASSUME IInv, halted' \in {"no", "full", "smap", "flg"},
         NEW u \in Users, NEW fd, NEW d, NEW name, NEW num, NEW s, NEW p, NEW k,
         Creates(u, fd, d, name, num, s, p, k)
  PROVE  IInv'
<1> DEFINE rec == [mode |-> "regular", start |-> n_1st_sect + k * NR_DEFAULT_FILE_SECTS]
           slot == [cnt |-> 1, num |-> num, mode |-> "regular", start |-> rec.start]
           entry == [inode |-> num, name |-> name]
<1>1. /\ num \in Inodes /\ num # 0 /\ num \notin imap
      /\ s \in Slots /\ inode_table[s].cnt = 0
      /\ k \in Nat /\ k \in 0 .. NR_SECTS
      /\ dir_size \in 0 .. NR_INODES /\ p \in 0 .. dir_size /\ p < NR_INODES
      /\ p \in Entries /\ name \in Names /\ name # NoName
  BY NamesAssumption, Sizes DEF Creates, IInv, TypeOK, Entries
<1>2. rec.start \in Nat
  <2>1. k * NR_DEFAULT_FILE_SECTS \in Nat
    BY <1>1, Sizes
  <2> QED
    BY <2>1, Sizes
<1>3. /\ disk' = [disk EXCEPT ![num] = rec]
      /\ inode_table' = [inode_table EXCEPT ![s] = slot]
      /\ dir' = [dir EXCEPT ![p] = entry]
      /\ imap' = imap \cup {num}
      /\ smap' = smap \cup Bits(k)
      /\ dir_size' = IF p = dir_size THEN dir_size + 1 ELSE dir_size
      /\ Connects(u, fd, d, s)
  BY DEF Creates
<1>4. rec.mode = "regular" /\ slot.cnt = 1 /\ slot.num = num /\ slot.mode = "regular"
      /\ slot.start = rec.start /\ entry.inode = num /\ entry.name = name
      /\ rec = [mode |-> slot.mode, start |-> slot.start]
      /\ rec.start = n_1st_sect + k * NR_DEFAULT_FILE_SECTS
  OBVIOUS
<1>5. /\ rec \in [mode : Modes, start : Nat]
      /\ slot \in SlotRecords
      /\ entry \in [inode : Inodes \cup {0}, name : Names \cup SpecialNames \cup {NoName}]
  BY <1>1, <1>2, Sizes DEF Modes, SlotRecords
<1> HIDE DEF rec, slot, entry
<1>6. /\ disk \in [Inodes -> [mode : Modes, start : Nat]]
      /\ inode_table \in [Slots -> SlotRecords]
      /\ dir \in [Entries -> [inode : Inodes \cup {0},
                              name : Names \cup SpecialNames \cup {NoName}]]
      /\ imap \subseteq Inodes
  BY DEF IInv, TypeOK, SlotRecords, Entries
<1>7. /\ \A i \in Inodes : disk'[i] = IF i = num THEN rec ELSE disk[i]
      /\ \A t \in Slots : inode_table'[t] = IF t = s THEN slot ELSE inode_table[t]
      /\ \A q \in Entries : dir'[q] = IF q = p THEN entry ELSE dir[q]
  BY <1>1, <1>3, <1>6
<1>8. /\ f_desc_table' \in [Descs -> Slots \cup {0}]
      /\ filp' \in [Users -> [Fds -> Descs \cup {0}]]
      /\ FilpsAgree'
      /\ \A t \in Slots : /\ Cardinality(DescsOn(t)') \in Nat
                          /\ Cardinality(DescsOn(t)') =
                                 Cardinality(DescsOn(t)) + (IF t = s THEN 1 ELSE 0)
  BY <1>1, <1>3, ConnectsKeeps
<1>9. TypeOK'
  <2>1. imap' \subseteq Inodes /\ smap' \subseteq 0 .. NR_SECTS - 1
    BY <1>1, <1>3 DEF IInv, TypeOK, Creates
  <2>2. disk' \in [Inodes -> [mode : Modes, start : Nat]]
    BY <1>1, <1>3, <1>5, <1>6
  <2>3. dir' \in [Entries -> [inode : Inodes \cup {0},
                              name : Names \cup SpecialNames \cup {NoName}]]
    BY <1>1, <1>3, <1>5, <1>6
  <2>4. dir_size' \in 0 .. NR_INODES
    BY <1>1, <1>3, Sizes
  <2>5. inode_table' \in [Slots -> SlotRecords]
    BY <1>1, <1>3, <1>5, <1>6
  <2> QED
    BY <1>8, <2>1, <2>2, <2>3, <2>4, <2>5 DEF TypeOK, SlotRecords, Entries
<1>10. EntriesAgree'
  <2>1. \A q \in Entries : dir'[q].inode = 0 <=> dir'[q].name = NoName
    BY <1>1, <1>4, <1>7 DEF IInv, EntriesAgree
  <2>2. \A q \in Entries : dir[q].inode # num
    BY <1>1 DEF IInv, EntriesAgree
  <2>3. \A q, r \in Entries : dir'[q].inode # 0 =>
            dir'[q].inode \in imap' /\ (q # r => dir'[q].inode # dir'[r].inode)
    BY <1>3, <1>4, <1>7, <2>2 DEF IInv, EntriesAgree
  <2> QED
    BY <2>1, <2>3 DEF EntriesAgree
<1>11. DirectoryMaps'
  <2>1. ASSUME NEW q \in 0 .. dir_size' - 1
        PROVE  q \in Entries /\ (q # p => q \in 0 .. dir_size - 1 /\ dir[q].name # name)
    <3>1. q \in Entries /\ (q # p => q \in 0 .. dir_size - 1)
      BY <1>1, <1>3, Sizes DEF Entries
    <3>2. q \in 0 .. dir_size
      BY <1>1, <1>3
    <3> QED
      BY <3>1, <3>2 DEF Creates
  <2>2. ASSUME NEW q \in 0 .. dir_size' - 1, NEW r \in 0 .. dir_size' - 1,
               dir'[q].inode # 0, q # r
        PROVE  dir'[q].name # dir'[r].name
    <3>1. CASE q = p
      BY <1>4, <1>7, <2>1, <2>2, <3>1
    <3>2. CASE r = p
      BY <1>4, <1>7, <2>1, <2>2, <3>2
    <3>3. CASE q # p /\ r # p
      <4>1. q \in 0 .. dir_size - 1 /\ r \in 0 .. dir_size - 1
        BY <2>1, <3>3
      <4>2. dir'[q] = dir[q] /\ dir'[r] = dir[r]
        BY <1>7, <2>1, <3>3
      <4> QED
        BY <2>2, <4>1, <4>2 DEF IInv, DirectoryMaps
    <3> QED
      BY <3>1, <3>2, <3>3
  <2> QED
    BY <1>10, <2>1, <2>2 DEF EntriesAgree, DirectoryMaps
<1>12. CacheAgrees'
  <2>1. \A t \in Slots : inode_table[t].cnt > 0 => inode_table[t].num # num
    BY <1>1, CacheIs DEF IInv, OneSlotEach
  <2>2. ASSUME NEW t \in Slots, inode_table'[t].cnt > 0
        PROVE  /\ inode_table'[t].num \in imap'
               /\ \A w \in Slots : inode_table'[w].cnt > 0
                        /\ inode_table'[w].num = inode_table'[t].num => w = t
               /\ disk'[inode_table'[t].num] =
                        [mode |-> inode_table'[t].mode, start |-> inode_table'[t].start]
    <3>1. CASE t = s
      BY <1>1, <1>3, <1>4, <1>7, <2>1, <3>1
    <3>2. CASE t # s
      <4>1. inode_table'[t] = inode_table[t] /\ inode_table[t].cnt > 0
        BY <1>7, <2>2, <3>2
      <4>2. inode_table[t].num \in imap /\ inode_table[t].num \in Inodes
        BY <1>6, <4>1, CacheIs DEF IInv, OneSlotEach
      <4>3. \A w \in Slots : inode_table'[w].cnt > 0
                /\ inode_table'[w].num = inode_table'[t].num => w = t
        <5>1. \A w \in Slots :
                inode_table[w].cnt > 0 /\ inode_table[w].num = inode_table[t].num => w = t
          BY <4>1, CacheIs DEF IInv, OneSlotEach
        <5>2. inode_table[t].num # num
          BY <2>1, <4>1
        <5> QED
          BY <1>4, <1>7, <4>1, <5>1, <5>2
      <4>4. disk'[inode_table[t].num] = disk[inode_table[t].num]
        BY <1>7, <2>1, <4>1, <4>2
      <4> QED
        BY <1>3, <4>1, <4>2, <4>3, <4>4, CacheIs DEF IInv, OneSlotEach
    <3> QED
      BY <3>1, <3>2
  <2>3. OneSlotEach'
    BY <2>2 DEF OneSlotEach
  <2> QED
    BY <2>3, CacheIs, PTL
<1>13. KindsAgree'
  BY <1>1, <1>3, <1>4, <1>6, <1>7, RootIsThere DEF IInv, KindsAgree
<1>14. Stored' = Stored \cup {num} /\ num \notin Stored
  BY <1>1, <1>3, <1>4, <1>6, <1>7 DEF Stored
<1>15. \A i \in Stored : i \in Inodes /\ disk'[i] = disk[i]
  BY <1>6, <1>7, <1>14 DEF Stored
<1>16. disk'[num] = rec
  BY <1>1, <1>7
<1>17. RunsAligned'
  BY <1>1, <1>4, <1>14, <1>15, <1>16 DEF IInv, RunsAligned
<1>18. MapsExact'
  <2>1. Run(disk'[num].start) = Bits(k)
    BY <1>1, <1>4, <1>16, RunIsBits
  <2>2. \A i \in Stored : Run(disk'[i].start) \cap Bits(k) = {}
    BY <1>15 DEF IInv, MapsExact, Creates
  <2>3. \A i, j \in Stored' : i # j => Run(disk'[i].start) \cap Run(disk'[j].start) = {}
    BY <1>14, <1>15, <2>1, <2>2 DEF IInv, MapsExact
  <2> DEFINE before == UNION {Run(disk[i].start) : i \in Stored}
             after == UNION {Run(disk'[i].start) : i \in Stored'}
  <2>4. /\ \A b : b \in after <=> \E i \in Stored' : b \in Run(disk'[i].start)
        /\ \A b : b \in before <=> \E i \in Stored : b \in Run(disk[i].start)
    OBVIOUS
  <2>5. smap = {0} \cup before
    BY DEF IInv, MapsExact
  <2>6. smap' = {0} \cup after
    <3> HIDE DEF before, after
    <3>1. \A b : b \in after <=> b \in before \/ b \in Bits(k)
      BY <1>14, <1>15, <2>1, <2>4
    <3> QED
      BY <1>3, <2>5, <3>1
  <2> QED
    BY <2>3, <2>6 DEF MapsExact, Run
<1>19. CountsAgree'
  <2>1. \A t \in Slots : inode_table[t].cnt \in Nat /\ Cardinality(DescsOn(t)) \in Nat
    BY DescsAreFinite, Sizes DEF IInv, TypeOK
  <2>2. \A t \in Slots : inode_table[t].cnt >= Cardinality(DescsOn(t))
    BY DEF IInv, CountsAgree
  <2>3. s # 1
    BY <1>1, RootIsThere
  <2>4. \A t \in Slots : inode_table'[t].cnt >= Cardinality(DescsOn(t)')
    BY <1>1, <1>4, <1>7, <1>8, <2>1, <2>2
  <2>5. inode_table'[1] = inode_table[1]
    BY <1>7, <2>3, Sizes
  <2>6. inode_table'[1].cnt > Cardinality(DescsOn(1)') /\ inode_table'[1].num = ROOT_INODE
    BY <1>8, <2>1, <2>3, <2>5, Sizes DEF IInv, CountsAgree
  <2> QED
    BY <2>4, <2>6 DEF CountsAgree, DescsOn
<1> QED
  BY <1>8, <1>9, <1>10, <1>11, <1>12, <1>13, <1>17, <1>18, <1>19 DEF IInv, NoneFails

\* do_unlink that removes a file.
LEMMA UnlinksKeeps ==
  ASSUME IInv, halted' \in {"no", "full", "smap", "flg"},
         NEW num, NEW s, NEW p, Unlinks(num, s, p)
  PROVE  IInv'
<1>1. /\ num \in Inodes /\ num # 0 /\ num \in imap
      /\ s \in Slots /\ inode_table[s].cnt = 0
      /\ dir_size \in 0 .. NR_INODES /\ p \in 0 .. dir_size - 1
      /\ p \in Entries /\ dir[p].inode = num
      /\ disk[num].mode = "regular"
  BY Sizes DEF Unlinks, IInv, TypeOK, Entries
<1>2. /\ imap' = imap \ {num} /\ smap' = smap \ Run(disk[num].start)
      /\ disk' = [disk EXCEPT ![num] = NoInode]
      /\ inode_table' = [inode_table EXCEPT ![s] = FreeSlot]
      /\ dir' = [dir EXCEPT ![p] = NoEntry]
      /\ dir_size' \in 0 .. dir_size
      /\ UNCHANGED fdVars
  BY DEF Unlinks
<1>3. /\ NoInode \in [mode : Modes, start : Nat] /\ NoInode.mode = "none"
      /\ FreeSlot \in SlotRecords /\ FreeSlot.cnt = 0
      /\ NoEntry \in [inode : Inodes \cup {0}, name : Names \cup SpecialNames \cup {NoName}]
      /\ NoEntry.inode = 0 /\ NoEntry.name = NoName
  BY Sizes DEF NoInode, FreeSlot, NoEntry, SlotRecords, Modes
<1>4. /\ disk \in [Inodes -> [mode : Modes, start : Nat]]
      /\ inode_table \in [Slots -> SlotRecords]
      /\ dir \in [Entries -> [inode : Inodes \cup {0},
                              name : Names \cup SpecialNames \cup {NoName}]]
      /\ imap \subseteq Inodes
  BY DEF IInv, TypeOK, SlotRecords, Entries
<1>5. /\ \A i \in Inodes : disk'[i] = IF i = num THEN NoInode ELSE disk[i]
      /\ \A t \in Slots : inode_table'[t] = IF t = s THEN FreeSlot ELSE inode_table[t]
      /\ \A q \in Entries : dir'[q] = IF q = p THEN NoEntry ELSE dir[q]
  BY <1>1, <1>2, <1>4
<1>6. TypeOK'
  <2>1. imap' \subseteq Inodes /\ smap' \subseteq 0 .. NR_SECTS - 1
    BY <1>2 DEF IInv, TypeOK
  <2>2. disk' \in [Inodes -> [mode : Modes, start : Nat]]
    BY <1>1, <1>2, <1>3, <1>4
  <2>3. dir' \in [Entries -> [inode : Inodes \cup {0},
                              name : Names \cup SpecialNames \cup {NoName}]]
    BY <1>1, <1>2, <1>3, <1>4
  <2>4. dir_size' \in 0 .. NR_INODES
    BY <1>1, <1>2, Sizes
  <2>5. inode_table' \in [Slots -> SlotRecords]
    BY <1>1, <1>2, <1>3, <1>4
  <2>6. /\ f_desc_table' \in [Descs -> Slots \cup {0}]
        /\ filp' \in [Users -> [Fds -> Descs \cup {0}]]
    BY <1>2 DEF IInv, TypeOK, fdVars
  <2> QED
    BY <2>1, <2>2, <2>3, <2>4, <2>5, <2>6 DEF TypeOK, SlotRecords, Entries
<1>7. EntriesAgree'
  <2>1. \A q \in Entries : dir'[q].inode = 0 <=> dir'[q].name = NoName
    BY <1>3, <1>5 DEF IInv, EntriesAgree
  <2>2. \A q \in Entries : q # p => dir[q].inode # num
    BY <1>1 DEF IInv, EntriesAgree
  <2>3. \A q, r \in Entries : dir'[q].inode # 0 =>
            dir'[q].inode \in imap' /\ (q # r => dir'[q].inode # dir'[r].inode)
    BY <1>2, <1>3, <1>5, <2>2 DEF IInv, EntriesAgree
  <2> QED
    BY <2>1, <2>3 DEF EntriesAgree
<1>8. DirectoryMaps'
  <2>1. \A q \in 0 .. dir_size' - 1 : q \in 0 .. dir_size - 1 /\ q \in Entries
    <3>1. dir_size \in Nat /\ dir_size' \in Nat /\ dir_size' <= dir_size
          /\ dir_size <= NR_INODES
      BY <1>1, <1>2, Sizes
    <3>2. \A n, m \in Nat : n <= m /\ m <= NR_INODES =>
                \A q \in 0 .. n - 1 : q \in 0 .. m - 1 /\ q \in 0 .. NR_INODES
      BY Sizes
    <3> QED
      BY <3>1, <3>2 DEF Entries
  <2>2. ASSUME NEW q \in 0 .. dir_size' - 1, NEW r \in 0 .. dir_size' - 1,
               dir'[q].inode # 0, q # r
        PROVE  dir'[q].name # dir'[r].name
    <3>1. q # p /\ dir'[q] = dir[q] /\ dir[q].inode # 0 /\ dir[q].name # NoName
      BY <1>3, <1>5, <2>1, <2>2 DEF IInv, EntriesAgree
    <3>2. CASE r = p
      BY <1>1, <1>3, <1>5, <3>1, <3>2
    <3>3. CASE r # p
      BY <1>5, <2>1, <2>2, <3>1, <3>3 DEF IInv, DirectoryMaps
    <3> QED
      BY <3>2, <3>3
  <2> QED
    BY <1>7, <2>1, <2>2 DEF EntriesAgree, DirectoryMaps
<1>9. CacheAgrees'
  <2>1. \A t \in Slots : inode_table[t].cnt > 0 => inode_table[t].num # num
    BY DEF Unlinks, Caching
  <2>2. ASSUME NEW t \in Slots, inode_table'[t].cnt > 0
        PROVE  /\ inode_table'[t] = inode_table[t] /\ inode_table[t].cnt > 0
               /\ inode_table[t].num \in imap' /\ inode_table[t].num \in Inodes
               /\ disk'[inode_table[t].num] = disk[inode_table[t].num]
    <3>1. inode_table'[t] = inode_table[t] /\ inode_table[t].cnt > 0
      BY <1>3, <1>5, <2>2
    <3>2. inode_table[t].num \in imap
      BY <3>1, CacheIs DEF IInv, OneSlotEach
    <3> QED
      BY <1>2, <1>4, <1>5, <2>1, <3>1, <3>2
  <2>3. OneSlotEach'
    BY <2>2, CacheIs DEF IInv, OneSlotEach
  <2> QED
    BY <2>3, CacheIs, PTL
<1>10. KindsAgree'
  BY <1>2, <1>4, <1>5 DEF IInv, KindsAgree
<1>11. Stored' = Stored \ {num} /\ num \in Stored
  BY <1>1, <1>2, <1>4, <1>5 DEF Stored
<1>12. \A i \in Stored' : i \in Inodes /\ i \in Stored /\ i # num /\ disk'[i] = disk[i]
  BY <1>4, <1>5, <1>11 DEF Stored
<1>13. RunsAligned'
  BY <1>12 DEF IInv, RunsAligned
<1>14. MapsExact'
  <2>1. PICK k \in 0 .. NR_SECTS :
            disk[num].start = n_1st_sect + k * NR_DEFAULT_FILE_SECTS
    BY <1>11 DEF IInv, RunsAligned
  <2>2. 0 \notin Run(disk[num].start)
    <3>1. k \in Nat /\ k * NR_DEFAULT_FILE_SECTS \in Nat
      BY <2>1, Sizes
    <3>2. 0 \notin Bits(k)
      BY <3>1, Sizes DEF Bits
    <3> QED
      BY <2>1, <3>1, <3>2, RunIsBits
  <2>3. \A i \in Stored' : Run(disk[i].start) \cap Run(disk[num].start) = {}
    BY <1>11, <1>12 DEF IInv, MapsExact
  <2>4. \A i, j \in Stored' : i # j => Run(disk'[i].start) \cap Run(disk'[j].start) = {}
    BY <1>12 DEF IInv, MapsExact
  <2> DEFINE before == UNION {Run(disk[i].start) : i \in Stored}
             after == UNION {Run(disk'[i].start) : i \in Stored'}
  <2>5. /\ \A b : b \in after <=> \E i \in Stored' : b \in Run(disk'[i].start)
        /\ \A b : b \in before <=> \E i \in Stored : b \in Run(disk[i].start)
    OBVIOUS
  <2>6. smap = {0} \cup before
    BY DEF IInv, MapsExact
  <2>7. smap' = {0} \cup after
    <3> HIDE DEF before, after
    <3>1. \A b : b \in after <=> b \in before /\ b \notin Run(disk[num].start)
      BY <1>11, <1>12, <2>3, <2>5
    <3> QED
      BY <1>2, <2>2, <2>6, <3>1
  <2> QED
    BY <2>4, <2>7 DEF MapsExact, Run
<1>15. FilpsAgree'
  BY <1>2 DEF IInv, FilpsAgree, fdVars
<1>16. CountsAgree'
  <2>1. \A t \in Slots : DescsOn(t)' = DescsOn(t)
    BY <1>2 DEF DescsOn, fdVars
  <2>2. s # 1
    BY <1>1, RootIsThere
  <2>3. \A t \in Slots : inode_table'[t].cnt >= Cardinality(DescsOn(t)')
    BY <1>1, <1>3, <1>5, <2>1 DEF IInv, CountsAgree
  <2>4. inode_table'[1].cnt > Cardinality(DescsOn(1)') /\ inode_table'[1].num = ROOT_INODE
    BY <1>5, <2>1, <2>2, Sizes DEF IInv, CountsAgree
  <2> QED
    BY <2>3, <2>4 DEF CountsAgree, DescsOn
<1> QED
  BY <1>6, <1>7, <1>8, <1>9, <1>10, <1>13, <1>14, <1>15, <1>16 DEF IInv, NoneFails

\* The tables agree when mkfs has made the file system.
LEMMA InitHolds == Init => IInv
<1> SUFFICES ASSUME Init PROVE IInv
  OBVIOUS
<1>1. /\ imap = 1 .. NR_TTY + 1
      /\ smap = 0 .. NR_DEFAULT_FILE_SECTS
      /\ dir_size = NR_TTY + 1
      /\ f_desc_table = [d \in Descs |-> 0]
      /\ filp = [u \in Users |-> [fd \in Fds |-> 0]]
      /\ halted = "no"
  BY DEF Init
<1>2. /\ disk[ROOT_INODE] = [mode |-> "directory", start |-> n_1st_sect]
      /\ \A i \in 2 .. NR_TTY + 1 : disk[i] = [mode |-> "char", start |-> i - 2]
      /\ disk \in [Inodes -> [mode : Modes, start : Nat]]
  <2> DEFINE D(i) == CASE i = ROOT_INODE -> [mode |-> "directory", start |-> n_1st_sect]
                       [] i \in 2 .. NR_TTY + 1 -> [mode |-> "char", start |-> i - 2]
                       [] i > NR_TTY + 1 -> NoInode
  <2>1. D(ROOT_INODE) = [mode |-> "directory", start |-> n_1st_sect]
    BY Sizes DEF ROOT_INODE
  <2>2. ASSUME NEW i \in 2 .. NR_TTY + 1
        PROVE  D(i) = [mode |-> "char", start |-> i - 2] /\ i \in Inodes /\ i - 2 \in Nat
    BY Sizes DEF ROOT_INODE, Inodes
  <2>3. ASSUME NEW i \in Inodes, i > NR_TTY + 1
        PROVE  D(i) = NoInode
    BY <2>3, Sizes DEF ROOT_INODE, Inodes
  <2>4. \A i \in Inodes : i = ROOT_INODE \/ i \in 2 .. NR_TTY + 1 \/ i > NR_TTY + 1
    BY Sizes DEF ROOT_INODE, Inodes
  <2>5. disk = [i \in Inodes |-> D(i)]
    BY DEF Init
  <2> HIDE DEF D
  <2>6. \A i \in Inodes : D(i) \in [mode : Modes, start : Nat]
    BY <2>1, <2>2, <2>3, <2>4, Sizes DEF Modes, NoInode
  <2> QED
    BY <2>1, <2>2, <2>5, <2>6, Sizes
<1>3. /\ \A p \in Entries : dir[p] = IF p <= NR_TTY THEN [inode |-> p + 1, name |-> p]
                                     ELSE NoEntry
      /\ dir \in [Entries -> [inode : Inodes \cup {0},
                              name : Names \cup SpecialNames \cup {NoName}]]
  BY SMTT(30), Sizes DEF Init, Entries, NoEntry, Inodes, SpecialNames
<1>4. /\ \A s \in Slots : inode_table[s] =
                IF s = 1 THEN [cnt |-> 1, num |-> ROOT_INODE, mode |-> "directory",
                               start |-> n_1st_sect]
                ELSE FreeSlot
      /\ inode_table \in [Slots -> SlotRecords]
  BY Sizes DEF Init, FreeSlot, SlotRecords, Modes
<1>5. TypeOK
  BY <1>1, <1>2, <1>3, <1>4, Sizes DEF TypeOK, Inodes, Entries, SlotRecords
<1>6. EntriesAgree
  <2>1. \A p \in Entries : dir[p].inode = 0 <=> dir[p].name = NoName
    BY <1>3, Sizes DEF Entries, NoEntry, NoName
  <2>2. \A p, q \in Entries : dir[p].inode # 0 =>
            dir[p].inode \in imap /\ (p # q => dir[p].inode # dir[q].inode)
    BY <1>1, <1>3, Sizes DEF Entries, NoEntry
  <2> QED
    BY <2>1, <2>2 DEF EntriesAgree
<1>7. DirectoryMaps
  BY <1>1, <1>3, <1>6, Sizes DEF DirectoryMaps, EntriesAgree, Entries
<1>8. CountsAgree
  <2>1. \A s \in Slots : DescsOn(s) = {} /\ Cardinality(DescsOn(s)) = 0
    BY <1>1, Sizes, FS_EmptySet DEF DescsOn
  <2> QED
    BY <1>4, <2>1, Sizes DEF CountsAgree, FreeSlot
<1>9. FilpsAgree
  BY <1>1, Sizes DEF FilpsAgree
<1>10. CacheAgrees
  <2>1. \A s \in Slots : inode_table[s].cnt > 0 => s = 1
    BY <1>4 DEF FreeSlot
  <2>2. ROOT_INODE \in imap
    BY <1>1, Sizes DEF ROOT_INODE
  <2>3. OneSlotEach
    BY <1>2, <1>4, <2>1, <2>2, Sizes DEF OneSlotEach
  <2> QED
    BY <2>3, CacheIs
<1>11. KindsAgree
  <2>1. \A i \in imap : i = ROOT_INODE \/ i \in 2 .. NR_TTY + 1
    BY <1>1, Sizes DEF ROOT_INODE
  <2> QED
    <3>1. ASSUME NEW i \in 2 .. NR_TTY + 1
          PROVE  disk[i].mode = "char" /\ i # ROOT_INODE
      <4>1. disk[i] = [mode |-> "char", start |-> i - 2]
        BY <1>2
      <4> QED
        BY <4>1, Sizes DEF ROOT_INODE
    <3>2. disk[ROOT_INODE].mode = "directory"
      BY <1>2
    <3> QED
      BY <2>1, <3>1, <3>2 DEF KindsAgree
<1>12. Stored = {ROOT_INODE}
  <2>1. \A i \in imap : i = ROOT_INODE \/ i \in 2 .. NR_TTY + 1
    BY <1>1, Sizes DEF ROOT_INODE
  <2>2. ROOT_INODE \in imap
    BY <1>1, Sizes DEF ROOT_INODE
  <2> QED
    <3>1. ASSUME NEW i \in 2 .. NR_TTY + 1
          PROVE  disk[i].mode = "char" /\ i # ROOT_INODE
      <4>1. disk[i] = [mode |-> "char", start |-> i - 2]
        BY <1>2
      <4> QED
        BY <4>1, Sizes DEF ROOT_INODE
    <3>2. disk[ROOT_INODE].mode = "directory"
      BY <1>2
    <3> QED
      BY <2>1, <2>2, <3>1, <3>2 DEF Stored
<1>13. n_1st_sect = n_1st_sect + 0 * NR_DEFAULT_FILE_SECTS
  BY Sizes
<1>14. RunsAligned
  BY <1>2, <1>12, <1>13, Sizes DEF RunsAligned
<1>15. MapsExact
  <2>1. Run(disk[ROOT_INODE].start) = 1 .. NR_DEFAULT_FILE_SECTS
    <3>1. Run(n_1st_sect) = 1 .. NR_DEFAULT_FILE_SECTS
      BY Sizes DEF Run
    <3> QED
      BY <1>2, <3>1
  <2>2. UNION {Run(disk[i].start) : i \in Stored} = 1 .. NR_DEFAULT_FILE_SECTS
    BY <1>12, <2>1
  <2>3. smap = {0} \cup 1 .. NR_DEFAULT_FILE_SECTS
    BY <1>1, Sizes
  <2> QED
    BY <1>12, <2>2, <2>3 DEF MapsExact
<1> QED
  BY <1>1, <1>5, <1>6, <1>7, <1>8, <1>9, <1>10, <1>11, <1>14, <1>15 DEF IInv, NoneFails

-----------------------------------------------------------------------------
(***************************************************************************)
(* The theorems.                                                           *)
(***************************************************************************)
\* A halt, and a step that changes nothing.
LEMMA StaysKeeps ==
  ASSUME IInv, halted' \in {"no", "full", "smap", "flg"}, Stays
  PROVE  IInv'
<1>1. UNCHANGED diskVars /\ UNCHANGED inode_table /\ UNCHANGED fdVars
  BY DEF Stays
<1>2. TypeOK'
  BY <1>1 DEF IInv, TypeOK, diskVars, fdVars
<1>3. FilpsAgree'
  BY <1>1 DEF IInv, FilpsAgree, fdVars
<1>4. CountsAgree'
  BY <1>1 DEF IInv, CountsAgree, DescsOn, fdVars
<1>5. CacheAgrees'
  BY <1>1 DEF IInv, CacheAgrees, Caching, diskVars
<1> QED
  BY <1>1, <1>2, <1>3, <1>4, <1>5, DiskFrame DEF IInv, NoneFails

\* Every behaviour keeps the inductive invariant.
LEMMA Invariance == Spec => []IInv
<1>1. ASSUME IInv, [Next]_vars
      PROVE  IInv'
  BY <1>1, StepsAre, StaysKeeps, OpensKeeps, CreatesKeeps, ClosesKeeps, RefusesKeeps,
     UnlinksKeeps
<1> QED
  BY InitHolds, <1>1, PTL DEF Spec

\* The tables hold what they are made for, whatever is opened, created and removed.
THEOREM TypeCorrect == Spec => []TypeOK
<1>1. IInv => TypeOK
  BY DEF IInv
<1> QED
  BY <1>1, Invariance, PTL

\* The sector map is exactly the sectors of the files, and no two files share one.
THEOREM SectorsAreOwned == Spec => []MapsExact
<1>1. IInv => MapsExact
  BY DEF IInv
<1> QED
  BY <1>1, Invariance, PTL

\* The cache has an inode once, as it is on the disk.
THEOREM CacheIsCoherent == Spec => []CacheAgrees
<1>1. IInv => CacheAgrees
  BY DEF IInv
<1> QED
  BY <1>1, Invariance, PTL

\* Every open file is counted in its slot, and the root directory for good.
THEOREM DescriptorsAreCounted == Spec => []RefsCoverDescs
<1>1. IInv => RefsCoverDescs
  BY RootIsThere DEF IInv, CountsAgree, FilpsAgree, RefsCoverDescs, DescsOn
<1> QED
  BY <1>1, Invariance, PTL

\* The names in the directory lead to different files that exist.
THEOREM DirectoryIsExact == Spec => []DirectoryMaps
<1>1. IInv => DirectoryMaps
  BY DEF IInv
<1> QED
  BY <1>1, Invariance, PTL

\* The machine stops for want of sectors only at a file that has no room, and then
\* nothing changes any more.
LEMMA SectorsAreUsedUp ==
  ASSUME IInv, [Next]_vars, halted = "smap" => ~RoomForFile
  PROVE  halted' = "smap" => ~RoomForFile'
<1>1. CASE halted # "no"
  <2>1. UNCHANGED vars
    BY <1>1 DEF Next, OpenWithoutRoom, CanCreate, Create, CreateHalts, Open, Close, Unlink,
       UnlinkRefused, CanUnlink
  <2> QED
    BY <2>1 DEF vars, RoomForFile
<1>2. ASSUME NEW u, NEW name, CreateHalts(u, name), halted' = "smap"
      PROVE  ~RoomForFile'
  <2> DEFINE free == (0 .. NR_SECTS - 1) \ smap
  <2>1. smap' = smap /\ (NoSectors \/ ~(NewBits \subseteq 0 .. NR_SECTS - 1))
    BY <1>2 DEF CreateHalts, Halt
  <2>2. ASSUME NEW b \in free, b .. b + NR_DEFAULT_FILE_SECTS - 1 \subseteq free
        PROVE  FALSE
    <3>1. ~NoSectors
      BY <2>2 DEF NoSectors
    <3>2. FirstBit \in free /\ FirstBit <= b /\ free \subseteq Nat
      <4>1. free # {} /\ free \subseteq Nat
        BY <2>2, Sizes
      <4> QED
        BY <2>2, <4>1, MinIsLeast DEF FirstBit
    <3>3. b + NR_DEFAULT_FILE_SECTS - 1 < NR_SECTS
      <4>1. b + NR_DEFAULT_FILE_SECTS - 1 \in b .. b + NR_DEFAULT_FILE_SECTS - 1
        BY <3>2, Sizes
      <4> QED
        BY <2>2, <4>1, Sizes
    <3>4. NewBits \subseteq 0 .. NR_SECTS - 1
      BY <2>2, <3>2, <3>3, Sizes DEF NewBits
    <3> QED
      BY <2>1, <3>1, <3>4
  <2> QED
    BY <2>1, <2>2 DEF RoomForFile
<1>3. CASE halted = "no"
  <2>1. halted' # "smap" \/ \E u \in Users, name \in Names : CreateHalts(u, name)
    BY <1>3 DEF Next, vars, Halt, OpenWithoutRoom, Create, Open, Close, Unlink, UnlinkRefused
  <2> QED
    BY <1>2, <2>1
<1> QED
  BY <1>1, <1>3

\* The assertions of open.c, link.c and misc.c about the maps, the modes and the counts
\* never fail, and alloc_smap_bit stops the machine only when the sectors are used up.
THEOREM AssertionsHold == Spec => []AssertsHold
<1> DEFINE UsedUp == halted = "smap" => ~RoomForFile
<1>1. Init => UsedUp
  BY DEF Init
<1>2. IInv /\ UsedUp /\ [Next]_vars => UsedUp'
  BY SectorsAreUsedUp
<1>3. IInv /\ UsedUp => AssertsHold
  BY DEF IInv, NoneFails, AssertsHold
<1> HIDE DEF UsedUp
<1> QED
  BY <1>1, <1>2, <1>3, Invariance, PTL DEF Spec

\* A descriptor that stays open stays with its file, whatever others do.
THEOREM OpenFilesAreKept == Spec => OpenFilesStay
<1> DEFINE A == \A d \in Descs :
                    LET s == f_desc_table[d] IN
                    s # 0 /\ f_desc_table'[d] = s =>
                        /\ inode_table'[s].num = inode_table[s].num
                        /\ disk'[inode_table[s].num] = disk[inode_table[s].num]
<1>1. ASSUME IInv, [Next]_vars
      PROVE  A
  <2> SUFFICES ASSUME NEW d \in Descs, NEW s,
                      s = f_desc_table[d], s # 0, f_desc_table'[d] = s
               PROVE  /\ inode_table'[s].num = inode_table[s].num
                      /\ disk'[inode_table[s].num] = disk[inode_table[s].num]
    OBVIOUS
  <2>1. s \in Slots /\ d \in DescsOn(s)
    BY <1>1 DEF IInv, TypeOK, DescsOn
  <2>2. inode_table[s].cnt > 0 /\ inode_table[s] \in SlotRecords
    <3>1. Cardinality(DescsOn(s)) > 0 /\ Cardinality(DescsOn(s)) \in Nat
      BY <2>1, DescsAreFinite
    <3>2. inode_table[s].cnt \in 0 .. MaxCnt + 1 /\ inode_table[s] \in SlotRecords
      BY <1>1, <2>1 DEF IInv, TypeOK, SlotRecords
    <3>3. inode_table[s].cnt >= Cardinality(DescsOn(s))
      BY <1>1, <2>1 DEF IInv, CountsAgree
    <3> QED
      BY <3>1, <3>2, <3>3, Sizes
  <2>3. inode_table[s].num \in imap /\ inode_table[s].num \in Inodes
    BY <1>1, <2>1, <2>2 DEF IInv, CacheAgrees, TypeOK
  <2>4. CASE Stays
    BY <2>4 DEF Stays, diskVars
  <2>5. ASSUME NEW num, NEW t, Gets(num, t), UNCHANGED diskVars
        PROVE  /\ inode_table'[s].num = inode_table[s].num
               /\ disk'[inode_table[s].num] = disk[inode_table[s].num]
    BY <1>1, <2>1, <2>2, <2>5, GetsKeeps DEF diskVars
  <2>6. ASSUME NEW u, NEW fd, NEW e, NEW name, NEW num, NEW t, NEW p, NEW k,
               Creates(u, fd, e, name, num, t, p, k)
        PROVE  /\ inode_table'[s].num = inode_table[s].num
               /\ disk'[inode_table[s].num] = disk[inode_table[s].num]
    <3>1. t # s /\ inode_table[s].num # num
      BY <2>2, <2>3, <2>6 DEF Creates
    <3> QED
      BY <1>1, <2>1, <2>3, <2>6, <3>1 DEF Creates, IInv, TypeOK
  <2>7. ASSUME NEW u, NEW fd, NEW e, NEW t, Closes(u, fd, e, t)
        PROVE  /\ inode_table'[s].num = inode_table[s].num
               /\ disk'[inode_table[s].num] = disk[inode_table[s].num]
    <3>1. /\ inode_table' = [inode_table EXCEPT ![t] = PutInode(inode_table[t])]
          /\ f_desc_table' = [f_desc_table EXCEPT ![e] = 0]
          /\ e \in Descs /\ f_desc_table[e] = t /\ disk' = disk
      BY <2>7 DEF Closes, diskVars
    <3>2. d # e
      BY <1>1, <3>1 DEF IInv, TypeOK
    <3>3. CASE t = s
      <4>1. e \in DescsOn(s) /\ d \in DescsOn(s) \ {e}
        BY <2>1, <3>1, <3>2, <3>3 DEF DescsOn
      <4>2. /\ IsFiniteSet(DescsOn(s)) /\ Cardinality(DescsOn(s)) \in Nat
            /\ Cardinality(DescsOn(s)) > 0
        BY <4>1, DescsAreFinite
      <4>3. /\ IsFiniteSet(DescsOn(s) \ {e})
            /\ Cardinality(DescsOn(s) \ {e}) = Cardinality(DescsOn(s)) - 1
        BY <4>1, <4>2, FS_RemoveElement
      <4>4. Cardinality(DescsOn(s) \ {e}) # 0
        BY <4>1, <4>3, FS_EmptySet
      <4>5. inode_table[s].cnt >= Cardinality(DescsOn(s))
        BY <1>1, <2>1 DEF IInv, CountsAgree
      <4>6. inode_table[s].cnt \in Nat
        BY <2>2, Sizes DEF SlotRecords
      <4>7. inode_table[s].cnt > 1
        BY <4>2, <4>3, <4>4, <4>5, <4>6
      <4>8. PutInode(inode_table[s]).num = inode_table[s].num
        BY <2>2, <4>7, PutIs
      <4> QED
        BY <1>1, <2>1, <3>1, <3>3, <4>8 DEF IInv, TypeOK
    <3>4. CASE t # s
      BY <1>1, <2>1, <3>1, <3>4 DEF IInv, TypeOK
    <3> QED
      BY <3>3, <3>4
  <2>8. ASSUME NEW num, NEW t, NEW p, Unlinks(num, t, p)
        PROVE  /\ inode_table'[s].num = inode_table[s].num
               /\ disk'[inode_table[s].num] = disk[inode_table[s].num]
    <3>1. t # s /\ inode_table[s].num # num
      BY <2>1, <2>2, <2>8 DEF Unlinks, Caching
    <3> QED
      BY <1>1, <2>1, <2>3, <2>8, <3>1 DEF Unlinks, IInv, TypeOK
  <2> QED
    BY <1>1, <2>4, <2>5, <2>6, <2>7, <2>8, StepsAre DEF Opens, Refuses
<1>2. IInv /\ [Next]_vars => [A]_vars
  BY <1>1
<1> QED
  BY <1>2, Invariance, PTL DEF Spec, OpenFilesStay

-----------------------------------------------------------------------------
(***************************************************************************)
(* Numbers and sets of numbers.                                            *)
(***************************************************************************)
\* The sizes are numbers, and the map is made of whole bytes.
LEMMA ByteSizes ==
  /\ BITS \in Nat \ {0}
  /\ N \in Nat \ {0} /\ SMAP_BYTES \in Nat /\ SMAP_BYTES * BITS = NR_SECTS
<1>1. BITS \in Nat \ {0}
  BY BytesAssumption
<1>2. NR_SECTS \div BITS \in Nat /\ NR_SECTS = BITS * (NR_SECTS \div BITS) + (NR_SECTS % BITS)
  BY <1>1, Sizes, Division
<1>3. NR_SECTS = BITS * SMAP_BYTES /\ SMAP_BYTES \in Nat
  BY <1>1, <1>2, BytesAssumption, Sizes DEF SMAP_BYTES
<1> QED
  BY <1>1, <1>3, Sizes DEF N

\* A number that is in a set and below the others is its minimum.
LEMMA MinIs ==
  ASSUME NEW S, S \subseteq Int, NEW m \in S, \A k \in S : m <= k
  PROVE  Min(S) = m
<1>1. Min(S) \in S /\ \A k \in S : Min(S) <= k
  BY DEF Min
<1>2. Min(S) \in Int /\ m \in Int /\ Min(S) <= m /\ m <= Min(S)
  BY <1>1
<1> QED
  BY <1>2

\* Bytes do not overlap.
LEMMA ByteIsOne ==
  ASSUME NEW i \in Nat, NEW j \in Nat, NEW k \in Byte, NEW b \in Byte,
         i * BITS + k = j * BITS + b
  PROVE  i = j /\ k = b
<1>1. BITS \in Nat /\ i * BITS \in Nat /\ j * BITS \in Nat
      /\ k \in Nat /\ b \in Nat /\ k < BITS /\ b < BITS
  BY ByteSizes DEF Byte
<1>2. ~(i < j)
  <2>1. i < j => i * BITS + BITS <= j * BITS
    BY <1>1, ProductsGrow
  <2> QED
    BY <1>1, <2>1
<1>3. ~(j < i)
  <2>1. j < i => j * BITS + BITS <= i * BITS
    BY <1>1, ProductsGrow
  <2> QED
    BY <1>1, <2>1
<1>4. i = j
  BY <1>2, <1>3
<1> QED
  BY <1>1, <1>4

\* Setting bits of a byte of the map is setting them in the map.
LEMMA ByteAdds ==
  ASSUME NEW M, NEW j \in 0 .. SMAP_BYTES - 1, NEW t \in SUBSET Byte
  PROVE  [BytesOf(M) EXCEPT ![j] = @ \cup t] = BytesOf(M \cup {j * BITS + b : b \in t})
<1> DEFINE new == {j * BITS + b : b \in t}
<1>1. ASSUME NEW i \in 0 .. SMAP_BYTES - 1, NEW k \in Byte
      PROVE  i * BITS + k \in new <=> i = j /\ k \in t
  <2>1. i \in Nat /\ j \in Nat
    BY ByteSizes
  <2> QED
    BY <2>1, ByteIsOne
<1>2. \A i \in 0 .. SMAP_BYTES - 1 :
        BytesOf(M \cup new)[i] = IF i = j THEN BytesOf(M)[i] \cup t ELSE BytesOf(M)[i]
  <2> TAKE i \in 0 .. SMAP_BYTES - 1
  <2> HIDE DEF new
  <2>1. BytesOf(M \cup new)[i] = {k \in Byte : i * BITS + k \in M \cup new}
    BY DEF BytesOf
  <2>2. BytesOf(M)[i] = {k \in Byte : i * BITS + k \in M}
    BY DEF BytesOf
  <2> QED
    BY <1>1, <2>1, <2>2
<1> QED
  BY <1>2 DEF BytesOf

-----------------------------------------------------------------------------
(***************************************************************************)
(* alloc_smap_bit.                                                         *)
(***************************************************************************)
\* How many bits are taken when the loop comes to byte j: all that it was past.
Done(j) ==
    IF NoSectors \/ j * BITS <= FirstBit THEN 0
    ELSE IF j * BITS - FirstBit <= N THEN j * BITS - FirstBit
    ELSE N

Taken(j) == IF Done(j) = 0 THEN {} ELSE FirstBit .. FirstBit + Done(j) - 1

\* The variables of the loop when it comes to byte j.
LoopState(j) ==
    [map |-> BytesOf(smap \cup Taken(j)),
     left |-> N - Done(j),
     sect |-> IF Done(j) = 0 THEN 0 ELSE FirstBit - 1 + n_1st_sect,
     clear |-> Taken(j) \cap smap = {}]

\* The first bit that is free, after the reserved one.
LEMMA FirstBitIs ==
  ASSUME TypeOK, 0 \in smap, ~NoSectors
  PROVE  /\ FirstBit \in 1 .. NR_SECTS - 1 /\ FirstBit \notin smap
         /\ \A b \in 0 .. NR_SECTS - 1 : b \notin smap => FirstBit <= b
<1> DEFINE S == (0 .. NR_SECTS - 1) \ smap
<1>1. S # {} /\ S \subseteq Nat
  BY DEF NoSectors
<1>2. Min(S) \in S /\ \A k \in S : Min(S) <= k
  <2> HIDE DEF S
  <2> QED
    BY <1>1, MinIsLeast
<1> QED
  BY <1>2 DEF FirstBit

\* A byte of the map is within it.
LEMMA ByteIsInMap ==
  ASSUME NEW j \in 0 .. SMAP_BYTES - 1
  PROVE  /\ j \in Nat /\ j * BITS \in Nat /\ j * BITS + BITS <= NR_SECTS
         /\ (j + 1) * BITS = j * BITS + BITS
<1>1. j \in Nat /\ SMAP_BYTES \in Nat /\ j < SMAP_BYTES /\ BITS \in Nat
  BY ByteSizes
<1>2. j * BITS + BITS <= SMAP_BYTES * BITS
  BY <1>1, ProductsGrow
<1>3. SMAP_BYTES * BITS = NR_SECTS
  BY ByteSizes
<1> QED
  BY <1>1, <1>2, <1>3

\* A byte with k bits before the first one that is taken: with what is done before it,
\* the bits that are taken are those of the closed form.
LEMMA TurnTakes ==
  ASSUME TypeOK, 0 \in smap, ~NoSectors, NEW j \in 0 .. SMAP_BYTES - 1,
         NEW k \in Byte, Done(j) < N, j * BITS + k = FirstBit + Done(j)
  PROVE  LET taken == {b \in Byte : b >= k /\ b - k < N - Done(j)} IN
         /\ Done(j + 1) = Done(j) + Cardinality(taken) /\ Done(j + 1) # 0
         /\ Taken(j + 1) = Taken(j) \cup {j * BITS + b : b \in taken}
         /\ \A b \in Byte : j * BITS + b \notin Taken(j)
<1> DEFINE m == j * BITS
           left == N - Done(j)
           taken == {b \in Byte : b >= k /\ b - k < left}
           c == IF left <= BITS - k THEN left ELSE BITS - k
<1>1. /\ m \in Nat /\ (j + 1) * BITS = m + BITS /\ BITS \in Nat \ {0} /\ N \in Nat \ {0}
      /\ FirstBit \in Nat /\ k \in Nat /\ k < BITS
  BY ByteIsInMap, ByteSizes, FirstBitIs DEF Byte
<1>2. Done(j) = IF m <= FirstBit THEN 0 ELSE IF m - FirstBit <= N THEN m - FirstBit ELSE N
  BY DEF Done
<1>3. Done(j + 1) = IF m + BITS <= FirstBit THEN 0
                    ELSE IF m + BITS - FirstBit <= N THEN m + BITS - FirstBit ELSE N
  BY <1>1 DEF Done
<1> HIDE DEF m
<1>4. Done(j) \in Nat /\ left \in Nat \ {0} /\ m + k = FirstBit + Done(j)
  BY <1>1, <1>2 DEF m
<1>5. Done(j + 1) = Done(j) + c /\ c \in Nat \ {0}
  BY <1>1, <1>2, <1>3, <1>4
<1>6. taken = k .. k + c - 1
  BY <1>1, <1>4 DEF Byte
<1> HIDE DEF taken, c, left
<1>7. Cardinality(taken) = c
  <2>1. k \in Int /\ k + c - 1 \in Int /\ ~(k > k + c - 1) /\ (k + c - 1) - k + 1 = c
    BY <1>1, <1>5
  <2>2. Cardinality(k .. k + c - 1) = (k + c - 1) - k + 1
    BY <2>1, FS_Interval
  <2> QED
    BY <1>6, <2>1, <2>2
<1>8. Taken(j + 1) = FirstBit .. FirstBit + Done(j) + c - 1
  <2>1. Taken(j + 1) = FirstBit .. FirstBit + Done(j + 1) - 1
    BY <1>1, <1>4, <1>5 DEF Taken
  <2>2. FirstBit + Done(j + 1) - 1 = FirstBit + Done(j) + c - 1
    BY <1>1, <1>4, <1>5
  <2> QED
    BY <2>1, <2>2
<1>9. Taken(j) = FirstBit .. FirstBit + Done(j) - 1
  BY <1>1, <1>4 DEF Taken
<1>10. {m + b : b \in taken} = FirstBit + Done(j) .. FirstBit + Done(j) + c - 1
  <2>1. ASSUME NEW x \in FirstBit + Done(j) .. FirstBit + Done(j) + c - 1
        PROVE  x \in {m + b : b \in taken}
    <3>1. x - m \in k .. k + c - 1 /\ x = m + (x - m)
      BY <1>1, <1>4, <1>5
    <3> QED
      BY <1>6, <3>1
  <2>2. ASSUME NEW b \in taken
        PROVE  m + b \in FirstBit + Done(j) .. FirstBit + Done(j) + c - 1
    BY <1>1, <1>4, <1>5, <1>6
  <2> QED
    BY <2>1, <2>2
<1>11. Taken(j + 1) = Taken(j) \cup {m + b : b \in taken}
  <2>1. ASSUME NEW F \in Nat, NEW d \in Nat, NEW e \in Nat
        PROVE  F .. F + d + e - 1 = (F .. F + d - 1) \cup (F + d .. F + d + e - 1)
    OBVIOUS
  <2>2. FirstBit \in Nat /\ Done(j) \in Nat /\ c \in Nat
    BY <1>1, <1>4, <1>5
  <2>3. FirstBit .. FirstBit + Done(j) + c - 1 =
            (FirstBit .. FirstBit + Done(j) - 1) \cup (FirstBit + Done(j) .. FirstBit + Done(j) + c - 1)
    BY <2>1, <2>2
  <2> QED
    BY <1>8, <1>9, <1>10, <2>3
<1>12. \A b \in Byte : m + b \notin Taken(j)
  BY <1>1, <1>2, <1>4, <1>9 DEF Byte
<1> QED
  BY <1>4, <1>5, <1>7, <1>11, <1>12 DEF m, taken, left

\* One turn of the loop takes its closed form to itself.
LEMMA AllocTurn ==
  ASSUME TypeOK, 0 \in smap, NEW j \in 0 .. SMAP_BYTES - 1
  PROVE  AllocByte(LoopState(j), j) = LoopState(j + 1)
<1> DEFINE m == j * BITS
           a == LoopState(j)
<1>1. /\ m \in Nat /\ (j + 1) * BITS = m + BITS /\ m + BITS <= NR_SECTS
      /\ BITS \in Nat \ {0} /\ N \in Nat \ {0} /\ n_1st_sect \in Nat \ {0} /\ NR_SECTS \in Nat
      /\ Byte \subseteq Nat /\ \A b \in Byte : b < BITS
  BY ByteIsInMap, ByteSizes, Sizes DEF Byte
<1>2. /\ a.left = N - Done(j)
      /\ a.sect = IF Done(j) = 0 THEN 0 ELSE FirstBit - 1 + n_1st_sect
      /\ a.clear <=> Taken(j) \cap smap = {}
      /\ a.map = BytesOf(smap \cup Taken(j))
  BY DEF LoopState
<1>3. a.map[j] = {b \in Byte : m + b \in smap \cup Taken(j)}
  BY <1>2 DEF BytesOf
<1> HIDE DEF m, a
<1>4. Done(j) = IF NoSectors \/ m <= FirstBit THEN 0
                ELSE IF m - FirstBit <= N THEN m - FirstBit ELSE N
  BY DEF Done, m
<1>5. Done(j + 1) = IF NoSectors \/ m + BITS <= FirstBit THEN 0
                    ELSE IF m + BITS - FirstBit <= N THEN m + BITS - FirstBit ELSE N
  <2>1. CASE NoSectors
    BY <2>1 DEF Done
  <2>2. CASE ~NoSectors
    BY <1>1, <2>2, FirstBitIs DEF Done
  <2> QED
    BY <2>1, <2>2
<1>6. ~NoSectors => FirstBit \in Nat \ {0}
  BY FirstBitIs
<1>7. ASSUME Done(j + 1) = Done(j)
      PROVE  LoopState(j + 1) = a
  BY <1>7 DEF LoopState, Taken, a
<1>8. CASE a.left = 0
  <2>1. Done(j) = N /\ ~NoSectors
    BY <1>1, <1>2, <1>4, <1>6, <1>8
  <2>2. Done(j + 1) = N
    BY <1>1, <1>4, <1>5, <1>6, <2>1
  <2>3. AllocByte(a, j) = a
    BY <1>8 DEF AllocByte
  <2> QED
    BY <1>7, <2>1, <2>2, <2>3 DEF a
<1>9. CASE a.left # 0 /\ a.sect = 0 /\ a.map[j] = Byte
  <2>1. Done(j) = 0
    BY <1>1, <1>2, <1>4, <1>6, <1>9
  <2>2. \A b \in Byte : m + b \in smap
    BY <1>3, <1>9, <2>1 DEF Taken
  <2>3. Done(j + 1) = 0
    <3>1. SUFFICES ASSUME ~NoSectors, FirstBit < m + BITS
                   PROVE  FALSE
      BY <1>1, <1>5, <1>6
    <3>2. FirstBit - m \in Byte /\ m + (FirstBit - m) = FirstBit
      BY <1>1, <1>4, <1>6, <2>1, <3>1 DEF Byte
    <3> QED
      BY <2>2, <3>1, <3>2, FirstBitIs
  <2>4. AllocByte(a, j) = a
    BY <1>9 DEF AllocByte
  <2> QED
    BY <1>7, <2>1, <2>3, <2>4 DEF a
<1>10. CASE a.left # 0 /\ ~(a.sect = 0 /\ a.map[j] = Byte)
  <2> DEFINE k == IF a.sect = 0 THEN Min(Byte \ a.map[j]) ELSE 0
             taken == {b \in Byte : b >= k /\ b - k < a.left}
  <2>1. /\ ~NoSectors /\ Done(j) \in Nat /\ Done(j) < N
        /\ k \in Byte /\ m + k = FirstBit + Done(j)
    <3>1. CASE a.sect = 0
      <4>1. Done(j) = 0 /\ (~NoSectors => m <= FirstBit)
        BY <1>1, <1>2, <1>4, <1>6, <3>1
      <4>2. a.map[j] = {b \in Byte : m + b \in smap}
        BY <1>3, <4>1 DEF Taken
      <4>3. PICK b \in Byte : m + b \notin smap
        BY <1>10, <3>1, <4>2
      <4>4. m + b \in 0 .. NR_SECTS - 1
        BY <1>1
      <4>5. ~NoSectors
        BY <4>3, <4>4 DEF NoSectors
      <4>6. FirstBit <= m + b /\ m <= FirstBit
        BY <4>1, <4>3, <4>4, <4>5, FirstBitIs
      <4>7. FirstBit - m \in Byte /\ m + (FirstBit - m) = FirstBit
        BY <1>1, <1>6, <4>5, <4>6 DEF Byte
      <4>8. FirstBit - m \in Byte \ a.map[j]
        BY <4>2, <4>5, <4>7, FirstBitIs
      <4>9. \A c \in Byte \ a.map[j] : FirstBit - m <= c
        <5> TAKE c \in Byte \ a.map[j]
        <5>1. m + c \notin smap /\ m + c \in 0 .. NR_SECTS - 1
          BY <1>1, <4>2
        <5>2. FirstBit <= m + c
          BY <4>5, <5>1, FirstBitIs
        <5> QED
          BY <1>1, <1>6, <4>5, <5>2
      <4>10. k = FirstBit - m
        <5>1. Byte \ a.map[j] \subseteq Int
          BY ByteSizes DEF Byte
        <5> QED
          BY <3>1, <4>8, <4>9, <5>1, MinIs
      <4> QED
        BY <1>1, <1>6, <4>1, <4>5, <4>7, <4>10
    <3>2. CASE a.sect # 0
      <4>1. Done(j) # 0 /\ ~NoSectors
        BY <1>2, <1>4, <3>2
      <4>2. Done(j) = m - FirstBit /\ Done(j) \in Nat /\ Done(j) < N
        BY <1>1, <1>2, <1>4, <1>6, <1>10, <4>1
      <4>3. k = 0 /\ 0 \in Byte
        BY <1>1, <3>2 DEF Byte
      <4> QED
        BY <1>1, <1>6, <4>1, <4>2, <4>3
    <3> QED
      BY <3>1, <3>2
  <2>2. AllocByte(a, j) =
            [map |-> [a.map EXCEPT ![j] = @ \cup taken],
             left |-> a.left - Cardinality(taken),
             sect |-> IF a.sect = 0 THEN m + k - 1 + n_1st_sect ELSE a.sect,
             clear |-> a.clear /\ taken \cap a.map[j] = {}]
    BY <1>10 DEF AllocByte, m
  <2> HIDE DEF k
  <2>3. taken = {b \in Byte : b >= k /\ b - k < N - Done(j)}
    BY <1>2
  <2> HIDE DEF taken
  <2>4. /\ Done(j + 1) = Done(j) + Cardinality(taken) /\ Done(j + 1) # 0
        /\ Taken(j + 1) = Taken(j) \cup {m + b : b \in taken}
        /\ \A b \in Byte : m + b \notin Taken(j)
    BY <2>1, <2>3, TurnTakes DEF m
  <2>5. [a.map EXCEPT ![j] = @ \cup taken] = BytesOf(smap \cup Taken(j + 1))
    <3>1. taken \in SUBSET Byte
      BY <2>3
    <3>2. [a.map EXCEPT ![j] = @ \cup taken]
            = BytesOf((smap \cup Taken(j)) \cup {m + b : b \in taken})
      <4> DEFINE M == smap \cup Taken(j)
      <4> HIDE DEF M
      <4>1. [BytesOf(M) EXCEPT ![j] = @ \cup taken] = BytesOf(M \cup {j * BITS + b : b \in taken})
        BY <3>1, ByteAdds
      <4> QED
        BY <1>2, <4>1 DEF M, m
    <3>3. (smap \cup Taken(j)) \cup {m + b : b \in taken} = smap \cup Taken(j + 1)
      BY <2>4
    <3> QED
      BY <3>2, <3>3
  <2>6. a.left - Cardinality(taken) = N - Done(j + 1)
    <3>1. Cardinality(taken) \in Nat
      <4>1. Byte \in SUBSET Byte /\ IsFiniteSet(Byte) /\ taken \in SUBSET Byte
        BY <1>1, <2>3, FS_Interval DEF Byte
      <4> QED
        BY <4>1, FS_Subset, FS_CardinalityType
    <3> QED
      BY <1>1, <1>2, <2>1, <2>4, <3>1
  <2>7. (IF a.sect = 0 THEN m + k - 1 + n_1st_sect ELSE a.sect) = FirstBit - 1 + n_1st_sect
    <3>1. k \in Nat /\ FirstBit \in Nat \ {0}
      BY <1>1, <1>6, <2>1
    <3>2. a.sect = 0 => Done(j) = 0
      BY <1>1, <1>2, <3>1
    <3> QED
      BY <1>1, <1>2, <2>1, <3>1, <3>2
  <2>8. (a.clear /\ taken \cap a.map[j] = {}) <=> Taken(j + 1) \cap smap = {}
    <3>1. a.map[j] = {b \in Byte : m + b \in smap}
      BY <1>3, <2>4
    <3>2. taken \subseteq Byte
      BY <2>3
    <3> QED
      BY <1>2, <2>4, <3>1, <3>2
  <2>9. LoopState(j + 1) =
            [map |-> BytesOf(smap \cup Taken(j + 1)),
             left |-> N - Done(j + 1),
             sect |-> FirstBit - 1 + n_1st_sect,
             clear |-> Taken(j + 1) \cap smap = {}]
    BY <2>4 DEF LoopState
  <2> QED
    BY <2>2, <2>5, <2>6, <2>7, <2>8, <2>9 DEF a
<1> QED
  BY <1>8, <1>9, <1>10

\* The loop ends with its closed form.
LEMMA AllocLoop ==
  ASSUME TypeOK, 0 \in smap
  PROVE  AllocSmapBit = LoopState(SMAP_BYTES)
<1> DEFINE first == [map |-> BytesOf(smap), left |-> N, sect |-> 0, clear |-> TRUE]
           Loops(f) == f = [j \in 0 .. SMAP_BYTES |->
                                IF j = 0 THEN first ELSE AllocByte(f[j - 1], j - 1)]
           at == CHOOSE f : Loops(f)
           closed == [j \in 0 .. SMAP_BYTES |-> LoopState(j)]
<1>1. SMAP_BYTES \in Nat
  BY ByteSizes
<1>2. LoopState(0) = first
  <2>1. Done(0) = 0
    <3>1. 0 * BITS = 0
      BY ByteSizes
    <3>2. NoSectors \/ 0 <= FirstBit
      BY FirstBitIs
    <3> QED
      BY <3>1, <3>2 DEF Done
  <2>2. Taken(0) = {} /\ smap \cup Taken(0) = smap /\ N - Done(0) = N
    BY <2>1, ByteSizes DEF Taken
  <2> QED
    BY <2>1, <2>2 DEF LoopState
<1>3. AllocSmapBit = at[SMAP_BYTES]
  BY DEF AllocSmapBit
<1> HIDE DEF first
<1>4. \A j \in 0 .. SMAP_BYTES : j # 0 => AllocByte(LoopState(j - 1), j - 1) = LoopState(j)
  <2> SUFFICES ASSUME NEW j \in 0 .. SMAP_BYTES, j # 0
               PROVE  AllocByte(LoopState(j - 1), j - 1) = LoopState(j)
    OBVIOUS
  <2>1. j - 1 \in 0 .. SMAP_BYTES - 1 /\ (j - 1) + 1 = j
    BY <1>1
  <2> QED
    BY <2>1, AllocTurn
<1>5. Loops(closed)
  <2>1. ASSUME NEW j \in 0 .. SMAP_BYTES
        PROVE  closed[j] = IF j = 0 THEN first ELSE AllocByte(closed[j - 1], j - 1)
    <3>1. CASE j = 0
      BY <1>1, <1>2, <3>1
    <3>2. CASE j # 0
      <4>1. j - 1 \in 0 .. SMAP_BYTES
        BY <1>1, <3>2
      <4>2. closed[j - 1] = LoopState(j - 1) /\ closed[j] = LoopState(j)
        BY <4>1
      <4> QED
        BY <1>4, <3>2, <4>2
    <3> QED
      BY <3>1, <3>2
  <2> QED
    BY <2>1
<1>6. Loops(at)
  <2> HIDE DEF Loops, closed
  <2> QED
    BY <1>5
<1> HIDE DEF at, closed
<1>7. \A j \in 0 .. SMAP_BYTES : at[j] = IF j = 0 THEN first ELSE AllocByte(at[j - 1], j - 1)
  BY <1>6
<1> DEFINE T == {j \in 0 .. SMAP_BYTES : at[j] = LoopState(j)}
<1>8. 0 \in T
  BY <1>1, <1>2, <1>7
<1>9. ASSUME NEW j \in 0 .. SMAP_BYTES - 1, j \in T
      PROVE  j + 1 \in T
  <2>1. j + 1 \in 0 .. SMAP_BYTES /\ j + 1 # 0 /\ (j + 1) - 1 = j
    BY <1>1
  <2>2. at[j + 1] = AllocByte(at[j], j)
    BY <1>7, <2>1
  <2>3. AllocByte(LoopState(j), j) = LoopState(j + 1)
    BY AllocTurn
  <2> QED
    BY <1>9, <2>1, <2>2, <2>3
<1>10. SMAP_BYTES \in T
  <2> HIDE DEF T
  <2> QED
    BY <1>1, <1>8, <1>9, TurnByTurn
<1> QED
  BY <1>3, <1>10

\* What alloc_smap_bit does to the map is what Create and CreateHalts do.
LEMMA AllocIs ==
  ASSUME TypeOK, 0 \in smap
  PROVE  AllocAgrees
<1> DEFINE a == AllocSmapBit
           fits == a.clear /\ a.left = 0
           new == IF NoSectors THEN {} ELSE NewBits
           n == SMAP_BYTES
<1>1. /\ NR_SECTS \in Nat /\ N \in Nat \ {0} /\ SMAP_BYTES * BITS = NR_SECTS
      /\ n_1st_sect \in Nat \ {0} /\ N = NR_DEFAULT_FILE_SECTS
  BY ByteSizes, Sizes DEF N
<1>2. a = LoopState(n)
  BY AllocLoop
<1>3. /\ a.map = BytesOf(smap \cup Taken(n))
      /\ a.left = N - Done(n)
      /\ a.sect = IF Done(n) = 0 THEN 0 ELSE FirstBit - 1 + n_1st_sect
      /\ a.clear <=> Taken(n) \cap smap = {}
  BY <1>2 DEF LoopState
<1> HIDE DEF a
<1>4. CASE NoSectors
  <2>1. Done(n) = 0 /\ Taken(n) = {}
    BY <1>4 DEF Done, Taken
  <2>2. a.clear /\ a.left # 0 /\ new = {}
    BY <1>1, <1>3, <1>4, <2>1
  <2> QED
    BY <2>2 DEF AllocAgrees, a
<1>5. CASE ~NoSectors
  <2>1. FirstBit \in 1 .. NR_SECTS - 1
    BY <1>5, FirstBitIs
  <2>2. Done(n) = IF NR_SECTS - FirstBit <= N THEN NR_SECTS - FirstBit ELSE N
    BY <1>1, <1>5, <2>1 DEF Done
  <2>3. Done(n) \in Nat \ {0} /\ Taken(n) = FirstBit .. FirstBit + Done(n) - 1
    BY <1>1, <2>1, <2>2 DEF Taken
  <2>4. new = FirstBit .. FirstBit + N - 1 /\ FirstBit \in new
    BY <1>1, <1>5, <2>1 DEF NewBits
  <2>5. smap \subseteq 0 .. NR_SECTS - 1
    BY DEF TypeOK
  <2>6. Taken(n) = new \cap (0 .. NR_SECTS - 1)
    BY <1>1, <2>1, <2>2, <2>3, <2>4
  <2>7. a.clear <=> new \cap smap = {}
    BY <1>3, <2>5, <2>6
  <2>8. a.left = 0 <=> new \subseteq 0 .. NR_SECTS - 1
    <3>1. a.left = 0 <=> N <= NR_SECTS - FirstBit
      BY <1>1, <1>3, <2>1, <2>2
    <3>2. FirstBit + N - 1 \in new
      BY <1>1, <2>1, <2>4
    <3> QED
      BY <1>1, <2>1, <2>4, <3>1, <3>2
  <2>9. fits <=> new # {} /\ new \subseteq (0 .. NR_SECTS - 1) \ smap
    BY <2>4, <2>7, <2>8
  <2>10. a.left = 0 => a.map = BytesOf(smap \cup new)
    <3>1. a.left = 0 => Taken(n) = new
      BY <2>6, <2>8
    <3> QED
      BY <1>3, <3>1
  <2>11. a.sect = NewRecord.start
    BY <1>3, <2>3 DEF NewRecord
  <2> QED
    BY <2>7, <2>9, <2>10, <2>11 DEF AllocAgrees, a
<1> QED
  BY <1>4, <1>5

-----------------------------------------------------------------------------
(***************************************************************************)
(* do_unlink.                                                              *)
(***************************************************************************)
\* Less than a byte is no whole byte, below zero too: the division of C.
LEMMA QuotientIs ==
  ASSUME NEW a \in Int, NEW b \in Nat \ {0}, -b < a
  PROVE  /\ Quotient(a, b) \in Nat
         /\ a < 0 => Quotient(a, b) = 0
         /\ a >= 0 => b * Quotient(a, b) <= a /\ a < b * Quotient(a, b) + b
<1>1. CASE a < 0
  <2>1. (-a) \in 0 .. b - 1
    BY <1>1
  <2>2. (-a) \div b = 0
    BY <2>1
  <2> QED
    BY <1>1, <2>2 DEF Quotient
<1>2. CASE ~(a < 0)
  <2>1. a \in Nat /\ Quotient(a, b) = a \div b
    BY <1>2 DEF Quotient
  <2> DEFINE d == a \div b
  <2>2. d \in Nat /\ a % b \in 0 .. b - 1 /\ a = b * d + (a % b)
    BY <2>1, Division
  <2> DEFINE e == a % b
  <2> HIDE DEF d, e
  <2>3. b * d \in Nat /\ e \in Nat /\ e < b /\ a = b * d + e
    BY <2>2 DEF e
  <2> QED
    BY <1>2, <2>1, <2>2, <2>3 DEF d
<1> QED
  BY <1>1, <1>2

\* The bits that are cleared byte by byte are those of the file.
LEMMA ClearedAre ==
  ASSUME NEW start \in Nat, start >= n_1st_sect
  PROVE  ClearedBytes(start) = BytesOf(Run(start))
<1> DEFINE bit == start - n_1st_sect + 1
           q == bit \div BITS
           r == bit % BITS
           c == byte_cnt(bit)
           last == q + c + 1
           first == {k \in Byte : k >= r /\ k - r < N}
           left == N - Cardinality(first) - BITS * c
           Cleared(j) == CASE j = q -> first
                           [] j > q /\ j < last -> Byte
                           [] j = last -> {k \in Byte : k < left}
                           [] OTHER -> {}
<1>1. /\ BITS \in Nat \ {0} /\ N \in Nat \ {0} /\ N = NR_DEFAULT_FILE_SECTS
      /\ n_1st_sect \in Nat /\ SMAP_BYTES \in Nat
  BY ByteSizes, Sizes DEF N
<1>2. bit \in Nat /\ Run(start) = bit .. bit + N - 1
  BY <1>1 DEF Run
<1>3. ClearedBytes(start) = [j \in 0 .. SMAP_BYTES - 1 |-> Cleared(j)]
  BY DEF ClearedBytes
<1>4. c = Quotient(N - (BITS - r), BITS)
  BY DEF byte_cnt
<1> HIDE DEF bit, c
<1>5. q \in Nat /\ r \in 0 .. BITS - 1 /\ bit = BITS * q + r
  BY <1>1, <1>2, Division
<1> HIDE DEF q, r
<1>6. /\ c \in Nat
      /\ N < BITS - r => c = 0
      /\ N >= BITS - r => BITS * c <= N - (BITS - r) /\ N - (BITS - r) < BITS * c + BITS
  <2> DEFINE a == N - (BITS - r)
  <2>1. a \in Int /\ -BITS < a /\ (N < BITS - r <=> a < 0)
    BY <1>1, <1>5
  <2> HIDE DEF a
  <2>2. /\ Quotient(a, BITS) \in Nat
        /\ a < 0 => Quotient(a, BITS) = 0
        /\ a >= 0 => BITS * Quotient(a, BITS) <= a /\ a < BITS * Quotient(a, BITS) + BITS
    BY <1>1, <2>1, QuotientIs
  <2>3. c = Quotient(a, BITS)
    BY <1>4 DEF a
  <2>4. /\ c \in Nat
        /\ a < 0 => c = 0
        /\ a >= 0 => BITS * c <= a /\ a < BITS * c + BITS
    BY <2>2, <2>3
  <2> QED
    BY <1>1, <1>5, <2>1, <2>4 DEF a
<1>7. Cardinality(first) = IF N < BITS - r THEN N ELSE BITS - r
  <2>1. CASE N < BITS - r
    <3>1. first = r .. r + N - 1
      BY <1>1, <1>5, <2>1 DEF Byte
    <3>2. r \in Int /\ r + N - 1 \in Int /\ ~(r > r + N - 1) /\ (r + N - 1) - r + 1 = N
      BY <1>1, <1>5
    <3>3. Cardinality(r .. r + N - 1) = (r + N - 1) - r + 1
      BY <3>2, FS_Interval
    <3> QED
      BY <2>1, <3>1, <3>2, <3>3
  <2>2. CASE ~(N < BITS - r)
    <3>1. first = r .. BITS - 1
      BY <1>1, <1>5, <2>2 DEF Byte
    <3>2. r \in Int /\ BITS - 1 \in Int /\ ~(r > BITS - 1) /\ (BITS - 1) - r + 1 = BITS - r
      BY <1>1, <1>5
    <3>3. Cardinality(r .. BITS - 1) = (BITS - 1) - r + 1
      BY <3>2, FS_Interval
    <3> QED
      BY <2>2, <3>1, <3>2, <3>3
  <2> QED
    BY <2>1, <2>2
<1> DEFINE z == BITS * c
           y == BITS * q
<1>8. z \in Nat /\ y \in Nat
  BY <1>1, <1>5, <1>6
<1>9. left = IF N < BITS - r THEN 0 ELSE N - (BITS - r) - z
  BY <1>1, <1>5, <1>6, <1>7
<1> HIDE DEF left
<1>10. ASSUME NEW j \in 0 .. SMAP_BYTES - 1, NEW k \in Byte
       PROVE  k \in Cleared(j) <=> j * BITS + k \in Run(start)
  <2> DEFINE m == j * BITS
  <2>1. j \in Nat /\ m \in Nat /\ k \in Nat /\ k < BITS /\ y = q * BITS
    BY <1>1, <1>5 DEF Byte
  <2>2. bit = y + r /\ r \in Nat /\ r < BITS
    BY <1>1, <1>5
  <2>3. m + k \in Run(start) <=> y + r <= m + k /\ m + k < y + r + N
    BY <1>1, <1>2, <1>8, <2>1, <2>2
  <2>4. /\ j < q => m + BITS <= y
        /\ j = q => m = y
        /\ j > q => y + BITS <= m
    BY <1>1, <1>5, <2>1, ProductsGrow
  <2>5. last * BITS = y + z + BITS /\ last \in Nat
    BY <1>1, <1>5, <1>6
  <2>6. /\ j < last => m + BITS <= y + z + BITS
        /\ j = last => m = y + z + BITS
        /\ j > last => y + z + BITS + BITS <= m
    BY <1>1, <2>1, <2>5, ProductsGrow
  <2>7. /\ N < BITS - r => z = 0
        /\ N >= BITS - r => z <= N - (BITS - r) /\ N - (BITS - r) < z + BITS
    BY <1>1, <1>6
  <2>8. last > q
    BY <1>5, <1>6
  <2> HIDE DEF m, z, y, last
  <2>9. CASE j < q
    <3>1. Cleared(j) = {}
      BY <1>5, <2>1, <2>5, <2>8, <2>9
    <3> QED
      BY <1>1, <1>8, <2>1, <2>2, <2>3, <2>4, <2>9, <3>1 DEF m
  <2>10. CASE j = q
    <3>1. Cleared(j) = first
      BY <1>5, <2>1, <2>5, <2>8, <2>10
    <3>2. m + k \in Run(start) <=> k >= r /\ k - r < N
      BY <1>1, <1>8, <2>1, <2>2, <2>3, <2>4, <2>10
    <3> QED
      BY <3>1, <3>2 DEF m
  <2>11. CASE j > q /\ j < last
    <3>1. Cleared(j) = Byte
      BY <1>5, <2>1, <2>11
    <3>2. m + k \in Run(start)
      BY <1>1, <1>8, <2>1, <2>2, <2>3, <2>4, <2>6, <2>7, <2>11
    <3> QED
      BY <3>1, <3>2 DEF m
  <2>12. CASE j = last
    <3>1. Cleared(j) = {b \in Byte : b < left}
      BY <1>5, <2>1, <2>5, <2>8, <2>12
    <3>2. m + k \in Run(start) <=> k < left
      BY <1>1, <1>8, <1>9, <2>1, <2>2, <2>3, <2>6, <2>7, <2>12 DEF z
    <3> QED
      BY <3>1, <3>2 DEF m
  <2>13. CASE j > last
    <3>1. Cleared(j) = {}
      BY <1>5, <2>1, <2>5, <2>8, <2>13
    <3>2. m + k \notin Run(start)
      BY <1>1, <1>8, <2>1, <2>2, <2>3, <2>6, <2>7, <2>13
    <3> QED
      BY <3>1, <3>2 DEF m
  <2> QED
    BY <1>5, <2>1, <2>5, <2>8, <2>9, <2>10, <2>11, <2>12, <2>13
<1>11. ASSUME NEW j \in 0 .. SMAP_BYTES - 1
       PROVE  Cleared(j) = {k \in Byte : j * BITS + k \in Run(start)}
  <2>1. Cleared(j) \subseteq Byte
    OBVIOUS
  <2> HIDE DEF Cleared
  <2> QED
    BY <1>10, <2>1
<1> HIDE DEF Cleared
<1> QED
  BY <1>3, <1>11 DEF BytesOf

\* What do_unlink clears for a file is the file's run, all of which is set.
LEMMA UnlinkClears ==
  ASSUME IInv
  PROVE  UnlinkAgrees
<1> SUFFICES ASSUME NEW i \in Stored
             PROVE  /\ Run(disk[i].start) \subseteq smap
                    /\ ClearedBytes(disk[i].start) = BytesOf(Run(disk[i].start))
  BY DEF UnlinkAgrees
<1>1. Run(disk[i].start) \subseteq smap
  BY DEF IInv, MapsExact
<1>2. PICK k \in 0 .. NR_SECTS : disk[i].start = n_1st_sect + k * NR_DEFAULT_FILE_SECTS
  BY DEF IInv, RunsAligned
<1>3. disk[i].start \in Nat /\ disk[i].start >= n_1st_sect
  <2>1. k \in Nat /\ NR_DEFAULT_FILE_SECTS \in Nat /\ n_1st_sect \in Nat
    BY Sizes
  <2>2. k * NR_DEFAULT_FILE_SECTS \in Nat
    BY <2>1
  <2> QED
    BY <1>2, <2>1, <2>2
<1>4. ClearedBytes(disk[i].start) = BytesOf(Run(disk[i].start))
  BY <1>3, ClearedAre
<1> QED
  BY <1>1, <1>4

\* The loops over the bytes of the sector map set and clear exactly the sectors of one
\* file, however long a byte is, and wherever in one a file begins and ends.
THEOREM BytesAgreeWithTheMap == Spec => []MapBytesAgree
<1>1. ASSUME IInv
      PROVE  MapBytesAgree
  <2>1. TypeOK /\ 0 \in smap
    BY <1>1 DEF IInv, MapsExact
  <2>2. AllocAgrees
    BY <2>1, AllocIs
  <2>3. UnlinkAgrees
    BY <1>1, UnlinkClears
  <2> QED
    BY <2>2, <2>3 DEF MapBytesAgree
<1> QED
  BY <1>1, Invariance, PTL
=============================================================================
