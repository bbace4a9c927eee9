-------------------------------- MODULE FsRdwt ---------------------------------
(***************************************************************************)
(* Reading and writing regular files: do_rdwt of fs/read_write.c.          *)
(*                                                                         *)
(* The files lie side by side on the drive, each in the sectors it got     *)
(* when it was created.  A call moves its bytes through fsbuf, a chunk of  *)
(* whole sectors a round, advances the position of the descriptor, and     *)
(* makes the file as large as its farthest position.  FS is the only one   *)
(* that uses these sectors and finishes a call before it takes the next,   *)
(* so a call is a step.  Creating and removing files is FsMeta's.          *)
(*                                                                         *)
(* The bytes are abstracted to where they come from: byte k that somebody  *)
(* wrote to file f is <<f, k>>, wherever on the drive it lies.             *)
(***************************************************************************)
EXTENDS Integers, FiniteSets

CONSTANTS
    NR_OF_FILES,
    NR_DEFAULT_FILE_SECTS,
    SECTOR_SIZE,    \* the bytes of a sector
    FSBUF_SECTS,    \* the sectors that fsbuf takes
    Descs,          \* f_desc_table
    MaxLen,         \* bound: the bytes of a call
    MaxSize         \* bound: positions, and so sizes

ASSUME RdwtAssumption ==
    /\ {NR_OF_FILES, NR_DEFAULT_FILE_SECTS, SECTOR_SIZE, FSBUF_SECTS} \subseteq Nat \ {0}
    /\ {MaxLen, MaxSize} \subseteq Nat

VARIABLES
    fd_inode,       \* the file of each descriptor
    fd_pos,
    i_size,
    drive,          \* what each byte of the drive was written as
    written         \* history: the bytes of files that were written

vars == <<fd_inode, fd_pos, i_size, drive, written>>

Files == 0 .. NR_OF_FILES - 1
NoFile == -1
Positions == 0 .. MaxSize - 1

\* i_nr_sects * SECTOR_SIZE, and where the sectors of a file begin on the drive.
Capacity == NR_DEFAULT_FILE_SECTS * SECTOR_SIZE
Place(f, k) == f * Capacity + k

Bytes == 0 .. Place(NR_OF_FILES - 1, MaxSize) - 1

\* What was on the drive before.
Old == <<NoFile, 0>>

Init ==
    /\ fd_inode = [d \in Descs |-> NoFile]
    /\ fd_pos = [d \in Descs |-> 0]
    /\ i_size = [f \in Files |-> 0]
    /\ drive = [a \in Bytes |-> Old]
    /\ written = {}

-----------------------------------------------------------------------------
(***************************************************************************)
(* The loop.                                                               *)
(***************************************************************************)
\* Mutation: off is not reset after the first round.
offKept(pos, r) == pos % SECTOR_SIZE

\* Where in fsbuf the bytes of round r begin.
off(pos, r) == IF r = 0 THEN pos % SECTOR_SIZE ELSE 0

min(a, b) == IF a < b THEN a ELSE b

\* What is moved: pairs of a byte, counted from the beginning of the file, and a byte
\* of the caller's buffer.  Each round reads chunk whole sectors into fsbuf, and a write
\* puts them back: the bytes of theirs that are not moved stay what they are.
Moves(pos, len, limit) ==
    LET pos_end == min(pos + len, limit)
        rw_sect_min == pos \div SECTOR_SIZE
        rw_sect_max == pos_end \div SECTOR_SIZE
        chunk == min(rw_sect_max - rw_sect_min + 1, FSBUF_SECTS)
        rounds == IF rw_sect_min > rw_sect_max THEN 0
                  ELSE (rw_sect_max - rw_sect_min) \div chunk + 1
        bytes(r, left) == min(left, chunk * SECTOR_SIZE - off(pos, r))
        bytes_left[r \in 0 .. rounds] ==
            IF r = 0 THEN len
            ELSE LET left == bytes_left[r - 1] IN left - bytes(r - 1, left)
    IN  UNION {{<<(rw_sect_min + r * chunk) * SECTOR_SIZE + off(pos, r) + b,
                  len - bytes_left[r] + b>> : b \in 0 .. bytes(r, bytes_left[r]) - 1} :
               r \in 0 .. rounds - 1}

\* Mutation: a write is cut at the size as well.
LimitOfReads(type, size) == size

\* A read looks at the size of the file, a write at its sectors.
Limit(type, size) == IF type = "READ" THEN size ELSE Capacity

\* The loop of every call there can be, as a table: TLC runs each loop once.
Transfers ==
    [pos \in 0 .. MaxSize |-> [len \in 0 .. MaxLen |->
        [limit \in (0 .. MaxSize) \cup {Capacity} |-> Moves(pos, len, limit)]]]

\* The moves of a call on a descriptor.
Transfer(type, d, len) == Transfers[fd_pos[d]][len][Limit(type, i_size[fd_inode[d]])]

\* Mutations: the size follows the position back; the position is added to it.
SizeFollows(size, pos) == pos
SizeAdds(size, pos) == size + pos

\* The size after a call, with the position it has reached.
NewSize(size, pos) == IF pos > size THEN pos ELSE size

-----------------------------------------------------------------------------
(***************************************************************************)
(* The calls.  A descriptor that was opened without O_RDWR is refused and  *)
(* changes nothing; the ones here have it.                                 *)
(***************************************************************************)
Open(d, f) ==
    /\ fd_inode[d] = NoFile
    /\ fd_inode' = [fd_inode EXCEPT ![d] = f]
    /\ fd_pos' = [fd_pos EXCEPT ![d] = 0]
    /\ UNCHANGED <<i_size, drive, written>>

\* What is left in fd_pos is forgotten: nothing looks at it before Open sets it.
Close(d) ==
    /\ fd_inode[d] # NoFile
    /\ fd_inode' = [fd_inode EXCEPT ![d] = NoFile]
    /\ fd_pos' = [fd_pos EXCEPT ![d] = 0]
    /\ UNCHANGED <<i_size, drive, written>>

\* The end of both: the position and the size.  A read can move them as well, past
\* what the file has.
Advances(type, d, len) ==
    LET pos == fd_pos[d] + Cardinality(Transfer(type, d, len)) IN
    /\ pos <= MaxSize
    /\ fd_pos' = [fd_pos EXCEPT ![d] = pos]
    /\ i_size' = [i_size EXCEPT ![fd_inode[d]] = NewSize(@, pos)]
    /\ UNCHANGED fd_inode

Read(d, len) ==
    /\ fd_inode[d] # NoFile
    /\ Advances("READ", d, len)
    /\ UNCHANGED <<drive, written>>

\* What a read leaves in the caller's buffer: pairs of a byte of it and what it holds.
Answer(d, len) ==
    {<<m[2], drive[Place(fd_inode[d], m[1])]>> : m \in Transfer("READ", d, len)}

\* The caller's buffer holds what is to be byte fd_pos of the file and on.
Write(d, len) ==
    /\ fd_inode[d] # NoFile
    /\ Advances("WRITE", d, len)
    /\ LET f == fd_inode[d]
           moves == Transfer("WRITE", d, len)
           byte(m) == <<f, fd_pos[d] + m[2]>>
       IN  /\ drive' = [a \in Bytes |->
                IF \E m \in moves : Place(f, m[1]) = a
                THEN byte(CHOOSE m \in moves : Place(f, m[1]) = a) ELSE drive[a]]
           /\ written' = written \cup {byte(m) : m \in moves}

Next ==
    \E d \in Descs :
        \/ \E f \in Files : Open(d, f)
        \/ Close(d)
        \/ \E len \in 0 .. MaxLen : Read(d, len) \/ Write(d, len)

Spec == Init /\ [][Next]_vars

-----------------------------------------------------------------------------
(***************************************************************************)
(* Properties.                                                             *)
(***************************************************************************)
TypeOK ==
    /\ fd_inode \in [Descs -> Files \cup {NoFile}]
    /\ fd_pos \in [Descs -> 0 .. MaxSize]
    /\ i_size \in [Files -> 0 .. MaxSize]
    /\ drive \in [Bytes -> (Files \X Positions) \cup {Old}]
    /\ written \subseteq Files \X Positions

\* What the comment of do_rdwt takes for granted (fs/read_write.c:19-20): the sectors of a
\* file are allocated when it is created, so that a write needs no others.
WritesStayInFile == \A w \in written : w[2] < Capacity

\* A read within the size returns as many bytes as it asked for, and each of them is the
\* byte of the file at its place, if somebody has written that, through whatever
\* descriptor, by calls cut into whatever chunks: as long as no write has gone past the
\* sectors of its file.  It has to stay in the sectors of the file itself, since reads
\* past the size have made sizes larger than them.
ReadsReturnWritten ==
    WritesStayInFile =>
        \A d \in Descs : \A len \in 0 .. MaxLen :
            /\ fd_inode[d] # NoFile
            /\ fd_pos[d] + len <= i_size[fd_inode[d]]
            /\ fd_pos[d] + len <= Capacity
            => LET byte(k) == <<fd_inode[d], k>> IN
               Answer(d, len) =
                    {<<x, IF byte(fd_pos[d] + x) \in written THEN byte(fd_pos[d] + x)
                          ELSE Old>> : x \in 0 .. len - 1}

\* The size of a file covers every position in it and every byte that was written, though
\* calls on other descriptors end before them (fs/read_write.c:116-122).
SizeCovers ==
    /\ \A d \in Descs : fd_inode[d] # NoFile => fd_pos[d] <= i_size[fd_inode[d]]
    /\ \A w \in written : w[2] < i_size[w[1]]

\* A write changes the bytes from the position on, to its own, one after the other, and
\* no other byte of the drive; and if it ends in the file's sectors it writes all it was
\* asked to.
WritesAreExact ==
    [][\A d \in Descs, len \in 0 .. MaxLen :
        Write(d, len) =>
            LET f == fd_inode[d]
                here == fd_pos[d] .. fd_pos'[d] - 1
            IN  /\ \A k \in here : drive'[Place(f, k)] = <<f, k>>
                /\ \A a \in Bytes : (\A k \in here : Place(f, k) # a) => drive'[a] = drive[a]
                /\ fd_pos[d] + len <= Capacity => fd_pos'[d] = fd_pos[d] + len]_vars
=============================================================================
