--------------------------------- MODULE FsBytes -------------------------------
(***************************************************************************)
(* The loops over the sector map that FsMeta takes for granted, byte by    *)
(* byte, as the code has them: alloc_smap_bit (fs/open.c) and do_unlink    *)
(* (fs/link.c).                                                            *)
(***************************************************************************)
EXTENDS FsMeta

CONSTANT BITS       \* the bits of a byte

ASSUME BytesAssumption == BITS \in Nat \ {0} /\ NR_SECTS % BITS = 0

N == NR_DEFAULT_FILE_SECTS
Byte == 0 .. BITS - 1
SMAP_BYTES == NR_SECTS \div BITS

\* A map as FS reads it.
BytesOf(map) == [j \in 0 .. SMAP_BYTES - 1 |-> {k \in Byte : j * BITS + k \in map}]

-----------------------------------------------------------------------------
(***************************************************************************)
(* alloc_smap_bit.  Its loop goes over the bytes of the map, with the bits *)
(* that are left to take, the first sector (0 for as long as no bit is     *)
(* found) and whether every bit that was taken was clear (the assertion).  *)
(***************************************************************************)
\* Byte j.  Until a bit is found, full bytes are skipped, and set bits.
AllocByte(a, j) ==
    IF a.left = 0 \/ (a.sect = 0 /\ a.map[j] = Byte) THEN a
    ELSE LET k == IF a.sect = 0 THEN Min(Byte \ a.map[j]) ELSE 0
             taken == {b \in Byte : b >= k /\ b - k < a.left}
         IN  [map |-> [a.map EXCEPT ![j] = @ \cup taken],
              left |-> a.left - Cardinality(taken),
              sect |-> IF a.sect = 0 THEN j * BITS + k - 1 + n_1st_sect ELSE a.sect,
              clear |-> a.clear /\ taken \cap a.map[j] = {}]

AllocSmapBit ==
    LET at[j \in 0 .. SMAP_BYTES] ==
            IF j = 0 THEN [map |-> BytesOf(smap), left |-> N, sect |-> 0, clear |-> TRUE]
            ELSE AllocByte(at[j - 1], j - 1)
    IN  at[SMAP_BYTES]

-----------------------------------------------------------------------------
(***************************************************************************)
(* do_unlink clears the rest of the first byte, whole bytes, and the       *)
(* beginning of the last byte.                                             *)
(***************************************************************************)
\* The division of C.
Quotient(a, b) == IF a < 0 THEN -((-a) \div b) ELSE a \div b

\* Mutation: the first byte counts as a whole one.
byte_cnt_whole(bit_idx) == N \div BITS

\* How many bytes are between the first and the last one.
byte_cnt(bit_idx) == Quotient(N - (BITS - (bit_idx % BITS)), BITS)

\* The bits of each byte of the map that are cleared for a file.
ClearedBytes(start) ==
    LET bit_idx == start - n_1st_sect + 1
        byte_idx == bit_idx \div BITS
        last == byte_idx + byte_cnt(bit_idx) + 1
        first == {k \in Byte : k >= bit_idx % BITS /\ k - (bit_idx % BITS) < N}
        bits_left == N - Cardinality(first) - BITS * byte_cnt(bit_idx)
    IN  [j \in 0 .. SMAP_BYTES - 1 |->
            CASE j = byte_idx -> first
              [] j > byte_idx /\ j < last -> Byte
              [] j = last -> {k \in Byte : k < bits_left}
              [] OTHER -> {}]

-----------------------------------------------------------------------------
(***************************************************************************)
(* What FsMeta takes for granted.                                          *)
(***************************************************************************)
\* What alloc_smap_bit would do with the map is what Create and CreateHalts of FsMeta
\* do: the same bits, the same sector, and its two assertions hold exactly then.
AllocAgrees ==
    LET a == AllocSmapBit
        fits == a.clear /\ a.left = 0
        new == IF NoSectors THEN {} ELSE NewBits
    IN  /\ fits <=> new # {} /\ new \subseteq (0 .. NR_SECTS - 1) \ smap
        /\ a.clear <=> new \cap smap = {}
        /\ fits => a.sect = NewRecord.start /\ a.map = BytesOf(smap \cup new)

\* What do_unlink would clear for a file is the file's run, all of which is set.
UnlinkAgrees ==
    \A i \in Stored :
        LET run == Run(disk[i].start) IN
        run \subseteq smap /\ ClearedBytes(disk[i].start) = BytesOf(run)

\* The loops over the bytes of the sector map set and clear exactly the sectors of one
\* file, wherever in a byte it begins and ends, however files have come and gone before.
MapBytesAgree == AllocAgrees /\ UnlinkAgrees
=============================================================================
