------------------------------ MODULE FsRdwtProofs -----------------------------
(***************************************************************************)
(* Reads and writes are exact, for files, sectors, chunks, positions and   *)
(* lengths of any size.                                                    *)
(*                                                                         *)
(* The loop of do_rdwt has a closed form (Moved): how many bytes have been *)
(* moved before each round.  One round takes the closed form to itself, so *)
(* the recursive function exists and is the closed form, round after       *)
(* round, and a call moves consecutive bytes of the file to or from        *)
(* consecutive bytes of the buffer (TransferIs).                           *)
(*                                                                         *)
(* The invariant says where bytes lie: what is on the drive was written    *)
(* for the place it is at, and while nobody has written past the sectors   *)
(* of a file, everything that was written is still there.                  *)
(***************************************************************************)
EXTENDS FsRdwt, Loops, TLAPS

\* The sizes are numbers.
LEMMA Sizes ==
  /\ SECTOR_SIZE \in Nat \ {0} /\ FSBUF_SECTS \in Nat \ {0}
  /\ NR_OF_FILES \in Nat \ {0} /\ NR_DEFAULT_FILE_SECTS \in Nat \ {0}
  /\ MaxLen \in Nat /\ MaxSize \in Nat
BY RdwtAssumption

\* A file has room for some bytes.
LEMMA CapacityIs == Capacity \in Nat \ {0}
BY Sizes DEF Capacity

\* The smaller one of two numbers.
LEMMA MinOfTwo ==
  ASSUME NEW a \in Int, NEW b \in Int
  PROVE  min(a, b) = IF a <= b THEN a ELSE b
BY DEF min

\* A transfer moves consecutive bytes of the file, from the position on, to or from
\* consecutive bytes of the buffer.  It moves all it was asked for, up to the limit,
\* and stops within fsbuf's length after that.
IsExact(moves, pos, len, limit) ==
    LET n == Cardinality(moves) IN
    /\ moves = {<<pos + b, b>> : b \in 0 .. n - 1}
    /\ n \in Nat /\ min(len, limit - pos) <= n /\ n <= len
    /\ n > 0 => pos + n <= limit + FSBUF_SECTS * SECTOR_SIZE

-----------------------------------------------------------------------------
(***************************************************************************)
(* The loop.                                                               *)
(***************************************************************************)
\* How many bytes are moved before round r, at room bytes of fsbuf a round.
Moved(pos, len, room, r) ==
    IF r = 0 THEN 0
    ELSE IF len <= r * room - (pos % SECTOR_SIZE) THEN len
    ELSE r * room - (pos % SECTOR_SIZE)

\* The bytes from the a-th one that is moved to the one before the b-th.
Pairs(pos, a, b) == {<<pos + x, x>> : x \in a .. b - 1}

\* The bytes that the rounds move.
MovedInRounds(pos, len, room, rounds) ==
    UNION {Pairs(pos, Moved(pos, len, room, r), Moved(pos, len, room, r + 1)) :
           r \in 0 .. rounds - 1}

\* The bytes_left of the loop.
BytesLeft(pos, len, room, rounds) ==
    LET bytes(r, left) == min(left, room - off(pos, r))
        bytes_left[r \in 0 .. rounds] ==
            IF r = 0 THEN len
            ELSE LET left == bytes_left[r - 1] IN left - bytes(r - 1, left)
    IN  bytes_left

\* A round moves what is left, or up to the end of fsbuf, and from where the last one
\* has stopped.
RoundIs(pos, len, room, r) ==
    LET before == Moved(pos, len, room, r)
        after == Moved(pos, len, room, r + 1)
    IN  /\ before \in 0 .. len /\ after \in before .. len
        /\ min(len - before, room - off(pos, r)) = after - before
        /\ after > before =>
               pos + before = SECTOR_SIZE * (pos \div SECTOR_SIZE) + r * room + off(pos, r)

LEMMA MovedIs ==
  ASSUME NEW pos \in Nat, NEW len \in Nat, NEW room \in Nat, room >= SECTOR_SIZE, NEW r \in Nat
  PROVE  RoundIs(pos, len, room, r)
<1> DEFINE o == pos % SECTOR_SIZE
           first == SECTOR_SIZE * (pos \div SECTOR_SIZE)
           z == r * room
           before == Moved(pos, len, room, r)
           after == Moved(pos, len, room, r + 1)
<1>1. SECTOR_SIZE \in Nat \ {0}
  BY Sizes
<1>2. o \in 0 .. SECTOR_SIZE - 1 /\ pos = first + o /\ first \in Nat
  <2>1. /\ pos \div SECTOR_SIZE \in Nat /\ o \in 0 .. SECTOR_SIZE - 1
        /\ pos = SECTOR_SIZE * (pos \div SECTOR_SIZE) + o
    BY <1>1, Division
  <2> DEFINE d == pos \div SECTOR_SIZE
  <2> HIDE DEF d
  <2>2. SECTOR_SIZE * d \in Nat
    BY <1>1, <2>1 DEF d
  <2> QED
    BY <2>1, <2>2 DEF d
<1>3. z \in Nat /\ (r + 1) * room = z + room /\ (r = 0 => z = 0)
  OBVIOUS
<1>4. r # 0 => room <= z
  <2>1. r # 0 => 0 * room + room <= r * room
    BY ProductsGrow
  <2> QED
    BY <2>1
<1>5. before = IF r = 0 THEN 0 ELSE IF len <= z - o THEN len ELSE z - o
  BY DEF Moved
<1>6. after = IF len <= z + room - o THEN len ELSE z + room - o
  <2>1. r + 1 # 0
    OBVIOUS
  <2> DEFINE y == (r + 1) * room
  <2>2. after = IF len <= y - o THEN len ELSE y - o
    BY <2>1 DEF Moved
  <2>3. y = z + room
    BY <1>3
  <2> HIDE DEF y, z, o, after
  <2>4. y - o = z + room - o
    BY <1>2, <1>3, <2>3
  <2> QED
    BY <2>2, <2>4
<1>7. off(pos, r) = IF r = 0 THEN o ELSE 0
  BY DEF off
<1> HIDE DEF o, first, z, before, after
<1>8. before \in 0 .. len /\ after \in before .. len
  BY <1>1, <1>2, <1>3, <1>4, <1>5, <1>6
<1>9. min(len - before, room - off(pos, r)) = after - before
  <2>1. len - before \in Int /\ room - off(pos, r) \in Int
    BY <1>2, <1>7, <1>8
  <2>2. min(len - before, room - off(pos, r)) =
            IF len - before <= room - off(pos, r) THEN len - before ELSE room - off(pos, r)
    BY <2>1, MinOfTwo
  <2> QED
    BY <1>1, <1>2, <1>3, <1>4, <1>5, <1>6, <1>7, <1>8, <2>1, <2>2
<1>10. after > before => pos + before = first + z + off(pos, r)
  BY <1>1, <1>2, <1>3, <1>4, <1>5, <1>6, <1>7, <1>8
<1> QED
  BY <1>8, <1>9, <1>10 DEF RoundIs, before, after, first, z

\* Every byte that is moved is moved in some round.
LEMMA MovedSome ==
  ASSUME NEW pos \in Nat, NEW len \in Nat, NEW room \in Nat, room >= SECTOR_SIZE,
         NEW rounds \in Nat, NEW x \in 0 .. Moved(pos, len, room, rounds) - 1
  PROVE  \E r \in 0 .. rounds - 1 :
            x \in Moved(pos, len, room, r) .. Moved(pos, len, room, r + 1) - 1
<1> DEFINE moved(r) == Moved(pos, len, room, r)
           T == {r \in Nat : x < moved(r)}
<1>1. ASSUME NEW r \in Nat
      PROVE  moved(r) \in Nat
  <2>1. moved(r) \in 0 .. len
    BY MovedIs DEF RoundIs
  <2> QED
    BY <2>1
<1>2. moved(0) = 0
  BY DEF Moved
<1>3. x \in Nat /\ x < moved(rounds)
  BY <1>1
<1> HIDE DEF moved
<1>4. PICK m \in T : \A k \in T : m <= k
  <2>1. T \subseteq Nat /\ T # {}
    BY <1>3
  <2> HIDE DEF T
  <2> QED
    BY <2>1, LeastElement
<1>5. m # 0 /\ m <= rounds
  BY <1>2, <1>3, <1>4
<1>6. m - 1 \in Nat /\ m - 1 \notin T
  BY <1>4, <1>5
<1>7. moved(m - 1) <= x /\ x < moved(m)
  BY <1>1, <1>3, <1>6
<1>8. x \in moved(m - 1) .. moved((m - 1) + 1) - 1
  BY <1>1, <1>3, <1>6, <1>7
<1>9. m - 1 \in 0 .. rounds - 1
  BY <1>5, <1>6
<1> QED
  BY <1>8, <1>9 DEF moved

\* The set of the bytes that are moved grows with the bytes of a round.
LEMMA MovedBytes ==
  ASSUME NEW pos \in Nat, NEW len \in Nat, NEW room \in Nat, room >= SECTOR_SIZE,
         NEW rounds \in Nat
  PROVE  MovedInRounds(pos, len, room, rounds) = Pairs(pos, 0, Moved(pos, len, room, rounds))
<1> DEFINE moved(r) == Moved(pos, len, room, r)
           Round(r) == {<<pos + x, x>> : x \in moved(r) .. moved(r + 1) - 1}
           All == {<<pos + x, x>> : x \in 0 .. moved(rounds) - 1}
<1>1. ASSUME NEW r \in Nat
      PROVE  moved(r) \in Nat /\ moved(r + 1) \in Nat /\ moved(r) <= moved(r + 1)
  <2>1. moved(r) \in 0 .. len /\ moved(r + 1) \in moved(r) .. len
    BY MovedIs DEF RoundIs
  <2> HIDE DEF moved
  <2> QED
    BY <2>1
<1>2. ASSUME NEW r \in 0 .. rounds - 1
      PROVE  moved(r + 1) <= moved(rounds)
  <2> DEFINE T == {k \in Nat : moved(r + 1) <= moved((r + 1) + k)}
  <2> HIDE DEF moved
  <2>1. r + 1 \in Nat /\ rounds - (r + 1) \in Nat /\ (r + 1) + (rounds - (r + 1)) = rounds
    OBVIOUS
  <2>2. 0 \in T
    BY <1>1, <2>1
  <2>3. ASSUME NEW k \in 0 .. (rounds - (r + 1)) - 1, k \in T
        PROVE  k + 1 \in T
    <3>1. (r + 1) + k \in Nat /\ (r + 1) + (k + 1) = ((r + 1) + k) + 1
      BY <2>1
    <3>2. moved((r + 1) + k) <= moved((r + 1) + (k + 1))
      BY <1>1, <3>1
    <3>3. /\ moved(r + 1) \in Nat /\ moved((r + 1) + k) \in Nat
          /\ moved((r + 1) + (k + 1)) \in Nat
      BY <1>1, <2>1, <3>1
    <3> QED
      BY <2>3, <3>2, <3>3
  <2>4. 0 .. rounds - (r + 1) \subseteq T
    <3> HIDE DEF T
    <3> QED
      BY <2>1, <2>2, <2>3, TurnByTurn
  <2>5. rounds - (r + 1) \in T
    BY <2>1, <2>4
  <2> QED
    BY <2>1, <2>5
<1>3. ASSUME NEW r \in 0 .. rounds - 1
      PROVE  Round(r) \subseteq All
  <2> HIDE DEF moved
  <2>1. r \in Nat /\ rounds \in Nat
    OBVIOUS
  <2>2. moved(r) .. moved(r + 1) - 1 \subseteq 0 .. moved(rounds) - 1
    BY <1>1, <1>2, <2>1
  <2> QED
    BY <2>2
<1>4. ASSUME NEW x \in 0 .. moved(rounds) - 1
      PROVE  \E r \in 0 .. rounds - 1 : <<pos + x, x>> \in Round(r)
  <2>1. PICK r \in 0 .. rounds - 1 : x \in moved(r) .. moved(r + 1) - 1
    BY MovedSome
  <2> QED
    BY <2>1
<1> HIDE DEF Round
<1>5. All \subseteq UNION {Round(r) : r \in 0 .. rounds - 1}
  BY <1>4
<1>6. UNION {Round(r) : r \in 0 .. rounds - 1} \subseteq All
  <2> HIDE DEF All
  <2> QED
    BY <1>3
<1> QED
  BY <1>5, <1>6 DEF Round, MovedInRounds, Pairs

\* A larger factor makes a product no smaller.
LEMMA ProductsOrder ==
  ASSUME NEW D \in Nat, NEW j \in Nat, NEW k \in Nat, j <= k
  PROVE  j * D <= k * D
<1>1. CASE j = k
  BY <1>1
<1>2. CASE j < k
  <2>1. j * D + D <= k * D /\ j * D \in Nat /\ k * D \in Nat
    BY <1>2, ProductsGrow
  <2> QED
    BY <2>1
<1> QED
  BY <1>1, <1>2

\* The rounds of a transfer over sects sectors and one more: they have room for all of
\* them, and for less than one round more.
LEMMA RoundsCover ==
  ASSUME NEW sects \in Nat, NEW chunk \in Nat \ {0}, chunk <= sects + 1
  PROVE  LET rounds == (sects \div chunk) + 1 IN
         /\ rounds \in Nat \ {0}
         /\ (sects + 1) * SECTOR_SIZE <= rounds * (chunk * SECTOR_SIZE)
         /\ rounds * (chunk * SECTOR_SIZE) <= (sects + chunk) * SECTOR_SIZE
<1> DEFINE d == sects \div chunk
           e == sects % chunk
           y == chunk * d
<1>1. d \in Nat /\ e \in 0 .. chunk - 1 /\ sects = y + e /\ y \in Nat
  <2>1. d \in Nat /\ e \in 0 .. chunk - 1 /\ sects = chunk * d + e
    BY Division
  <2> HIDE DEF d, e
  <2>2. chunk * d \in Nat
    BY <2>1
  <2> QED
    BY <2>1, <2>2
<1>2. SECTOR_SIZE \in Nat
  BY Sizes
<1> HIDE DEF d, e
<1>3. (d + 1) * (chunk * SECTOR_SIZE) = (y + chunk) * SECTOR_SIZE
  BY <1>1, <1>2
<1> HIDE DEF y
<1>4. (sects + 1) * SECTOR_SIZE <= (y + chunk) * SECTOR_SIZE
  <2>1. sects + 1 <= y + chunk /\ sects + 1 \in Nat /\ y + chunk \in Nat
    BY <1>1
  <2> QED
    BY <1>2, <2>1, ProductsOrder
<1>5. (y + chunk) * SECTOR_SIZE <= (sects + chunk) * SECTOR_SIZE
  <2>1. y + chunk <= sects + chunk /\ sects + chunk \in Nat /\ y + chunk \in Nat
    BY <1>1
  <2> QED
    BY <1>2, <2>1, ProductsOrder
<1> QED
  BY <1>1, <1>3, <1>4, <1>5 DEF d

\* The loop ends with its closed form: what is left is what is not moved.
LEMMA TransferLoop ==
  ASSUME NEW pos \in Nat, NEW len \in Nat, NEW room \in Nat, room >= SECTOR_SIZE,
         NEW rounds \in Nat
  PROVE  \A r \in 0 .. rounds :
            BytesLeft(pos, len, room, rounds)[r] = len - Moved(pos, len, room, r)
<1> DEFINE bytes(r, left) == min(left, room - off(pos, r))
           Turn(left, r) == left - bytes(r, left)
           Loops(f) == f = [r \in 0 .. rounds |-> IF r = 0 THEN len
                                ELSE f[r - 1] - bytes(r - 1, f[r - 1])]
           bytes_left == CHOOSE f : Loops(f)
           Left(r) == len - Moved(pos, len, room, r)
           closed == [r \in 0 .. rounds |-> Left(r)]
<1>1. Left(0) = len
  BY DEF Moved
<1>2. ASSUME NEW r \in 0 .. rounds, r # 0
      PROVE  Left(r) = Left(r - 1) - bytes(r - 1, Left(r - 1))
  <2> DEFINE k == r - 1
             before == Moved(pos, len, room, k)
             after == Moved(pos, len, room, k + 1)
  <2>1. k \in Nat /\ k + 1 = r
    BY <1>2
  <2>2. /\ before \in 0 .. len /\ after \in before .. len
        /\ min(len - before, room - off(pos, k)) = after - before
    <3> HIDE DEF k
    <3>1. RoundIs(pos, len, room, k)
      BY <2>1, MovedIs
    <3> QED
      BY <3>1 DEF RoundIs
  <2>3. Left(k) = len - before /\ Left(r) = len - after
    BY <2>1
  <2>4. bytes(k, Left(k)) = after - before
    BY <2>2
  <2> HIDE DEF before, after, bytes, Left
  <2> QED
    BY <2>2, <2>3, <2>4
<1> HIDE DEF bytes, Left
<1>3. Loops(closed)
  <2>1. ASSUME NEW r \in 0 .. rounds
        PROVE  closed[r] = IF r = 0 THEN len
                           ELSE closed[r - 1] - bytes(r - 1, closed[r - 1])
    <3>1. CASE r = 0
      BY <1>1, <3>1
    <3>2. CASE r # 0
      <4>1. r - 1 \in 0 .. rounds
        BY <3>2
      <4>2. closed[r - 1] = Left(r - 1) /\ closed[r] = Left(r)
        BY <4>1
      <4> QED
        BY <1>2, <3>2, <4>2
    <3> QED
      BY <3>1, <3>2
  <2> QED
    BY <2>1
<1>4. Loops(bytes_left)
  <2> HIDE DEF Loops, closed
  <2> QED
    BY <1>3
<1> HIDE DEF bytes_left, closed
<1>5. \A r \in 0 .. rounds : bytes_left[r] = IF r = 0 THEN len
                                ELSE bytes_left[r - 1] - bytes(r - 1, bytes_left[r - 1])
  BY <1>4
<1> DEFINE T == {r \in 0 .. rounds : bytes_left[r] = Left(r)}
<1>6. 0 \in T
  BY <1>1, <1>5
<1>7. ASSUME NEW r \in 0 .. rounds - 1, r \in T
      PROVE  r + 1 \in T
  <2>1. r + 1 \in 0 .. rounds /\ r + 1 # 0 /\ (r + 1) - 1 = r
    OBVIOUS
  <2>2. bytes_left[r + 1] = bytes_left[r] - bytes(r, bytes_left[r])
    BY <1>5, <2>1
  <2>3. Left(r + 1) = Left(r) - bytes(r, Left(r))
    BY <1>2, <2>1
  <2> QED
    BY <1>7, <2>1, <2>2, <2>3
<1>8. 0 .. rounds \subseteq T
  <2> HIDE DEF T
  <2> QED
    BY <1>6, <1>7, TurnByTurn
<1>9. \A r \in 0 .. rounds : bytes_left[r] = Left(r)
  BY <1>8
<1>10. BytesLeft(pos, len, room, rounds) = bytes_left
  BY DEF BytesLeft, bytes_left, bytes
<1> QED
  BY <1>9, <1>10 DEF Left

\* As many pairs as there are bytes.
LEMMA PairsCount ==
  ASSUME NEW pos \in Nat, NEW n \in Nat
  PROVE  Cardinality(Pairs(pos, 0, n)) = n
<1> DEFINE X == 0 .. n - 1
           P == {<<pos + x, x>> : x \in X}
           f == [x \in X |-> <<pos + x, x>>]
<1>1. IsFiniteSet(X) /\ Cardinality(X) = n
  <2>1. 0 \in Int /\ n - 1 \in Int
    OBVIOUS
  <2>2. IsFiniteSet(X) /\ Cardinality(X) = IF 0 > n - 1 THEN 0 ELSE n - 1 - 0 + 1
    BY <2>1, FS_Interval
  <2> HIDE DEF X
  <2> QED
    BY <2>2
<1> HIDE DEF X
<1>2. f \in Bijection(X, P)
  <2>1. f \in [X -> P]
    OBVIOUS
  <2>2. \A x, y \in X : f[x] = f[y] => x = y
    OBVIOUS
  <2>3. \A t \in P : \E x \in X : f[x] = t
    OBVIOUS
  <2> HIDE DEF f, P
  <2> QED
    BY <2>1, <2>2, <2>3 DEF Bijection, Injection, Surjection, IsInjective
<1>3. ExistsBijection(X, P)
  BY <1>2 DEF ExistsBijection
<1> HIDE DEF P
<1> QED
  BY <1>1, <1>3, FS_Bijection DEF P, X, Pairs

\* The bytes that a transfer moves, if its position is not beyond the sector of its end.
LEMMA MovesAre ==
  ASSUME NEW pos \in Nat, NEW len \in Nat, NEW limit \in Nat
  PROVE  LET first == pos \div SECTOR_SIZE
             last == min(pos + len, limit) \div SECTOR_SIZE
             chunk == min(last - first + 1, FSBUF_SECTS)
             rounds == IF first > last THEN 0 ELSE (last - first) \div chunk + 1
         IN  first <= last =>
                /\ chunk \in 1 .. FSBUF_SECTS /\ chunk <= last - first + 1
                /\ rounds = ((last - first) \div chunk) + 1
                /\ Moves(pos, len, limit) =
                        Pairs(pos, 0, Moved(pos, len, chunk * SECTOR_SIZE, rounds))
<1> DEFINE first == pos \div SECTOR_SIZE
           last == min(pos + len, limit) \div SECTOR_SIZE
           chunk == min(last - first + 1, FSBUF_SECTS)
           rounds == IF first > last THEN 0 ELSE (last - first) \div chunk + 1
           room == chunk * SECTOR_SIZE
           bytes(r, left) == min(left, room - off(pos, r))
           bytes_left[r \in 0 .. rounds] ==
              IF r = 0 THEN len ELSE bytes_left[r - 1] - bytes(r - 1, bytes_left[r - 1])
           place(r) == (first + r * chunk) * SECTOR_SIZE
           count(r) == bytes(r, bytes_left[r])
           Round(r) == {<<place(r) + off(pos, r) + b, len - bytes_left[r] + b>> :
                        b \in 0 .. count(r) - 1}
           moved(r) == Moved(pos, len, room, r)
<1>1. Moves(pos, len, limit) = UNION {Round(r) : r \in 0 .. rounds - 1}
  BY DEF Moves
<1>2. bytes_left = BytesLeft(pos, len, room, rounds)
  BY DEF BytesLeft
<1> SUFFICES ASSUME first <= last
             PROVE  /\ chunk \in 1 .. FSBUF_SECTS /\ chunk <= last - first + 1
                    /\ rounds = ((last - first) \div chunk) + 1
                    /\ Moves(pos, len, limit) = Pairs(pos, 0, moved(rounds))
  OBVIOUS
<1>3. SECTOR_SIZE \in Nat \ {0} /\ FSBUF_SECTS \in Nat \ {0}
  BY Sizes
<1>4. first \in Nat /\ last \in Nat
  <2>1. min(pos + len, limit) \in Nat
    BY MinOfTwo
  <2> QED
    BY <1>3, <2>1, Division
<1> HIDE DEF first, last
<1>5. chunk \in 1 .. FSBUF_SECTS /\ chunk <= last - first + 1
  <2>1. chunk = IF last - first + 1 <= FSBUF_SECTS THEN last - first + 1 ELSE FSBUF_SECTS
    BY <1>3, <1>4, MinOfTwo
  <2> HIDE DEF chunk
  <2> QED
    BY <1>3, <1>4, <2>1
<1> HIDE DEF chunk
<1>6. rounds = ((last - first) \div chunk) + 1 /\ rounds \in Nat
  <2>1. rounds = ((last - first) \div chunk) + 1
    BY <1>4
  <2>2. (last - first) \div chunk \in Nat
    <3> DEFINE sects == last - first
    <3>1. sects \in Nat /\ chunk \in Nat \ {0}
      BY <1>3, <1>4, <1>5
    <3> HIDE DEF sects
    <3>2. sects \div chunk \in Nat
      BY <3>1, Division
    <3> QED
      BY <3>2 DEF sects
  <2> HIDE DEF rounds
  <2> QED
    BY <2>1, <2>2
<1> HIDE DEF rounds
<1>7. room \in Nat /\ room >= SECTOR_SIZE
  <2>1. 1 * SECTOR_SIZE <= chunk * SECTOR_SIZE
    BY <1>3, <1>5, ProductsOrder
  <2>2. 1 * SECTOR_SIZE = SECTOR_SIZE /\ chunk * SECTOR_SIZE \in Nat
    BY <1>3, <1>5
  <2> QED
    BY <1>3, <2>1, <2>2
<1>8. ASSUME NEW r \in 0 .. rounds - 1
      PROVE  /\ place(r) = SECTOR_SIZE * first + r * room
             /\ place(r) \in Nat
  <2> DEFINE k == r * chunk
  <2>1. k \in Nat
    BY <1>5, <1>6
  <2>2. k * SECTOR_SIZE = r * room
    BY <1>3, <1>5, <1>6
  <2>3. place(r) = (first + k) * SECTOR_SIZE
    OBVIOUS
  <2> HIDE DEF k, place, room
  <2>4. (first + k) * SECTOR_SIZE = SECTOR_SIZE * first + k * SECTOR_SIZE
    BY <1>3, <1>4, <2>1
  <2>5. (first + k) * SECTOR_SIZE \in Nat
    BY <1>3, <1>4, <2>1
  <2> QED
    BY <2>2, <2>3, <2>4, <2>5
<1> HIDE DEF bytes_left, room
<1>9. \A r \in 0 .. rounds : bytes_left[r] = len - moved(r)
  BY <1>2, <1>6, <1>7, TransferLoop
<1>10. ASSUME NEW r \in 0 .. rounds - 1
       PROVE  Round(r) = Pairs(pos, moved(r), moved(r + 1))
  <2> DEFINE o == off(pos, r)
             before == moved(r)
             after == moved(r + 1)
             base == SECTOR_SIZE * first + r * room
             left == bytes_left[r]
  <2>1. r \in Nat /\ r \in 0 .. rounds
    BY <1>6
  <2>2. /\ before \in 0 .. len /\ after \in before .. len
        /\ min(len - before, room - o) = after - before
        /\ after > before => pos + before = base + o
    <3>1. /\ before \in 0 .. len /\ after \in before .. len
          /\ min(len - before, room - off(pos, r)) = after - before
          /\ after > before =>
                pos + before = SECTOR_SIZE * (pos \div SECTOR_SIZE) + r * room + off(pos, r)
      <4>1. RoundIs(pos, len, room, r)
        BY <1>7, <2>1, MovedIs
      <4> QED
        BY <4>1 DEF RoundIs
    <3> QED
      BY <3>1 DEF first
  <2>3. left = len - before
    BY <1>9, <2>1
  <2>4. o \in Int
    <3>1. o = IF r = 0 THEN pos % SECTOR_SIZE ELSE 0
      BY DEF off
    <3>2. pos % SECTOR_SIZE \in 0 .. SECTOR_SIZE - 1
      BY <1>3, Division
    <3> HIDE DEF o
    <3> QED
      BY <1>3, <3>1, <3>2
  <2>5. count(r) = min(left, room - o)
    OBVIOUS
  <2>6. Round(r) = {<<place(r) + o + b, len - left + b>> : b \in 0 .. count(r) - 1}
    OBVIOUS
  <2>7. place(r) = base /\ place(r) \in Nat
    BY <1>8
  <2> HIDE DEF o, before, after, place, base, left, count, Round
  <2>8. len - left = before /\ count(r) = after - before
    BY <2>2, <2>3, <2>5
  <2>9. \A b \in 0 .. count(r) - 1 :
            /\ place(r) + o + b = pos + (before + b) /\ len - left + b = before + b
            /\ before + b \in before .. after - 1
    BY <2>2, <2>4, <2>7, <2>8
  <2>10. \A x \in before .. after - 1 :
            /\ x - before \in 0 .. count(r) - 1
            /\ place(r) + o + (x - before) = pos + x /\ len - left + (x - before) = x
    BY <2>2, <2>4, <2>7, <2>8
  <2>11. Round(r) = {<<pos + x, x>> : x \in before .. after - 1}
    BY <2>6, <2>9, <2>10
  <2> QED
    BY <2>11 DEF before, after, Pairs
<1>11. MovedInRounds(pos, len, room, rounds) = Pairs(pos, 0, moved(rounds))
  BY <1>6, <1>7, MovedBytes
<1> HIDE DEF Round
<1>12. UNION {Round(r) : r \in 0 .. rounds - 1} = MovedInRounds(pos, len, room, rounds)
  <2>1. ASSUME NEW t
        PROVE  t \in UNION {Round(r) : r \in 0 .. rounds - 1}
                    <=> t \in MovedInRounds(pos, len, room, rounds)
    <3>1. t \in UNION {Round(r) : r \in 0 .. rounds - 1}
            <=> \E r \in 0 .. rounds - 1 : t \in Round(r)
      OBVIOUS
    <3>2. t \in MovedInRounds(pos, len, room, rounds)
            <=> \E r \in 0 .. rounds - 1 : t \in Pairs(pos, moved(r), moved(r + 1))
      BY DEF MovedInRounds
    <3> HIDE DEF moved
    <3> QED
      BY <1>10, <3>1, <3>2
  <2> QED
    BY <2>1
<1> QED
  BY <1>1, <1>5, <1>6, <1>11, <1>12

\* What is taken from one of two summands and given to the other.
LEMMA Regroup ==
  ASSUME NEW a \in Int, NEW b \in Int, NEW c \in Int
  PROVE  (a + b) + (c - b) = a + c
OBVIOUS

\* The rounds move what is asked for up to the limit, and stop within fsbuf's length.
LEMMA MovedEnds ==
  ASSUME NEW pos \in Nat, NEW len \in Nat, NEW limit \in Nat,
         NEW first \in Nat, first = pos \div SECTOR_SIZE,
         NEW last \in Nat, last = min(pos + len, limit) \div SECTOR_SIZE, first <= last,
         NEW chunk \in 1 .. FSBUF_SECTS, chunk <= last - first + 1,
         NEW rounds, rounds = ((last - first) \div chunk) + 1,
         NEW n, n = Moved(pos, len, chunk * SECTOR_SIZE, rounds)
  PROVE  /\ n \in Nat /\ min(len, limit - pos) <= n /\ n <= len
         /\ n > 0 => pos + n <= limit + FSBUF_SECTS * SECTOR_SIZE
<1> DEFINE S == SECTOR_SIZE
           o == pos % S
           end == min(pos + len, limit)
           over == end % S
           from == S * first
           to == S * last
           room == chunk * S
           all == rounds * room
           most == FSBUF_SECTS * S
<1>1. S \in Nat \ {0} /\ FSBUF_SECTS \in Nat \ {0}
  BY Sizes
<1>2. end = IF pos + len <= limit THEN pos + len ELSE limit
  BY MinOfTwo
<1>3. min(len, limit - pos) = IF len <= limit - pos THEN len ELSE limit - pos
  BY MinOfTwo
<1>4. o \in 0 .. S - 1 /\ pos = from + o
  BY <1>1, Division
<1>5. over \in 0 .. S - 1 /\ end = to + over
  <2>1. end \in Nat
    BY <1>2
  <2> HIDE DEF end
  <2>2. over \in 0 .. S - 1 /\ end = S * (end \div S) + over
    BY <1>1, <2>1, Division
  <2> QED
    BY <2>2 DEF end
<1>6. from \in Nat /\ to \in Nat /\ room \in Nat /\ most \in Nat
  BY <1>1
<1>7. room <= most
  BY <1>1, ProductsOrder
<1>8. rounds \in Nat \ {0} /\ to - from + S <= all /\ all <= to - from + room
  <2> DEFINE sects == last - first
  <2>1. sects \in Nat /\ chunk \in Nat \ {0} /\ chunk <= sects + 1
    BY <1>1
  <2>2. rounds = (sects \div chunk) + 1
    OBVIOUS
  <2>3. (sects + 1) * S = to - from + S /\ (sects + chunk) * S = to - from + room
    <3> DEFINE part == S * sects
    <3>1. last = first + sects
      OBVIOUS
    <3> HIDE DEF sects
    <3>2. S * (first + sects) = from + part /\ part \in Nat
      BY <1>1, <2>1
    <3>3. to = from + part
      BY <3>1, <3>2
    <3>4. (sects + 1) * S = part + S /\ (sects + chunk) * S = part + room
      BY <1>1, <2>1
    <3> HIDE DEF part, from, to, room
    <3> QED
      BY <1>6, <3>2, <3>3, <3>4
  <2> HIDE DEF sects
  <2>4. /\ (sects \div chunk) + 1 \in Nat \ {0}
        /\ (sects + 1) * S <= ((sects \div chunk) + 1) * (chunk * S)
        /\ ((sects \div chunk) + 1) * (chunk * S) <= (sects + chunk) * S
    BY <2>1, RoundsCover
  <2> QED
    BY <2>2, <2>3, <2>4
<1>9. from <= to
  BY <1>1, ProductsOrder
<1>10. n = IF len <= all - o THEN len ELSE all - o
  BY <1>8 DEF Moved
<1>11. all \in Nat
  BY <1>6, <1>8
<1> HIDE DEF S, o, end, over, from, to, room, all, most
<1>12. n \in Int /\ n <= len /\ n <= all - o
  BY <1>1, <1>4, <1>10, <1>11
<1>13. n = len \/ (n = all - o /\ pos + n > end)
  <2>1. from + all > to + over
    BY <1>1, <1>5, <1>6, <1>8, <1>11
  <2>2. n = all - o => pos + n = from + all
    <3>1. from \in Int /\ o \in Int /\ all \in Int
      BY <1>1, <1>4, <1>6, <1>11
    <3>2. (from + o) + (all - o) = from + all
      BY <3>1, Regroup, Zenon
    <3> QED
      BY <1>4, <3>2, Zenon
  <2> QED
    BY <1>5, <1>10, <2>1, <2>2
<1>14. n \in Nat
  BY <1>1, <1>4, <1>6, <1>8, <1>10, <1>11, <1>9
<1>15. min(len, limit - pos) <= n
  BY <1>1, <1>2, <1>3, <1>4, <1>13, <1>14
<1>16. pos + n <= limit + most
  <2>1. CASE pos + len <= limit
    BY <1>6, <1>12, <2>1
  <2>2. CASE ~(pos + len <= limit)
    BY <1>1, <1>2, <1>4, <1>5, <1>6, <1>7, <1>8, <1>11, <1>12, <2>2
  <2> QED
    BY <2>1, <2>2
<1> QED
  BY <1>12, <1>14, <1>15, <1>16 DEF most, S

\* A transfer is exact.
LEMMA TransferIs ==
  ASSUME NEW pos \in Nat, NEW len \in Nat, NEW limit \in Nat
  PROVE  IsExact(Moves(pos, len, limit), pos, len, limit)
<1> DEFINE first == pos \div SECTOR_SIZE
           end == min(pos + len, limit)
           last == end \div SECTOR_SIZE
           chunk == min(last - first + 1, FSBUF_SECTS)
           rounds == IF first > last THEN 0 ELSE (last - first) \div chunk + 1
           moves == Moves(pos, len, limit)
<1>1. SECTOR_SIZE \in Nat \ {0}
  BY Sizes
<1>2. end \in Nat /\ (end # limit => end = pos + len /\ end < limit)
  BY MinOfTwo
<1>3. first \in Nat /\ last \in Nat
  BY <1>1, <1>2, Division
<1>4. CASE first > last
  <2>1. moves = {}
    <3>1. rounds = 0
      BY <1>4
    <3>2. \A r \in 0 .. rounds - 1 : FALSE
      BY <3>1
    <3> QED
      BY <1>4 DEF Moves
  <2>2. limit < pos
    <3>1. pos % SECTOR_SIZE \in 0 .. SECTOR_SIZE - 1
      BY <1>1, Division
    <3>2. pos = SECTOR_SIZE * first + (pos % SECTOR_SIZE)
      BY <1>1, Division
    <3>3. end = SECTOR_SIZE * last + (end % SECTOR_SIZE) /\ end % SECTOR_SIZE \in 0 .. SECTOR_SIZE - 1
      <4> HIDE DEF end
      <4> QED
        BY <1>1, <1>2, Division
    <3>4. last * SECTOR_SIZE + SECTOR_SIZE <= first * SECTOR_SIZE
      <4> HIDE DEF first, last
      <4> QED
        BY <1>1, <1>3, <1>4, ProductsGrow
    <3>5. SECTOR_SIZE * first = first * SECTOR_SIZE /\ SECTOR_SIZE * last = last * SECTOR_SIZE
      BY <1>1, <1>3
    <3>6. first * SECTOR_SIZE \in Nat /\ last * SECTOR_SIZE \in Nat
      BY <1>1, <1>3
    <3> DEFINE o == pos % SECTOR_SIZE
               over == end % SECTOR_SIZE
               a == first * SECTOR_SIZE
               b == last * SECTOR_SIZE
    <3>7. /\ o \in 0 .. SECTOR_SIZE - 1 /\ pos = a + o /\ a \in Nat
          /\ over \in 0 .. SECTOR_SIZE - 1 /\ end = b + over /\ b \in Nat
          /\ b + SECTOR_SIZE <= a
      BY <3>1, <3>2, <3>3, <3>4, <3>5, <3>6
    <3> HIDE DEF o, over, a, b, end
    <3> QED
      BY <1>1, <1>2, <3>7
  <2>3. min(len, limit - pos) <= 0
    BY <2>2, MinOfTwo
  <2>4. Cardinality(moves) = 0
    BY <2>1, FS_EmptySet
  <2>5. moves = {<<pos + b, b>> : b \in 0 .. 0 - 1}
    <3>1. 0 .. 0 - 1 = {}
      OBVIOUS
    <3> QED
      BY <2>1, <3>1
  <2> HIDE DEF moves
  <2> QED
    BY <2>3, <2>4, <2>5 DEF IsExact, moves
<1>5. CASE first <= last
  <2> DEFINE n == Moved(pos, len, chunk * SECTOR_SIZE, rounds)
  <2>1. /\ chunk \in 1 .. FSBUF_SECTS /\ chunk <= last - first + 1
        /\ rounds = ((last - first) \div chunk) + 1
        /\ moves = Pairs(pos, 0, n)
    BY <1>5, MovesAre
  <2> HIDE DEF rounds, chunk, moves
  <2>2. /\ n \in Nat /\ min(len, limit - pos) <= n /\ n <= len
        /\ n > 0 => pos + n <= limit + FSBUF_SECTS * SECTOR_SIZE
    <3>1. first = pos \div SECTOR_SIZE /\ last = min(pos + len, limit) \div SECTOR_SIZE
      OBVIOUS
    <3> HIDE DEF first, last
    <3> QED
      BY <1>3, <1>5, <2>1, <3>1, MovedEnds
  <2> HIDE DEF n
  <2>3. Cardinality(moves) = n
    BY <2>1, <2>2, PairsCount
  <2>4. moves = {<<pos + b, b>> : b \in 0 .. n - 1}
    BY <2>1 DEF Pairs
  <2> QED
    BY <2>2, <2>3, <2>4 DEF IsExact, moves
<1> QED
  <2> HIDE DEF first, last
  <2> QED
    BY <1>3, <1>4, <1>5

-----------------------------------------------------------------------------
(***************************************************************************)
(* Where bytes lie.                                                        *)
(***************************************************************************)
\* A byte of a file, up to the bound of the sizes, is on the drive.
LEMMA PlaceIsOnDrive ==
  ASSUME NEW f \in Files, NEW k \in Positions
  PROVE  Place(f, k) \in Bytes
<1> DEFINE last == NR_OF_FILES - 1
<1>1. f \in Nat /\ last \in Nat /\ f <= last /\ k \in Nat /\ k + 1 <= MaxSize /\ MaxSize \in Nat
  BY Sizes DEF Files, Positions
<1> HIDE DEF last
<1>2. f * Capacity <= last * Capacity /\ f * Capacity \in Nat /\ last * Capacity \in Nat
  BY <1>1, CapacityIs, ProductsOrder
<1>3. Place(f, k) = f * Capacity + k /\ Bytes = 0 .. (last * Capacity + MaxSize) - 1
  BY DEF Place, Bytes, last
<1> DEFINE a == f * Capacity
           b == last * Capacity
<1> HIDE DEF a, b
<1>4. a <= b /\ a \in Nat /\ b \in Nat
  BY <1>2 DEF a, b
<1>5. a + k \in 0 .. (b + MaxSize) - 1
  BY <1>1, <1>4
<1> QED
  BY <1>3, <1>5 DEF a, b

\* Bytes of files that are in the files' own sectors lie at different places.
LEMMA PlacesDiffer ==
  ASSUME NEW f \in Files, NEW g \in Files, NEW j \in Nat, NEW k \in Nat,
         j < Capacity, k < Capacity, Place(f, j) = Place(g, k)
  PROVE  f = g /\ j = k
<1> DEFINE a == f * Capacity
           b == g * Capacity
<1>1. f \in Nat /\ g \in Nat /\ Capacity \in Nat /\ a \in Nat /\ b \in Nat
  BY CapacityIs, Sizes DEF Files
<1>2. a + j = b + k
  BY DEF Place
<1>3. ~(f < g)
  <2>1. f < g => a + Capacity <= b
    BY <1>1, ProductsGrow
  <2> HIDE DEF a, b
  <2> QED
    BY <1>1, <1>2, <2>1
<1>4. ~(g < f)
  <2>1. g < f => b + Capacity <= a
    BY <1>1, ProductsGrow
  <2> HIDE DEF a, b
  <2> QED
    BY <1>1, <1>2, <2>1
<1>5. f = g
  BY <1>1, <1>3, <1>4
<1>6. a = b
  BY <1>5
<1> HIDE DEF a, b
<1> QED
  BY <1>1, <1>2, <1>5, <1>6

\* Two bytes of one file lie at different places.
LEMMA PlacesOfFileDiffer ==
  ASSUME NEW f \in Files, NEW j \in Nat, NEW k \in Nat, Place(f, j) = Place(f, k)
  PROVE  j = k
<1> DEFINE a == f * Capacity
<1>1. a \in Nat
  BY CapacityIs, Sizes DEF Files
<1>2. a + j = a + k
  BY DEF Place
<1> HIDE DEF a
<1> QED
  BY <1>1, <1>2

-----------------------------------------------------------------------------
(***************************************************************************)
(* The calls.                                                              *)
(***************************************************************************)
\* How many bytes a call moves.
Count(type, d, len) == Cardinality(Transfer(type, d, len))

\* A call moves the bytes from the position on, all it was asked for up to its limit.
LEMMA CallIs ==
  ASSUME TypeOK, NEW type, NEW d \in Descs, fd_inode[d] # NoFile, NEW len \in 0 .. MaxLen
  PROVE  /\ Count(type, d, len) \in 0 .. len
         /\ Transfer(type, d, len) = {<<fd_pos[d] + b, b>> : b \in 0 .. Count(type, d, len) - 1}
         /\ fd_pos[d] + len <= Limit(type, i_size[fd_inode[d]]) => Count(type, d, len) = len
<1> DEFINE pos == fd_pos[d]
           limit == Limit(type, i_size[fd_inode[d]])
<1>1. pos \in 0 .. MaxSize /\ fd_inode[d] \in Files /\ i_size[fd_inode[d]] \in 0 .. MaxSize
  BY DEF TypeOK
<1>2. limit \in (0 .. MaxSize) \cup {Capacity}
  BY <1>1 DEF Limit
<1>3. pos \in Nat /\ len \in Nat /\ limit \in Nat
  BY <1>1, <1>2, Sizes, CapacityIs
<1>4. Transfer(type, d, len) = Moves(pos, len, limit)
  BY <1>1, <1>2 DEF Transfer, Transfers
<1>5. IsExact(Transfer(type, d, len), pos, len, limit)
  BY <1>3, <1>4, TransferIs
<1> DEFINE n == Count(type, d, len)
<1>6. /\ Transfer(type, d, len) = {<<pos + b, b>> : b \in 0 .. n - 1}
      /\ n \in Nat /\ min(len, limit - pos) <= n /\ n <= len
  BY <1>5 DEF IsExact, Count
<1> HIDE DEF n, limit, pos
<1>7. pos + len <= limit => min(len, limit - pos) = len
  BY <1>3, MinOfTwo
<1> QED
  BY <1>3, <1>6, <1>7 DEF n, limit, pos

\* The position and the size after a call.
LEMMA AdvancesIs ==
  ASSUME TypeOK, NEW type, NEW d \in Descs, fd_inode[d] # NoFile, NEW len \in 0 .. MaxLen,
         Advances(type, d, len)
  PROVE  LET pos == fd_pos[d] + Count(type, d, len)
             f == fd_inode[d]
         IN  /\ pos \in 0 .. MaxSize /\ fd_pos[d] <= pos
             /\ fd_pos' = [fd_pos EXCEPT ![d] = pos]
             /\ i_size' = [i_size EXCEPT ![f] = NewSize(@, pos)]
             /\ NewSize(i_size[f], pos) \in 0 .. MaxSize
             /\ NewSize(i_size[f], pos) >= pos /\ NewSize(i_size[f], pos) >= i_size[f]
             /\ f \in Files
<1> DEFINE pos == fd_pos[d] + Count(type, d, len)
           f == fd_inode[d]
<1>1. fd_pos[d] \in 0 .. MaxSize /\ f \in Files /\ i_size[f] \in 0 .. MaxSize
  BY DEF TypeOK
<1>2. Count(type, d, len) \in Nat
  <2>1. Count(type, d, len) \in 0 .. len
    BY CallIs
  <2> QED
    BY <2>1
<1>3. /\ pos <= MaxSize
      /\ fd_pos' = [fd_pos EXCEPT ![d] = pos]
      /\ i_size' = [i_size EXCEPT ![f] = NewSize(@, pos)]
  BY DEF Advances, Count
<1>4. pos \in 0 .. MaxSize /\ fd_pos[d] <= pos
  BY <1>1, <1>2, <1>3, Sizes
<1> HIDE DEF pos, f
<1>5. /\ NewSize(i_size[f], pos) \in 0 .. MaxSize
      /\ NewSize(i_size[f], pos) >= pos /\ NewSize(i_size[f], pos) >= i_size[f]
  BY <1>1, <1>4, Sizes DEF NewSize
<1> QED
  BY <1>1, <1>3, <1>4, <1>5 DEF pos, f

\* The bytes that a write moves, counted from the beginning of the file.
Here(d, len) == fd_pos[d] .. fd_pos[d] + Count("WRITE", d, len) - 1

\* What a write does to the drive.
LEMMA WriteIs ==
  ASSUME TypeOK, NEW d \in Descs, NEW len \in 0 .. MaxLen, Write(d, len)
  PROVE  LET f == fd_inode[d] IN
         /\ f # NoFile /\ f \in Files /\ Advances("WRITE", d, len)
         /\ Here(d, len) \subseteq Positions
         /\ \A k \in Here(d, len) : drive'[Place(f, k)] = <<f, k>>
         /\ \A a \in Bytes : (\A k \in Here(d, len) : Place(f, k) # a) => drive'[a] = drive[a]
         /\ drive' = [a \in Bytes |-> drive'[a]]
         /\ written' = written \cup {<<f, k>> : k \in Here(d, len)}
<1> DEFINE f == fd_inode[d]
           p == fd_pos[d]
           n == Count("WRITE", d, len)
           moves == Transfer("WRITE", d, len)
           byte(m) == <<f, p + m[2]>>
<1>1. /\ f # NoFile /\ Advances("WRITE", d, len)
      /\ drive' = [a \in Bytes |->
            IF \E m \in moves : Place(f, m[1]) = a
            THEN byte(CHOOSE m \in moves : Place(f, m[1]) = a) ELSE drive[a]]
      /\ written' = written \cup {byte(m) : m \in moves}
  BY DEF Write
<1>2. f \in Files /\ p \in Nat
  BY <1>1, Sizes DEF TypeOK
<1>3. n \in Nat /\ moves = {<<p + b, b>> : b \in 0 .. n - 1} /\ p + n \in 0 .. MaxSize
  <2>1. n \in 0 .. len /\ moves = {<<p + b, b>> : b \in 0 .. n - 1}
    BY <1>1, CallIs
  <2>2. p + n \in 0 .. MaxSize
    BY <1>1, AdvancesIs
  <2> QED
    BY <2>1, <2>2
<1>4. Here(d, len) = p .. p + n - 1
  BY DEF Here
<1> HIDE DEF f, p, n, moves
<1>5. Here(d, len) \subseteq Positions
  BY <1>2, <1>3, <1>4, Sizes DEF Positions
<1>6. \A m \in moves : m[1] \in Here(d, len) /\ byte(m) = <<f, m[1]>>
  BY <1>2, <1>3, <1>4
<1>7. \A k \in Here(d, len) : \E m \in moves : m[1] = k
  <2> SUFFICES ASSUME NEW k \in Here(d, len)
               PROVE  \E m \in moves : m[1] = k
    OBVIOUS
  <2>1. k - p \in 0 .. n - 1 /\ p + (k - p) = k
    BY <1>2, <1>3, <1>4
  <2>2. <<p + (k - p), k - p>> \in moves
    BY <1>3, <2>1
  <2> QED
    BY <2>1, <2>2
<1>8. ASSUME NEW k \in Here(d, len)
      PROVE  drive'[Place(f, k)] = <<f, k>>
  <2> DEFINE a == Place(f, k)
             m == CHOOSE m \in moves : Place(f, m[1]) = a
  <2>1. a \in Bytes
    BY <1>2, <1>5, PlaceIsOnDrive
  <2>2. m \in moves /\ Place(f, m[1]) = a
    BY <1>7
  <2>3. drive'[a] = byte(m)
    BY <1>1, <1>7, <2>1
  <2>4. m[1] \in Here(d, len) /\ byte(m) = <<f, m[1]>>
    BY <1>6, <2>2
  <2> HIDE DEF m
  <2>5. m[1] \in Nat /\ k \in Nat
    BY <1>5, <2>4 DEF Positions
  <2>6. m[1] = k
    BY <1>2, <2>2, <2>5, PlacesOfFileDiffer
  <2> QED
    BY <2>3, <2>4, <2>6
<1>9. ASSUME NEW a \in Bytes, \A k \in Here(d, len) : Place(f, k) # a
      PROVE  drive'[a] = drive[a]
  BY <1>1, <1>6, <1>9
<1>10. drive' = [a \in Bytes |-> drive'[a]]
  BY <1>1
<1>11. {byte(m) : m \in moves} = {<<f, k>> : k \in Here(d, len)}
  BY <1>6, <1>7
<1> QED
  BY <1>1, <1>2, <1>5, <1>8, <1>9, <1>10, <1>11 DEF f

-----------------------------------------------------------------------------
(***************************************************************************)
(* The invariant.                                                          *)
(***************************************************************************)
\* What is on the drive was written for the place where it is.
BytesAreInPlace ==
    \A a \in Bytes : drive[a] # Old =>
        drive[a] \in written /\ Place(drive[a][1], drive[a][2]) = a

\* Unless a file has run over another one, all that was written is there.
WrittenIsThere ==
    WritesStayInFile => \A w \in written : drive[Place(w[1], w[2])] = w

IInv == TypeOK /\ SizeCovers /\ BytesAreInPlace /\ WrittenIsThere

\* At the beginning nothing is written and nothing is open.
LEMMA InitHolds == Init => IInv
<1> SUFFICES ASSUME Init
             PROVE  IInv
  OBVIOUS
<1>1. TypeOK
  BY Sizes DEF Init, TypeOK
<1>2. SizeCovers
  BY DEF Init, SizeCovers
<1>3. BytesAreInPlace
  BY DEF Init, BytesAreInPlace
<1>4. WrittenIsThere
  BY DEF Init, WrittenIsThere
<1> QED
  BY <1>1, <1>2, <1>3, <1>4 DEF IInv

\* A descriptor of another file, and a descriptor that is given back.
LEMMA OpenCloseKeep ==
  ASSUME IInv, NEW d \in Descs, NEW f \in Files, Open(d, f) \/ Close(d)
  PROVE  IInv'
<1>1. /\ UNCHANGED <<i_size, drive, written>>
      /\ fd_pos' = [fd_pos EXCEPT ![d] = 0]
      /\ \E x \in Files \cup {NoFile} : fd_inode' = [fd_inode EXCEPT ![d] = x]
  BY DEF Open, Close
<1>2. TypeOK'
  <2>1. 0 \in 0 .. MaxSize
    BY Sizes
  <2> QED
    BY <1>1, <2>1 DEF IInv, TypeOK
<1>3. SizeCovers'
  <2>1. ASSUME NEW e \in Descs, fd_inode'[e] # NoFile
        PROVE  fd_pos'[e] <= i_size'[fd_inode'[e]]
    <3>1. fd_inode'[e] \in Files
      BY <1>2, <2>1 DEF TypeOK
    <3>2. CASE e = d
      <4>1. fd_pos'[e] = 0 /\ i_size'[fd_inode'[e]] \in 0 .. MaxSize
        BY <1>1, <1>2, <3>1, <3>2 DEF IInv, TypeOK
      <4> QED
        BY <4>1, Sizes
    <3>3. CASE e # d
      BY <1>1, <2>1, <3>3 DEF IInv, TypeOK, SizeCovers
    <3> QED
      BY <3>2, <3>3
  <2> QED
    BY <1>1, <2>1 DEF IInv, SizeCovers
<1>4. BytesAreInPlace' /\ WrittenIsThere'
  BY <1>1 DEF IInv, BytesAreInPlace, WrittenIsThere, WritesStayInFile
<1> QED
  BY <1>2, <1>3, <1>4 DEF IInv

\* A call leaves every position within its file's size.
LEMMA AdvancesKeep ==
  ASSUME IInv, NEW type, NEW d \in Descs, fd_inode[d] # NoFile, NEW len \in 0 .. MaxLen,
         Advances(type, d, len)
  PROVE  /\ fd_inode' = fd_inode
         /\ fd_pos' \in [Descs -> 0 .. MaxSize] /\ i_size' \in [Files -> 0 .. MaxSize]
         /\ \A e \in Descs : fd_inode'[e] # NoFile => fd_pos'[e] <= i_size'[fd_inode'[e]]
         /\ \A f \in Files : i_size[f] <= i_size'[f]
<1> DEFINE pos == fd_pos[d] + Count(type, d, len)
           f == fd_inode[d]
           size == NewSize(i_size[f], pos)
<1>1. fd_inode' = fd_inode
  BY DEF Advances
<1>2. TypeOK
  BY DEF IInv
<1>3. /\ pos \in 0 .. MaxSize /\ size \in 0 .. MaxSize /\ size >= pos /\ size >= i_size[f]
      /\ fd_pos' = [fd_pos EXCEPT ![d] = pos]
      /\ i_size' = [i_size EXCEPT ![f] = NewSize(@, pos)]
      /\ f \in Files
  <2>1. /\ pos \in 0 .. MaxSize /\ f \in Files
        /\ fd_pos' = [fd_pos EXCEPT ![d] = pos]
    BY <1>2, AdvancesIs
  <2>2. /\ size \in 0 .. MaxSize /\ size >= pos /\ size >= i_size[f]
    BY <1>2, AdvancesIs
  <2>3. i_size' = [i_size EXCEPT ![f] = NewSize(@, pos)]
    BY <1>2, AdvancesIs
  <2> QED
    BY <2>1, <2>2, <2>3
<1>4. i_size' = [i_size EXCEPT ![f] = size]
  BY <1>3
<1> HIDE DEF pos, size, f
<1>5. fd_pos' \in [Descs -> 0 .. MaxSize] /\ i_size' \in [Files -> 0 .. MaxSize]
  BY <1>3, <1>2, <1>4 DEF TypeOK
<1>6. ASSUME NEW g \in Files
      PROVE  i_size[g] <= i_size'[g]
  BY <1>3, <1>2, <1>4, Sizes DEF TypeOK
<1>7. ASSUME NEW e \in Descs, fd_inode'[e] # NoFile
      PROVE  fd_pos'[e] <= i_size'[fd_inode'[e]]
  <2>1. fd_inode[e] \in Files
    BY <1>1, <1>2, <1>7 DEF TypeOK
  <2>2. CASE e = d
    BY <1>1, <1>3, <1>2, <1>4, <2>2 DEF TypeOK, f
  <2>3. CASE e # d
    <3>1. fd_pos'[e] = fd_pos[e] /\ fd_pos[e] <= i_size[fd_inode[e]]
      BY <1>1, <1>3, <1>2, <1>7, <2>3 DEF TypeOK, IInv, SizeCovers
    <3>2. i_size[fd_inode[e]] <= i_size'[fd_inode[e]]
      BY <1>6, <2>1
    <3>3. /\ fd_pos[e] \in 0 .. MaxSize /\ i_size[fd_inode[e]] \in 0 .. MaxSize
          /\ i_size'[fd_inode[e]] \in 0 .. MaxSize
      BY <1>2, <1>5, <2>1 DEF TypeOK
    <3> QED
      BY <1>1, <3>1, <3>2, <3>3
  <2> QED
    BY <2>2, <2>3
<1> QED
  BY <1>1, <1>5, <1>6, <1>7

\* A read changes positions and sizes only.
LEMMA ReadKeeps ==
  ASSUME IInv, NEW d \in Descs, NEW len \in 0 .. MaxLen, Read(d, len)
  PROVE  IInv'
<1>1. fd_inode[d] # NoFile /\ Advances("READ", d, len) /\ UNCHANGED <<drive, written>>
  BY DEF Read
<1>2. /\ fd_inode' = fd_inode
      /\ fd_pos' \in [Descs -> 0 .. MaxSize] /\ i_size' \in [Files -> 0 .. MaxSize]
      /\ \A e \in Descs : fd_inode'[e] # NoFile => fd_pos'[e] <= i_size'[fd_inode'[e]]
      /\ \A f \in Files : i_size[f] <= i_size'[f]
  BY <1>1, AdvancesKeep
<1>3. TypeOK'
  BY <1>1, <1>2 DEF IInv, TypeOK
<1>4. SizeCovers'
  <2>1. ASSUME NEW w \in written
        PROVE  w[2] < i_size'[w[1]]
    <3>1. w[1] \in Files /\ w[2] \in Positions /\ w[2] < i_size[w[1]]
      BY DEF IInv, TypeOK, SizeCovers
    <3>2. i_size[w[1]] \in 0 .. MaxSize /\ i_size'[w[1]] \in 0 .. MaxSize
      BY <1>2, <3>1 DEF IInv, TypeOK
    <3> QED
      BY <1>2, <3>1, <3>2 DEF Positions
  <2> QED
    BY <1>1, <1>2, <2>1 DEF SizeCovers
<1>5. BytesAreInPlace' /\ WrittenIsThere'
  BY <1>1 DEF IInv, BytesAreInPlace, WrittenIsThere, WritesStayInFile
<1> QED
  BY <1>3, <1>4, <1>5 DEF IInv

\* A write puts its bytes where they belong and leaves the others where they are.
LEMMA WriteKeeps ==
  ASSUME IInv, NEW d \in Descs, NEW len \in 0 .. MaxLen, Write(d, len)
  PROVE  IInv'
<1> DEFINE f == fd_inode[d]
           here == Here(d, len)
           new == {<<f, k>> : k \in here}
<1>1. TypeOK
  BY DEF IInv
<1>2. /\ f # NoFile /\ f \in Files /\ Advances("WRITE", d, len)
      /\ here \subseteq Positions
      /\ \A k \in here : drive'[Place(f, k)] = <<f, k>>
      /\ \A a \in Bytes : (\A k \in here : Place(f, k) # a) => drive'[a] = drive[a]
      /\ drive' = [a \in Bytes |-> drive'[a]]
      /\ written' = written \cup new
  BY <1>1, WriteIs
<1>3. /\ fd_inode' = fd_inode
      /\ fd_pos' \in [Descs -> 0 .. MaxSize] /\ i_size' \in [Files -> 0 .. MaxSize]
      /\ \A e \in Descs : fd_inode'[e] # NoFile => fd_pos'[e] <= i_size'[fd_inode'[e]]
      /\ \A g \in Files : i_size[g] <= i_size'[g]
  BY <1>2, AdvancesKeep
<1>4. \A k \in here : k < i_size'[f]
  <2> DEFINE pos == fd_pos[d] + Count("WRITE", d, len)
  <2>1. fd_pos' = [fd_pos EXCEPT ![d] = pos] /\ pos \in 0 .. MaxSize
    BY <1>1, <1>2, AdvancesIs
  <2>2. fd_pos'[d] = pos
    BY <1>1, <2>1 DEF TypeOK
  <2>3. pos <= i_size'[f]
    BY <1>2, <1>3, <2>2
  <2>4. here \subseteq Nat /\ \A k \in here : k <= pos - 1
    <3>1. fd_pos[d] \in Nat /\ Count("WRITE", d, len) \in Nat
      <4>1. Count("WRITE", d, len) \in 0 .. len
        BY <1>1, <1>2, CallIs
      <4> QED
        BY <1>1, <4>1 DEF TypeOK
    <3> DEFINE q == fd_pos[d]
               n == Count("WRITE", d, len)
    <3>2. here = q .. q + n - 1 /\ pos = q + n
      BY DEF Here
    <3> HIDE DEF q, n, here, pos
    <3> QED
      BY <3>1, <3>2 DEF q, n
  <2>5. i_size'[f] \in 0 .. MaxSize
    BY <1>2, <1>3
  <2> HIDE DEF pos, here, f
  <2> QED
    BY <2>1, <2>3, <2>4, <2>5
<1> HIDE DEF f, here
<1>5. new \subseteq Files \X Positions
  BY <1>2
<1>6. ASSUME NEW a \in Bytes
      PROVE  drive'[a] = drive[a] \/ \E k \in here : Place(f, k) = a /\ drive'[a] = <<f, k>>
  BY <1>2
<1>7. TypeOK'
  <2>1. ASSUME NEW a \in Bytes
        PROVE  drive'[a] \in (Files \X Positions) \cup {Old}
    <3>1. drive[a] \in (Files \X Positions) \cup {Old}
      BY <1>1 DEF TypeOK
    <3>2. \A k \in here : <<f, k>> \in Files \X Positions
      BY <1>2
    <3> QED
      BY <1>6, <3>1, <3>2
  <2>2. drive' \in [Bytes -> (Files \X Positions) \cup {Old}]
    BY <1>2, <2>1
  <2> QED
    BY <1>1, <1>2, <1>3, <1>5, <2>2 DEF TypeOK
<1>8. SizeCovers'
  <2>1. ASSUME NEW w \in written'
        PROVE  w[2] < i_size'[w[1]]
    <3>1. CASE w \in new
      BY <1>4, <3>1
    <3>2. CASE w \in written
      <4>1. w[1] \in Files /\ w[2] \in Positions /\ w[2] < i_size[w[1]]
        BY <1>1, <3>2 DEF IInv, TypeOK, SizeCovers
      <4>2. i_size[w[1]] \in 0 .. MaxSize /\ i_size'[w[1]] \in 0 .. MaxSize
        BY <1>1, <1>3, <4>1 DEF TypeOK
      <4> QED
        BY <1>3, <4>1, <4>2 DEF Positions
    <3> QED
      BY <1>2, <3>1, <3>2
  <2> QED
    BY <1>3, <2>1 DEF SizeCovers
<1>9. BytesAreInPlace'
  <2>1. ASSUME NEW a \in Bytes, drive'[a] # Old
        PROVE  drive'[a] \in written' /\ Place(drive'[a][1], drive'[a][2]) = a
    <3>1. CASE drive'[a] = drive[a]
      BY <1>2, <2>1, <3>1 DEF IInv, BytesAreInPlace
    <3>2. ASSUME NEW k \in here, Place(f, k) = a, drive'[a] = <<f, k>>
          PROVE  drive'[a] \in written' /\ Place(drive'[a][1], drive'[a][2]) = a
      BY <1>2, <3>2
    <3> QED
      BY <1>6, <3>1, <3>2
  <2> QED
    BY <2>1 DEF BytesAreInPlace, Place
<1>10. WrittenIsThere'
  <2> SUFFICES ASSUME \A w \in written' : w[2] < Capacity, NEW w \in written'
               PROVE  drive'[Place(w[1], w[2])] = w
    BY DEF WrittenIsThere, WritesStayInFile, Place
  <2>1. CASE w \in new
    BY <1>2, <2>1
  <2>2. CASE w \in written
    <3> DEFINE a == Place(w[1], w[2])
    <3>1. w[1] \in Files /\ w[2] \in Positions /\ w = <<w[1], w[2]>> /\ w[2] < Capacity
      BY <1>1, <2>2 DEF TypeOK
    <3>2. a \in Bytes
      BY <3>1, PlaceIsOnDrive
    <3>3. drive[a] = w
      BY <1>2, <2>2 DEF IInv, WrittenIsThere, WritesStayInFile
    <3>4. ASSUME NEW k \in here, Place(f, k) = a
          PROVE  w = <<f, k>>
      <4>1. <<f, k>> \in written'
        BY <1>2
      <4>2. k < Capacity /\ k \in Nat /\ w[2] \in Nat
        BY <1>2, <3>1, <4>1 DEF Positions
      <4>3. f = w[1] /\ k = w[2]
        BY <1>2, <3>1, <3>4, <4>2, PlacesDiffer
      <4> QED
        BY <3>1, <4>3
    <3> HIDE DEF a
    <3> QED
      BY <1>6, <3>2, <3>3, <3>4 DEF a
  <2> QED
    BY <1>2, <2>1, <2>2
<1> QED
  BY <1>7, <1>8, <1>9, <1>10 DEF IInv

\* The invariant holds throughout.
LEMMA Invariance == Spec => []IInv
<1>1. IInv /\ [Next]_vars => IInv'
  <2> SUFFICES ASSUME IInv, [Next]_vars
               PROVE  IInv'
    OBVIOUS
  <2>1. ASSUME NEW d \in Descs, NEW f \in Files, Open(d, f)
        PROVE  IInv'
    BY <2>1, OpenCloseKeep
  <2>2. ASSUME NEW d \in Descs, Close(d)
        PROVE  IInv'
    <3>1. 0 \in Files
      BY Sizes DEF Files
    <3> QED
      BY <2>2, <3>1, OpenCloseKeep
  <2>3. ASSUME NEW d \in Descs, NEW len \in 0 .. MaxLen, Read(d, len)
        PROVE  IInv'
    BY <2>3, ReadKeeps
  <2>4. ASSUME NEW d \in Descs, NEW len \in 0 .. MaxLen, Write(d, len)
        PROVE  IInv'
    BY <2>4, WriteKeeps
  <2>5. CASE UNCHANGED vars
    BY <2>5 DEF vars, IInv, TypeOK, SizeCovers, BytesAreInPlace, WrittenIsThere, WritesStayInFile
  <2> QED
    BY <2>1, <2>2, <2>3, <2>4, <2>5 DEF Next
<1> QED
  BY InitHolds, <1>1, PTL DEF Spec

-----------------------------------------------------------------------------
(***************************************************************************)
(* The theorems.                                                           *)
(***************************************************************************)
\* The tables of descriptors and inodes, and the drive, keep their types.
THEOREM TypeCorrect == Spec => []TypeOK
<1>1. IInv => TypeOK
  BY DEF IInv
<1> QED
  BY <1>1, Invariance, PTL

\* The size of a file covers every position in it and every byte that was written:
\* whatever calls on other descriptors do (fs/read_write.c:116-122).
THEOREM SizesCover == Spec => []SizeCovers
<1>1. IInv => SizeCovers
  BY DEF IInv
<1> QED
  BY <1>1, Invariance, PTL

\* A read within the file returns what was written last at each of its places, all that
\* it asked for, whatever the sizes of sectors, of fsbuf and of files.
THEOREM ReadsAreRight == Spec => []ReadsReturnWritten
<1>1. ASSUME IInv
      PROVE  ReadsReturnWritten
  <2> SUFFICES ASSUME WritesStayInFile, NEW d \in Descs, NEW len \in 0 .. MaxLen,
                      fd_inode[d] # NoFile, fd_pos[d] + len <= i_size[fd_inode[d]],
                      fd_pos[d] + len <= Capacity
               PROVE  LET byte(k) == <<fd_inode[d], k>> IN
                      Answer(d, len) =
                        {<<x, IF byte(fd_pos[d] + x) \in written THEN byte(fd_pos[d] + x)
                              ELSE Old>> : x \in 0 .. len - 1}
    BY DEF ReadsReturnWritten
  <2> DEFINE f == fd_inode[d]
             p == fd_pos[d]
             byte(k) == <<f, k>>
  <2>1. TypeOK
    BY <1>1 DEF IInv
  <2>2. f \in Files /\ p \in Nat /\ len \in Nat /\ i_size[f] \in 0 .. MaxSize
    BY <2>1, Sizes DEF TypeOK
  <2>3. Transfer("READ", d, len) = {<<p + b, b>> : b \in 0 .. len - 1}
    <3>1. Limit("READ", i_size[f]) = i_size[f]
      BY DEF Limit
    <3>2. Count("READ", d, len) = len
      BY <2>1, <3>1, CallIs
    <3>3. Transfer("READ", d, len) = {<<fd_pos[d] + b, b>> : b \in 0 .. Count("READ", d, len) - 1}
      BY <2>1, CallIs
    <3> QED
      BY <3>2, <3>3
  <2>4. ASSUME NEW x \in 0 .. len - 1
        PROVE  drive[Place(f, p + x)] = IF byte(p + x) \in written THEN byte(p + x) ELSE Old
    <3> DEFINE k == p + x
               a == Place(f, k)
               v == drive[a]
    <3>1. k \in Nat /\ k \in Positions /\ k < Capacity
      <4>1. Capacity \in Nat /\ MaxSize \in Nat
        BY CapacityIs, Sizes
      <4> HIDE DEF f, p
      <4> QED
        BY <2>2, <4>1 DEF Positions, f, p
    <3>2. a \in Bytes
      BY <2>2, <3>1, PlaceIsOnDrive
    <3>3. CASE byte(k) \in written
      BY <1>1, <3>3 DEF IInv, WrittenIsThere
    <3>4. CASE byte(k) \notin written
      <4> SUFFICES ASSUME v # Old
                   PROVE  FALSE
        BY <3>4
      <4>1. v \in written /\ Place(v[1], v[2]) = a
        BY <1>1, <3>2 DEF IInv, BytesAreInPlace
      <4>2. v[1] \in Files /\ v[2] \in Nat /\ v[2] < Capacity /\ v = <<v[1], v[2]>>
        BY <2>1, <4>1 DEF TypeOK, Positions, WritesStayInFile
      <4>3. v[1] = f /\ v[2] = k
        <5> HIDE DEF v, k, f
        <5> QED
          BY <2>2, <3>1, <4>1, <4>2, PlacesDiffer
      <4> QED
        BY <3>4, <4>1, <4>2, <4>3
    <3> QED
      BY <3>3, <3>4
  <2>5. Answer(d, len) = {<<m[2], drive[Place(f, m[1])]>> : m \in Transfer("READ", d, len)}
    BY DEF Answer
  <2>6. Answer(d, len) = {<<x, drive[Place(f, p + x)]>> : x \in 0 .. len - 1}
    <3> DEFINE moves == Transfer("READ", d, len)
    <3>1. \A m \in moves : \E x \in 0 .. len - 1 : m[1] = p + x /\ m[2] = x
      BY <2>3
    <3>2. ASSUME NEW x \in 0 .. len - 1
          PROVE  \E m \in moves : m[1] = p + x /\ m[2] = x
      <4>1. <<p + x, x>> \in moves
        BY <2>3
      <4> QED
        BY <4>1
    <3> HIDE DEF moves, p, f
    <3> QED
      BY <2>5, <3>1, <3>2 DEF moves
  <2> QED
    BY <2>4, <2>6
<1> QED
  BY <1>1, Invariance, PTL

\* A write changes its own bytes and no others on the whole drive, and all it was asked
\* to if it ends in the file's sectors.
THEOREM WritesAreRight == Spec => WritesAreExact
<1> DEFINE Exact(d, len) ==
             LET f == fd_inode[d]
                 here == fd_pos[d] .. fd_pos'[d] - 1
             IN  /\ \A k \in here : drive'[Place(f, k)] = <<f, k>>
                 /\ \A a \in Bytes : (\A k \in here : Place(f, k) # a) => drive'[a] = drive[a]
                 /\ fd_pos[d] + len <= Capacity => fd_pos'[d] = fd_pos[d] + len
           A == \A d \in Descs, len \in 0 .. MaxLen : Write(d, len) => Exact(d, len)
<1>1. ASSUME IInv, NEW d \in Descs, NEW len \in 0 .. MaxLen, Write(d, len)
      PROVE  Exact(d, len)
  <2> DEFINE n == Count("WRITE", d, len)
             pos == fd_pos[d] + n
  <2>1. TypeOK
    BY <1>1 DEF IInv
  <2>2. /\ fd_inode[d] # NoFile /\ Advances("WRITE", d, len)
        /\ \A k \in Here(d, len) : drive'[Place(fd_inode[d], k)] = <<fd_inode[d], k>>
        /\ \A a \in Bytes : (\A k \in Here(d, len) : Place(fd_inode[d], k) # a)
                => drive'[a] = drive[a]
    BY <1>1, <2>1, WriteIs
  <2>3. fd_inode[d] # NoFile /\ Advances("WRITE", d, len)
    BY <2>2
  <2>4. fd_pos' = [fd_pos EXCEPT ![d] = pos]
    BY <2>1, <2>3, AdvancesIs
  <2>5. fd_pos'[d] = fd_pos[d] + n
    BY <2>1, <2>4 DEF TypeOK
  <2>6. Here(d, len) = fd_pos[d] .. fd_pos'[d] - 1
    <3>1. n \in 0 .. len /\ fd_pos[d] \in Nat
      <4>1. n \in 0 .. len
        BY <2>1, <2>3, CallIs
      <4> QED
        BY <2>1, <4>1, Sizes DEF TypeOK
    <3> DEFINE q == fd_pos[d]
    <3>2. Here(d, len) = q .. q + n - 1 /\ fd_pos'[d] = q + n
      BY <2>5 DEF Here
    <3> HIDE DEF q, n
    <3> QED
      BY <3>1, <3>2 DEF q
  <2>7. fd_pos[d] + len <= Capacity => n = len
    <3>1. Limit("WRITE", i_size[fd_inode[d]]) = Capacity
      BY DEF Limit
    <3> QED
      BY <2>1, <2>3, <3>1, CallIs
  <2> QED
    BY <2>2, <2>5, <2>6, <2>7
<1>2. IInv /\ [Next]_vars => [A]_vars
  BY <1>1
<1> QED
  BY <1>2, Invariance, PTL DEF Spec, WritesAreExact
=============================================================================
