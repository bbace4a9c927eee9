----------------------------- MODULE HdDriverProofs ----------------------------
(***************************************************************************)
(* The hard disk driver, for any partition tables, any data, and messages  *)
(* and a count register of any size.                                       *)
(*                                                                         *)
(* The place of the driver tells what the drive may be doing, and whether  *)
(* an interrupt is to come (SignalAgrees): so none is left over.  The      *)
(* command that the drive works on is about the next sector of the message *)
(* (CommandAgrees), and what was moved so far is the beginning of it       *)
(* (DataAgrees).  A partition that is not in hd_info yet has a table in    *)
(* todo that leads to it (PartsAgree).                                     *)
(***************************************************************************)
EXTENDS HdDriver, Loops, SequenceTheorems, TLAPS

\* Where the driver waits for an interrupt, and where the drive has its command.
Waiting == pc \in {"int", "blocking", "blocked"}
Serving == Waiting \/ pc \in {"cmd", "data", "drq"}

Reading == todo = <<>> /\ msg.type = "DEV_READ"
Writing == todo = <<>> /\ msg.type = "DEV_WRITE"

\* What the driver serves at each place.
MessageAgrees ==
    /\ pc = "receive" => msg = NoMsg /\ buf = <<>>
    /\ pc \in {"receive", "reply"} => todo = <<>>
    /\ pc # "receive" => msg \in Messages \cup Requests
    /\ todo # <<>> => msg.type = "DEV_OPEN" /\ open_cnt > 0
    /\ Serving /\ todo = <<>> =>
            msg.type \in {"DEV_READ", "DEV_WRITE"} /\ open_cnt > 0 /\ left \in 1 .. msg.CNT
    /\ pc = "cmd" /\ todo = <<>> => left = msg.CNT
    /\ pc = "drq" => Writing
    /\ pc = "data" => ~Writing
    /\ pc = "reply" /\ msg.type \in {"DEV_READ", "DEV_WRITE"} => left = 0

\* The drive works; it waits for the transfer of a sector; it is done with its command.
Works == drive.bsy /\ ~drive.drq /\ ~drive.intrq /\ drive.cmd # "none"
Transfers == ~drive.bsy /\ drive.drq /\ drive.cmd # "none" /\ drive.count > 0
Done == drive = [Idle EXCEPT !.intrq = drive.intrq]

\* One interrupt comes for each sector, and none is noted where none is waited for.
SignalAgrees ==
    /\ pc \in {"receive", "reply", "cmd"} => drive = Idle /\ ~has_int_msg
    /\ pc = "data" => Transfers /\ ~drive.intrq /\ ~has_int_msg
    /\ pc = "drq" => /\ ~drive.intrq /\ ~has_int_msg
                     /\ (Works /\ drive.fresh) \/ Transfers \/ Done
    /\ Waiting =>
        \/ Works /\ ~has_int_msg /\ (Writing => ~drive.fresh)
        \/ /\ Transfers \/ (Done /\ Writing)
           /\ drive.intrq # has_int_msg
           /\ has_int_msg => pc # "blocked"
        \/ drive = Idle /\ ~has_int_msg

\* The sector of the message that is next.
NextSector == Layout(msg.DEVICE).base + msg.pos + msg.CNT - left

\* The drive works on what is asked for.
CommandAgrees ==
    drive.cmd # "none" =>
        /\ todo # <<>> =>
            drive.cmd = Head(todo).cmd /\ drive.sect = Head(todo).sect /\ drive.count = 1
        /\ Reading =>
            drive.cmd = "read" /\ drive.count \in 1 .. left /\ drive.sect = NextSector
        /\ Writing /\ Waiting =>
            drive.cmd = "write" /\ drive.count \in 0 .. left - 1 /\ drive.sect = NextSector + 1
        /\ Writing /\ ~Waiting =>
            drive.cmd = "write" /\ drive.count \in 1 .. left /\ drive.sect = NextSector

\* A write moves a sector before the interrupt that counts it.
Moves == msg.CNT - left + (IF Waiting THEN 1 ELSE 0)

\* What was moved so far.
DataAgrees ==
    /\ Serving \/ pc = "reply" =>
        /\ Reading => buf = [k \in 1 .. msg.CNT - left |->
                                disk[Layout(msg.DEVICE).base + msg.pos + k - 1]]
        /\ Writing => \A k \in 1 .. Moves :
                        disk[Layout(msg.DEVICE).base + msg.pos + k - 1] = msg.data[k]
    /\ pc = "reply" /\ msg.type = "DEV_IOCTL" => buf = <<Layout(msg.DEVICE)>>
    /\ Serving /\ ~Reading => buf = <<>>

\* What hd_open reads: the identity, the primary table, or one in the chain of an
\* extended partition that was found.
Right(r) ==
    \/ r = Identity
    \/ r = Table(0, 0, 0)
    \/ /\ r.part \in Extended(Tables[0]) /\ r.nr \in 0 .. NR_SUB_PER_PART - 1
       /\ Reaches(r.part, r.nr) /\ r = Table(r.part, r.nr, Chain(r.part)[r.nr])
       /\ hd_info.primary[r.part].base = Tables[0][r.part].start
TodoAgrees == \A k \in DOMAIN todo : Right(todo[k])

TableReads == [cmd : {"identify", "read"}, part : 0 .. NR_PART_PER_DRIVE,
               nr : 0 .. NR_SUB_PER_PART - 1, sect : DOMAIN Tables]

\* The driver comes from table r to partition dev.
LeadsTo(r, dev) ==
    /\ r.cmd = "read"
    /\ \/ r.part = 0
       \/ dev > NR_PART_PER_DRIVE /\ r.part = ExtendedOf(dev) /\ r.nr <= NumberOf(dev)
PartsAgree ==
    open_cnt > 0 => \A dev \in Devices :
        Part(dev) = Layout(dev) \/ \E k \in DOMAIN todo : LeadsTo(todo[k], dev)

Infos == [primary : [0 .. NR_PART_PER_DRIVE -> Parts],
          logical : [0 .. NR_SUB_PER_DRIVE - 1 -> Parts]]

\* What hd_open knows of the partitions.
OpenAgrees ==
    /\ hd_info \in Infos
    /\ todo \in Seq(TableReads)
    /\ TodoAgrees
    /\ PartsAgree

\* The inductive invariant.
IInv ==
    /\ TypeOK
    /\ MessageAgrees
    /\ SignalAgrees
    /\ CommandAgrees
    /\ DataAgrees
    /\ OpenAgrees
    /\ NoStrayInterrupt

-----------------------------------------------------------------------------
(***************************************************************************)
(* The tables of the drive, and the sectors of a message.                  *)
(***************************************************************************)
\* What the assumptions say of the constants.
LEMMA Sizes ==
  /\ NR_SUB_PER_PART \in Nat \ {0} /\ COUNTS \in Nat \ {0}
  /\ MaxCnt \in Nat \ {0} /\ MaxOpen \in Nat
  /\ NR_PART_PER_DRIVE = 4 /\ NR_SUB_PER_DRIVE = 4 * NR_SUB_PER_PART
  /\ 0 \in DOMAIN Tables /\ DOMAIN Tables \subseteq Nat
  /\ \A s \in DOMAIN Tables : \A k \in 1 .. 4 :
        Tables[s][k].start \in Nat /\ Tables[s][k].size \in Nat
BY SizesAssumption, TablesAssumption DEF NR_PART_PER_DRIVE, NR_SUB_PER_DRIVE, Entries

\* The sectors of a chain: the recursive function of Chain exists.
LEMMA ChainIs ==
  ASSUME NEW j
  PROVE  /\ Chain(j)[0] = Tables[0][j].start
         /\ \A i \in 1 .. NR_SUB_PER_PART - 1 :
                Chain(j)[i] = Tables[0][j].start + Tables[Chain(j)[i - 1]][2].start
<1> DEFINE ext == Tables[0][j].start
           Value(f, i) == IF i = 0 THEN ext ELSE ext + Tables[f[i - 1]][2].start
           Starts(n) == \E f : f = [i \in 0 .. n |-> Value(f, i)]
<1>1. Starts(0)
  <2> DEFINE f == [i \in 0 .. 0 |-> ext]
  <2>1. f = [i \in 0 .. 0 |-> Value(f, i)]
    OBVIOUS
  <2> QED
    BY <2>1
<1>2. ASSUME NEW n \in Nat, Starts(n)
      PROVE  Starts(n + 1)
  <2>1. PICK f : f = [i \in 0 .. n |-> Value(f, i)]
    BY <1>2
  <2> DEFINE g == [i \in 0 .. n + 1 |-> IF i <= n THEN f[i] ELSE Value(f, i)]
  <2>2. \A i \in 0 .. n + 1 : g[i] = Value(g, i)
    <3> TAKE i \in 0 .. n + 1
    <3>1. i # 0 => i - 1 \in 0 .. n /\ g[i - 1] = f[i - 1]
      OBVIOUS
    <3>2. Value(g, i) = Value(f, i)
      BY <3>1
    <3>3. i <= n => f[i] = Value(f, i)
      BY SMTT(30), <2>1
    <3> QED
      BY <3>2, <3>3
  <2>3. g = [i \in 0 .. n + 1 |-> Value(g, i)]
    BY <2>2
  <2> QED
    BY <2>3
<1> HIDE DEF Starts
<1>3. \A n \in Nat : Starts(n)
  <2> DEFINE S == {n \in Nat : ~Starts(n)}
  <2>1. SUFFICES ASSUME S # {}
                 PROVE  FALSE
    OBVIOUS
  <2>2. PICK m \in S : \A n \in S : m <= n
    BY <2>1, LeastElement
  <2>3. m # 0
    BY <1>1
  <2>4. m - 1 \in Nat /\ m - 1 \notin S
    BY <2>2, <2>3
  <2> QED
    BY <1>2, <2>4
<1>4. NR_SUB_PER_PART - 1 \in Nat
  BY Sizes
<1>5. PICK f : f = [i \in 0 .. NR_SUB_PER_PART - 1 |-> Value(f, i)]
  BY <1>3, <1>4 DEF Starts
<1>6. Chain(j) = [i \in 0 .. NR_SUB_PER_PART - 1 |-> Value(Chain(j), i)]
  BY <1>5 DEF Chain
<1> HIDE DEF ext
<1> DEFINE c == Chain(j)
<1> HIDE DEF c
<1>7. c = [i \in 0 .. NR_SUB_PER_PART - 1 |-> Value(c, i)]
  BY <1>6 DEF c
<1>8. c[0] = ext /\ \A i \in 1 .. NR_SUB_PER_PART - 1 : c[i] = ext + Tables[c[i - 1]][2].start
  <2>1. c[0] = Value(c, 0)
    BY <1>4, <1>7
  <2>2. ASSUME NEW i \in 1 .. NR_SUB_PER_PART - 1
        PROVE  c[i] = Value(c, i) /\ i # 0
    BY SMTT(30), <1>4, <1>7
  <2> QED
    BY <2>1, <2>2
<1> QED
  BY <1>8 DEF c, ext

\* The place of a logical partition in hd_info is that of its number in its extended
\* partition, and of no other.
LEMMA PlacesDiffer ==
  ASSUME NEW j \in 1 .. 4, NEW i \in 0 .. NR_SUB_PER_PART - 1
  PROVE  /\ (j - 1) * NR_SUB_PER_PART + i \in 0 .. NR_SUB_PER_DRIVE - 1
         /\ \A k \in 1 .. 4, n \in 0 .. NR_SUB_PER_PART - 1 :
                (j - 1) * NR_SUB_PER_PART + i = (k - 1) * NR_SUB_PER_PART + n => j = k /\ i = n
BY Sizes

LEMMA QuotientIs ==
  ASSUME NEW n \in Nat \ {0}, NEW x \in 0 .. 4 * n - 1
  PROVE  /\ x \div n \in 0 .. 3 /\ x % n \in 0 .. n - 1
         /\ x = (x \div n) * n + (x % n)
         /\ x % (4 * n) = x
OBVIOUS

LEMMA PlacesAre ==
  ASSUME NEW dev \in Devices, dev > 4
  PROVE  /\ ExtendedOf(dev) \in 1 .. 4 /\ NumberOf(dev) \in 0 .. NR_SUB_PER_PART - 1
         /\ ~(dev < MAX_PRIM)
         /\ (dev - MINOR_hd1a) % NR_SUB_PER_DRIVE =
                (ExtendedOf(dev) - 1) * NR_SUB_PER_PART + NumberOf(dev)
<1> DEFINE x == dev - MINOR_hd1a
<1>1. x \in 0 .. 4 * NR_SUB_PER_PART - 1 /\ ~(dev < MAX_PRIM)
  BY DevicesAssumption, Sizes DEF MINOR_hd1a, MAX_PRIM
<1> HIDE DEF x
<1>2. /\ x \div NR_SUB_PER_PART \in 0 .. 3 /\ x % NR_SUB_PER_PART \in 0 .. NR_SUB_PER_PART - 1
      /\ x = (x \div NR_SUB_PER_PART) * NR_SUB_PER_PART + (x % NR_SUB_PER_PART)
      /\ x % NR_SUB_PER_DRIVE = x
  BY <1>1, QuotientIs, Sizes
<1>3. /\ ExtendedOf(dev) = (x \div NR_SUB_PER_PART) + 1
      /\ NumberOf(dev) = x % NR_SUB_PER_PART
      /\ (dev - MINOR_hd1a) % NR_SUB_PER_DRIVE = x % NR_SUB_PER_DRIVE
  BY DEF x, ExtendedOf, NumberOf
<1> DEFINE q == x \div NR_SUB_PER_PART
<1>4. q \in 0 .. 3 /\ ExtendedOf(dev) = q + 1 /\ ExtendedOf(dev) - 1 = q
  BY <1>2, <1>3
<1> QED
  BY <1>1, <1>2, <1>3, <1>4

\* A partition has its place on the drive.
LEMMA LayoutIs ==
  ASSUME NEW dev \in Devices
  PROVE  /\ Layout(dev) \in Parts /\ dev \in Nat
         /\ dev <= 4 => /\ dev \in 1 .. 4 /\ dev < MAX_PRIM
                        /\ Tables[0][dev].sys_id # "NO_PART"
                        /\ Layout(dev) = [base |-> Tables[0][dev].start,
                                          size |-> Tables[0][dev].size]
         /\ dev > 4 =>
                LET s == Chain(ExtendedOf(dev))[NumberOf(dev)] IN
                /\ ExtendedOf(dev) \in Extended(Tables[0])
                /\ Reaches(ExtendedOf(dev), NumberOf(dev))
                /\ s \in DOMAIN Tables
                /\ Layout(dev) = [base |-> s + Tables[s][1].start, size |-> Tables[s][1].size]
<1>0. dev \in Nat
  BY DevicesAssumption, Sizes DEF MINOR_hd1a
<1>1. CASE dev <= 4
  <2>1. dev \in 1 .. 4
    BY <1>1, DevicesAssumption, Sizes DEF MINOR_hd1a
  <2> QED
    BY <1>1, <2>1, DevicesAssumption, Sizes DEF Layout, Parts, MAX_PRIM
<1>2. CASE dev > 4
  <2> DEFINE j == ExtendedOf(dev)
             n == NumberOf(dev)
             s == Chain(j)[n]
  <2>1. j \in Extended(Tables[0]) /\ Reaches(j, n)
    BY <1>0, <1>2, DevicesAssumption, Sizes
  <2>2. n \in 0 .. NR_SUB_PER_PART - 1
    BY <1>2, PlacesAre
  <2>3. s \in DOMAIN Tables
    BY <2>1, <2>2, ChainsAssumption
  <2>4. Layout(dev) = [base |-> s + Tables[s][1].start, size |-> Tables[s][1].size]
    BY <1>0, <1>2, Sizes DEF Layout
  <2> HIDE DEF j, n, s
  <2>5. Layout(dev) \in Parts
    BY <2>3, <2>4, Sizes DEF Parts
  <2> QED
    BY <1>0, <1>2, <2>1, <2>3, <2>4, <2>5 DEF j, n, s
<1> QED
  BY <1>0, <1>1, <1>2

\* What a message for sectors asks for is on the drive.
LEMMA TransferIs ==
  ASSUME NEW m \in Messages
  PROVE  /\ m.type \in {"DEV_READ", "DEV_WRITE"} /\ m.DEVICE \in Devices
         /\ m.CNT \in 1 .. MaxCnt /\ m.pos \in Nat /\ Layout(m.DEVICE).base \in Nat
         /\ \A k \in 0 .. m.CNT - 1 : Layout(m.DEVICE).base + m.pos + k \in Sectors
         /\ m.type = "DEV_WRITE" => m.data \in [1 .. m.CNT -> Data] /\ Len(m.data) = m.CNT
<1>1. /\ m.type \in {"DEV_READ", "DEV_WRITE"} /\ m.DEVICE \in Devices
      /\ m.CNT \in 1 .. MaxCnt /\ m.pos \in 0 .. MaxCnt
      /\ m.data \in UNION {[1 .. n -> Data] : n \in 0 .. MaxCnt}
      /\ m.pos + m.CNT <= Layout(m.DEVICE).size
      /\ Len(m.data) = IF m.type = "DEV_WRITE" THEN m.CNT ELSE 0
  BY DEF Messages
<1>2. Layout(m.DEVICE).base \in Nat /\ Layout(m.DEVICE).size \in Nat
  BY <1>1, LayoutIs DEF Parts
<1>3. ASSUME NEW k \in 0 .. m.CNT - 1
      PROVE  Layout(m.DEVICE).base + m.pos + k \in Sectors
  <2>1. m.pos + k \in 0 .. Layout(m.DEVICE).size - 1
    <3> DEFINE size == Layout(m.DEVICE).size
               p == m.pos
               n == m.CNT
    <3>1. p \in Nat /\ n \in Nat /\ size \in Nat /\ k \in 0 .. n - 1 /\ p + n <= size
      BY <1>1, <1>2, <1>3, Sizes
    <3> HIDE DEF p, n, size
    <3>2. p + k \in 0 .. size - 1
      BY <3>1
    <3> QED
      BY <3>2 DEF p, size
  <2>2. Layout(m.DEVICE).base + (m.pos + k) \in Sectors
    BY <1>1, <2>1, SectorsAssumption
  <2> QED
    BY <1>1, <1>2, <2>2, Sizes
<1>4. m.type = "DEV_WRITE" => m.data \in [1 .. m.CNT -> Data]
  <2>1. PICK n \in 0 .. MaxCnt : m.data \in [1 .. n -> Data]
    BY <1>1
  <2>2. m.data \in Seq(Data) /\ n \in Nat
    BY <2>1, Sizes
  <2>3. Len(m.data) = n
    BY <2>1, <2>2, LenProperties, Sizes
  <2> QED
    BY <1>1, <2>1, <2>3
<1> QED
  BY <1>1, <1>2, <1>3, <1>4, Sizes
-----------------------------------------------------------------------------
(***************************************************************************)
(* What hd_open has still to read.                                         *)
(***************************************************************************)
In(x, s) == \E k \in DOMAIN s : s[k] = x

LEMMA ConcatIs ==
  ASSUME NEW S, NEW s \in Seq(S), NEW t \in Seq(S)
  PROVE  s \o t \in Seq(S) /\ \A x : In(x, s \o t) <=> In(x, s) \/ In(x, t)
<1>1. /\ s \o t \in Seq(S) /\ Len(s \o t) = Len(s) + Len(t)
      /\ \A i \in 1 .. Len(s) + Len(t) :
            (s \o t)[i] = IF i <= Len(s) THEN s[i] ELSE t[i - Len(s)]
  BY ConcatProperties
<1>2. /\ DOMAIN (s \o t) = 1 .. Len(s) + Len(t) /\ DOMAIN s = 1 .. Len(s)
      /\ DOMAIN t = 1 .. Len(t) /\ Len(s) \in Nat /\ Len(t) \in Nat
  BY <1>1, LenProperties
<1>3. ASSUME NEW x, In(x, s \o t)
      PROVE  In(x, s) \/ In(x, t)
  <2>1. PICK i \in 1 .. Len(s) + Len(t) : (s \o t)[i] = x
    BY <1>2, <1>3 DEF In
  <2>2. CASE i <= Len(s)
    BY <1>1, <1>2, <2>1, <2>2 DEF In
  <2>3. CASE i > Len(s)
    <3>1. i - Len(s) \in 1 .. Len(t) /\ t[i - Len(s)] = x
      BY <1>1, <1>2, <2>1, <2>3
    <3> QED
      BY <1>2, <3>1 DEF In
  <2> QED
    BY <1>2, <2>2, <2>3
<1>4. ASSUME NEW x, In(x, s)
      PROVE  In(x, s \o t)
  BY <1>1, <1>2, <1>4 DEF In
<1>5. ASSUME NEW x, In(x, t)
      PROVE  In(x, s \o t)
  <2>1. PICK i \in 1 .. Len(t) : t[i] = x
    BY <1>2, <1>5 DEF In
  <2>2. i + Len(s) \in 1 .. Len(s) + Len(t) /\ (s \o t)[i + Len(s)] = x
    BY <1>1, <1>2, <2>1
  <2> QED
    BY <1>2, <2>2 DEF In
<1> QED
  BY <1>1, <1>3, <1>4, <1>5

LEMMA HeadTailIs ==
  ASSUME NEW S, NEW s \in Seq(S), s # <<>>
  PROVE  /\ Head(s) \in S /\ Tail(s) \in Seq(S) /\ In(Head(s), s)
         /\ \A x : In(x, s) <=> x = Head(s) \/ In(x, Tail(s))
<1>1. /\ Head(s) \in S /\ Head(s) = s[1] /\ Tail(s) \in Seq(S) /\ Len(Tail(s)) = Len(s) - 1
      /\ \A i \in 1 .. Len(Tail(s)) : Tail(s)[i] = s[i + 1]
      /\ Len(s) \in Nat \ {0} /\ DOMAIN s = 1 .. Len(s) /\ DOMAIN Tail(s) = 1 .. Len(s) - 1
  BY HeadTailProperties, LenProperties, EmptySeq
<1>2. ASSUME NEW x, In(x, s), x # Head(s)
      PROVE  In(x, Tail(s))
  <2>1. PICK i \in 1 .. Len(s) : s[i] = x
    BY <1>1, <1>2 DEF In
  <2>2. i - 1 \in 1 .. Len(s) - 1 /\ Tail(s)[i - 1] = x
    BY <1>1, <1>2, <2>1
  <2> QED
    BY <1>1, <2>2 DEF In
<1>3. ASSUME NEW x, In(x, Tail(s))
      PROVE  In(x, s)
  BY <1>1, <1>3 DEF In
<1>4. In(Head(s), s)
  BY <1>1 DEF In
<1> QED
  BY <1>1, <1>2, <1>3, <1>4

LEMMA SingletonIs ==
  ASSUME NEW S, NEW y \in S
  PROVE  <<y>> \in Seq(S) /\ \A x : In(x, <<y>>) <=> x = y
BY DEF In

LEMMA EmptyIs == ASSUME NEW S PROVE <<>> \in Seq(S) /\ \A x : ~In(x, <<>>)
BY DEF In

\* The tables that the primary one leads to, and what was left to read.
LEMMA FirstTablesAre ==
  ASSUME NEW t, NEW S, NEW rest \in Seq(S),
         \A k \in Extended(t) : Table(k, 0, t[k].start) \in S
  PROVE  LET all == FirstTable(t, 1) \o FirstTable(t, 2) \o FirstTable(t, 3) \o FirstTable(t, 4)
                    \o rest
         IN  /\ all \in Seq(S)
             /\ \A x : In(x, all) <=> \/ \E k \in Extended(t) : x = Table(k, 0, t[k].start)
                                      \/ In(x, rest)
<1>1. ASSUME NEW k \in 1 .. 4
      PROVE  /\ FirstTable(t, k) \in Seq(S)
             /\ \A x : In(x, FirstTable(t, k)) <=>
                            k \in Extended(t) /\ x = Table(k, 0, t[k].start)
  <2>1. CASE k \in Extended(t)
    <3> DEFINE y == Table(k, 0, t[k].start)
    <3>1. y \in S /\ FirstTable(t, k) = <<y>>
      BY <2>1 DEF FirstTable
    <3> HIDE DEF y
    <3>2. FirstTable(t, k) \in Seq(S) /\ \A x : In(x, FirstTable(t, k)) <=> x = y
      BY <3>1, SingletonIs
    <3> QED
      BY <2>1, <3>2 DEF y
  <2>2. CASE k \notin Extended(t)
    <3>1. FirstTable(t, k) = <<>>
      BY <2>2 DEF FirstTable
    <3> QED
      BY <2>2, <3>1, EmptyIs
  <2> QED
    BY <2>1, <2>2
<1> DEFINE a == FirstTable(t, 1)
           b == FirstTable(t, 2)
           c == FirstTable(t, 3)
           d == FirstTable(t, 4)
           Has(k, x) == k \in Extended(t) /\ x = Table(k, 0, t[k].start)
<1>2. /\ a \in Seq(S) /\ b \in Seq(S) /\ c \in Seq(S) /\ d \in Seq(S)
      /\ \A x : /\ In(x, a) <=> Has(1, x)
                /\ In(x, b) <=> Has(2, x)
                /\ In(x, c) <=> Has(3, x)
                /\ In(x, d) <=> Has(4, x)
  BY <1>1
<1>3. \A x : (\E k \in Extended(t) : x = Table(k, 0, t[k].start)) <=>
                Has(1, x) \/ Has(2, x) \/ Has(3, x) \/ Has(4, x)
  BY DEF Extended, NR_PART_PER_DRIVE
<1> HIDE DEF a, b, c, d, Has
<1> DEFINE ab == a \o b
           abc == ab \o c
           abcd == abc \o d
<1>4. ab \in Seq(S) /\ \A x : In(x, ab) <=> Has(1, x) \/ Has(2, x)
  BY <1>2, ConcatIs
<1> HIDE DEF ab
<1>5. abc \in Seq(S) /\ \A x : In(x, abc) <=> Has(1, x) \/ Has(2, x) \/ Has(3, x)
  BY <1>2, <1>4, ConcatIs
<1> HIDE DEF abc
<1>6. abcd \in Seq(S)
      /\ \A x : In(x, abcd) <=> Has(1, x) \/ Has(2, x) \/ Has(3, x) \/ Has(4, x)
  BY <1>2, <1>5, ConcatIs
<1> HIDE DEF abcd
<1>7. abcd \o rest \in Seq(S)
      /\ \A x : In(x, abcd \o rest) <=>
            Has(1, x) \/ Has(2, x) \/ Has(3, x) \/ Has(4, x) \/ In(x, rest)
  BY <1>6, ConcatIs
<1> QED
  BY <1>3, <1>7 DEF a, b, c, d, ab, abc, abcd
\* Where hd_info has a partition, before and after a step.
LEMMA PartIs ==
  ASSUME NEW dev \in Devices
  PROVE  LET place == (ExtendedOf(dev) - 1) * NR_SUB_PER_PART + NumberOf(dev) IN
         /\ dev <= 4 => Part(dev) = hd_info.primary[dev] /\ Part(dev)' = hd_info'.primary[dev]
         /\ dev > 4 => /\ Part(dev) = hd_info.logical[place]
                       /\ Part(dev)' = hd_info'.logical[place]
<1>1. dev <= 4 => dev < MAX_PRIM
  BY LayoutIs
<1>2. dev > 4 => ~(dev < MAX_PRIM) /\ (dev - MINOR_hd1a) % NR_SUB_PER_DRIVE =
                        (ExtendedOf(dev) - 1) * NR_SUB_PER_PART + NumberOf(dev)
  BY PlacesAre
<1> QED
  BY <1>1, <1>2 DEF Part

LEMMA TodoIs == TodoAgrees <=> \A x : In(x, todo) => Right(x)
BY DEF TodoAgrees, In

LEMMA ReadIdentityKeeps ==
  ASSUME OpenAgrees, todo # <<>>, Head(todo).cmd = "identify",
         todo' = Tail(todo), hd_info' = hd_info, open_cnt' = open_cnt
  PROVE  OpenAgrees'
<1>1. /\ Tail(todo) \in Seq(TableReads) /\ In(Head(todo), todo)
      /\ \A x : In(x, todo) <=> x = Head(todo) \/ In(x, Tail(todo))
  BY HeadTailIs DEF OpenAgrees
<1>2. TodoAgrees'
  <2>1. \A x : In(x, todo') => Right(x)
    BY <1>1, TodoIs DEF OpenAgrees
  <2>2. \A k \in DOMAIN todo' : Right(todo'[k])
    BY <2>1 DEF In
  <2>3. ASSUME NEW r, Right(r) PROVE Right(r)'
    BY <2>3 DEF Right
  <2> QED
    BY <2>2, <2>3 DEF TodoAgrees, Right
<1>3. PartsAgree'
  <2>1. SUFFICES ASSUME open_cnt > 0, NEW dev \in Devices, Part(dev)' # Layout(dev)
                 PROVE  \E k \in DOMAIN todo' : LeadsTo(todo'[k], dev)
    BY DEF PartsAgree, LeadsTo
  <2>2. Part(dev) # Layout(dev)
    BY <2>1 DEF Part
  <2>3. PICK k \in DOMAIN todo : LeadsTo(todo[k], dev)
    BY <2>1, <2>2 DEF OpenAgrees, PartsAgree
  <2>4. In(todo[k], todo) /\ todo[k] # Head(todo)
    BY <2>3 DEF In, LeadsTo
  <2>5. In(todo[k], todo')
    BY <1>1, <2>4
  <2> QED
    BY <2>3, <2>5 DEF In
<1> QED
  BY <1>1, <1>2, <1>3 DEF OpenAgrees

LEMMA ReadPrimaryKeeps ==
  ASSUME OpenAgrees, todo # <<>>, Head(todo) = Table(0, 0, 0),
         primary_table(Tables[0]), open_cnt' = open_cnt
  PROVE  OpenAgrees'
<1> DEFINE t == Tables[0]
           next(k) == Table(k, 0, t[k].start)
<1>1. /\ Tail(todo) \in Seq(TableReads)
      /\ \A x : In(x, Tail(todo)) => Right(x)
  BY HeadTailIs, TodoIs DEF OpenAgrees
<1>2. ASSUME NEW k \in Extended(t)
      PROVE  /\ k \in 1 .. 4 /\ next(k) \in TableReads /\ t[k].sys_id # "NO_PART"
             /\ Reaches(k, 0) /\ Chain(k)[0] = t[k].start
  <2>1. k \in 1 .. 4 /\ t[k].sys_id = "EXT_PART" /\ Reaches(k, 0)
    BY <1>2, Sizes DEF Extended, Reaches
  <2>2. Chain(k)[0] = t[k].start /\ Chain(k)[0] \in DOMAIN Tables
    BY <1>2, <2>1, ChainIs, ChainsAssumption, Sizes
  <2> QED
    BY <2>1, <2>2, Sizes DEF TableReads, Table
<1>3. /\ todo' \in Seq(TableReads)
      /\ \A x : In(x, todo') <=> (\E k \in Extended(t) : x = next(k)) \/ In(x, Tail(todo))
  BY <1>1, <1>2, FirstTablesAre DEF primary_table
<1>4. /\ hd_info' \in Infos
      /\ \A k \in 1 .. 4 : t[k].sys_id # "NO_PART" =>
            hd_info'.primary[k] = [base |-> t[k].start, size |-> t[k].size]
  <2> DEFINE f == [k \in DOMAIN hd_info.primary |->
                    IF k = 0 \/ t[k].sys_id = "NO_PART" THEN hd_info.primary[k]
                    ELSE [base |-> t[k].start, size |-> t[k].size]]
  <2>1. hd_info' = [hd_info EXCEPT !.primary = f]
    BY DEF primary_table
  <2>2. hd_info.primary \in [0 .. 4 -> Parts] /\ hd_info \in Infos
    BY Sizes DEF OpenAgrees, Infos
  <2>3. f \in [0 .. 4 -> Parts]
    <3> SUFFICES ASSUME NEW k \in 0 .. 4
                 PROVE  f[k] \in Parts
      BY <2>2
    <3>1. k # 0 => t[k].start \in Nat /\ t[k].size \in Nat
      BY Sizes
    <3> QED
      BY <2>2, <3>1 DEF Parts
  <2>4. \A k \in 1 .. 4 : t[k].sys_id # "NO_PART" =>
            f[k] = [base |-> t[k].start, size |-> t[k].size]
    BY <2>2
  <2> HIDE DEF f
  <2> QED
    BY <2>1, <2>2, <2>3, <2>4, Sizes DEF Infos
<1>5. TodoAgrees'
  <2>1. ASSUME NEW x, In(x, todo')
        PROVE  Right(x)'
    <3>1. CASE \E k \in Extended(t) : x = next(k)
      <4>1. PICK k \in Extended(t) : x = next(k)
        BY <3>1
      <4>2. x.part = k /\ x.nr = 0
        BY <4>1 DEF Table
      <4> QED
        BY SMTT(30), <1>2, <1>4, <4>1, <4>2, Sizes DEF Right
    <3>2. CASE In(x, Tail(todo))
      <4>1. Right(x)
        BY <1>1, <3>2
      <4> QED
        BY <1>2, <1>4, <4>1 DEF Right
    <3> QED
      BY <1>3, <2>1, <3>1, <3>2
  <2> QED
    BY <2>1 DEF TodoAgrees, In
<1>6. PartsAgree'
  <2>1. SUFFICES ASSUME NEW dev \in Devices, Part(dev)' # Layout(dev)
                 PROVE  \E k \in DOMAIN todo' : LeadsTo(todo'[k], dev)
    BY DEF PartsAgree, LeadsTo
  <2>2. dev > 4
    <3>1. dev <= 4 => Part(dev)' = Layout(dev)
      BY <1>4, LayoutIs, PartIs
    <3> QED
      BY <2>1, <3>1, LayoutIs
  <2> DEFINE k == ExtendedOf(dev)
  <2>3. k \in Extended(t) /\ 0 <= NumberOf(dev)
    BY <2>2, LayoutIs, PlacesAre, Sizes
  <2>4. In(next(k), todo')
    BY <1>3, <2>3
  <2>5. LeadsTo(next(k), dev)
    BY <2>2, <2>3, Sizes DEF LeadsTo, Table
  <2> QED
    BY <2>4, <2>5 DEF In
<1> QED
  BY <1>3, <1>4, <1>5, <1>6 DEF OpenAgrees

LEMMA ReadExtendedKeeps ==
  ASSUME OpenAgrees, todo # <<>>, Right(Head(todo)), Head(todo).part \in Extended(Tables[0]),
         extended_table(Tables[Head(todo).sect]), open_cnt' = open_cnt
  PROVE  OpenAgrees'
<1> DEFINE r == Head(todo)
           t == Tables[r.sect]
           place == (r.part - 1) * NR_SUB_PER_PART + r.nr
           part == [base |-> r.sect + t[1].start, size |-> t[1].size]
           more == Table(r.part, r.nr + 1, hd_info.primary[r.part].base + t[2].start)
           ends == t[2].sys_id = "NO_PART" \/ r.nr + 1 = NR_SUB_PER_PART
<1>1. /\ Tail(todo) \in Seq(TableReads)
      /\ \A x : In(x, todo) <=> x = r \/ In(x, Tail(todo))
      /\ \A x : In(x, Tail(todo)) => Right(x)
  BY HeadTailIs, TodoIs DEF OpenAgrees
<1>2. /\ r.part \in 1 .. 4 /\ r.nr \in 0 .. NR_SUB_PER_PART - 1 /\ Reaches(r.part, r.nr)
      /\ r.sect = Chain(r.part)[r.nr] /\ r.sect \in DOMAIN Tables
      /\ hd_info.primary[r.part].base = Tables[0][r.part].start
  <2>1. r.part \in 1 .. 4 /\ r # Identity /\ r # Table(0, 0, 0)
    BY Sizes DEF Extended, Identity, Table
  <2>2. /\ r.nr \in 0 .. NR_SUB_PER_PART - 1 /\ Reaches(r.part, r.nr)
        /\ r = Table(r.part, r.nr, Chain(r.part)[r.nr])
        /\ hd_info.primary[r.part].base = Tables[0][r.part].start
    BY <2>1 DEF Right
  <2>3. r.sect = Chain(r.part)[r.nr]
    BY <2>2 DEF Table
  <2> QED
    BY <2>1, <2>2, <2>3, ChainsAssumption
<1>3. /\ hd_info' = [hd_info EXCEPT !.logical[place] = part]
      /\ todo' = IF ends THEN Tail(todo) ELSE <<more>> \o Tail(todo)
  BY DEF extended_table
<1>4. place \in 0 .. NR_SUB_PER_DRIVE - 1 /\ part \in Parts
  <2>1. place \in 0 .. NR_SUB_PER_DRIVE - 1
    BY <1>2, PlacesDiffer
  <2>2. r.sect \in Nat /\ t[1].start \in Nat /\ t[1].size \in Nat
    BY <1>2, Sizes
  <2>3. r.sect + t[1].start \in Nat
    BY <2>2
  <2> QED
    BY <2>1, <2>2, <2>3 DEF Parts
<1>5. ~ends => /\ r.nr + 1 \in 0 .. NR_SUB_PER_PART - 1 /\ Reaches(r.part, r.nr + 1)
               /\ more = Table(r.part, r.nr + 1, Chain(r.part)[r.nr + 1])
               /\ more \in TableReads
  <2> SUFFICES ASSUME ~ends
               PROVE  /\ r.nr + 1 \in 0 .. NR_SUB_PER_PART - 1 /\ Reaches(r.part, r.nr + 1)
                      /\ more = Table(r.part, r.nr + 1, Chain(r.part)[r.nr + 1])
                      /\ more \in TableReads
    OBVIOUS
  <2> DEFINE n == r.nr + 1
  <2>1. n \in 1 .. NR_SUB_PER_PART - 1 /\ n - 1 = r.nr
    BY <1>2, Sizes
  <2>2. Reaches(r.part, n)
    <3> SUFFICES ASSUME NEW k \in 0 .. n - 1
                 PROVE  Tables[Chain(r.part)[k]][2].sys_id # "NO_PART"
      BY DEF Reaches
    <3>1. k = r.nr \/ k \in 0 .. r.nr - 1
      BY <1>2, <2>1
    <3> QED
      BY <1>2, <3>1 DEF Reaches
  <2>3. Chain(r.part)[n] = Tables[0][r.part].start + t[2].start
    BY <1>2, <2>1, ChainIs
  <2>4. Chain(r.part)[n] \in DOMAIN Tables
    BY <2>1, <2>2, ChainsAssumption
  <2>5. more = Table(r.part, n, Chain(r.part)[n])
    BY <1>2, <2>3
  <2>6. more \in TableReads
    BY <1>2, <2>1, <2>4, <2>5, Sizes DEF TableReads, Table
  <2> QED
    BY <2>1, <2>2, <2>5, <2>6
<1>6. /\ todo' \in Seq(TableReads)
      /\ \A x : In(x, todo') <=> (~ends /\ x = more) \/ In(x, Tail(todo))
  <2>1. CASE ends
    BY <1>1, <1>3, <2>1
  <2>2. CASE ~ends
    <3>1. <<more>> \in Seq(TableReads) /\ \A x : In(x, <<more>>) <=> x = more
      BY <1>5, <2>2, SingletonIs
    <3> DEFINE s == <<more>>
    <3> HIDE DEF s, more, ends
    <3>2. s \o Tail(todo) \in Seq(TableReads)
          /\ \A x : In(x, s \o Tail(todo)) <=> In(x, s) \/ In(x, Tail(todo))
      BY <1>1, <3>1, ConcatIs DEF s
    <3> QED
      BY <1>3, <2>2, <3>1, <3>2 DEF s
  <2> QED
    BY <2>1, <2>2
<1>7. /\ hd_info' \in Infos /\ hd_info'.primary = hd_info.primary
      /\ hd_info'.logical[place] = part
      /\ \A p \in 0 .. NR_SUB_PER_DRIVE - 1 : p # place =>
            hd_info'.logical[p] = hd_info.logical[p]
  <2>1. hd_info \in Infos
    BY DEF OpenAgrees
  <2> HIDE DEF place, part
  <2> QED
    BY <1>3, <1>4, <2>1 DEF Infos
<1>8. TodoAgrees'
  <2>1. ASSUME NEW x, In(x, todo')
        PROVE  Right(x)'
    <3>1. CASE ~ends /\ x = more
      <4>1. x.part = r.part /\ x.nr = r.nr + 1
        BY <3>1 DEF Table
      <4> QED
        BY <1>2, <1>5, <1>7, <3>1, <4>1 DEF Right
    <3>2. CASE In(x, Tail(todo))
      <4>1. Right(x)
        BY <1>1, <3>2
      <4> QED
        BY <1>7, <4>1 DEF Right
    <3> QED
      BY <1>6, <2>1, <3>1, <3>2
  <2> QED
    BY <2>1 DEF TodoAgrees, In
<1>9. PartsAgree'
  <2>1. SUFFICES ASSUME open_cnt > 0, NEW dev \in Devices, Part(dev)' # Layout(dev)
                 PROVE  \E x : In(x, todo') /\ LeadsTo(x, dev)
    BY DEF PartsAgree, LeadsTo, In
  <2>2. dev \in Nat
    BY DevicesAssumption, Sizes DEF MINOR_hd1a
  <2>3. ASSUME Part(dev)' = Part(dev), ~LeadsTo(r, dev)
        PROVE  \E x : In(x, todo') /\ LeadsTo(x, dev)
    <3>1. PICK k \in DOMAIN todo : LeadsTo(todo[k], dev)
      BY <2>1, <2>3 DEF OpenAgrees, PartsAgree
    <3>2. In(todo[k], todo) /\ todo[k] # r
      BY <2>3, <3>1 DEF In
    <3> QED
      BY <1>1, <1>6, <3>1, <3>2
  <2>4. CASE dev <= 4
    <3>1. Part(dev)' = Part(dev)
      BY <1>7, <2>4, PartIs
    <3>2. ~LeadsTo(r, dev)
      BY <1>2, <2>2, <2>4, Sizes DEF LeadsTo
    <3> QED
      BY <2>3, <3>1, <3>2
  <2>5. CASE dev > 4
    <3> DEFINE j == ExtendedOf(dev)
               n == NumberOf(dev)
               p == (j - 1) * NR_SUB_PER_PART + n
    <3>1. j \in 1 .. 4 /\ n \in 0 .. NR_SUB_PER_PART - 1
      BY <2>5, PlacesAre
    <3>2. /\ p \in 0 .. NR_SUB_PER_DRIVE - 1
          /\ p = place => j = r.part /\ n = r.nr
      BY <1>2, <3>1, PlacesDiffer
    <3>3. Part(dev) = hd_info.logical[p] /\ Part(dev)' = hd_info'.logical[p]
      BY <2>5, PartIs
    <3>4. /\ Reaches(j, n)
          /\ Layout(dev) = [base |-> Chain(j)[n] + Tables[Chain(j)[n]][1].start,
                            size |-> Tables[Chain(j)[n]][1].size]
      BY <2>5, LayoutIs
    <3>5. ~(j = r.part /\ n = r.nr)
      BY <1>2, <1>7, <2>1, <3>3, <3>4
    <3>6. Part(dev)' = Part(dev)
      BY <1>7, <3>2, <3>3, <3>5
    <3>7. CASE j = r.part /\ n > r.nr
      <4>1. r.nr \in 0 .. n - 1 /\ r.nr + 1 <= n /\ r.nr + 1 # NR_SUB_PER_PART
        BY <1>2, <3>1, <3>7, Sizes
      <4>2. ~ends
        BY <1>2, <3>4, <3>7, <4>1 DEF Reaches
      <4>3. LeadsTo(more, dev)
        BY <2>5, <3>7, <4>1, Sizes DEF LeadsTo, Table
      <4> QED
        BY <1>6, <4>2, <4>3
    <3>8. CASE ~(j = r.part /\ n > r.nr)
      <4>1. ~LeadsTo(r, dev)
        BY <1>2, <3>1, <3>5, <3>8, Sizes DEF LeadsTo
      <4> QED
        BY <2>3, <3>6, <4>1
    <3> QED
      BY <3>7, <3>8
  <2> QED
    BY <2>2, <2>4, <2>5
<1> QED
  BY <1>6, <1>7, <1>8, <1>9 DEF OpenAgrees
-----------------------------------------------------------------------------
(***************************************************************************)
(* The drive and the interrupt.                                            *)
(***************************************************************************)
Drives == [bsy : BOOLEAN, drq : BOOLEAN, intrq : BOOLEAN,
           cmd : {"none", "identify", "read", "write"}, fresh : BOOLEAN,
           sect : Nat, count : 0 .. COUNTS]

LEMMA IdleIs ==
  /\ Idle \in Drives /\ ~Idle.intrq /\ Idle.cmd = "none"
  /\ LET d == [Idle EXCEPT !.intrq = TRUE] IN
     d \in Drives /\ d.intrq = TRUE /\ d.cmd = "none"
<1> DEFINE yes == TRUE
<1>1. Idle \in Drives /\ ~Idle.intrq /\ Idle.cmd = "none" /\ yes \in BOOLEAN
  BY Sizes DEF Idle, Drives
<1> HIDE DEF yes
<1>2. [Idle EXCEPT !.intrq = yes] \in Drives /\ [Idle EXCEPT !.intrq = yes].intrq = yes
      /\ [Idle EXCEPT !.intrq = yes].cmd = Idle.cmd
  BY <1>1 DEF Drives
<1> QED
  BY <1>1, <1>2 DEF yes

\* The places of the driver, and where it waits.
LEMMA PlacesOfDriver ==
  ASSUME IInv
  PROVE  /\ pc \in {"receive", "reply", "cmd", "data", "drq"} \/ Waiting
         /\ Waiting => pc \notin {"receive", "reply", "cmd", "data", "drq"}
         /\ drive \in Drives /\ has_int_msg \in BOOLEAN
         /\ msg \in Messages \cup Requests \cup {NoMsg}
         /\ msg.type \in {"DEV_READ", "DEV_WRITE"} => msg \in Messages
         /\ left \in 0 .. MaxCnt /\ MaxCnt \in Nat
<1>1. \A m \in Requests \cup {NoMsg} : m.type \notin {"DEV_READ", "DEV_WRITE"}
  BY DEF Requests, NoMsg
<1> QED
  BY <1>1, Sizes DEF IInv, TypeOK, Waiting, Drives

LEMMA DriveReadyKeeps == IInv /\ DriveReady => IInv'
<1> SUFFICES ASSUME IInv, DriveReady
             PROVE  IInv'
  OBVIOUS
<1>1. /\ drive.bsy /\ UNCHANGED <<pc, msg, todo, buf, left, hd_info, open_cnt>>
      /\ UNCHANGED <<has_int_msg, disk, halted>>
  BY DEF DriveReady
<1>2. drive \in Drives /\ has_int_msg \in BOOLEAN
  BY PlacesOfDriver
<1>3. /\ Works /\ ~has_int_msg
      /\ \/ pc = "drq" /\ Writing /\ drive.fresh
         \/ Waiting /\ (Writing => ~drive.fresh)
  BY <1>1, PlacesOfDriver DEF IInv, MessageAgrees, SignalAgrees, Works, Transfers, Done, Idle
<1>4. /\ Writing => drive.cmd = "write"
      /\ ~Writing => drive.cmd # "write" /\ drive.count > 0
      /\ Writing /\ ~Waiting => drive.count > 0
  <2>1. todo # <<>> => Head(todo) \in TableReads
    BY HeadTailIs DEF IInv, OpenAgrees
  <2>2. todo = <<>> => Reading \/ Writing
    BY <1>3 DEF IInv, MessageAgrees, Serving, Reading, Writing
  <2> QED
    BY <1>3, <2>1, <2>2, PlacesOfDriver
    DEF IInv, CommandAgrees, Works, TableReads, Reading, Writing
<1>5. CASE drive.cmd = "write" /\ drive.count = 0
  <2>1. drive' = [Idle EXCEPT !.intrq = TRUE] /\ Writing /\ Waiting
    BY <1>3, <1>4, <1>5 DEF DriveReady
  <2>2. Done' /\ drive'.intrq = TRUE /\ drive'.cmd = "none" /\ drive' \in Drives
    BY <2>1, IdleIs DEF Done
  <2>3. SignalAgrees'
    BY <1>1, <1>3, <2>1, <2>2, PlacesOfDriver DEF SignalAgrees, Waiting, Writing
  <2>4. TypeOK'
    BY <1>1, <2>2 DEF IInv, TypeOK, Drives
  <2>5. CommandAgrees'
    BY <2>2 DEF CommandAgrees
  <2> QED
    BY <1>1, <2>3, <2>4, <2>5 DEF IInv, MessageAgrees, DataAgrees, OpenAgrees, TodoAgrees,
        PartsAgree, NoStrayInterrupt, Waiting, Serving, Reading, Writing, Moves, Right, Part
<1>6. CASE ~(drive.cmd = "write" /\ drive.count = 0)
  <2>1. drive' = [drive EXCEPT !.bsy = FALSE, !.drq = TRUE,
                               !.intrq = drive.cmd # "write" \/ ~drive.fresh]
    BY <1>6 DEF DriveReady
  <2>2. /\ Transfers' /\ drive' \in Drives
        /\ drive'.intrq = (drive.cmd # "write" \/ ~drive.fresh)
        /\ drive'.cmd = drive.cmd /\ drive'.sect = drive.sect /\ drive'.count = drive.count
    <3> DEFINE no == FALSE
               yes == TRUE
               signal == drive.cmd # "write" \/ ~drive.fresh
    <3>1. drive' = [drive EXCEPT !.bsy = no, !.drq = yes, !.intrq = signal]
      BY <2>1
    <3>2. no \in BOOLEAN /\ yes \in BOOLEAN /\ signal \in BOOLEAN /\ ~no /\ yes
      OBVIOUS
    <3>3. drive.cmd # "none" /\ drive.count > 0
      <4>1. drive.count \in Nat
        BY <1>2, Sizes DEF Drives
      <4> QED
        BY <1>3, <1>4, <1>6, <4>1 DEF Works
    <3> HIDE DEF no, yes, signal
    <3> DEFINE d == drive
               e == drive'
    <3>5. d \in Drives /\ e = [d EXCEPT !.bsy = no, !.drq = yes, !.intrq = signal]
      BY <1>2, <3>1
    <3> HIDE DEF d, e
    <3>4. /\ e \in Drives /\ e.bsy = no /\ e.drq = yes /\ e.intrq = signal
          /\ e.cmd = d.cmd /\ e.sect = d.sect /\ e.count = d.count
      BY <3>2, <3>5 DEF Drives
    <3>6. /\ drive' \in Drives /\ drive'.bsy = no /\ drive'.drq = yes /\ drive'.intrq = signal
          /\ drive'.cmd = drive.cmd /\ drive'.sect = drive.sect /\ drive'.count = drive.count
      BY <3>4 DEF d, e
    <3> QED
      BY <3>2, <3>3, <3>6 DEF Transfers, signal
  <2>3. SignalAgrees'
    BY <1>1, <1>3, <1>4, <2>2, PlacesOfDriver DEF SignalAgrees, Waiting, Writing
  <2>4. TypeOK'
    BY <1>1, <2>2 DEF IInv, TypeOK, Drives
  <2>5. CommandAgrees'
    BY <1>1, <2>2 DEF IInv, CommandAgrees, Waiting, Reading, Writing, NextSector
  <2> QED
    BY <1>1, <2>3, <2>4, <2>5 DEF IInv, MessageAgrees, DataAgrees, OpenAgrees, TodoAgrees,
        PartsAgree, NoStrayInterrupt, Waiting, Serving, Reading, Writing, Moves, Right, Part
<1> QED
  BY <1>5, <1>6

\* A step that leaves the partitions and what is to be read of them.
LEMMA OpenKept ==
  ASSUME OpenAgrees, UNCHANGED <<todo, hd_info>>, open_cnt' > 0 => open_cnt > 0
  PROVE  OpenAgrees'
BY DEF OpenAgrees, TodoAgrees, PartsAgree, Right, Part

\* The driver takes the interrupt that a sector has caused.
LEMMA InterruptedKeeps ==
  ASSUME IInv, Waiting, Transfers \/ (Done /\ Writing), Interrupted,
         drive' = [drive EXCEPT !.intrq = FALSE], has_int_msg' = FALSE,
         UNCHANGED <<msg, todo, buf, hd_info, open_cnt, disk, halted>>
  PROVE  IInv'
<1>1. /\ drive' \in Drives /\ ~drive'.intrq
      /\ drive'.cmd = drive.cmd /\ drive'.sect = drive.sect /\ drive'.count = drive.count
      /\ Transfers => Transfers'
      /\ Done => drive' = Idle /\ Done'
  BY PlacesOfDriver DEF Drives, Transfers, Done, Idle
<1>2. OpenAgrees'
  BY OpenKept DEF IInv
<1>3. Waiting => Serving
  BY DEF Serving
<1>4. CASE msg.type = "DEV_WRITE"
  <2>1. Writing /\ Writing' /\ ~Reading'
    BY <1>4 DEF IInv, MessageAgrees, Writing, Reading
  <2>2. /\ left' = left - 1 /\ pc' = IF left' = 0 THEN "reply" ELSE "drq"
        /\ ~Waiting' /\ pc' # "cmd" /\ pc' # "data" /\ pc' # "receive"
    BY <1>4 DEF Interrupted, Waiting
  <2>3. msg.CNT \in Nat /\ left \in 1 .. msg.CNT /\ open_cnt > 0 /\ left' \in 0 .. MaxCnt
    BY <1>3, <1>4, <2>1, <2>2, PlacesOfDriver, TransferIs
    DEF IInv, MessageAgrees, Writing
  <2>4. drive.cmd # "none" => /\ drive.cmd = "write" /\ drive.count \in 0 .. left - 1
                              /\ drive.sect = NextSector + 1
    BY <2>1 DEF IInv, CommandAgrees
  <2>5. Transfers => left > 1
    BY <2>3, <2>4 DEF Transfers
  <2>6. Layout(msg.DEVICE).base \in Nat /\ msg.pos \in Nat
    BY <1>4, PlacesOfDriver, TransferIs
  <2>7. NextSector' = NextSector + 1 /\ Moves' = Moves
    BY <2>2, <2>3, <2>6 DEF NextSector, Moves
  <2>8. TypeOK'
    BY <1>1, <2>2, <2>3 DEF IInv, TypeOK, Drives
  <2>9. MessageAgrees'
    BY <1>3, <2>1, <2>2, <2>3 DEF IInv, MessageAgrees, Serving, Waiting, Writing
  <2>10. SignalAgrees'
    <3>1. CASE left = 1
      <4>1. pc' = "reply" /\ Done
        BY <2>2, <2>3, <2>5, <3>1
      <4> QED
        BY <1>1, <2>2, <4>1 DEF SignalAgrees
    <3>2. CASE left # 1
      <4>1. pc' = "drq"
        BY <2>2, <2>3, <3>2
      <4> QED
        BY <1>1, <2>2, <4>1 DEF SignalAgrees
    <3> QED
      BY <3>1, <3>2
  <2>11. CommandAgrees'
    <3>1. drive'.cmd # "none" => drive.count > 0
      BY <1>1 DEF Transfers, Done, Idle
    <3>2. left' = left - 1 /\ left \in Nat /\ drive.count \in Nat
      BY <2>2, <2>3, PlacesOfDriver DEF Drives
    <3>3. drive'.cmd # "none" => /\ drive'.cmd = "write" /\ drive'.count \in 1 .. left'
                                 /\ drive'.sect = NextSector'
      BY <1>1, <2>4, <2>7, <3>1, <3>2
    <3> QED
      BY <2>1, <2>2, <3>3 DEF CommandAgrees, Writing
  <2>12. DataAgrees'
    <3>1. \A k \in 1 .. Moves :
            disk[Layout(msg.DEVICE).base + msg.pos + k - 1] = msg.data[k]
      BY <1>3, <2>1 DEF IInv, DataAgrees
    <3>2. buf = <<>>
      BY <1>3, <2>1 DEF IInv, DataAgrees, Reading, Writing
    <3> QED
      BY <1>4, <2>1, <2>7, <3>1, <3>2 DEF DataAgrees
  <2> QED
    BY <1>2, <2>8, <2>9, <2>10, <2>11, <2>12 DEF IInv, NoStrayInterrupt
<1>5. CASE msg.type # "DEV_WRITE"
  <2>1. ~Writing /\ ~Writing' /\ Transfers
    BY <1>5 DEF Writing
  <2>2. /\ left' = left /\ pc' = "data" /\ ~Waiting' /\ Serving'
    BY <1>5 DEF Interrupted, Waiting, Serving
  <2>3. TypeOK'
    BY <1>1, <2>2 DEF IInv, TypeOK, Drives
  <2>4. MessageAgrees'
    BY <1>3, <2>1, <2>2 DEF IInv, MessageAgrees, Waiting
  <2>5. SignalAgrees'
    BY <1>1, <2>1, <2>2 DEF SignalAgrees
  <2>6. CommandAgrees'
    BY <1>1, <2>1, <2>2 DEF IInv, CommandAgrees, Reading, NextSector
  <2>7. DataAgrees'
    BY <1>3, <2>1, <2>2 DEF IInv, DataAgrees, Reading
  <2> QED
    BY <1>2, <2>3, <2>4, <2>5, <2>6, <2>7 DEF IInv, NoStrayInterrupt
<1> QED
  BY <1>4, <1>5

LEMMA HandlerKeeps == IInv /\ hd_handler => IInv'
<1> SUFFICES ASSUME IInv, hd_handler
             PROVE  IInv'
  OBVIOUS
<1>1. /\ drive.intrq /\ drive' = [drive EXCEPT !.intrq = FALSE]
      /\ UNCHANGED <<msg, todo, buf, hd_info, open_cnt, disk, halted>>
  BY DEF hd_handler
<1>2. Waiting /\ (Transfers \/ (Done /\ Writing)) /\ has_int_msg = FALSE
  <2>1. drive # Idle /\ ~Works
    BY <1>1, IdleIs DEF Works
  <2>2. Waiting
    BY <1>1, <2>1, PlacesOfDriver DEF IInv, SignalAgrees, Transfers, Done
  <2> QED
    BY <1>1, <2>1, <2>2, PlacesOfDriver DEF IInv, SignalAgrees
<1>3. CASE pc = "blocked"
  BY <1>1, <1>2, <1>3, InterruptedKeeps DEF hd_handler
<1>4. CASE pc # "blocked"
  <2>1. has_int_msg' = TRUE /\ UNCHANGED <<pc, left>>
    BY <1>4 DEF hd_handler
  <2>2. /\ drive' \in Drives /\ drive'.intrq = FALSE
        /\ drive'.cmd = drive.cmd /\ drive'.sect = drive.sect /\ drive'.count = drive.count
        /\ Transfers => Transfers'
        /\ Done => Done'
    BY <1>1, PlacesOfDriver DEF Drives, Transfers, Done, Idle
  <2>3. TypeOK'
    BY <1>1, <2>1, <2>2 DEF IInv, TypeOK, Drives
  <2>4. SignalAgrees'
    BY <1>1, <1>2, <1>4, <2>1, <2>2, PlacesOfDriver DEF SignalAgrees, Waiting, Writing
  <2>5. CommandAgrees'
    BY <1>1, <2>1, <2>2 DEF IInv, CommandAgrees, Waiting, Reading, Writing, NextSector
  <2> QED
    BY <1>1, <2>1, <2>3, <2>4, <2>5, OpenKept DEF IInv, MessageAgrees, DataAgrees,
        NoStrayInterrupt, Waiting, Serving, Reading, Writing, Moves
<1> QED
  BY <1>3, <1>4

-----------------------------------------------------------------------------
(***************************************************************************)
(* The commands, and waiting for them.                                     *)
(***************************************************************************)
LEMMA WaitKeeps == IInv /\ interrupt_wait => IInv'
<1> SUFFICES ASSUME IInv, interrupt_wait
             PROVE  IInv'
  OBVIOUS
<1>1. /\ pc = "int" /\ Waiting /\ has_int_msg' = FALSE
      /\ UNCHANGED <<msg, todo, buf, hd_info, open_cnt, drive, disk, halted>>
  BY DEF interrupt_wait, Waiting
<1>2. CASE has_int_msg
  <2>1. (Transfers \/ (Done /\ Writing)) /\ drive.intrq = FALSE
    BY <1>1, <1>2, PlacesOfDriver DEF IInv, SignalAgrees, Drives
  <2>2. drive' = [drive EXCEPT !.intrq = FALSE]
    BY <1>1, <2>1, PlacesOfDriver DEF Drives
  <2> QED
    BY <1>1, <1>2, <2>1, <2>2, InterruptedKeeps DEF interrupt_wait
<1>3. CASE ~has_int_msg
  <2>1. pc' = "blocking" /\ left' = left /\ has_int_msg' = has_int_msg
    BY <1>1, <1>3, PlacesOfDriver DEF interrupt_wait
  <2>2. TypeOK'
    BY <1>1, <2>1 DEF IInv, TypeOK
  <2>3. SignalAgrees'
    BY <1>1, <1>3, <2>1 DEF IInv, SignalAgrees, Waiting, Works, Transfers, Done, Writing
  <2>4. CommandAgrees'
    BY <1>1, <2>1 DEF IInv, CommandAgrees, Waiting, Reading, Writing, NextSector
  <2> QED
    BY <1>1, <2>1, <2>2, <2>3, <2>4, OpenKept DEF IInv, MessageAgrees, DataAgrees,
        NoStrayInterrupt, Waiting, Serving, Reading, Writing, Moves
<1> QED
  BY <1>2, <1>3

LEMMA BlockingKeeps == IInv /\ interrupt_wait_blocks => IInv'
<1> SUFFICES ASSUME IInv, interrupt_wait_blocks
             PROVE  IInv'
  OBVIOUS
<1>1. /\ pc = "blocking" /\ Waiting
      /\ UNCHANGED <<msg, todo, buf, left, hd_info, open_cnt, has_int_msg, drive, disk>>
  BY DEF interrupt_wait_blocks, Waiting
<1>2. \/ ~has_int_msg /\ pc' = "blocked" /\ halted' = halted
      \/ pc' = pc /\ halted' = "assert"
  BY DEF interrupt_wait_blocks
<1>3. TypeOK' /\ NoStrayInterrupt' /\ Waiting'
  BY <1>1, <1>2 DEF IInv, TypeOK, NoStrayInterrupt, Waiting
<1>4. SignalAgrees'
  BY <1>1, <1>2, <1>3 DEF IInv, SignalAgrees, Waiting, Works, Transfers, Done, Writing
<1>5. CommandAgrees'
  BY <1>1, <1>3 DEF IInv, CommandAgrees, Reading, Writing, NextSector
<1>6. MessageAgrees' /\ DataAgrees'
  BY <1>1, <1>2, <1>3
  DEF IInv, MessageAgrees, DataAgrees, Waiting, Serving, Reading, Writing, Moves
<1> QED
  BY <1>1, <1>3, <1>4, <1>5, <1>6, OpenKept DEF IInv

LEMMA ExpiresKeeps == IInv /\ waitfor_expires => IInv'
<1> SUFFICES ASSUME IInv, waitfor_expires
             PROVE  IInv'
  OBVIOUS
<1>1. /\ UNCHANGED <<pc, msg, todo, buf, left, hd_info, open_cnt, has_int_msg, drive, disk>>
      /\ halted' = "panic"
  BY DEF waitfor_expires
<1>2. TypeOK' /\ NoStrayInterrupt'
  BY <1>1 DEF IInv, TypeOK, NoStrayInterrupt
<1>3. SignalAgrees' /\ CommandAgrees'
  BY <1>1 DEF IInv, SignalAgrees, CommandAgrees, Waiting, Works, Transfers, Done, Reading,
      Writing, NextSector
<1>4. MessageAgrees' /\ DataAgrees'
  BY <1>1 DEF IInv, MessageAgrees, DataAgrees, Waiting, Serving, Reading, Writing, Moves
<1> QED
  BY <1>1, <1>2, <1>3, <1>4, OpenKept DEF IInv
LEMMA RemainderIs ==
  ASSUME NEW n \in Nat \ {0}, NEW x \in Nat \ {0}
  PROVE  (IF x % n = 0 THEN n ELSE x % n) \in 1 .. x
OBVIOUS

\* The driver gives the command for what it reads next, or for the message.
LEMMA CommandKeeps == IInv /\ hd_cmd_out => IInv'
<1> SUFFICES ASSUME IInv, hd_cmd_out
             PROVE  IInv'
  OBVIOUS
<1> DEFINE cmd == Command.cmd
           count == IF Command.count = 0 THEN COUNTS ELSE Command.count
           no == FALSE
           yes == TRUE
<1>1. /\ pc = "cmd" /\ Serving /\ ~Waiting
      /\ UNCHANGED <<msg, todo, buf, left, hd_info, open_cnt, has_int_msg, disk, halted>>
      /\ pc' = IF cmd = "write" THEN "drq" ELSE "int"
  BY DEF hd_cmd_out, Waiting, Serving
<1>2. ~has_int_msg /\ (todo = <<>> => left = msg.CNT /\ (Reading \/ Writing))
  BY <1>1 DEF IInv, SignalAgrees, MessageAgrees, Reading, Writing
<1>3. todo # <<>> => /\ Head(todo) \in TableReads /\ cmd = Head(todo).cmd
                     /\ Command.sect = Head(todo).sect /\ count = 1
  BY HeadTailIs DEF IInv, OpenAgrees, Command
<1>4. Reading \/ Writing =>
        /\ cmd = IF Reading THEN "read" ELSE "write"
        /\ Command.sect = NextSector /\ NextSector \in Nat /\ count \in 1 .. left
        /\ left \in Nat /\ left <= MaxCnt
  <2> SUFFICES ASSUME Reading \/ Writing
               PROVE  /\ cmd = IF Reading THEN "read" ELSE "write"
                      /\ Command.sect = NextSector /\ NextSector \in Nat /\ count \in 1 .. left
                      /\ left \in Nat /\ left <= MaxCnt
    OBVIOUS
  <2>1. /\ msg.DEVICE \in Devices /\ left = msg.CNT /\ msg.CNT \in 1 .. MaxCnt
        /\ msg.pos \in Nat /\ Layout(msg.DEVICE).base \in Nat
    BY <1>2, PlacesOfDriver, TransferIs DEF Reading, Writing
  <2>2. Part(msg.DEVICE) = Layout(msg.DEVICE)
    <3>1. todo = <<>> /\ open_cnt > 0
      BY <1>1 DEF Reading, Writing, IInv, MessageAgrees
    <3> QED
      BY <2>1, <3>1 DEF IInv, OpenAgrees, PartsAgree
  <2>3. /\ cmd = IF Reading THEN "read" ELSE "write"
        /\ Command.sect = Layout(msg.DEVICE).base + msg.pos
        /\ Command.count = msg.CNT % COUNTS
    BY <2>2 DEF Command, Reading, Writing
  <2>4. Layout(msg.DEVICE).base + msg.pos = NextSector /\ NextSector \in Nat
    BY <2>1, Sizes DEF NextSector
  <2>5. count \in 1 .. left
    BY <2>1, <2>3, Sizes, RemainderIs
  <2> QED
    BY <2>1, <2>3, <2>4, <2>5, Sizes
<1>5. count \in 1 .. COUNTS
  <2>1. Command.count \in 0 .. COUNTS - 1 \/ count = 1
    <3>1. todo = <<>> => msg.CNT \in Nat /\ Command.count = msg.CNT % COUNTS
      BY <1>2, PlacesOfDriver, TransferIs, Sizes DEF Command, Reading, Writing
    <3> QED
      BY <1>3, <3>1, Sizes
  <2> QED
    BY <2>1, Sizes
<1> HIDE DEF cmd, count, no, yes
<1>6. drive' = [bsy |-> yes, drq |-> no, intrq |-> no, cmd |-> cmd, fresh |-> yes,
                sect |-> Command.sect, count |-> count]
  BY DEF hd_cmd_out, cmd, count, no, yes
<1>7. /\ drive'.bsy = yes /\ drive'.drq = no /\ drive'.intrq = no /\ drive'.fresh = yes
      /\ drive'.cmd = cmd /\ drive'.sect = Command.sect /\ drive'.count = count
  BY <1>6
<1>8. /\ cmd \in {"identify", "read", "write"} /\ Command.sect \in Nat
      /\ count \in 0 .. COUNTS /\ yes \in BOOLEAN /\ no \in BOOLEAN
  BY <1>2, <1>3, <1>4, <1>5, Sizes DEF TableReads, yes, no
<1>9. drive' \in Drives
  BY <1>6, <1>8 DEF Drives
<1>10. Works' /\ drive'.fresh /\ (Writing <=> cmd = "write") /\ (Writing' <=> Writing)
  <2>1. Works' /\ drive'.fresh
    BY <1>7, <1>8 DEF Works, yes, no
  <2>2. Writing <=> cmd = "write"
    BY <1>2, <1>3, <1>4 DEF Writing, Reading, TableReads
  <2> QED
    BY <1>1, <2>1, <2>2 DEF Writing
<1>11. /\ Serving' /\ (Writing => pc' = "drq" /\ ~Waiting')
       /\ (~Writing => pc' = "int" /\ Waiting')
  BY <1>1, <1>10 DEF Serving, Waiting
<1>12. TypeOK'
  BY <1>1, <1>9 DEF IInv, TypeOK, Drives
<1>13. MessageAgrees'
  BY <1>1, <1>10, <1>11 DEF IInv, MessageAgrees
<1>14. SignalAgrees'
  BY <1>1, <1>2, <1>7, <1>10, <1>11 DEF SignalAgrees, no
<1>15. CommandAgrees'
  BY <1>1, <1>2, <1>3, <1>4, <1>7, <1>11
  DEF CommandAgrees, Reading, Writing, NextSector
<1>16. DataAgrees'
  <2>1. Reading' = Reading
    BY <1>1 DEF Reading
  <2>2. Writing => Moves' = Moves
    BY <1>1, <1>11 DEF Moves
  <2>3. pc' # "reply"
    BY <1>11
  <2> QED
    BY <1>1, <1>10, <2>1, <2>2, <2>3 DEF IInv, DataAgrees
<1> QED
  BY <1>1, <1>12, <1>13, <1>14, <1>15, <1>16, OpenKept DEF IInv, NoStrayInterrupt

-----------------------------------------------------------------------------
(***************************************************************************)
(* Messages and answers.                                                   *)
(***************************************************************************)
LEMMA AnswerKeeps == IInv /\ task_hd_answers => IInv'
<1> SUFFICES ASSUME IInv, task_hd_answers
             PROVE  IInv'
  OBVIOUS
<1>1. /\ pc = "reply" /\ pc' = "receive" /\ msg' = NoMsg /\ buf' = <<>>
      /\ UNCHANGED <<todo, left, hd_info, open_cnt, has_int_msg, drive, disk, halted>>
  BY DEF task_hd_answers
<1>2. drive = Idle /\ ~has_int_msg /\ todo = <<>> /\ ~Serving' /\ ~Waiting'
  BY <1>1 DEF IInv, SignalAgrees, MessageAgrees, Serving, Waiting
<1>3. TypeOK'
  <2>1. Len(buf') <= MaxCnt
    BY <1>1, Sizes
  <2> QED
    BY <1>1, <2>1 DEF IInv, TypeOK
<1>4. MessageAgrees' /\ SignalAgrees' /\ DataAgrees'
  BY <1>1, <1>2 DEF MessageAgrees, SignalAgrees, DataAgrees
<1>5. CommandAgrees'
  BY <1>1, <1>2, IdleIs DEF CommandAgrees
<1> QED
  BY <1>1, <1>3, <1>4, <1>5, OpenKept DEF IInv, NoStrayInterrupt

LEMMA MessageKeeps == IInv /\ task_hd => IInv'
<1> SUFFICES ASSUME IInv, task_hd
             PROVE  IInv'
  OBVIOUS
<1>1. /\ pc = "receive" /\ UNCHANGED <<hd_info, has_int_msg, drive, disk>>
      /\ drive = Idle /\ ~has_int_msg /\ todo = <<>> /\ buf = <<>>
  BY DEF task_hd, IInv, SignalAgrees, MessageAgrees
<1>2. PICK m \in Messages \cup Requests :
        /\ hd_open(m) \/ hd_close(m) \/ hd_ioctl(m) \/ hd_rdwt(m)
        /\ msg' = m /\ halted' = halted
  BY <1>1 DEF task_hd
<1>3. /\ pc' \in {"cmd", "reply"} /\ ~Waiting' /\ (Serving' <=> pc' = "cmd")
      /\ msg' \in Messages \cup Requests /\ msg' # NoMsg
  BY <1>2 DEF hd_open, hd_close, hd_ioctl, hd_rdwt, Waiting, Serving, Messages, Requests, NoMsg
<1>4. SignalAgrees' /\ CommandAgrees'
  BY <1>1, <1>3, IdleIs DEF SignalAgrees, CommandAgrees
<1>5. NoStrayInterrupt'
  BY <1>2 DEF IInv, NoStrayInterrupt
<1>6. /\ open_cnt \in 0 .. MaxOpen /\ left \in 0 .. MaxCnt /\ MaxOpen \in Nat /\ MaxCnt \in Nat
      /\ halted \in {"no", "panic", "assert", "spin"}
  BY Sizes DEF IInv, TypeOK
<1>7. ASSUME todo' \in Seq(TableReads), open_cnt' \in 0 .. MaxOpen, left' \in 0 .. MaxCnt,
             Len(buf') <= MaxCnt
      PROVE  TypeOK'
  <2>1. \A k \in DOMAIN todo' : todo'[k] \in TableReads
    BY <1>7
  <2>2. \A r \in TableReads : /\ r.part \in 0 .. NR_PART_PER_DRIVE
                             /\ r.nr \in 0 .. NR_SUB_PER_PART - 1 /\ r.sect \in DOMAIN Tables
    BY DEF TableReads
  <2> QED
    BY <1>1, <1>2, <1>3, <1>7, <2>1, <2>2 DEF IInv, TypeOK
<1>8. Len(<<>>) <= MaxCnt
  BY Sizes
<1>9. CASE hd_open(m)
  <2>1. /\ m.type = "DEV_OPEN" /\ pc' = "cmd" /\ open_cnt' = open_cnt + 1
        /\ UNCHANGED <<buf, left>> /\ open_cnt' \in 1 .. MaxOpen
        /\ todo' = IF open_cnt = 0 THEN <<Identity, Table(0, 0, 0)>> ELSE <<Identity>>
    BY <1>6, <1>9 DEF hd_open
  <2>2. Identity \in TableReads /\ Table(0, 0, 0) \in TableReads
    BY Sizes DEF Identity, Table, TableReads
  <2>3. /\ todo' \in Seq(TableReads) /\ todo' # <<>>
        /\ \A k \in DOMAIN todo' : todo'[k] = Identity \/ todo'[k] = Table(0, 0, 0)
        /\ open_cnt = 0 => 2 \in DOMAIN todo' /\ todo'[2] = Table(0, 0, 0)
    <3> DEFINE x == Identity
               y == Table(0, 0, 0)
    <3>1. x \in TableReads /\ y \in TableReads
          /\ todo' = IF open_cnt = 0 THEN <<x, y>> ELSE <<x>>
      BY <2>1, <2>2
    <3> HIDE DEF x, y
    <3>2. CASE open_cnt = 0
      BY <3>1, <3>2 DEF x, y
    <3>3. CASE open_cnt # 0
      BY <3>1, <3>3 DEF x, y
    <3> QED
      BY <3>2, <3>3
  <2>4. TodoAgrees'
    BY <2>3 DEF TodoAgrees, Right
  <2>5. PartsAgree'
    <3> SUFFICES ASSUME NEW dev \in Devices
                 PROVE  \/ Part(dev)' = Layout(dev)
                        \/ \E k \in DOMAIN todo' : LeadsTo(todo'[k], dev)
      BY DEF PartsAgree, LeadsTo
    <3>1. CASE open_cnt = 0
      <4>1. LeadsTo(Table(0, 0, 0), dev)
        BY DEF LeadsTo, Table
      <4> QED
        BY <2>3, <3>1, <4>1
    <3>2. CASE open_cnt # 0
      <4>1. open_cnt > 0
        BY <1>6, <3>2
      <4>2. Part(dev) = Layout(dev)
        BY <1>1, <4>1 DEF IInv, OpenAgrees, PartsAgree
      <4> QED
        BY <1>1, <4>2 DEF Part
    <3> QED
      BY <3>1, <3>2
  <2>6. TypeOK'
    <3>1. open_cnt' \in 0 .. MaxOpen /\ left' \in 0 .. MaxCnt /\ Len(buf') <= MaxCnt
      BY <1>1, <1>6, <1>8, <2>1
    <3> QED
      BY <1>7, <2>3, <3>1
  <2>7. MessageAgrees'
    BY <1>2, <1>3, <1>6, <2>1, <2>3 DEF MessageAgrees
  <2>8. DataAgrees'
    BY <1>1, <1>3, <2>1, <2>3 DEF DataAgrees, Reading, Writing
  <2> QED
    BY <1>1, <1>4, <1>5, <2>3, <2>4, <2>5, <2>6, <2>7, <2>8 DEF IInv, OpenAgrees
<1>10. ASSUME todo' = todo, open_cnt' > 0 => open_cnt > 0
       PROVE  OpenAgrees' /\ todo' \in Seq(TableReads)
  BY <1>1, <1>10, OpenKept DEF IInv, OpenAgrees
<1>11. CASE hd_close(m)
  <2>1. /\ m.type = "DEV_CLOSE" /\ pc' = "reply" /\ open_cnt' \in 0 .. MaxOpen /\ open_cnt > 0
        /\ UNCHANGED <<todo, buf, left>>
    BY <1>6, <1>11 DEF hd_close
  <2>2. OpenAgrees' /\ TypeOK'
    BY <1>1, <1>6, <1>7, <1>8, <1>10, <2>1
  <2>3. MessageAgrees' /\ DataAgrees'
    BY <1>1, <1>2, <1>3, <2>1 DEF MessageAgrees, DataAgrees, Reading, Writing
  <2> QED
    BY <1>4, <1>5, <2>2, <2>3 DEF IInv
<1>12. CASE hd_ioctl(m)
  <2>1. /\ m.type = "DEV_IOCTL" /\ pc' = "reply" /\ open_cnt' = open_cnt /\ open_cnt > 0
        /\ UNCHANGED <<todo, left>> /\ buf' = <<Part(m.DEVICE)>>
    BY <1>12 DEF hd_ioctl
  <2>2. m.DEVICE \in Devices
    BY <2>1 DEF Messages, Requests
  <2>3. Part(m.DEVICE) = Layout(m.DEVICE)
    BY <1>1, <2>1, <2>2 DEF IInv, OpenAgrees, PartsAgree
  <2>4. Len(buf') <= MaxCnt
    BY <2>1, Sizes
  <2>5. OpenAgrees' /\ TypeOK'
    BY <1>1, <1>6, <1>7, <1>10, <2>1, <2>4
  <2>6. MessageAgrees' /\ DataAgrees'
    BY <1>1, <1>2, <1>3, <2>1, <2>3 DEF MessageAgrees, DataAgrees, Reading, Writing
  <2> QED
    BY <1>4, <1>5, <2>5, <2>6 DEF IInv
<1>13. CASE hd_rdwt(m)
  <2>1. /\ m.type \in {"DEV_READ", "DEV_WRITE"} /\ pc' = "cmd" /\ left' = m.CNT
        /\ UNCHANGED <<todo, buf, open_cnt>> /\ open_cnt > 0
    BY <1>13 DEF hd_rdwt
  <2>2. m \in Messages
    BY <2>1 DEF Requests
  <2>3. m.CNT \in 1 .. MaxCnt
    BY <2>2, TransferIs
  <2>4. OpenAgrees' /\ TypeOK'
    BY <1>1, <1>6, <1>7, <1>8, <1>10, <2>1, <2>3
  <2>5. MessageAgrees'
    BY <1>1, <1>2, <1>3, <2>1, <2>3 DEF MessageAgrees
  <2>6. DataAgrees'
    <3>1. left' = msg'.CNT /\ msg'.CNT \in Nat /\ ~Waiting' /\ buf' = <<>> /\ pc' # "reply"
      BY <1>1, <1>2, <1>3, <2>1, <2>3, Sizes
    <3>2. msg'.CNT - left' = 0 /\ Moves' = 0
      BY <3>1 DEF Moves
    <3>3. 1 .. 0 = {}
      OBVIOUS
    <3>4. ASSUME NEW F(_) PROVE <<>> = [k \in 1 .. 0 |-> F(k)]
      OBVIOUS
    <3> QED
      BY <3>1, <3>2, <3>3, <3>4 DEF DataAgrees
  <2> QED
    BY <1>4, <1>5, <2>4, <2>5, <2>6 DEF IInv
<1> QED
  BY <1>2, <1>9, <1>11, <1>12, <1>13
-----------------------------------------------------------------------------
(***************************************************************************)
(* The data.                                                               *)
(***************************************************************************)
LEMMA ReadForOpenKeeps == IInv /\ port_read /\ todo # <<>> => IInv'
<1> SUFFICES ASSUME IInv, port_read, todo # <<>>
             PROVE  IInv'
  OBVIOUS
<1> DEFINE r == Head(todo)
<1>1. /\ pc = "data" /\ Serving /\ ~Waiting /\ read_for_open /\ drive' = Moved(drive)
      /\ UNCHANGED <<msg, open_cnt, has_int_msg, disk, halted>>
  BY DEF port_read, Serving, Waiting
<1>2. /\ r \in TableReads /\ Right(r)
  BY HeadTailIs, TodoIs DEF IInv, OpenAgrees
<1>3. drive' = Idle /\ drive.sect = r.sect
  <2>1. drive.cmd = r.cmd /\ drive.sect = r.sect /\ drive.count = 1
    BY <1>1 DEF IInv, SignalAgrees, CommandAgrees, Transfers
  <2>2. drive.cmd # "write" /\ ~(drive.count > 1)
    BY <1>2, <2>1 DEF TableReads
  <2> QED
    BY <1>1, <2>1, <2>2 DEF Moved
<1>4. OpenAgrees'
  <2>1. CASE r.cmd = "identify"
    BY <1>1, <2>1, ReadIdentityKeeps DEF read_for_open, IInv
  <2>2. CASE r.cmd # "identify" /\ r.part = 0
    <3>1. r = Table(0, 0, 0)
      <4>1. 0 \notin Extended(Tables[0]) /\ Identity.cmd = "identify"
        BY DEF Extended, Identity
      <4> QED
        BY <1>2, <2>2, <4>1 DEF Right
    <3>2. r.sect = 0
      BY <3>1 DEF Table
    <3>3. primary_table(Tables[0])
      BY <1>1, <1>3, <2>2, <3>2 DEF read_for_open
    <3> QED
      BY <1>1, <3>1, <3>3, ReadPrimaryKeeps DEF IInv
  <2>3. CASE r.cmd # "identify" /\ r.part # 0
    <3>1. r.part \in Extended(Tables[0])
      <4>1. Table(0, 0, 0).part = 0 /\ Identity.cmd = "identify"
        BY DEF Table, Identity
      <4> QED
        BY <1>2, <2>3, <4>1 DEF Right
    <3>2. extended_table(Tables[r.sect])
      BY <1>1, <1>3, <2>3 DEF read_for_open
    <3> QED
      BY <1>1, <1>2, <3>1, <3>2, ReadExtendedKeeps DEF IInv
  <2> QED
    BY <2>1, <2>2, <2>3
<1>5. /\ msg.type = "DEV_OPEN" /\ open_cnt > 0 /\ buf = <<>> /\ ~has_int_msg
      /\ UNCHANGED <<buf, left>>
      /\ pc' = IF todo' = <<>> THEN "reply" ELSE "cmd"
  BY <1>1 DEF read_for_open, IInv, MessageAgrees, SignalAgrees, DataAgrees, Reading
<1>6. ~Waiting' /\ (Serving' <=> todo' # <<>>) /\ ~Reading' /\ ~Writing'
  BY <1>1, <1>5 DEF Waiting, Serving, Reading, Writing
<1>7. TypeOK'
  <2>1. hd_info' \in Infos /\ todo' \in Seq(TableReads)
    BY <1>4 DEF OpenAgrees
  <2>2. \A k \in DOMAIN todo' : todo'[k] \in TableReads
    BY <2>1
  <2>3. \A x \in TableReads : /\ x.part \in 0 .. NR_PART_PER_DRIVE
                              /\ x.nr \in 0 .. NR_SUB_PER_PART - 1 /\ x.sect \in DOMAIN Tables
    BY DEF TableReads
  <2> QED
    BY <1>1, <1>3, <1>5, <2>1, <2>2, <2>3, IdleIs DEF IInv, TypeOK, Infos, Drives
<1>8. MessageAgrees'
  BY <1>1, <1>5, <1>6 DEF IInv, MessageAgrees
<1>9. SignalAgrees' /\ CommandAgrees'
  BY <1>1, <1>3, <1>5, <1>6, IdleIs DEF SignalAgrees, CommandAgrees
<1>10. DataAgrees' /\ NoStrayInterrupt'
  BY <1>1, <1>5, <1>6 DEF IInv, DataAgrees, NoStrayInterrupt
<1> QED
  BY <1>4, <1>7, <1>8, <1>9, <1>10 DEF IInv

\* A function on 1 .. n + 1 is its beginning and its last value.
LEMMA AppendIs ==
  ASSUME NEW n \in Nat, NEW S, NEW f \in [1 .. n + 1 -> S], NEW g, g = [k \in 1 .. n |-> f[k]]
  PROVE  Append(g, f[n + 1]) = f /\ Len(f) = n + 1
<1>1. g \in [1 .. n -> S]
  OBVIOUS
<1>2. g \in Seq(S) /\ f \in Seq(S) /\ f[n + 1] \in S
  BY <1>1
<1>3. Len(g) = n /\ Len(f) = n + 1
  BY <1>1, <1>2, LenProperties
<1>4. /\ Append(g, f[n + 1]) \in Seq(S) /\ Len(Append(g, f[n + 1])) = n + 1
      /\ \A k \in 1 .. n + 1 : Append(g, f[n + 1])[k] = f[k]
  <2>1. /\ Append(g, f[n + 1]) \in Seq(S) /\ Len(Append(g, f[n + 1])) = n + 1
        /\ \A k \in 1 .. n : Append(g, f[n + 1])[k] = g[k]
        /\ Append(g, f[n + 1])[n + 1] = f[n + 1]
    BY <1>2, <1>3, AppendProperties
  <2> QED
    BY <2>1
<1> DEFINE a == Append(g, f[n + 1])
<1> HIDE DEF a
<1>5. a \in [1 .. n + 1 -> S] /\ \A k \in 1 .. n + 1 : a[k] = f[k]
  BY <1>4, LenProperties DEF a
<1>6. a = f
  BY <1>5
<1> QED
  BY <1>3, <1>6 DEF a

\* What the driver serves while it moves data.
LEMMA TransferFacts ==
  ASSUME IInv, Serving, Reading \/ Writing
  PROVE  /\ msg \in Messages /\ left \in 1 .. msg.CNT /\ open_cnt > 0
         /\ msg.CNT \in Nat /\ msg.CNT <= MaxCnt /\ left \in Nat /\ MaxCnt \in Nat
         /\ Layout(msg.DEVICE).base + msg.pos \in Nat
         /\ NextSector = Layout(msg.DEVICE).base + msg.pos + (msg.CNT - left)
         /\ NextSector \in Sectors /\ NextSector \in Nat
<1>1. msg \in Messages /\ left \in 1 .. msg.CNT /\ open_cnt > 0
  BY PlacesOfDriver DEF IInv, MessageAgrees, Reading, Writing
<1>2. /\ msg.CNT \in 1 .. MaxCnt /\ Layout(msg.DEVICE).base \in Nat /\ msg.pos \in Nat
      /\ \A k \in 0 .. msg.CNT - 1 : Layout(msg.DEVICE).base + msg.pos + k \in Sectors
  BY <1>1, TransferIs
<1> DEFINE b == Layout(msg.DEVICE).base
           p == msg.pos
           n == msg.CNT
<1>3. b \in Nat /\ p \in Nat /\ n \in 1 .. MaxCnt /\ left \in 1 .. n /\ MaxCnt \in Nat
  BY <1>1, <1>2, Sizes
<1>4. NextSector = b + p + n - left
  BY DEF NextSector
<1>5. \A k \in 0 .. n - 1 : b + p + k \in Sectors
  BY <1>2
<1> HIDE DEF b, p, n
<1>6. NextSector = b + p + (n - left) /\ n - left \in 0 .. n - 1
  BY <1>3, <1>4
<1>7. NextSector \in Sectors
  BY <1>5, <1>6
<1>8. /\ n \in Nat /\ n <= MaxCnt /\ left \in Nat /\ b + p \in Nat /\ NextSector \in Nat
  BY <1>3, <1>6
<1> QED
  BY <1>1, <1>3, <1>6, <1>7, <1>8 DEF b, p, n

LEMMA ReadForCallerKeeps == IInv /\ port_read /\ todo = <<>> => IInv'
<1> SUFFICES ASSUME IInv, port_read, todo = <<>>
             PROVE  IInv'
  OBVIOUS
<1> DEFINE first == Layout(msg.DEVICE).base + msg.pos
<1>1. /\ pc = "data" /\ Serving /\ ~Waiting /\ drive' = Moved(drive)
      /\ UNCHANGED <<msg, todo, hd_info, open_cnt, has_int_msg, disk, halted>>
      /\ buf' = Append(buf, disk[drive.sect]) /\ left' = left - 1
      /\ pc' = IF left' = 0 THEN "reply" ELSE "int"
  BY DEF port_read, read_for_caller, Serving, Waiting
<1>2. Reading /\ Reading' /\ ~Writing /\ ~Writing'
  BY <1>1 DEF IInv, MessageAgrees, Reading, Writing
<1>3. /\ msg \in Messages /\ left \in 1 .. msg.CNT /\ open_cnt > 0
      /\ msg.CNT \in Nat /\ msg.CNT <= MaxCnt /\ left \in Nat /\ MaxCnt \in Nat
      /\ first \in Nat /\ NextSector = first + (msg.CNT - left) /\ NextSector \in Nat
  BY <1>1, <1>2, TransferFacts
<1>4. /\ drive.cmd = "read" /\ drive.count \in 1 .. left /\ drive.sect = NextSector
      /\ ~drive.bsy /\ ~drive.intrq /\ ~has_int_msg /\ drive \in Drives
  BY <1>1, <1>2, PlacesOfDriver DEF IInv, SignalAgrees, CommandAgrees, Transfers
<1>5. left' \in Nat /\ left' < msg.CNT /\ (left' = 0 \/ left' \in 1 .. msg.CNT) /\ left' <= MaxCnt
  BY <1>1, <1>3
<1>6. NextSector' = NextSector + 1
  <2>1. NextSector' = Layout(msg.DEVICE).base + msg.pos + msg.CNT - left'
    BY <1>1 DEF NextSector
  <2>2. NextSector' = first + (msg.CNT - left')
    BY <1>3, <1>5, <2>1
  <2> QED
    BY <1>1, <1>3, <2>2
<1>7. /\ drive' \in Drives
      /\ drive.count = 1 => drive' = Idle
      /\ drive.count > 1 =>
            /\ Works' /\ drive'.cmd = "read" /\ drive'.count = drive.count - 1
            /\ drive'.sect = drive.sect + 1
  <2>1. CASE drive.count = 1
    BY <1>1, <1>4, <2>1, IdleIs DEF Moved
  <2>2. CASE drive.count > 1
    <3> DEFINE d == drive
               e == drive'
               no == FALSE
               yes == TRUE
    <3>1. e = [d EXCEPT !.bsy = yes, !.drq = no, !.fresh = no,
                        !.sect = d.sect + 1, !.count = d.count - 1]
      BY <1>1, <2>2 DEF Moved
    <3>2. /\ d \in Drives /\ d.count - 1 \in 0 .. COUNTS /\ d.sect + 1 \in Nat
          /\ no \in BOOLEAN /\ yes \in BOOLEAN
      BY <1>4, <2>2, Sizes DEF Drives
    <3> HIDE DEF d, e, no, yes
    <3>3. /\ e \in Drives /\ e.bsy = yes /\ e.drq = no /\ e.intrq = d.intrq /\ e.cmd = d.cmd
          /\ e.sect = d.sect + 1 /\ e.count = d.count - 1
      BY <3>1, <3>2 DEF Drives
    <3> QED
      BY <1>4, <2>2, <3>3 DEF d, e, no, yes, Works
  <2>3. drive.count = 1 \/ drive.count > 1
    BY <1>3, <1>4
  <2> QED
    BY <2>1, <2>2, <2>3
<1>8. /\ buf' = [k \in 1 .. msg.CNT - left' |-> disk[first + k - 1]]
      /\ Len(buf') = msg.CNT - left'
  <2> DEFINE n == msg.CNT - left
             f == [k \in 1 .. n + 1 |-> disk[first + k - 1]]
             g == [k \in 1 .. n |-> f[k]]
  <2>1. n \in Nat /\ n < msg.CNT /\ n + 1 = msg.CNT - left'
    BY <1>1, <1>3
  <2>2. f \in [1 .. n + 1 -> Data]
    <3> SUFFICES ASSUME NEW k \in 1 .. n + 1
                 PROVE  disk[first + k - 1] \in Data
      OBVIOUS
    <3>1. k - 1 \in 0 .. msg.CNT - 1 /\ first + k - 1 = first + (k - 1)
      BY SMTT(30), <1>3, <2>1
    <3>2. first + (k - 1) \in Sectors
      BY <1>3, <3>1, TransferIs
    <3> QED
      BY <3>1, <3>2 DEF IInv, TypeOK
  <2>3. buf = g
    <3>1. buf = [k \in 1 .. n |-> disk[first + k - 1]]
      BY <1>1, <1>2 DEF IInv, DataAgrees
    <3>2. \A k \in 1 .. n : k \in 1 .. n + 1
      BY <2>1
    <3>3. \A k \in 1 .. n : f[k] = disk[first + k - 1]
      BY <3>2
    <3> HIDE DEF f
    <3> QED
      BY <3>1, <3>3
  <2>4. f[n + 1] = disk[drive.sect]
    <3>1. n + 1 \in 1 .. n + 1 /\ first + (n + 1) - 1 = first + n
      BY SMTT(30), <1>3, <2>1
    <3> QED
      BY <1>3, <1>4, <3>1
  <2>5. Append(g, f[n + 1]) = f /\ Len(f) = n + 1
    <3> HIDE DEF f, n
    <3> QED
      BY <2>1, <2>2, AppendIs
  <2>6. buf' = f
    BY <1>1, <2>3, <2>4, <2>5
  <2> QED
    BY <2>1, <2>5, <2>6
<1>9. TypeOK'
  <2>1. Len(buf') <= MaxCnt
    BY <1>3, <1>5, <1>8
  <2> QED
    BY <1>1, <1>5, <1>7, <2>1 DEF IInv, TypeOK, Drives
<1>10. MessageAgrees'
  BY <1>1, <1>2, <1>3, <1>5 DEF IInv, MessageAgrees, Reading, Serving, Waiting
<1>11. SignalAgrees'
  <2>1. CASE drive.count = 1
    BY <1>1, <1>4, <1>7, <2>1 DEF SignalAgrees, Waiting
  <2>2. CASE drive.count > 1
    <3>1. left' # 0
      BY <1>1, <1>3, <1>4, <2>2
    <3> QED
      BY <1>1, <1>2, <1>4, <1>7, <2>2, <3>1 DEF SignalAgrees, Waiting
  <2>3. drive.count = 1 \/ drive.count > 1
    BY <1>3, <1>4
  <2> QED
    BY <2>1, <2>2, <2>3
<1>12. CommandAgrees'
  <2>1. drive.count \in Nat /\ drive.count >= 1 /\ drive.count <= left
    BY <1>3, <1>4
  <2>2. drive'.cmd # "none" => drive.count > 1
    BY <1>7, <2>1, IdleIs
  <2>3. drive'.cmd # "none" => /\ drive'.cmd = "read" /\ drive'.count \in 1 .. left'
                               /\ drive'.sect = NextSector'
    BY SMTT(30), <1>1, <1>3, <1>4, <1>5, <1>6, <1>7, <2>1, <2>2
  <2> QED
    BY <1>2, <2>3 DEF CommandAgrees, Reading
<1>13. DataAgrees'
  BY <1>1, <1>2, <1>8 DEF DataAgrees, Reading
<1> QED
  BY <1>1, <1>9, <1>10, <1>11, <1>12, <1>13, OpenKept DEF IInv, NoStrayInterrupt
\* What a write does to the drive: one sector, the next of its message.
LEMMA WriteFacts ==
  ASSUME IInv, port_write
  PROVE  /\ pc = "drq" /\ Serving /\ ~Waiting /\ Writing /\ Transfers /\ ~has_int_msg
         /\ drive.cmd = "write" /\ drive.count \in 1 .. left /\ drive.sect = NextSector
         /\ pc' = "int" /\ disk' = [disk EXCEPT ![NextSector] = msg.data[msg.CNT - left + 1]]
         /\ msg.CNT - left + 1 \in 1 .. msg.CNT /\ msg.data \in [1 .. msg.CNT -> Data]
         /\ UNCHANGED <<msg, todo, buf, left, hd_info, open_cnt, has_int_msg, halted>>
<1>1. /\ pc = "drq" /\ Serving /\ ~Waiting /\ pc' = "int" /\ drive.drq
      /\ disk' = [disk EXCEPT ![drive.sect] = msg.data[Len(msg.data) - left + 1]]
      /\ UNCHANGED <<msg, todo, buf, left, hd_info, open_cnt, has_int_msg, halted>>
  BY DEF port_write, Serving, Waiting
<1>2. Writing /\ ~has_int_msg /\ Transfers
  <2>1. ~Works
    BY <1>1 DEF Works
  <2>2. ~Done
    BY <1>1 DEF Done, Idle
  <2> QED
    BY <1>1, <2>1, <2>2 DEF IInv, MessageAgrees, SignalAgrees
<1>3. drive.cmd = "write" /\ drive.count \in 1 .. left /\ drive.sect = NextSector
  BY <1>1, <1>2 DEF IInv, CommandAgrees, Transfers
<1>4. /\ msg \in Messages /\ left \in 1 .. msg.CNT /\ msg.CNT \in Nat /\ left \in Nat
  BY <1>1, <1>2, TransferFacts
<1>5. msg.data \in [1 .. msg.CNT -> Data] /\ Len(msg.data) = msg.CNT
  BY <1>2, <1>4, TransferIs DEF Writing
<1>6. msg.CNT - left + 1 \in 1 .. msg.CNT
  BY <1>4
<1> QED
  BY <1>1, <1>2, <1>3, <1>5, <1>6

LEMMA WriteKeeps == IInv /\ port_write => IInv'
<1> SUFFICES ASSUME IInv, port_write
             PROVE  IInv'
  OBVIOUS
<1> DEFINE first == Layout(msg.DEVICE).base + msg.pos
           n == msg.CNT - left
           value == msg.data[n + 1]
<1>1. /\ pc = "drq" /\ Serving /\ ~Waiting /\ Writing /\ Transfers /\ ~has_int_msg
      /\ drive.cmd = "write" /\ drive.count \in 1 .. left /\ drive.sect = NextSector
      /\ pc' = "int" /\ disk' = [disk EXCEPT ![NextSector] = value]
      /\ n + 1 \in 1 .. msg.CNT /\ msg.data \in [1 .. msg.CNT -> Data]
      /\ UNCHANGED <<msg, todo, buf, left, hd_info, open_cnt, has_int_msg, halted>>
  BY WriteFacts
<1>2. /\ msg \in Messages /\ left \in 1 .. msg.CNT /\ open_cnt > 0
      /\ msg.CNT \in Nat /\ left \in Nat
      /\ first \in Nat /\ NextSector = first + n /\ NextSector \in Sectors /\ NextSector \in Nat
  BY <1>1, TransferFacts
<1>3. Waiting' /\ Serving' /\ Writing' /\ ~Reading' /\ NextSector' = NextSector
  BY <1>1 DEF Waiting, Serving, Writing, Reading, NextSector
<1>4. /\ drive' \in Drives /\ Works' /\ ~drive'.fresh /\ drive'.cmd = "write"
      /\ drive'.count = drive.count - 1 /\ drive'.sect = drive.sect + 1
  <2> DEFINE d == drive
             e == drive'
             no == FALSE
             yes == TRUE
  <2>1. e = [[d EXCEPT !.bsy = yes, !.drq = no, !.fresh = no,
                       !.sect = d.sect + 1, !.count = d.count - 1] EXCEPT !.intrq = no]
    BY <1>1 DEF port_write, Moved
  <2>2. /\ d \in Drives /\ d.count - 1 \in 0 .. COUNTS /\ d.sect + 1 \in Nat
        /\ no \in BOOLEAN /\ yes \in BOOLEAN
    <3>1. drive \in Drives
      BY PlacesOfDriver
    <3>2. drive.count \in 0 .. COUNTS /\ drive.count >= 1 /\ drive.sect \in Nat
      BY <1>1, <1>2, <3>1 DEF Drives
    <3> QED
      BY <3>1, <3>2, Sizes
  <2> HIDE DEF d, e, no, yes
  <2>3. /\ e \in Drives /\ e.bsy = yes /\ e.drq = no /\ e.intrq = no /\ e.fresh = no
        /\ e.cmd = d.cmd /\ e.sect = d.sect + 1 /\ e.count = d.count - 1
    BY <2>1, <2>2 DEF Drives
  <2> QED
    BY <1>1, <2>3 DEF d, e, no, yes, Works
<1>5. TypeOK'
  <2>1. value \in Data
    BY <1>1
  <2>2. disk' \in [Sectors -> Data]
    BY <1>1, <2>1 DEF IInv, TypeOK
  <2> QED
    BY <1>1, <1>4, <2>2 DEF IInv, TypeOK, Drives
<1>6. MessageAgrees'
  BY <1>1, <1>2, <1>3 DEF IInv, MessageAgrees, Writing
<1>7. SignalAgrees'
  BY <1>1, <1>3, <1>4 DEF SignalAgrees
<1>8. CommandAgrees'
  <2>1. drive'.count \in 0 .. left - 1
    BY <1>1, <1>2, <1>4
  <2> QED
    BY <1>1, <1>3, <1>4, <2>1 DEF CommandAgrees, Writing
<1>9. DataAgrees'
  <2>1. Moves = n /\ Moves' = n + 1 /\ n \in Nat
    BY <1>1, <1>2, <1>3 DEF Moves
  <2>2. ASSUME NEW k \in 1 .. n + 1
        PROVE  disk'[first + k - 1] = msg.data[k]
    <3>1. CASE k = n + 1
      <4>1. first + k - 1 = NextSector
        BY <1>2, <2>1, <3>1
      <4> QED
        BY <1>1, <1>2, <3>1, <4>1 DEF IInv, TypeOK
    <3>2. CASE k # n + 1
      <4>1. k \in 1 .. n /\ first + k - 1 # NextSector /\ first + k - 1 = first + (k - 1)
            /\ k - 1 \in 0 .. msg.CNT - 1
        <5>1. /\ first \in Nat /\ n \in Nat /\ msg.CNT \in Nat /\ NextSector = first + n
              /\ n + 1 \in 1 .. msg.CNT
          BY <1>1, <1>2, <2>1
        <5> DEFINE a == first
                   b == n
                   c == msg.CNT
        <5>2. a \in Nat /\ b \in Nat /\ c \in Nat /\ b + 1 \in 1 .. c /\ k \in 1 .. b + 1
              /\ k # b + 1 /\ NextSector = a + b
          BY <3>2, <5>1
        <5> HIDE DEF a, b, c
        <5>3. k \in 1 .. b /\ a + k - 1 # NextSector /\ a + k - 1 = a + (k - 1)
              /\ k - 1 \in 0 .. c - 1
          BY <5>2
        <5> QED
          BY <5>3 DEF a, b, c
      <4>2. disk[first + k - 1] = msg.data[k]
        BY <1>1, <2>1, <4>1 DEF IInv, DataAgrees
      <4>3. first + k - 1 \in Sectors
        BY <1>2, <4>1, TransferIs
      <4> QED
        BY <1>1, <4>1, <4>2, <4>3 DEF IInv, TypeOK
    <3> QED
      BY <3>1, <3>2
  <2>3. buf = <<>> /\ msg.type = "DEV_WRITE"
    BY <1>1 DEF IInv, DataAgrees, Reading, Writing
  <2> QED
    BY <1>1, <1>3, <2>1, <2>2, <2>3 DEF DataAgrees
<1> QED
  BY <1>1, <1>5, <1>6, <1>7, <1>8, <1>9, OpenKept DEF IInv, NoStrayInterrupt

-----------------------------------------------------------------------------
(***************************************************************************)
(* The theorems.                                                           *)
(***************************************************************************)
LEMMA InitKeeps == Init => IInv
<1> SUFFICES ASSUME Init
             PROVE  IInv
  OBVIOUS
<1>1. /\ pc = "receive" /\ ~Waiting /\ ~Serving /\ todo = <<>> /\ drive = Idle
      /\ has_int_msg = FALSE /\ open_cnt = 0 /\ msg = NoMsg /\ buf = <<>>
  BY DEF Init, Waiting, Serving
<1>2. hd_info \in Infos
  <2>1. NoPart \in Parts
    BY DEF NoPart, Parts
  <2> QED
    BY <2>1 DEF Init, Infos
<1>3. OpenAgrees
  BY <1>1, <1>2, EmptyIs DEF OpenAgrees, TodoAgrees, PartsAgree
<1>4. TypeOK
  <2>1. Len(buf) <= MaxCnt /\ open_cnt \in 0 .. MaxOpen /\ left \in 0 .. MaxCnt
    BY Sizes DEF Init
  <2>2. \A k \in DOMAIN todo : FALSE
    BY <1>1
  <2> QED
    BY <1>1, <1>2, <2>1, <2>2, IdleIs DEF Init, TypeOK, Infos, Drives
<1>5. MessageAgrees /\ SignalAgrees /\ DataAgrees
  BY <1>1 DEF MessageAgrees, SignalAgrees, DataAgrees
<1>6. CommandAgrees /\ NoStrayInterrupt
  BY <1>1, IdleIs DEF Init, CommandAgrees, NoStrayInterrupt
<1> QED
  BY <1>3, <1>4, <1>5, <1>6 DEF IInv

LEMMA Invariance == Spec => []IInv
<1>1. ASSUME IInv, UNCHANGED vars
      PROVE  IInv'
  <2>1. MessageAgrees' /\ SignalAgrees' /\ CommandAgrees' /\ DataAgrees'
    BY <1>1 DEF IInv, vars, MessageAgrees, SignalAgrees, CommandAgrees, DataAgrees, Waiting,
       Serving, Works, Transfers, Done, Reading, Writing, NextSector, Moves
  <2> QED
    BY <1>1, <2>1, OpenKept DEF IInv, vars, TypeOK, NoStrayInterrupt
<1>2. IInv /\ [Next]_vars => IInv'
  BY <1>1, MessageKeeps, CommandKeeps, WaitKeeps, BlockingKeeps, AnswerKeeps, ReadForOpenKeeps,
     ReadForCallerKeeps, WriteKeeps, ExpiresKeeps, DriveReadyKeeps, HandlerKeeps
  DEF Next, Step
<1> QED
  BY <1>2, InitKeeps, PTL DEF Spec

\* Every variable of the driver keeps its type: hd_open reads only tables, no chain leads it
\* beyond the places of its extended partition, and no caller gets more than it asked for.
THEOREM TypeCorrect == Spec => []TypeOK
<1>1. IInv => TypeOK
  BY DEF IInv
<1> QED
  BY <1>1, Invariance, PTL

\* hd.c:57: the main loop never finds an interrupt that nobody waits for.
THEOREM NoInterruptIsLeft == Spec => []NoStrayInterrupt
<1>1. IInv => NoStrayInterrupt
  BY DEF IInv
<1> QED
  BY <1>1, Invariance, PTL

\* Whoever gets an answer of the driver has the sectors of its partition in their order, its
\* data on the drive, or the place of its partition, however the transfer was cut into
\* interrupts and however the tables of the drive are chained.
THEOREM AnswersAreExact == Spec => []AnswersExact
<1>1. ASSUME IInv, pc = "reply"
      PROVE  /\ drive = Idle /\ ~has_int_msg
             /\ msg.type = "DEV_IOCTL" => buf = <<Layout(msg.DEVICE)>>
             /\ msg.type = "DEV_READ" =>
                buf = [k \in 1 .. msg.CNT |-> disk[Layout(msg.DEVICE).base + msg.pos + k - 1]]
             /\ msg.type = "DEV_WRITE" => \A k \in 1 .. msg.CNT :
                    disk[Layout(msg.DEVICE).base + msg.pos + k - 1] = msg.data[k]
  <2>1. /\ drive = Idle /\ ~has_int_msg /\ todo = <<>> /\ ~Waiting
        /\ msg.type = "DEV_IOCTL" => buf = <<Layout(msg.DEVICE)>>
    BY <1>1 DEF IInv, SignalAgrees, MessageAgrees, DataAgrees, Waiting
  <2>2. msg.type \in {"DEV_READ", "DEV_WRITE"} =>
            msg.CNT \in Nat /\ msg.CNT - left = msg.CNT /\ Moves = msg.CNT
    <3>1. msg.type \in {"DEV_READ", "DEV_WRITE"} => left = 0 /\ msg.CNT \in 1 .. MaxCnt
      BY <1>1, PlacesOfDriver, TransferIs DEF IInv, MessageAgrees
    <3> QED
      BY <2>1, <3>1, Sizes DEF Moves
  <2> QED
    BY <1>1, <2>1, <2>2 DEF IInv, DataAgrees, Reading, Writing
<1>2. IInv => AnswersExact
  BY <1>1 DEF AnswersExact
<1> QED
  BY <1>2, Invariance, PTL

\* The drive changes only under a write, and only in the sectors that the write is about.
THEOREM WritesAreConfined == Spec => WritesStay
<1> DEFINE Stays == \A s \in Sectors : disk'[s] # disk[s] =>
                        msg.type = "DEV_WRITE" /\ s \in Asked(msg)
<1>1. ASSUME IInv, port_write
      PROVE  Stays
  <2>1. /\ Serving /\ Writing /\ msg.CNT - left + 1 \in 1 .. msg.CNT
        /\ disk' = [disk EXCEPT ![NextSector] = msg.data[msg.CNT - left + 1]]
    BY <1>1, WriteFacts
  <2>2. /\ NextSector = Layout(msg.DEVICE).base + msg.pos + (msg.CNT - left)
        /\ msg.CNT \in Nat /\ left \in 1 .. msg.CNT
    BY <1>1, <2>1, TransferFacts
  <2>3. msg.CNT - left \in 0 .. msg.CNT - 1
    BY <2>2
  <2>4. NextSector \in Asked(msg) /\ msg.type = "DEV_WRITE"
    BY <2>1, <2>2, <2>3 DEF Asked, Writing
  <2> QED
    BY <1>1, <2>1, <2>4 DEF IInv, TypeOK
<1>2. ASSUME [Next]_vars, ~port_write
      PROVE  Stays
  <2>1. disk' = disk
    BY <1>2 DEF Next, Step, vars, task_hd, hd_cmd_out, interrupt_wait, interrupt_wait_blocks,
       task_hd_answers, port_read, waitfor_expires, DriveReady, hd_handler
  <2> QED
    BY <2>1
<1>3. IInv /\ [Next]_vars => [Stays]_vars
  BY <1>1, <1>2
<1> QED
  BY <1>3, Invariance, PTL DEF Spec, WritesStay
=============================================================================
