-------------------------------- MODULE HdDriver -------------------------------
(***************************************************************************)
(* The hard disk driver (kernel/hd.c): task_hd with its commands and its   *)
(* partition tables, the interrupt handler, and the drive.                 *)
(*                                                                         *)
(* The driver serves one message after the other.  Inside of one it waits  *)
(* for the drive, by polling the status register and by receiving from     *)
(* INTERRUPT.  The drive is an ATA drive without faults that takes its     *)
(* time: one interrupt per sector, except before the first one of a write. *)
(***************************************************************************)
EXTENDS Integers, Sequences

CONSTANTS
    Tables,             \* what the sectors that hold a partition table say
    Sectors,            \* the sectors that hold data
    Data,               \* what a sector of data holds
    Devices,            \* the minor numbers of the partitions that are used
    NR_SUB_PER_PART,    \* the most logical partitions of an extended one
    COUNTS,             \* the values of the count register: 2^8
    MaxCnt,             \* bound: the most sectors a message asks for; FS asks for 2^11
    MaxOpen             \* bound: how often the drive is open at a time

NR_PART_PER_DRIVE == 4
MAX_PRIM == 9
MINOR_hd1a == 16
NR_SUB_PER_DRIVE == NR_SUB_PER_PART * NR_PART_PER_DRIVE

Entries == [sys_id : {"NO_PART", "MINIX_PART", "EXT_PART"}, start : Nat, size : Nat]

ASSUME TablesAssumption ==
    /\ 0 \in DOMAIN Tables /\ DOMAIN Tables \subseteq Nat
    /\ \A s \in DOMAIN Tables : \A k \in 1 .. NR_PART_PER_DRIVE : Tables[s][k] \in Entries
    /\ \E k \in 1 .. NR_PART_PER_DRIVE : Tables[0][k].sys_id # "NO_PART"
ASSUME SizesAssumption ==
    /\ NR_SUB_PER_PART \in Nat \ {0} /\ COUNTS \in Nat \ {0}
    /\ MaxCnt \in Nat \ {0} /\ MaxOpen \in Nat

-----------------------------------------------------------------------------
(***************************************************************************)
(* Where the partitions are, according to the tables of the drive.         *)
(***************************************************************************)
\* The sectors of the tables of extended partition j, one per logical partition.
Chain(j) ==
    LET ext == Tables[0][j].start
        sect[i \in 0 .. NR_SUB_PER_PART - 1] ==
            IF i = 0 THEN ext ELSE ext + Tables[sect[i - 1]][2].start
    IN  sect

\* A logical partition has a number in its extended one.
ExtendedOf(dev) == (dev - MINOR_hd1a) \div NR_SUB_PER_PART + 1
NumberOf(dev) == (dev - MINOR_hd1a) % NR_SUB_PER_PART

Layout(dev) ==
    IF dev <= NR_PART_PER_DRIVE
    THEN [base |-> Tables[0][dev].start, size |-> Tables[0][dev].size]
    ELSE LET s == Chain(ExtendedOf(dev))[NumberOf(dev)]
         IN  [base |-> s + Tables[s][1].start, size |-> Tables[s][1].size]

\* The entries of table t that hold logical partitions.
Extended(t) == {k \in 1 .. NR_PART_PER_DRIVE : t[k].sys_id = "EXT_PART"}

\* The chain of extended partition j has a table of number i.
Reaches(j, i) == \A k \in 0 .. i - 1 : Tables[Chain(j)[k]][2].sys_id # "NO_PART"

\* What is taken of the drive: the chains lead to tables; the partitions that are used
\* are in them, and have sectors of their own.
ASSUME ChainsAssumption ==
    \A j \in Extended(Tables[0]) : \A i \in 0 .. NR_SUB_PER_PART - 1 :
        Reaches(j, i) => Chain(j)[i] \in DOMAIN Tables
ASSUME DevicesAssumption ==
    /\ Devices \subseteq 1 .. NR_PART_PER_DRIVE
                        \cup MINOR_hd1a .. MINOR_hd1a + NR_SUB_PER_DRIVE - 1
    /\ \A dev \in Devices :
        IF dev <= NR_PART_PER_DRIVE THEN Tables[0][dev].sys_id # "NO_PART"
        ELSE ExtendedOf(dev) \in Extended(Tables[0]) /\ Reaches(ExtendedOf(dev), NumberOf(dev))
ASSUME SectorsAssumption ==
    /\ Sectors \subseteq Nat \ DOMAIN Tables
    /\ \A dev \in Devices : \A k \in 0 .. Layout(dev).size - 1 :
        Layout(dev).base + k \in Sectors

VARIABLES
    pc,             \* where task_hd is
    msg,            \* the message it serves, or NoMsg
    todo,           \* what hd_open still has to read from the drive
    buf,            \* what was read for the caller
    left,           \* the sectors of the message that are left
    hd_info,        \* the partitions, primary and logical ones
    open_cnt,
    has_int_msg,    \* an interrupt was noted for HD
    drive,          \* the drive: its registers, and the command it works on
    disk,           \* the sectors of data
    halted          \* what stopped the machine

vars == <<pc, msg, todo, buf, left, hd_info, open_cnt, has_int_msg, drive, disk, halted>>

NoMsg == [type |-> "none"]
NoPart == [base |-> 0, size |-> 0]

\* What hd_open reads: the identity of the drive; the partition table of the
\* drive (part 0) or one in the chain of an extended partition.
Identity == [cmd |-> "identify", part |-> 0, nr |-> 0, sect |-> 0]
Table(j, i, s) == [cmd |-> "read", part |-> j, nr |-> i, sect |-> s]

Idle == [bsy |-> FALSE, drq |-> FALSE, intrq |-> FALSE,
         cmd |-> "none", fresh |-> FALSE, sect |-> 0, count |-> 0]

Init ==
    /\ pc = "receive"
    /\ msg = NoMsg
    /\ todo = <<>>
    /\ buf = <<>>
    /\ left = 0
    /\ hd_info = [primary |-> [k \in 0 .. NR_PART_PER_DRIVE |-> NoPart],
                  logical |-> [k \in 0 .. NR_SUB_PER_DRIVE - 1 |-> NoPart]]
    /\ open_cnt = 0
    /\ has_int_msg = FALSE
    /\ drive = Idle
    /\ disk \in [Sectors -> Data]
    /\ halted = "no"

\* The sectors of the drive that message m is about.
Asked(m) == {Layout(m.DEVICE).base + m.pos + k : k \in 0 .. m.CNT - 1}

-----------------------------------------------------------------------------
(***************************************************************************)
(* The drive, and hd_handler.                                              *)
(***************************************************************************)
Runs == halted = "no"

\* The command or the sector before is done.
DriveReady ==
    /\ Runs
    /\ drive.bsy
    /\ drive' = IF drive.cmd = "write" /\ drive.count = 0
                THEN [Idle EXCEPT !.intrq = TRUE]
                ELSE [drive EXCEPT !.bsy = FALSE, !.drq = TRUE,
                                   !.intrq = drive.cmd # "write" \/ ~drive.fresh]
    /\ UNCHANGED <<pc, msg, todo, buf, left, hd_info, open_cnt, has_int_msg, disk, halted>>

\* The drive after a sector was moved through its data register.
Moved(d) ==
    IF d.cmd = "write" \/ d.count > 1
    THEN [d EXCEPT !.bsy = TRUE, !.drq = FALSE, !.fresh = FALSE,
                   !.sect = @ + 1, !.count = @ - 1]
    ELSE Idle

\* interrupt_wait returns.  A write has done one sector more.
Interrupted ==
    IF msg.type = "DEV_WRITE"
    THEN /\ left' = left - 1
         /\ pc' = IF left' = 0 THEN "reply" ELSE "drq"
    ELSE pc' = "data" /\ UNCHANGED left

\* hd_handler reads the status, which clears the interrupt, and informs HD: it
\* wakes a task that has blocked, and for any other it notes the interrupt.
hd_handler ==
    /\ Runs
    /\ drive.intrq
    /\ drive' = [drive EXCEPT !.intrq = FALSE]
    /\ IF pc = "blocked" THEN Interrupted /\ UNCHANGED has_int_msg
       ELSE has_int_msg' = TRUE /\ UNCHANGED <<pc, left>>
    /\ UNCHANGED <<msg, todo, buf, hd_info, open_cnt, disk, halted>>

-----------------------------------------------------------------------------
(***************************************************************************)
(* The commands.                                                           *)
(***************************************************************************)
\* Mutation: the logical partitions are counted within their extended one.
PartOfExtended(dev) ==
    IF dev < MAX_PRIM THEN hd_info.primary[dev]
    ELSE hd_info.logical[(dev - MINOR_hd1a) % NR_SUB_PER_PART]

Part(dev) ==
    IF dev < MAX_PRIM THEN hd_info.primary[dev]
    ELSE hd_info.logical[(dev - MINOR_hd1a) % NR_SUB_PER_DRIVE]

\* The command that the driver is about to give.
Command ==
    IF todo # <<>> THEN [cmd |-> Head(todo).cmd, sect |-> Head(todo).sect, count |-> 1]
    ELSE [cmd |-> IF msg.type = "DEV_READ" THEN "read" ELSE "write",
          sect |-> Part(msg.DEVICE).base + msg.pos,
          count |-> msg.CNT % COUNTS]

\* Mutation: a write waits for an interrupt before its first sector, too.
hd_cmd_out_waits ==
    /\ Runs
    /\ pc = "cmd"
    /\ ~drive.bsy
    /\ drive' = [bsy |-> TRUE, drq |-> FALSE, intrq |-> FALSE,
                 cmd |-> Command.cmd, fresh |-> TRUE, sect |-> Command.sect,
                 count |-> IF Command.count = 0 THEN COUNTS ELSE Command.count]
    /\ pc' = "int"
    /\ UNCHANGED <<msg, todo, buf, left, hd_info, open_cnt, has_int_msg, disk, halted>>

\* waitfor has seen BSY = 0.  The drive takes a count of 0 for the largest one.
hd_cmd_out ==
    /\ Runs
    /\ pc = "cmd"
    /\ ~drive.bsy
    /\ drive' = [bsy |-> TRUE, drq |-> FALSE, intrq |-> FALSE,
                 cmd |-> Command.cmd, fresh |-> TRUE, sect |-> Command.sect,
                 count |-> IF Command.count = 0 THEN COUNTS ELSE Command.count]
    /\ pc' = IF Command.cmd = "write" THEN "drq" ELSE "int"
    /\ UNCHANGED <<msg, todo, buf, left, hd_info, open_cnt, has_int_msg, disk, halted>>

\* waitfor gives up after ten seconds on a drive that is busy, or that asks for no
\* data: it is slow, or it has done all that its count register told it.
waitfor_expires ==
    /\ Runs
    /\ (pc = "cmd" /\ drive.bsy) \/ (pc = "drq" /\ ~drive.drq)
    /\ halted' = "panic"
    /\ UNCHANGED <<pc, msg, todo, buf, left, hd_info, open_cnt, has_int_msg, drive, disk>>

\* interrupt_wait: msg_receive finds an interrupt that was noted, or goes on to
\* block.
interrupt_wait ==
    /\ Runs
    /\ pc = "int"
    /\ has_int_msg' = FALSE
    /\ IF has_int_msg THEN Interrupted ELSE pc' = "blocking" /\ UNCHANGED left
    /\ UNCHANGED <<msg, todo, buf, hd_info, open_cnt, drive, disk, halted>>

\* An interrupt that came in between fails the assertions at the end of
\* msg_receive: it was noted, or has already cleared RECEIVING (see Ipc).
interrupt_wait_blocks ==
    /\ Runs
    /\ pc = "blocking"
    /\ IF has_int_msg THEN halted' = "assert" /\ UNCHANGED pc
       ELSE pc' = "blocked" /\ UNCHANGED halted
    /\ UNCHANGED <<msg, todo, buf, left, hd_info, open_cnt, has_int_msg, drive, disk>>

-----------------------------------------------------------------------------
(***************************************************************************)
(* task_hd.                                                                *)
(***************************************************************************)
\* What the driver may be sent: FS opens a device before it uses it, and asks for
\* sectors within it.
Messages ==
    {m \in [type : {"DEV_READ", "DEV_WRITE"}, DEVICE : Devices, pos : 0 .. MaxCnt,
            CNT : 1 .. MaxCnt, data : UNION {[1 .. n -> Data] : n \in 0 .. MaxCnt}] :
        /\ m.pos + m.CNT <= Layout(m.DEVICE).size
        /\ Len(m.data) = IF m.type = "DEV_WRITE" THEN m.CNT ELSE 0}

Requests == [type : {"DEV_OPEN", "DEV_CLOSE", "DEV_IOCTL"}, DEVICE : Devices]

hd_open(m) ==
    /\ m.type = "DEV_OPEN" /\ open_cnt < MaxOpen
    /\ todo' = IF open_cnt = 0 THEN <<Identity, Table(0, 0, 0)>> ELSE <<Identity>>
    /\ open_cnt' = open_cnt + 1
    /\ pc' = "cmd"
    /\ UNCHANGED <<buf, left>>

hd_close(m) ==
    /\ m.type = "DEV_CLOSE" /\ open_cnt > 0
    /\ open_cnt' = open_cnt - 1
    /\ pc' = "reply"
    /\ UNCHANGED <<todo, buf, left>>

hd_ioctl(m) ==
    /\ m.type = "DEV_IOCTL" /\ open_cnt > 0
    /\ buf' = <<Part(m.DEVICE)>>
    /\ pc' = "reply"
    /\ UNCHANGED <<todo, left, open_cnt>>

hd_rdwt(m) ==
    /\ m.type \in {"DEV_READ", "DEV_WRITE"} /\ open_cnt > 0
    /\ left' = m.CNT
    /\ pc' = "cmd"
    /\ UNCHANGED <<todo, buf, open_cnt>>

\* An interrupt comes before a message of FS, and task_hd does not know its type.
task_hd ==
    /\ Runs
    /\ pc = "receive"
    /\ IF has_int_msg
       THEN halted' = "spin" /\ UNCHANGED <<pc, msg, todo, buf, left, open_cnt>>
       ELSE \E m \in Messages \cup Requests :
                /\ hd_open(m) \/ hd_close(m) \/ hd_ioctl(m) \/ hd_rdwt(m)
                /\ msg' = m
                /\ UNCHANGED halted
    /\ UNCHANGED <<hd_info, has_int_msg, drive, disk>>

\* The answer, to FS that waits for it.
task_hd_answers ==
    /\ Runs
    /\ pc = "reply"
    /\ pc' = "receive"
    /\ msg' = NoMsg
    /\ buf' = <<>>
    /\ UNCHANGED <<todo, left, hd_info, open_cnt, has_int_msg, drive, disk, halted>>

-----------------------------------------------------------------------------
(***************************************************************************)
(* The data.                                                               *)
(***************************************************************************)
\* partition, for one table t: what it adds to hd_info, and the tables to read next.
FirstTable(t, k) == IF k \in Extended(t) THEN <<Table(k, 0, t[k].start)>> ELSE <<>>

primary_table(t) ==
    /\ hd_info' = [hd_info EXCEPT !.primary = [k \in DOMAIN @ |->
                    IF k = 0 \/ t[k].sys_id = "NO_PART" THEN @[k]
                    ELSE [base |-> t[k].start, size |-> t[k].size]]]
    /\ todo' = FirstTable(t, 1) \o FirstTable(t, 2) \o FirstTable(t, 3) \o FirstTable(t, 4)
               \o Tail(todo)

\* Mutation: a chain is followed to its end, however long.
extended_table_unbounded(t) ==
    LET r == Head(todo) IN
    /\ hd_info' = [hd_info EXCEPT !.logical[(r.part - 1) * NR_SUB_PER_PART + r.nr] =
                    [base |-> r.sect + t[1].start, size |-> t[1].size]]
    /\ todo' = IF t[2].sys_id = "NO_PART" THEN Tail(todo)
               ELSE <<Table(r.part, r.nr + 1, hd_info.primary[r.part].base + t[2].start)>>
                    \o Tail(todo)

\* Mutation: logical partitions start relative to the extended one.
extended_table_from_start(t) ==
    LET r == Head(todo) IN
    /\ hd_info' = [hd_info EXCEPT !.logical[(r.part - 1) * NR_SUB_PER_PART + r.nr] =
                    [base |-> hd_info.primary[r.part].base + t[1].start, size |-> t[1].size]]
    /\ todo' = IF t[2].sys_id = "NO_PART" \/ r.nr + 1 = NR_SUB_PER_PART THEN Tail(todo)
               ELSE <<Table(r.part, r.nr + 1, hd_info.primary[r.part].base + t[2].start)>>
                    \o Tail(todo)

extended_table(t) ==
    LET r == Head(todo) IN
    /\ hd_info' = [hd_info EXCEPT !.logical[(r.part - 1) * NR_SUB_PER_PART + r.nr] =
                    [base |-> r.sect + t[1].start, size |-> t[1].size]]
    /\ todo' = IF t[2].sys_id = "NO_PART" \/ r.nr + 1 = NR_SUB_PER_PART THEN Tail(todo)
               ELSE <<Table(r.part, r.nr + 1, hd_info.primary[r.part].base + t[2].start)>>
                    \o Tail(todo)

\* The identity of the drive is only printed.
read_for_open ==
    /\ IF Head(todo).cmd = "identify" THEN todo' = Tail(todo) /\ UNCHANGED hd_info
       ELSE LET t == Tables[drive.sect] IN
            IF Head(todo).part = 0 THEN primary_table(t) ELSE extended_table(t)
    /\ pc' = IF todo' = <<>> THEN "reply" ELSE "cmd"
    /\ UNCHANGED <<buf, left>>

read_for_caller ==
    /\ buf' = Append(buf, disk[drive.sect])
    /\ left' = left - 1
    /\ pc' = IF left' = 0 THEN "reply" ELSE "int"
    /\ UNCHANGED <<todo, hd_info>>

port_read ==
    /\ Runs
    /\ pc = "data"
    /\ IF todo # <<>> THEN read_for_open ELSE read_for_caller
    /\ drive' = Moved(drive)
    /\ UNCHANGED <<msg, open_cnt, has_int_msg, disk, halted>>

\* Mutation: the interrupt after the last sector is not waited for.
port_write_ahead ==
    /\ Runs
    /\ pc = "drq"
    /\ drive.drq
    /\ disk' = [disk EXCEPT ![drive.sect] = msg.data[Len(msg.data) - left + 1]]
    /\ drive' = [Moved(drive) EXCEPT !.intrq = FALSE]
    /\ pc' = IF left = 1 THEN "reply" ELSE "int"
    /\ UNCHANGED <<msg, todo, buf, left, hd_info, open_cnt, has_int_msg, halted>>

\* waitfor has seen DRQ = 1.
port_write ==
    /\ Runs
    /\ pc = "drq"
    /\ drive.drq
    /\ disk' = [disk EXCEPT ![drive.sect] = msg.data[Len(msg.data) - left + 1]]
    /\ drive' = [Moved(drive) EXCEPT !.intrq = FALSE]
    /\ pc' = "int"
    /\ UNCHANGED <<msg, todo, buf, left, hd_info, open_cnt, has_int_msg, halted>>

-----------------------------------------------------------------------------
Step ==
    \/ hd_cmd_out \/ interrupt_wait \/ interrupt_wait_blocks \/ task_hd_answers
    \/ port_read \/ port_write

Next == task_hd \/ Step \/ waitfor_expires \/ DriveReady \/ hd_handler

\* The task runs when it can (NoStarvation of Sched), waitfor does not wait for
\* ever, the drive comes to an end with every command, and its interrupts are taken.
Fairness ==
    /\ WF_vars(Step) /\ WF_vars(waitfor_expires)
    /\ WF_vars(DriveReady) /\ WF_vars(hd_handler)

Spec == Init /\ [][Next]_vars /\ Fairness

-----------------------------------------------------------------------------
Parts == [base : Nat, size : Nat]

\* Every variable has its type.
TypeOK ==
    /\ pc \in {"receive", "cmd", "int", "blocking", "blocked", "data", "drq", "reply"}
    /\ msg \in Messages \cup Requests \cup {NoMsg}
    /\ \A k \in DOMAIN todo :
        /\ todo[k].part \in 0 .. NR_PART_PER_DRIVE
        /\ todo[k].nr \in 0 .. NR_SUB_PER_PART - 1
        /\ todo[k].sect \in DOMAIN Tables
    /\ Len(buf) <= MaxCnt
    /\ left \in 0 .. MaxCnt
    /\ hd_info \in [primary : [0 .. NR_PART_PER_DRIVE -> Parts],
                    logical : [0 .. NR_SUB_PER_DRIVE - 1 -> Parts]]
    /\ open_cnt \in 0 .. MaxOpen
    /\ has_int_msg \in BOOLEAN
    /\ drive \in [bsy : BOOLEAN, drq : BOOLEAN, intrq : BOOLEAN,
                  cmd : {"none", "identify", "read", "write"}, fresh : BOOLEAN,
                  sect : Nat, count : 0 .. COUNTS]
    /\ disk \in [Sectors -> Data]
    /\ halted \in {"no", "panic", "assert", "spin"}

\* When the driver answers, it has done what was asked for: the caller has the
\* sectors that the tables of the drive give its partition, in their order, or
\* the place of the partition, or its data are on the drive; and the drive has
\* nothing left to say.
AnswersExact ==
    pc = "reply" =>
        /\ drive = Idle /\ ~has_int_msg
        /\ msg.type = "DEV_IOCTL" => buf = <<Layout(msg.DEVICE)>>
        /\ msg.type = "DEV_READ" =>
            buf = [k \in 1 .. msg.CNT |-> disk[Layout(msg.DEVICE).base + msg.pos + k - 1]]
        /\ msg.type = "DEV_WRITE" => \A k \in 1 .. msg.CNT :
            disk[Layout(msg.DEVICE).base + msg.pos + k - 1] = msg.data[k]

\* The drive changes only under a write, and only in the sectors it is about.
WritesStay ==
    [][\A s \in Sectors : disk'[s] # disk[s] =>
        msg.type = "DEV_WRITE" /\ s \in Asked(msg)]_vars

\* hd.c:57: no interrupt is left over for the main loop, which would spin.
NoStrayInterrupt == halted # "spin"

\* The driver is ready for FS again, or has stopped the machine.
Answered == pc = "receive" \/ halted \in {"panic", "assert"}

\* FS gets its answer to a request that fits the count register, unless the drive
\* is so slow that the driver panics, or so fast that its interrupt comes within
\* msg_receive.  To a longer one it gets none: hd_rdwt gives the drive the number of
\* sectors modulo COUNTS, and waits for more interrupts than come.
RequestsAnswered ==
    (/\ pc # "receive"
     /\ msg.type \in {"DEV_READ", "DEV_WRITE"} => msg.CNT <= COUNTS) ~> Answered
=============================================================================
