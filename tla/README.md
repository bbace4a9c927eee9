# MINX in TLA+

MINX is a small message-passing operating system for the i386: tasks for the
terminals, the hard disk and the file system, and user processes above them. This directory holds TLA+ models of its parts, TLC configurations that
check them on small instances, and TLAPS proofs. Paths are relative to `src/`.

## 1. The system

### Parts

| part | state | operations | correct when | modules |
|---|---|---|---|---|
| message passing (`kernel/ipc.c`, `lib/system_call.c`) | per process `p_flags`, `p_msg`, `p_recvfrom`, `p_sendto`, `has_int_msg`, `q_sending` | `msg_send`, `msg_receive`, `deadlock`, `inform_int` | a send and a receive that want each other complete together, with the right message; queues are exact; no circle of blocked senders; no wakeup lost | `Ipc`, `Rendezvous`, `IpcRefinement`, `IpcProofs` |
| scheduling (`lib/process.c`, `lib/clock.c`, `kernel/main.c`) | `ticks`, `pcb_ptr`, `Int_reEnter` | `schedule`, `clock_handler`, `kernelMain` | every process that may run runs again; a blocked one never does; a scan prefers who has most ticks, interrupts or not | `Sched` |
| terminals (`kernel/tty.c`, `lib/keyboard.c`) | the ring `kb_buf`, `key_pressed`; per terminal the ring `ibuf` and one read request | `keyboard_handler`, `keyboard_read`, `in_process`, `task_tty`, `tty_do_read`, `tty_dev_read`, `tty_dev_write` | keys are taken in order; a reader gets its line once, within its buffer | `Tty`, `Terminal`, `TtyRefinement`, `TtyProofs` |
| file system, messages (`fs/main.c`, `fs/read_write.c`, `fs/open.c`) | `fs_msg`, the suspended readers | main loop of `task_fs`, terminal half of `do_rdwt` and `do_open` | every call is answered once, with what it asked for | `FsTty`, `FsTtyProofs`, `MCFsTty` |
| file system, its data (`fs/open.c`, `fs/link.c`, `fs/misc.c`, `fs/main.c`) | inode map, sector map, inodes, root directory, `inode_table`, `f_desc_table`, `filp` | `do_open`, `create_file`, `do_close`, `do_unlink`, `get_inode`, `put_inode`, `search_file`, `mkfs` | maps, directory, inodes and cache agree; an open file stays what it is | `FsMeta`, `FsBytes`, `FsMetaProofs`, `MCFsMeta` |
| hard disk driver (`kernel/hd.c`) | `hd_info`, the drive's registers | `DEV_OPEN`, `DEV_CLOSE`, `DEV_READ`, `DEV_WRITE`, `DEV_IOCTL`, `hd_handler` | the sectors asked for are transferred, in order, and no others; every command is answered | `HdDriver`, `HdDriverProofs`, `MCHdDriver` |
| reading and writing files (`fs/read_write.c`) | `fd_pos`, `i_size`, `fsbuf`, the sectors of the files | the other half of `do_rdwt` | a read returns what was written; a write changes its own bytes | `FsRdwt`, `FsRdwtProofs`, `MCFsRdwt` |
| memory manager (`mm/*.c`) | process table: `p_flags`, `p_parent`, `exit_status`, the segments | `do_fork`, `do_exit`, `do_wait`, `cleanup`, `alloc_mem` | no zombie is lost, each process gets the answer meant for it | - (section 6) |
| system task (`kernel/main.c`) | none | `GET_TICKS`, `GET_PID` | answers the caller | - |

### Interaction

Processes share no state that the system relies on: they interact by messages,
and every system call other than `printx` and `get_ticks` is a message. The
calls go user -> FS -> HD or TTY. They are synchronous:
the caller blocks in `send_recv` until the server answers. Two things break
this order: interrupts (`inform_int`, from the clock for TTY and from
the disk for HD), and the read of a terminal, which TTY leaves open
(`SUSPEND_PROC`) until it sends FS `RESUME_PROC`.

The kernel is not preemptive, but `system_call` (`kernel/kernel.asm:282`)
enables interrupts, so `inform_int` runs between any two instructions of a
system call, on the same PCBs.

### What is hard

- Interrupts inside system calls: every test of a PCB field that `inform_int`
  also writes is a race (`ipc.c:169-181`, `247-380`). Two of them destroy messages, which
  the servers do not expect.
- `schedule()` scans and refills with interrupts on, while they wake processes and
  charge the candidate.
- Circles of blocked senders, of which `deadlock()` has to see the closing edge.
- FS and TTY send to each other.
- Answers that come much later than the call, in answer to another message.
- Maps, directory, inodes and the cache are copies of the same facts.
- The disk driver mixes polling and interrupts; one interrupt too many or too
  few hangs it or stops it.
- Bits of files that begin and end in the middle of a byte; transfers cut into
  rounds.

`PROJECT.json` lists the hazards one by one, with the properties that cover them.

## 2. How the modules model the code

**Ipc.** State: the PCB fields of the same names, `msg` (the MESSAGE each
process passed), and where the running system call is (`kpc`, `caller`, `peer`).
One action per stretch of code that commutes with `inform_int`: `SendFindsReceiver`,
`SendAsserts`, `SendCopies`, `SendClearsMsg` and `SendReleases` are lines 169-181,
`ReceiveFindsNone` to `ReceiveAsserts` lines 365-380, and so on.
`InformWakes` and `InformPends` are `inform_int`. An assertion the interrupt can
make fail is a step that may stop the machine (`stopped`). `Deadlock` is the
walk of `deadlock()` as a closed set, `Walk` the loop itself, turn by turn;
`DeadlockIsTheWalk` says that the loop ends and answers what the set does. The round
robin is left open: any process that may run is next.

**Rendezvous** is the promise without PCBs, queues and kernel steps: a pair of
calls that want each other meets in one step. **IpcRefinement** maps the state
of `Ipc` to it. The promise includes what interrupts can do to it: `Collide` (a
message overwritten by an interrupt) and `Fault` (a failed assertion).

**Sched.** `BootSlot` and `BootEnds` are `kernelMain`'s loop. `schedule()` is modelled slot
by slot: `ScanSlot` is one turn of its inner loop, `SchedulePicks` the return and
`ScheduleRefills` the loop of lines 23-26. Between any two of them an interrupt may wake a
process (`InterruptWakes`) or charge the candidate (`ClockInCall`; only when `block()`
has called `schedule()`, since the clock does not interrupt its own handler). `ClockInUser`
and `ClockInCall` are `clock_handler`. Message passing appears as what it does to `p_flags`.
`woken` is a history variable: whom interrupts have woken in this scan.

**Tty.** The keyboard and clock handlers run between any two steps of
`task_tty`, whose round is: decode one key into the ring of the current console,
take one character out, receive, and act on the message. The decoder is a
function of scan codes; a key of several codes may be half in `kb_buf`.
**Terminal** is the promise (a queue of codes that drops what it has no room for, and
a line per reader), **TtyRefinement** the mapping.

**FsTty** composes users, FS and TTY over `Rendezvous` (`K == INSTANCE`), with TTY as the
task that interrupts inform, so that the messages are those that `Ipc` implements, with all
that may happen to them: `Meet`, but also `Collide` (an interrupt inside `msg_send` destroys
a message to TTY), `Fault` (it makes an assertion of the kernel fail) and `Panic` (two
processes send to each other). `lost` is a history variable: a message was destroyed.
`FsAsserts` is the assertion of `do_rdwt` on the driver's answer (`read_write.c:59`).
The keyboard is left open.

**FsMeta.** One action per handler of `task_fs` (`Create`, `Open`, `Close`,
`Unlink` and the ways each refuses or stops), since FS handles one message after
the other. The state is the disk (`imap`, `smap`, `disk` inodes, `dir`) and the
memory of FS (`inode_table`, `f_desc_table`, `filp`). `halted` names what stopped the
machine: a table that is full, an assertion about the maps, counts and modes, the one at
the end of `alloc_smap_bit` (`smap`) or the one in `do_unlink` (`flg`).

**FsBytes** has the loops over the sector map that `FsMeta` takes for granted, byte by byte,
as `alloc_smap_bit` and `do_unlink` have them: `AllocByte` is one round of the first,
`ClearedBytes` the three parts of the second. `MapBytesAgree` compares both, in every
state of `FsMeta`, with the sets that `FsMeta` uses.

**FsRdwt** is `do_rdwt` for regular files. `fd_pos` and `i_size` are state, and so is the part
of the drive where the files lie side by side. A call is a step (FS finishes it
before it takes the next one), and inside of it `Moves` goes round by round through
`fsbuf`: which bytes of the file go to or come from which bytes of the caller's buffer. The
bytes are abstracted to where they come from: `<<f, k>>` was written as byte `k` of file
`f`, wherever it lies. The ends are those of the code, which cuts transfers by sectors, so a
write spills into the next file's sectors and a read goes past the size; nothing in the
model prevents that. `ReadsReturnWritten` holds until a write has spilt (`WritesStayInFile`).

**HdDriver.** `task_hd` takes a message and calls the handler of its type; the
handlers are sequences of commands for the drive, each of which passes through
`hd_cmd_out` (polling BSY), `interrupt_wait` (with the window of `msg_receive`
in which an interrupt fails its assertions) and `port_read` or `port_write`
(polling DRQ). `waitfor_expires` is the timeout of both polls: the drive is too slow, or
asks for no more data. `todo` are the partition tables `hd_open` has yet to read. The
drive is external: an ATA drive without faults.

Definitions called "Mutation" are the models' own tests: plausible bugs, which
the property named with them in `PROJECT.json` must find.

## 3. Runs

| run | module | states | what it shows |
|---|---|---|---|
| `ipc` | `IpcRefinement` | 60 988 | exact queues, no circle of senders, no missed rendezvous, no lost wakeup, the loop of `deadlock()` ends and answers what `Deadlock` says, asserts that hold and whom the others can hit; `Ipc` implements `Rendezvous`; calls that want each other complete; a queued sender is served (that every variable has its type is proved, and not checked here) |
| `ipc_lost` | `Ipc` | violation | an interrupt inside `msg_send` loses the message (`ipc.c:169-181`) |
| `sched` | `Sched` | 64 720 | who runs may run; a scan passes over more ticks only in favour of a process woken during it; nobody starves |
| `tty_consoles` | `Tty` | 577 360 | two consoles, switched at any moment: no character is left in the ring that is not shown |
| `tty_line` | `TtyRefinement` | 919 848 | one console implements `Terminal`, whose reader's buffer is never left; a full ring is drained |
| `fs_tty` | `MCFsTty` | 1 132 648 | FS answers those who wait, with what they asked for, also after a message was destroyed; until then a suspended reader is known to TTY, and the driver's answer is about the request of FS |
| `fs_tty_live` | `MCFsTty` | 59 888 | open, write and read return, if enter is pressed, unless a message was destroyed or the machine has stopped |
| `fs_tty_panic` | `MCFsTty` | violation | FS and TTY send to each other, and the kernel stops |
| `fs_meta` | `MCFsMeta` | 287 202 | maps, cache, counts and directory agree, and the assertions about them hold; the sector map's bytes are set and cleared exactly; an open file stays what it is |
| `fs_meta_flg` | `FsMeta` | violation | unlink does not find a file that exists (`link.c:193`) |
| `fs_rdwt` | `MCFsRdwt` | 316 338 | reads return what was written, writes change their own bytes and no others, sizes cover positions |
| `hd` | `MCHdDriver` | 127 104 | data and partitions are exact, writes stay where they belong, no stray interrupt, every request within the count register answered |

### Bounds, and why they are enough

- `ipc`: three processes give a circle of sends longer than two and a queue of two; one
  interrupt task is enough, as `inform_int` touches one PCB. The theorems have no
  such bound.
- `sched`: three processes compete, so that an interrupt can wake one behind the scan
  or ahead of it, and one slot is struck at boot; `MaxOverrun` lets a share go below zero.
  The theorems have no such bound.
- `tty_*`: rings of one or two places fill, wrap and overflow; the scan codes are one of
  each kind (character, enter, backspace, first half of a key, console switch).
- `fs_tty*`: reads of one and two characters tell "not yet full" from "full". Every user
  has its own terminal in `fs_tty`, since a second reader of one replaces the
  first (section 6). `fs_tty_live` has one user with two terminals; with two users the
  check of liveness does not end in reasonable time.
- `fs_meta`: fewer descriptors, slots and sectors than two users can ask for, so
  every table runs full; four names leave two holes in the directory. Runs of three
  sectors over bytes of two bits begin at either bit, and span two or three bytes.
- `fs_rdwt`: two files of two sectors of two bytes, and an `fsbuf` of one sector: a call takes
  one or two rounds, from any offset in a sector, and goes up to a byte past the file,
  into the next one or behind the last (`MaxSize`). In the code `fsbuf` holds as many
  sectors as a file, so that most transfers are one round. Two descriptors reach one
  file or two; they are alike (symmetry).
- `hd`: a count register of three values (`COUNTS`), so a message of three sectors is at its
  limit (the 0 that counts as all), and one of four beyond it; an empty entry before the
  primary one; a chain of tables longer than `NR_SUB_PER_PART`; data of two values tell
  sectors apart, from every initial disk. FS never asks beyond the partition here, and
  opens the drive first.

### Fairness

- `Ipc`: the system call that runs goes on; no process has to make one.
- `Sched`: the processor goes on and system calls end; the clock, which is not in step
  with the system calls, goes off in user mode again and again (strong fairness).
  Nothing is assumed of when processes block and wake.
- `Tty`: TTY is scheduled (`Sched`) and the clock ticks. Nobody has to type.
- `FsTty`: FS and TTY take their steps, a sender is served in the end
  (`SendersAreServed`), and somebody presses enter again and again. No user has to
  make a call. The message of FS to TTY is delivered or destroyed (strong fairness of
  `Meet` or `Collide`); nothing is assumed of which.
- `HdDriver`: the task runs, the drive finishes its command, its interrupt is taken, and a
  poll that waits for a drive which does not answer ends in its timeout. While the drive is
  busy the timeout may come first, and need not.

`CHECK_DEADLOCK FALSE` is used where the machine may stop (a panic, an
assertion) or where everyone may wait.

## 4. What is proved

`IpcProofs` proves, for any set of processes, interrupt tasks and message types that
satisfy `ProcsAssumption` and `NamesAssumption`, that every behaviour of `Ipc` keeps:
type correctness (`TypeCorrect`), exact queues (`QueuesAreExact`), no circle of
senders of any length (`SendsAreAcyclic`), no missed rendezvous
(`NoRendezvousIsMissed`), no lost wakeup (`WakeupsAreNotLost`), assertions
fail only in calls of interrupt tasks (`HaltsNeedInterrupts`), no call returns
to a blocked process (`OnlyRunnableRun`; `Sched` has it for the code that
chooses), and the other assertions hold (`AssertionsHold`).

None of these is inductive alone. `IInv` adds what they rest on: `PcbsAgree`
(the fields of one PCB agree, except in the windows that `kpc` names),
`CallAgrees` (the running call finds its two parties in the state its step
needs, or one of them is an interrupt task that was woken meanwhile),
`RepliesAgree` and `LostWakeupIsCaught` (an interrupt noted for a task that
already waits is in a window that ends in the assertion at `ipc.c:380`). The
proof has one lemma per conjunct (`TypeStep`, `PcbStep`, `CallStep`,
`QueueStep`, `CycleStep`, `RendezvousStep`, `WakeupStep`, `HaltStep`), each
with one step per action that disturbs it. `CycleStep` is the core: a new edge
of a blocked sender closes a circle only if the closed set that `Deadlock`
looks at holds the sender.

That the loop of `deadlock()` ends and agrees with that set (`DeadlockEnds`) is proved by
counting. The loop is a function of the turn (`Walk`). If it were still among blocked senders
after as many turns as there are processes, it would have been at one of them twice
(pigeonhole), and the senders between would be a circle, which `NoSendCycle` excludes
(`WalkEnds`). The processes that it passes are a closed set, and every closed set holds
them (`WalkFinds`).

The end of `Sched` proves `RunnerMayRun` and `PassesOnlyTheWoken` for any table of more than
one process, any share and any overrun (`TableAssumption`, `TicksAssumption`; with
one process, the only slot is the one struck at boot). Neither is inductive: `restart()`
enters the first process without a look at its flags (`BootAgrees`), who runs may still
be charged (`ChargesAreBounded`), and half way through a scan the candidate may run, and no
slot that was passed holds more ticks than it, unless it was woken meanwhile
(`ScanAgrees`).

That `Ipc` implements `Rendezvous` (`KernelImplementsRendezvous`) is proved step by step
in the last part of `IpcProofs`: each action of the kernel is mapped to a `Meet`, a
`Collide`, a `Fault`, a step of the caller, or to nothing. Two things are needed besides
`IInv`: who the parties of a copy are and what they have in hand (`CallFacts`), and that
the message of the PCB is the one that was passed (`MessagesAgree`).

`TtyProofs` proves, for any number of terminals, lengths of rings and reads, and any
scan codes (`SizesAssumption`), `TypeCorrect` and `RingsAreEmptied`
(`NoCharLeftBehind`: each round takes out what it put in, `CharsAgree`), and that `Tty`
implements `Terminal` (`TtyImplementsTerminal`). For the latter the ring of codes is the
queue in its order, around the end of the buffer (`KeysAre`), and the first `trans` places
of a reader's buffer are its line (`ReadersAre`). A request has room for what is
left of it (`RequestsAgree`); this is what keeps TTY within the reader's buffer.

`FsTtyProofs` proves, for any users, terminals and lengths (`NamesAssumption`), type
correctness, `AnswersFit` and `DriverAnswersRequest`. The argument is who has the request of a
process that waits: FS works on it, or one terminal has it, never both and never two; each
place holds what the process asked for. When a request is destroyed, FS keeps it, and
what it then takes for the driver's answer is passed on only if its length fits: this is why
`AnswersFit` holds after a loss, too. `NoReaderForgotten` (`ReadersAreKnown`) holds as long
as no message was destroyed, and has two hypotheses more, `OwnTerminals`: no two users
share a terminal, and nobody reads nothing. Without them it is false (section 6), since a
second reader replaces the first and a read of no characters looks like no request; the run
makes the same two choices.

`FsMetaProofs` proves, for tables, files, descriptors and processes of any
number (`SizesAssumption`, `NamesAssumption`), type correctness, `MapsExact`,
`CacheAgrees`, `RefsCoverDescs`, `DirectoryMaps`, `AssertsHold` and the action
property `OpenFilesStay`. They hold only together: a slot of the cache may be given
away because no descriptor is on it, an inode because no slot caches it, its
sectors because no other inode has them. To these `IInv` adds that each entry of the
directory has its own inode, also behind its end (`EntriesAgree`), that a
descriptor is of one process under one number (`FilpsAgree`), that the first slot is
for the root directory for ever (`CountsAgree`), and that sectors are given out in
aligned runs, so that the first free bit begins a free run (`RunsAligned`). Every handler
is a step of one of six kinds (stays, opens, creates, closes, refuses, unlinks) with
one lemma each.

Its second half is about the loops of `FsBytes`, for bytes, sectors and maps of any size
(`BytesAssumption`; the map is made of whole bytes): `MapBytesAgree`
(`BytesAgreeWithTheMap`). The loop is a recursive function and has a closed form,
`LoopState`: what `alloc_smap_bit` has taken before byte j. One turn takes the closed form to
the next (`AllocTurn`), so it is what the function is (`AllocLoop`). The step from one
turn to all of them is `TurnByTurn` of `Loops`: the least turn at which the two differ
would have one before it.

`FsRdwtProofs` proves, for files, sectors, `fsbuf`, positions and lengths of any size
(`RdwtAssumption`), type correctness, `SizeCovers`, `ReadsReturnWritten` and `WritesAreExact`. Its
first half is about one call: `Moved`, how many bytes `do_rdwt` has moved before round r, is
the closed form of its loop (`MovedIs`, `TransferLoop`), so a call moves consecutive bytes
of the file to or from consecutive bytes of the buffer (`TransferIs`); what it says of
the last round is division (`RoundsCover`, `MovedEnds`). The second half is the invariant:
what is on the drive was written for the place it is at (`BytesAreInPlace`), and while
nobody has written past the sectors of a file, all that was written is still there
(`WrittenIsThere`).

`HdDriverProofs` proves, for any partition tables, data, sizes of messages and of the count
register, type correctness, `AnswersExact`, `NoStrayInterrupt` and `WritesStay`. Of the drive
it takes that the chains of extended partitions lead to tables and that the partitions in use
are in the tables and have their own sectors (`ChainsAssumption`, `DevicesAssumption`,
`SectorsAssumption`; TLC evaluates them). The place of the driver tells what the
registers of the drive may hold and whether an interrupt is to come
(`SignalAgrees`); the command and the sector that the drive works on are those of the message
or of `todo` (`CommandAgrees`); what was moved so far is a beginning of the message
(`DataAgrees`), where a write is one sector ahead of the interrupts. For the partitions, each one
in use is in `hd_info`, or some table that is still in `todo` leads to it along its chain
(`PartsAgree`); that reading a table keeps this is shown for the identity, the primary table
and the tables of a chain. `ChainIs` unfolds the recursive function `Chain`.

Only model-checked: liveness under fairness (`NoStarvation`, `MeetingsComplete`,
`SendersAreServed`, `NoKeyboardStall`, `CallsReturn`, `RequestsAnswered`), which is
out of the prover's reach. Every other property of a passing run is stated by a theorem.

## 5. Disagreements found

`PROJECT.json`, "findings", has those that runs show, with the lines they contradict:

- `ipc_lost`: a message lost to an interrupt in `msg_send`.
- `fs_tty_panic`: the deadlock of FS and TTY.
- `fs_meta_flg`: the directory whose size counts entries and not positions.

Four others are in the models, where the properties say what holds in spite of them:

- A lost message, seen from FS (`read_write.c:58`): FS waits for an answer to a request that
  nobody has, so that neither the read nor any later call returns, although nothing has
  stopped (`system_call.c:187` promises the number of bytes, or -1); or it takes the
  `RESUME_PROC` of another reader for the answer, and that reader is forgotten. In `FsTty`
  `NoReaderForgotten`, `DriverAnswersRequest` and `CallsReturn` say "unless `lost`"; without
  that TLC finds them violated.
- A refill while a process that may run has ticks left (the comment at `process.c:22` says
  that nobody has): an interrupt wakes HD behind the scan. `PassesOnlyTheWoken` says that
  this is the only way.
- A write that goes on into the sectors behind its file (`read_write.c:75`; the comment at 19-20 says
  that the sectors of a file are enough). See `FsRdwt`.
- A request for more sectors than the drive's register can say (`hd.c:152`): `do_rdwt` asks
  for up to `FSBUF_SIZE >> 9` sectors at once, while `hd.h:258` knows the limit of 256 and
  `disklog.c:101` keeps to it. The drive delivers the number modulo 256 and falls silent, and
  HD, FS and its callers wait for ever. `RequestsAnswered` is about the others; for these, too, what
  is answered is exact.

## 6. Known behaviour the models have or leave out

In the models, and no property of a run:

- An interrupt inside `msg_receive` of a task that waits for interrupts fails
  the assertion at `ipc.c:376` or `380` and stops the machine (`Ipc`, `HdDriver`).
- `kernelMain`'s loop runs past `pcb_table` and marks slot `i - 1` as hanging
  (`main.c:22`): the last process of the table never runs (`Sched`).
- `tty.c:172` tests the head of `ibuf` before its increment, so after `NR_TTY_BUF`
  characters it points at `ibuf_head` itself, and the next one overwrites it (`Tty`).
- A key can wait in `kb_buf` until the next key or tick (`Tty`). A read of no
  characters never returns, and a second reader of a terminal replaces the
  first, who then never returns (`FsTty`; the runs read at least one and use
  one reader per terminal).
- A refused unlink keeps its reference to the inode (`link.c:57-68`): the file
  can never be removed. Files behind two holes drop out of the directory (`FsMeta`).
- When a table of FS is full the machine stops with a panic or an assertion; no
  caller gets an error for it (`FsMeta`, `halted`). For the sector map it is the assertion
  at `open.c:327`, since `create_file` does not ask whether sectors are left; `AssertsHold`
  says that it does not fail before.
- A read near the end of a file is cut by sectors, not to the size: it returns up to a
  sector more, or up to `fsbuf` more in the last of several rounds, and moves `fd_pos`,
  and with it `i_size`, past what was written, even past the sectors of the file
  (`read_write.c:85`, `116`). A read at the end of a file that ends with a sector returns the
  whole next one, again and again (`FsRdwt`; `ReadsReturnWritten` is about reads within
  the size and the sectors).
- `DEV_CLOSE` is handled by the driver (`HdDriver`), but FS never sends it.

Left out:

- The memory manager. Its code does not compile (`proc_table`, `NR_PROCS` and
  `NR_NATIVE_PROCS` are declared nowhere), and does not fit the kernel it is to run on:
  the spare slots of the table do not have `FREE_SLOT` (`kernel/main.c:19-61`, `fork.c:28`);
  a child keeps the pid of its parent, which the kernel takes for the source of its
  messages (`fork.c:42`, `system_call.c:100`); `schedule()` does not look at its slot
  (`process.c:10`); the message that starts it fails an assertion (`system_call.c:95-97`);
  and `task_fs` has FORK and EXIT commented out. A model would have to invent what the
  code is to become. Its hazards are listed in `PROJECT.json` without properties.
- Names that fill their field (the `strcpy` at `open.c:412` runs over it by one), a
  directory longer than a sector, an inode map longer than a sector
  (`alloc_imap_bit` returns 0). The path "/" is the entry ".". What a handler changed before it stopped the machine is not
  seen by anyone, since `mkfs` makes the file system anew at every boot.
- The screen, the leds, alt and shift, the effects of Pause and PrintScreen, formatting.
- `fs/disklog.c`: only `syslog` calls it, which nothing calls; the boot loader, the C
  library, the system task (stateless), lseek, fork and exit in FS (commented out in
  `task_fs`).

## 7. Plan

1. `FsRdwt` composed with `HdDriver` by the sectors that `do_rdwt` asks for, and with
   `FsMeta` by the files that come and go.
2. The names and positions of `FsMeta`: directories of several sectors, and names that fill
   their field.
