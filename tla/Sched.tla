--------------------------------- MODULE Sched ---------------------------------
(***************************************************************************)
(* Who runs: kernelMain fills pcb_table, schedule() picks the process with *)
(* the most ticks left, clock_handler charges the one that runs.           *)
(*                                                                         *)
(* Message passing appears as what it does to p_flags: the process that    *)
(* runs may block itself, or wake another one, in a system call, and an    *)
(* interrupt may wake one at any time.                                     *)
(***************************************************************************)
EXTENDS Integers, TLAPS

CONSTANTS
    NR_PROCS,       \* the length of pcb_table, NR_TASK + NR_USER_PROCESS
    NR_LOOP,        \* the bound of kernelMain's loop, NR_TASK + NR_MAX_USER_PROCESS
    Priority,       \* the ticks of a full share
    MaxOverrun      \* bound: the ticks a process is charged beyond its share
                    \* by clock interrupts inside system calls

\* One slot may be struck (see BootSlot), but the first process is not in it.
ASSUME TableAssumption ==
    /\ NR_PROCS \in Nat \ {0, 1}
    /\ NR_LOOP \in Nat /\ NR_LOOP >= NR_PROCS
ASSUME TicksAssumption == Priority \in Nat \ {0} /\ MaxOverrun \in Nat

VARIABLES
    p_flags,    \* per process: 0 iff it may run, 1 if it waits, -1 if hanging
    ticks,      \* per process: what is left of its share
    pcb_ptr,    \* the current process; while schedule() scans, its candidate
    mode,       \* what the processor does
    i,          \* the loop variable of kernelMain
    slot,       \* the loop variable of schedule()
    great_ticks,\* the local of schedule()
    caller,     \* the process that called schedule() in block(), or NR_PROCS
    woken       \* history: the processes an interrupt has woken in this scan

table == <<p_flags, ticks, pcb_ptr, mode>>
scan == <<slot, great_ticks, caller, woken>>
vars == <<table, i, scan>>

Procs == 0 .. NR_PROCS - 1

Modes == {"boot",       \* kernelMain, interrupts off
          "user",       \* the current process, Int_reEnter = -1
          "call",       \* its system call, Int_reEnter = 0
          "block",      \* schedule() called by block()
          "switch"}     \* schedule() called by clock_handler

Scanning == mode \in {"block", "switch"}

TypeOK ==
    /\ p_flags \in [Procs -> {-1, 0, 1}]
    /\ ticks \in [Procs -> -MaxOverrun - 1 .. Priority]
    /\ pcb_ptr \in Procs
    /\ mode \in Modes
    /\ i \in 0 .. NR_LOOP
    /\ slot \in 0 .. NR_PROCS
    /\ great_ticks \in 0 .. Priority
    /\ caller \in 0 .. NR_PROCS
    /\ woken \subseteq Procs

\* A global is 0 before kernelMain sets it.
Init ==
    /\ p_flags = [p \in Procs |-> 0]
    /\ ticks = [p \in Procs |-> 0]
    /\ pcb_ptr = 0
    /\ mode = "boot"
    /\ i = 0
    /\ slot = 0
    /\ great_ticks = 0
    /\ caller = NR_PROCS
    /\ woken = {}

-----------------------------------------------------------------------------
\* One turn of kernelMain's loop.  From the end of pcb_table on, p->p_flags = -1
\* is executed before p moves on to slot i, so it strikes slot i - 1.  What the
\* loop writes beyond pcb_table lies in the task stacks, which nothing has used.
BootSlot ==
    /\ mode = "boot"
    /\ i < NR_LOOP
    /\ p_flags' = [p \in Procs |->
                    IF i >= NR_PROCS /\ p = i - 1 THEN -1
                    ELSE IF p = i THEN 0
                    ELSE p_flags[p]]
    /\ ticks' = [p \in Procs |-> IF p = i THEN Priority ELSE ticks[p]]
    /\ i' = i + 1
    /\ UNCHANGED <<pcb_ptr, mode, scan>>

\* restart(): into the first process, whatever its flags.
BootEnds ==
    /\ mode = "boot"
    /\ i = NR_LOOP
    /\ pcb_ptr' = 0
    /\ mode' = "user"
    /\ UNCHANGED <<p_flags, ticks, i, scan>>

-----------------------------------------------------------------------------
(***************************************************************************)
(* schedule(), slot by slot, with interrupts on.  An interrupt inside the  *)
(* test of one slot is no different from one before or after it: it can    *)
(* only clear p->p_flags, and it charges pcb_ptr, which is never a slot    *)
(* that may run and is still to be scanned while the clock is on.  Nor is  *)
(* one inside the loop that refills: what it charges is either overwritten *)
(* or charged to the new share.                                            *)
(***************************************************************************)
Runnable == {p \in Procs : p_flags[p] = 0}

\* Mutation: the scan does not look at p_flags.
ScanSlotOfAny ==
    /\ Scanning
    /\ slot < NR_PROCS
    /\ IF ticks[slot] > great_ticks
       THEN great_ticks' = ticks[slot] /\ pcb_ptr' = slot
       ELSE UNCHANGED <<great_ticks, pcb_ptr>>
    /\ slot' = slot + 1
    /\ UNCHANGED <<p_flags, ticks, mode, i, caller, woken>>

\* Mutation: the first slot that has ticks is kept.
ScanSlotFirst ==
    /\ Scanning
    /\ slot < NR_PROCS
    /\ IF slot \in Runnable /\ ticks[slot] > 0 /\ great_ticks = 0
       THEN great_ticks' = ticks[slot] /\ pcb_ptr' = slot
       ELSE UNCHANGED <<great_ticks, pcb_ptr>>
    /\ slot' = slot + 1
    /\ UNCHANGED <<p_flags, ticks, mode, i, caller, woken>>

\* A slot that may run and has more ticks than the candidate replaces it.
ScanSlot ==
    /\ Scanning
    /\ slot < NR_PROCS
    /\ IF slot \in Runnable /\ ticks[slot] > great_ticks
       THEN great_ticks' = ticks[slot] /\ pcb_ptr' = slot
       ELSE UNCHANGED <<great_ticks, pcb_ptr>>
    /\ slot' = slot + 1
    /\ UNCHANGED <<p_flags, ticks, mode, i, caller, woken>>

\* schedule() returns, and the candidate runs.
SchedulePicks ==
    /\ Scanning
    /\ slot = NR_PROCS
    /\ great_ticks > 0
    /\ mode' = "user"
    /\ slot' = 0
    /\ great_ticks' = 0
    /\ caller' = NR_PROCS
    /\ woken' = {}
    /\ UNCHANGED <<p_flags, ticks, pcb_ptr, i>>

\* Mutation: only the process that has run gets a new share.
ScheduleRefillsOne ==
    /\ Scanning
    /\ slot = NR_PROCS
    /\ great_ticks = 0
    /\ ticks' = [ticks EXCEPT ![pcb_ptr] = Priority]
    /\ slot' = 0
    /\ woken' = {}
    /\ UNCHANGED <<p_flags, pcb_ptr, mode, i, great_ticks, caller>>

\* Mutation: a refill after every turn of the loop.
ScheduleRefillsAlways ==
    /\ Scanning
    /\ slot = NR_PROCS
    /\ ticks' = [p \in Procs |-> Priority]
    /\ slot' = 0
    /\ woken' = {}
    /\ UNCHANGED <<p_flags, pcb_ptr, mode, i, great_ticks, caller>>

\* The scan has found nobody: every process gets a new share, and the scan
\* starts again, and so on while nobody may run.
ScheduleRefills ==
    /\ Scanning
    /\ slot = NR_PROCS
    /\ great_ticks = 0
    /\ ticks' = [p \in Procs |-> Priority]
    /\ slot' = 0
    /\ woken' = {}
    /\ UNCHANGED <<p_flags, pcb_ptr, mode, i, great_ticks, caller>>

ClockInUser ==
    /\ mode = "user"
    /\ ticks' = [ticks EXCEPT ![pcb_ptr] = @ - 1]
    /\ mode' = IF ticks'[pcb_ptr] > 0 THEN "user" ELSE "switch"
    /\ UNCHANGED <<p_flags, pcb_ptr, i, scan>>

\* Int_reEnter # 0: who is current is charged and goes on, in schedule() the
\* candidate of the moment.  (The clock is masked while its own handler runs
\* schedule().)
ClockInCall ==
    /\ mode \in {"call", "block"}
    /\ ticks[pcb_ptr] > -MaxOverrun
    /\ ticks' = [ticks EXCEPT ![pcb_ptr] = @ - 1]
    /\ UNCHANGED <<p_flags, pcb_ptr, mode, i, scan>>

-----------------------------------------------------------------------------
Call ==
    /\ mode = "user"
    /\ mode' = "call"
    /\ UNCHANGED <<p_flags, ticks, pcb_ptr, i, scan>>

CallReturns ==
    /\ mode = "call"
    /\ mode' = "user"
    /\ UNCHANGED <<p_flags, ticks, pcb_ptr, i, scan>>

\* msg_send or msg_receive blocks its caller.
CallBlocks ==
    /\ mode = "call"
    /\ p_flags' = [p_flags EXCEPT ![pcb_ptr] = 1]
    /\ mode' = "block"
    /\ caller' = pcb_ptr
    /\ UNCHANGED <<ticks, pcb_ptr, i, slot, great_ticks, woken>>

\* msg_send or msg_receive completes the call of a process that waits.
CallWakes(p) ==
    /\ mode = "call"
    /\ p_flags[p] = 1
    /\ p_flags' = [p_flags EXCEPT ![p] = 0]
    /\ UNCHANGED <<ticks, pcb_ptr, mode, i, scan>>

\* inform_int, except to the process that is being blocked: msg_receive then
\* stops the machine when schedule() returns to it (see Ipc for that).
InterruptWakes(p) ==
    /\ mode # "boot"
    /\ p_flags[p] = 1
    /\ p # caller
    /\ p_flags' = [p_flags EXCEPT ![p] = 0]
    /\ woken' = IF Scanning THEN woken \cup {p} ELSE woken
    /\ UNCHANGED <<ticks, pcb_ptr, mode, i, slot, great_ticks, caller>>

Schedule == ScanSlot \/ SchedulePicks \/ ScheduleRefills

Next ==
    \/ BootSlot
    \/ BootEnds
    \/ Schedule
    \/ ClockInUser
    \/ ClockInCall
    \/ Call
    \/ CallReturns
    \/ CallBlocks
    \/ \E p \in Procs : CallWakes(p) \/ InterruptWakes(p)

Spec == Init /\ [][Next]_vars

\* The processor goes on, system calls end, and the clock is not in step with
\* the system calls: it goes off in user mode, too, again and again.
Fairness ==
    /\ WF_vars(BootSlot \/ BootEnds)
    /\ WF_vars(Schedule)
    /\ WF_vars(CallReturns \/ CallBlocks)
    /\ SF_vars(ClockInUser)

FairSpec == Spec /\ Fairness

-----------------------------------------------------------------------------
\* The processor never executes a process that waits: schedule() does not choose one,
\* whatever interrupts do to flags and ticks while it scans.
RunnerMayRun == TypeOK /\ (mode \in {"user", "call"} => p_flags[pcb_ptr] = 0)

\* What schedule() does: when its scan ends, it has passed over a process that may run
\* and has more ticks than the one it chose, or any ticks before a refill, only if an
\* interrupt has woken that process in this very scan.
PassesOnlyTheWoken ==
    [][slot = NR_PROCS /\ slot' = 0
        => \A p \in Runnable \ woken :
              ticks[p] <= IF mode' = "user" THEN great_ticks ELSE 0]_vars

\* A process that may run from some time on runs again and again, whatever the
\* others do with blocking and waking: the ticks decide, and they run out.
NoStarvation ==
    \A p \in Procs :
        <>[](p_flags[p] = 0) => []<>(pcb_ptr = p /\ mode = "user")

-----------------------------------------------------------------------------
(***************************************************************************)
(* The safety of the scheduler, for any number of processes and any share. *)
(*                                                                         *)
(* RunnerMayRun is not inductive: restart() enters the first process       *)
(* without a look at its flags (BootAgrees), a process is charged only     *)
(* while it is current (ChargesAreBounded), and what schedule() returns to *)
(* was found by its scan (ScanAgrees).                                     *)
(***************************************************************************)
\* While kernelMain fills the table, the first process is not struck.
BootAgrees == mode = "boot" => p_flags[0] = 0 /\ ticks[0] >= 0

\* Who runs may be charged once more.
ChargesAreBounded ==
    mode \in {"user", "call", "block"} => ticks[pcb_ptr] >= -MaxOverrun

\* The candidate may run and be charged, and of the slots behind the scan only those of
\* processes woken meanwhile can hold more ticks than it had.
ScanAgrees ==
    /\ Scanning /\ great_ticks > 0
           => p_flags[pcb_ptr] = 0 /\ ticks[pcb_ptr] >= -MaxOverrun
    /\ Scanning => \A p \in Runnable \ woken : p < slot => ticks[p] <= great_ticks
    /\ ~Scanning => slot = 0 /\ great_ticks = 0

IInv == RunnerMayRun /\ BootAgrees /\ ChargesAreBounded /\ ScanAgrees

-----------------------------------------------------------------------------
\* Before kernelMain's loop, all shares are 0 and the first process is not struck.
LEMMA InitHolds == Init => IInv
  BY TableAssumption, TicksAssumption
  DEF Init, IInv, RunnerMayRun, BootAgrees, ChargesAreBounded, ScanAgrees, TypeOK,
      Procs, Modes, Scanning

\* kernelMain's loop, schedule(), the clock and the calls keep the invariant.
LEMMA StepHolds ==
  ASSUME IInv, [Next]_vars
  PROVE  IInv'
<1> USE TableAssumption, TicksAssumption
    DEF IInv, RunnerMayRun, BootAgrees, ChargesAreBounded, ScanAgrees, TypeOK, Modes,
        Scanning, Runnable, table, scan
<1>0. 0 \in Procs /\ Procs \subseteq Nat /\ \A p \in 0 .. NR_PROCS : p < NR_PROCS => p \in Procs
  BY DEF Procs
<1>1. CASE BootSlot
  BY <1>0, <1>1 DEF BootSlot
<1>2. CASE BootEnds
  BY <1>0, <1>2 DEF BootEnds
<1>3. CASE ScanSlot
  BY <1>0, <1>3 DEF ScanSlot
<1>4. CASE SchedulePicks
  BY <1>0, <1>4 DEF SchedulePicks
<1>5. CASE ScheduleRefills
  BY <1>0, <1>5 DEF ScheduleRefills
<1>6. CASE ClockInUser
  BY <1>0, <1>6 DEF ClockInUser
<1>7. CASE ClockInCall
  BY <1>0, <1>7 DEF ClockInCall
<1>8. CASE Call
  BY <1>8 DEF Call
<1>9. CASE CallReturns
  BY <1>9 DEF CallReturns
<1>10. CASE CallBlocks
  BY <1>0, <1>10 DEF CallBlocks, Procs
<1>11. ASSUME NEW p \in Procs, CallWakes(p)
       PROVE  IInv'
  BY <1>0, <1>11 DEF CallWakes
<1>12. ASSUME NEW p \in Procs, InterruptWakes(p)
       PROVE  IInv'
  BY <1>0, <1>12 DEF InterruptWakes
<1>13. CASE UNCHANGED vars
  BY <1>13 DEF vars
<1> QED
  BY <1>1, <1>2, <1>3, <1>4, <1>5, <1>6, <1>7, <1>8, <1>9, <1>10, <1>11, <1>12, <1>13
  DEF Next, Schedule

-----------------------------------------------------------------------------
\* In every state: who runs may run and may be charged, in the boot the first
\* process is not struck, and a scan has the best of those it has seen.
LEMMA Invariance == Spec => []IInv
  BY InitHolds, StepHolds, PTL DEF Spec

\* The processor never executes a process that waits or hangs, and shares stay within
\* their bounds.
THEOREM OnlyThoseWhoMayRun == Spec => []RunnerMayRun
<1>1. IInv => RunnerMayRun
  BY DEF IInv
<1> QED
  BY <1>1, Invariance, PTL

\* Whom the end of a scan passes over, with ticks left at a refill or with more than the
\* one that is chosen, was woken by an interrupt during the scan.
THEOREM ScansPassOnlyTheWoken == Spec => PassesOnlyTheWoken
<1> DEFINE ScanEnds == slot = NR_PROCS /\ slot' = 0
           Passes == ScanEnds => \A p \in Runnable \ woken :
                                    ticks[p] <= IF mode' = "user" THEN great_ticks ELSE 0
<1>1. ASSUME IInv, [Next]_vars
      PROVE  [Passes]_vars
  <2> SUFFICES ASSUME ScanEnds, NEW p \in Runnable \ woken
               PROVE  ticks[p] <= IF mode' = "user" THEN great_ticks ELSE 0
    OBVIOUS
  <2>1. Scanning /\ slot # slot'
    BY <1>1, TableAssumption DEF IInv, ScanAgrees
  <2>2. ticks[p] <= great_ticks
    BY <1>1, <2>1, TableAssumption DEF IInv, ScanAgrees, Runnable, Procs
  <2>3. great_ticks \in Nat /\ ~(slot < NR_PROCS)
    BY <1>1, TableAssumption, TicksAssumption DEF IInv, RunnerMayRun, TypeOK
  <2>4. SchedulePicks \/ ScheduleRefills
    BY <1>1, <2>1, <2>3
    DEF Next, Schedule, BootSlot, BootEnds, ScanSlot, ClockInUser, ClockInCall, Call,
        CallReturns, CallBlocks, CallWakes, InterruptWakes, vars, scan
  <2>5. (mode' = "user") \/ great_ticks = 0
    BY <2>4 DEF SchedulePicks, ScheduleRefills
  <2> QED
    BY <2>2, <2>3, <2>5
<1> QED
  BY <1>1, Invariance, PTL DEF Spec, PassesOnlyTheWoken
=============================================================================
