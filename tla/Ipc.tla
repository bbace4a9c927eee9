---------------------------------- MODULE Ipc ----------------------------------
(***************************************************************************)
(* The message-passing core of the MINX kernel: kernel/ipc.c, entered      *)
(* through sys_sendrec of lib/system_call.c, with the interrupts that      *)
(* kernel.asm lets in while a system call runs.                            *)
(*                                                                         *)
(* The kernel is not preemptive: the clock switches processes only when it *)
(* interrupts user mode (Int_reEnter = 0), and a system call ends or       *)
(* blocks before another one starts.  But system_call executes `sti'       *)
(* (kernel.asm:282), so inform_int runs between any two instructions of a  *)
(* system call.  Instructions that commute with inform_int are one step    *)
(* here; those that do not are separate steps, named by kpc.               *)
(*                                                                         *)
(* What processes do is left open: a process in user mode makes any legal  *)
(* call, with any peer and any message.  The round robin of schedule() is  *)
(* left open too: it picks any process that may run (module Sched has the  *)
(* ticks).                                                                 *)
(***************************************************************************)
EXTENDS SequencesExt

CONSTANTS
    Procs,      \* the processes of pcb_table
    IntTasks,   \* the tasks some interrupt handler informs (TTY, HD)
    MsgTypes,   \* the message types processes send
    HARD_INT,   \* the type of the message that stands for an interrupt
    ANY, INTERRUPT, NO_TASK,    \* the peers that are not processes
    SENDING, RECEIVING          \* the bits of p_flags

ASSUME ProcsAssumption == IsFiniteSet(Procs) /\ IntTasks \subseteq Procs

ASSUME NamesAssumption ==
    /\ {ANY, INTERRUPT, NO_TASK} \cap Procs = {}
    /\ ANY # INTERRUPT /\ ANY # NO_TASK /\ INTERRUPT # NO_TASK
    /\ SENDING # RECEIVING
    /\ HARD_INT \notin MsgTypes

VARIABLES
    p_flags,        \* per process: the set of reasons why it may not run
    p_msg,          \* per process: TRUE iff PCB.p_msg is not NULL
    p_recvfrom,     \* per process: from whom it waits for a message
    p_sendto,       \* per process: to whom it waits to send
    has_int_msg,    \* per process: an interrupt waits to be received
    q_sending,      \* per process: those that wait to send to it, in order
    msg,            \* per process: the MESSAGE it passed to the kernel
    reply_from,     \* per process: the peer of the RECEIVE half of a BOTH
    pcb_ptr,        \* the current process
    kpc,            \* where the system call that runs is, or "user"
    caller,         \* the process whose system call runs
    peer,           \* the dest_process_pid of that call
    stopped         \* why the machine stands still, or "no"

pcbVars == <<p_flags, p_msg, p_recvfrom, p_sendto, has_int_msg, q_sending>>
callVars == <<kpc, caller, peer>>
vars == <<pcbVars, msg, reply_from, pcb_ptr, callVars, stopped>>

Messages == [source : Procs \cup {INTERRUPT, NO_TASK},
             type : MsgTypes \cup {HARD_INT, NO_TASK}]

\* The message inform_int and msg_receive make up for an interrupt.
IntMessage == [source |-> INTERRUPT, type |-> HARD_INT]

SendSteps == {"msg_send", "send_assert", "send_copy", "send_clear_msg",
              "send_release", "send_block"}
ReceiveSteps == {"msg_receive", "receive_int", "receive_from",
                 "receive_block", "receive_schedule", "receive_assert"}

TypeOK ==
    /\ p_flags \in [Procs -> SUBSET {SENDING, RECEIVING}]
    /\ p_msg \in [Procs -> BOOLEAN]
    /\ p_recvfrom \in [Procs -> Procs \cup {ANY, INTERRUPT, NO_TASK}]
    /\ p_sendto \in [Procs -> Procs \cup {NO_TASK}]
    /\ has_int_msg \in [Procs -> BOOLEAN]
    /\ q_sending \in [Procs -> Seq(Procs)]
    /\ msg \in [Procs -> Messages]
    /\ reply_from \in [Procs -> Procs \cup {NO_TASK}]
    /\ pcb_ptr \in Procs
    /\ kpc \in {"user"} \cup SendSteps \cup ReceiveSteps
    /\ caller \in Procs \cup {NO_TASK}
    /\ peer \in Procs \cup {ANY, INTERRUPT, NO_TASK}
    /\ stopped \in {"no", "panic", "assert"}

Init ==
    /\ p_flags = [p \in Procs |-> {}]
    /\ p_msg = [p \in Procs |-> FALSE]
    /\ p_recvfrom = [p \in Procs |-> NO_TASK]
    /\ p_sendto = [p \in Procs |-> NO_TASK]
    /\ has_int_msg = [p \in Procs |-> FALSE]
    /\ q_sending = [p \in Procs |-> <<>>]
    /\ msg = [p \in Procs |-> [source |-> NO_TASK, type |-> NO_TASK]]
    /\ reply_from = [p \in Procs |-> NO_TASK]
    /\ pcb_ptr \in Procs
    /\ kpc = "user"
    /\ caller = NO_TASK
    /\ peer = NO_TASK
    /\ stopped = "no"

-----------------------------------------------------------------------------
(***************************************************************************)
(* Small steps the kernel's functions share.                               *)
(***************************************************************************)
Sending(p) == SENDING \in p_flags[p]
Receiving(p) == RECEIVING \in p_flags[p]
Runnable == {p \in Procs : p_flags[p] = {}}

\* Mutation: the test of msg_send without its second half, ANY.
WaitsForNamed(p, s) == Receiving(p) /\ p_recvfrom[p] = s

\* p waits in msg_receive for a message that s may send.
WaitsFor(p, s) == Receiving(p) /\ p_recvfrom[p] \in {s, ANY}

\* Mutation: inform_int wakes a task whatever it waits for.
WaitsAtAll(p) == Receiving(p)

\* p waits in msg_receive for something that an interrupt satisfies.
WaitsForInt(p) == Receiving(p) /\ p_recvfrom[p] \in {INTERRUPT, ANY}

Return ==
    /\ kpc' = "user"
    /\ caller' = NO_TASK
    /\ peer' = NO_TASK

\* The next step of the call that runs.
Goto(step) ==
    /\ kpc' = step
    /\ UNCHANGED <<caller, peer>>

\* A step behind an assertion.  A failed one ends in printx, which halts the
\* machine, or in spin(), which never leaves ring 0.  The assertions that
\* interrupts can make fail are steps; AssertsHold has the others.
Checked(assertion, step) ==
    IF assertion THEN step /\ UNCHANGED stopped
                 ELSE stopped' = "assert" /\ UNCHANGED callVars

\* Mutation: deadlock() looks at dest only and does not walk on.
DeadlockDirect(src, dest) == Sending(dest) /\ p_sendto[dest] = src

\* The loop of deadlock(): where it is after each turn.  It ends at a proc that is
\* not sending; src is not, and it looks for src one turn ahead.
Walk(dest) ==
    LET p[turn \in 0 .. Cardinality(Procs)] ==
            IF turn = 0 THEN dest
            ELSE IF Sending(p[turn - 1]) THEN p_sendto[p[turn - 1]]
            ELSE p[turn - 1]
    IN  p

\* dest waits, through a chain of sends, for src: src is in every set that holds dest
\* and is closed under p_sendto.
Deadlock(src, dest) ==
    \A S \in SUBSET Procs :
        /\ dest \in S
        /\ \A p \in S : Sending(p) => p_sendto[p] \in S
        => src \in S

-----------------------------------------------------------------------------
(***************************************************************************)
(* User mode: the calls a process makes, and the clock.                    *)
(***************************************************************************)
InUser == stopped = "no" /\ kpc = "user"
In(step) == stopped = "no" /\ kpc = step

\* send_recv(SEND or BOTH, dest, m): sys_sendrec stamps the source.
CallSend(dest, type, both) ==
    /\ InUser
    /\ reply_from[pcb_ptr] = NO_TASK
    /\ dest # pcb_ptr
    /\ msg' = [msg EXCEPT ![pcb_ptr] = [source |-> pcb_ptr, type |-> type]]
    /\ reply_from' = [reply_from EXCEPT ![pcb_ptr] = IF both THEN dest ELSE NO_TASK]
    /\ kpc' = "msg_send"
    /\ caller' = pcb_ptr
    /\ peer' = dest
    /\ UNCHANGED <<pcbVars, pcb_ptr, stopped>>

\* send_recv(RECEIVE, from, m): the message is cleared before the call.
CallReceive(from) ==
    /\ InUser
    /\ reply_from[pcb_ptr] = NO_TASK
    /\ from # pcb_ptr
    /\ msg' = [msg EXCEPT ![pcb_ptr] = [source |-> pcb_ptr, type |-> NO_TASK]]
    /\ kpc' = "msg_receive"
    /\ caller' = pcb_ptr
    /\ peer' = from
    /\ UNCHANGED <<pcbVars, reply_from, pcb_ptr, stopped>>

\* The second half of a BOTH: the same MESSAGE is used again, uncleared.
CallReceiveReply ==
    /\ InUser
    /\ reply_from[pcb_ptr] # NO_TASK
    /\ msg' = [msg EXCEPT ![pcb_ptr].source = pcb_ptr]
    /\ reply_from' = [reply_from EXCEPT ![pcb_ptr] = NO_TASK]
    /\ kpc' = "msg_receive"
    /\ caller' = pcb_ptr
    /\ peer' = reply_from[pcb_ptr]
    /\ UNCHANGED <<pcbVars, pcb_ptr, stopped>>

\* A clock interrupt in user mode whose process has used its ticks.
Preempt ==
    /\ InUser
    /\ pcb_ptr' \in Runnable
    /\ UNCHANGED <<pcbVars, msg, reply_from, callVars, stopped>>

-----------------------------------------------------------------------------
(***************************************************************************)
(* msg_send(caller, peer, msg[caller])                                     *)
(***************************************************************************)
SendPanics ==
    /\ In("msg_send")
    /\ Deadlock(caller, peer)
    /\ stopped' = "panic"
    /\ UNCHANGED <<pcbVars, msg, reply_from, pcb_ptr, callVars>>

SendFindsReceiver ==
    /\ In("msg_send")
    /\ ~Deadlock(caller, peer)
    /\ WaitsFor(peer, caller)
    /\ Goto("send_assert")
    /\ UNCHANGED <<pcbVars, msg, reply_from, pcb_ptr, stopped>>

\* The receiver is not waiting: the caller joins its queue and blocks.
SendEnqueues ==
    /\ In("msg_send")
    /\ ~Deadlock(caller, peer)
    /\ ~WaitsFor(peer, caller)
    /\ p_flags' = [p_flags EXCEPT ![caller] = @ \cup {SENDING}]
    /\ p_sendto' = [p_sendto EXCEPT ![caller] = peer]
    /\ p_msg' = [p_msg EXCEPT ![caller] = TRUE]
    /\ q_sending' = [q_sending EXCEPT ![peer] = Append(@, caller)]
    /\ Goto("send_block")
    /\ UNCHANGED <<p_recvfrom, has_int_msg, msg, reply_from, pcb_ptr, stopped>>

\* schedule() spins, interrupts enabled, until some process may run.
SendSchedules ==
    /\ In("send_block")
    /\ pcb_ptr' \in Runnable
    /\ Return
    /\ UNCHANGED <<pcbVars, msg, reply_from, stopped>>

\* assert(receiver->p_msg)
SendAsserts ==
    /\ In("send_assert")
    /\ Checked(p_msg[peer], Goto("send_copy"))
    /\ UNCHANGED <<pcbVars, msg, reply_from, pcb_ptr>>

\* *(receiver->p_msg) = *m.  If inform_int has just cleared p_msg the message
\* goes to address 0, which the loader maps: it is lost without a trap.
SendCopies ==
    /\ In("send_copy")
    /\ msg' = IF p_msg[peer] THEN [msg EXCEPT ![peer] = msg[caller]] ELSE msg
    /\ Goto("send_clear_msg")
    /\ UNCHANGED <<pcbVars, reply_from, pcb_ptr, stopped>>

\* Mutation: receiver->p_msg is not reset.
SendKeepsMsg ==
    /\ In("send_clear_msg")
    /\ Goto("send_release")
    /\ UNCHANGED <<pcbVars, msg, reply_from, pcb_ptr, stopped>>

SendClearsMsg ==
    /\ In("send_clear_msg")
    /\ p_msg' = [p_msg EXCEPT ![peer] = FALSE]
    /\ Goto("send_release")
    /\ UNCHANGED <<p_flags, p_recvfrom, p_sendto, has_int_msg, q_sending,
                   msg, reply_from, pcb_ptr, stopped>>

\* The receiver may run again, and the call ends.
SendReleases ==
    /\ In("send_release")
    /\ p_flags' = [p_flags EXCEPT ![peer] = @ \ {RECEIVING}]
    /\ p_recvfrom' = [p_recvfrom EXCEPT ![peer] = NO_TASK]
    /\ Return
    /\ UNCHANGED <<p_msg, p_sendto, has_int_msg, q_sending,
                   msg, reply_from, pcb_ptr, stopped>>

-----------------------------------------------------------------------------
(***************************************************************************)
(* msg_receive(caller, peer, msg[caller])                                  *)
(***************************************************************************)
IntPending == has_int_msg[caller] /\ peer \in {ANY, INTERRUPT}

ReceiveTakesInt ==
    /\ In("msg_receive")
    /\ IntPending
    /\ msg' = [msg EXCEPT ![caller] = IntMessage]
    /\ has_int_msg' = [has_int_msg EXCEPT ![caller] = FALSE]
    /\ Goto("receive_int")
    /\ UNCHANGED <<p_flags, p_msg, p_recvfrom, p_sendto, q_sending,
                   reply_from, pcb_ptr, stopped>>

\* The asserts of lines 265-268.
ReceiveIntAsserts ==
    /\ In("receive_int")
    /\ Checked(/\ p_flags[caller] = {}
               /\ ~p_msg[caller]
               /\ p_sendto[caller] = NO_TASK
               /\ ~has_int_msg[caller],
               Return)
    /\ UNCHANGED <<pcbVars, msg, reply_from, pcb_ptr>>

\* Mutation: a certain sender is found only at the head of the queue.
SenderAtHead ==
    {p \in Procs :
        /\ q_sending[caller] # <<>> /\ p = Head(q_sending[caller])
        /\ peer \in {ANY, p}}

\* Mutation: ANY is served from the wrong end of the queue.
SenderAtEnd ==
    {p \in Procs :
        /\ Sending(p) /\ p_sendto[p] = caller
        /\ IF peer = ANY THEN q_sending[caller] # <<>> /\ p = Last(q_sending[caller])
                         ELSE p = peer}

\* The queued senders this call may take: the first in the queue for ANY, the
\* one asked for, wherever it stands, for a certain process.
Sender ==
    {p \in Procs :
        /\ Sending(p) /\ p_sendto[p] = caller
        /\ IF peer = ANY THEN q_sending[caller] # <<>> /\ p = Head(q_sending[caller])
                         ELSE p = peer}

\* Mutation: a sender in the middle is served, the head of the queue unlinked.
ReceiveUnlinksHead(sender) ==
    /\ In("msg_receive")
    /\ ~IntPending
    /\ sender \in Sender
    /\ q_sending' = [q_sending EXCEPT ![caller] = Tail(@)]
    /\ msg' = [msg EXCEPT ![caller] = msg[sender]]
    /\ p_msg' = [p_msg EXCEPT ![sender] = FALSE]
    /\ p_sendto' = [p_sendto EXCEPT ![sender] = NO_TASK]
    /\ p_flags' = [p_flags EXCEPT ![sender] = @ \ {SENDING}]
    /\ Return
    /\ UNCHANGED <<p_recvfrom, has_int_msg, reply_from, pcb_ptr, stopped>>

ReceiveTakesSender(sender) ==
    /\ In("msg_receive")
    /\ ~IntPending
    /\ sender \in Sender
    /\ \E i \in DOMAIN q_sending[caller] :
        /\ q_sending[caller][i] = sender
        /\ q_sending' = [q_sending EXCEPT ![caller] = RemoveAt(@, i)]
    /\ msg' = [msg EXCEPT ![caller] = msg[sender]]
    /\ p_msg' = [p_msg EXCEPT ![sender] = FALSE]
    /\ p_sendto' = [p_sendto EXCEPT ![sender] = NO_TASK]
    /\ p_flags' = [p_flags EXCEPT ![sender] = @ \ {SENDING}]
    /\ Return
    /\ UNCHANGED <<p_recvfrom, has_int_msg, reply_from, pcb_ptr, stopped>>

\* Mutation: receiver->p_msg is not set.
ReceiveForgetsMsg ==
    /\ In("msg_receive")
    /\ ~IntPending
    /\ Sender = {}
    /\ p_flags' = [p_flags EXCEPT ![caller] = @ \cup {RECEIVING}]
    /\ Goto("receive_from")
    /\ UNCHANGED <<p_msg, p_recvfrom, p_sendto, has_int_msg, q_sending,
                   msg, reply_from, pcb_ptr, stopped>>

\* Nobody is sending.  An interrupt that comes before p_recvfrom is set finds
\* the old one and is only noted in has_int_msg.
ReceiveFindsNone ==
    /\ In("msg_receive")
    /\ ~IntPending
    /\ Sender = {}
    /\ p_flags' = [p_flags EXCEPT ![caller] = @ \cup {RECEIVING}]
    /\ p_msg' = [p_msg EXCEPT ![caller] = TRUE]
    /\ Goto("receive_from")
    /\ UNCHANGED <<p_recvfrom, p_sendto, has_int_msg, q_sending,
                   msg, reply_from, pcb_ptr, stopped>>

ReceiveSetsFrom ==
    /\ In("receive_from")
    /\ p_recvfrom' = [p_recvfrom EXCEPT ![caller] = peer]
    /\ Goto("receive_block")
    /\ UNCHANGED <<p_flags, p_msg, p_sendto, has_int_msg, q_sending,
                   msg, reply_from, pcb_ptr, stopped>>

\* block(): assert(p->p_flags)
ReceiveBlocks ==
    /\ In("receive_block")
    /\ Checked(p_flags[caller] # {}, Goto("receive_schedule"))
    /\ UNCHANGED <<pcbVars, msg, reply_from, pcb_ptr>>

ReceiveSchedules ==
    /\ In("receive_schedule")
    /\ pcb_ptr' \in Runnable
    /\ Goto("receive_assert")
    /\ UNCHANGED <<pcbVars, msg, reply_from, stopped>>

\* Mutation: no assert(receiver->has_int_msg == 0).
ReceiveAssertsLess ==
    /\ In("receive_assert")
    /\ Checked(p_flags[caller] = {RECEIVING} /\ p_msg[caller], Return)
    /\ UNCHANGED <<pcbVars, msg, reply_from, pcb_ptr>>

\* The asserts of lines 376-380, on the process that has just been blocked.
ReceiveAsserts ==
    /\ In("receive_assert")
    /\ Checked(/\ p_flags[caller] = {RECEIVING}
               /\ p_msg[caller]
               /\ p_recvfrom[caller] # NO_TASK
               /\ p_sendto[caller] = NO_TASK
               /\ ~has_int_msg[caller],
               Return)
    /\ UNCHANGED <<pcbVars, msg, reply_from, pcb_ptr>>

-----------------------------------------------------------------------------
(***************************************************************************)
(* inform_int(task), from the clock handler (TTY) or the disk's (HD).      *)
(***************************************************************************)
InformWakes(task) ==
    /\ stopped = "no"
    /\ WaitsForInt(task)
    /\ msg' = IF p_msg[task] THEN [msg EXCEPT ![task] = IntMessage] ELSE msg
    /\ p_msg' = [p_msg EXCEPT ![task] = FALSE]
    /\ has_int_msg' = [has_int_msg EXCEPT ![task] = FALSE]
    /\ p_flags' = [p_flags EXCEPT ![task] = @ \ {RECEIVING}]
    /\ p_recvfrom' = [p_recvfrom EXCEPT ![task] = NO_TASK]
    /\ UNCHANGED <<p_sendto, q_sending, reply_from, pcb_ptr, callVars, stopped>>

InformPends(task) ==
    /\ stopped = "no"
    /\ ~WaitsForInt(task)
    /\ has_int_msg' = [has_int_msg EXCEPT ![task] = TRUE]
    /\ UNCHANGED <<p_flags, p_msg, p_recvfrom, p_sendto, q_sending,
                   msg, reply_from, pcb_ptr, callVars, stopped>>

-----------------------------------------------------------------------------
UserStep ==
    \/ \E dest \in Procs, type \in MsgTypes, both \in BOOLEAN :
            CallSend(dest, type, both)
    \/ \E from \in Procs \cup {ANY, INTERRUPT} : CallReceive(from)
    \/ CallReceiveReply

SendStep ==
    \/ SendPanics
    \/ SendFindsReceiver
    \/ SendEnqueues
    \/ SendSchedules
    \/ SendAsserts
    \/ SendCopies
    \/ SendClearsMsg
    \/ SendReleases

ReceiveStep ==
    \/ ReceiveTakesInt
    \/ ReceiveIntAsserts
    \/ \E sender \in Procs : ReceiveTakesSender(sender)
    \/ ReceiveFindsNone
    \/ ReceiveSetsFrom
    \/ ReceiveBlocks
    \/ ReceiveSchedules
    \/ ReceiveAsserts

Interrupt == \E task \in IntTasks : InformWakes(task) \/ InformPends(task)

Next == UserStep \/ Preempt \/ SendStep \/ ReceiveStep \/ Interrupt

Spec == Init /\ [][Next]_vars

\* The processor executes the instructions of a system call.
FairSpec == Spec /\ WF_vars(SendStep \/ ReceiveStep)
-----------------------------------------------------------------------------
(***************************************************************************)
(* What the kernel promises.                                               *)
(***************************************************************************)
\* The queue of d holds, once each, exactly the processes that are blocked in
\* a send to d: none is forgotten by the list surgery of msg_receive and none
\* stays behind after it has been served.
QueueHoldsSenders ==
    \A d \in Procs :
        /\ \A p \in Procs :
            (Sending(p) /\ p_sendto[p] = d)
                <=> (\E i \in DOMAIN q_sending[d] : q_sending[d][i] = p)
        /\ \A i, j \in DOMAIN q_sending[d] :
            q_sending[d][i] = q_sending[d][j] => i = j

\* No set of processes is blocked in sends to one another: deadlock() refuses
\* the send that would close the circle, and no other event closes one.  It is
\* also why the walk of deadlock() ends.
NoSendCycle ==
    \A S \in (SUBSET Procs) \ {{}} :
        \E p \in S : ~(Sending(p) /\ p_sendto[p] \in S)

\* For every send a process that runs could make, the loop of deadlock() ends, and
\* it ends at the sender exactly if the one it wants to send to waits for it.
DeadlockIsTheWalk ==
    \A src, dest \in Procs : ~Sending(src) /\ src # dest =>
        LET last == Walk(dest)[Cardinality(Procs)] IN
        ~Sending(last) /\ (Deadlock(src, dest) <=> last = src)

\* A sender and a receiver that could meet never both stay blocked: msg_send
\* looks at the receiver's wait, msg_receive at the queue, and whichever comes
\* second sees the first, in spite of the interrupts in between.
NoMissedRendezvous ==
    \A p, s \in Procs : ~(WaitsFor(p, s) /\ Sending(s) /\ p_sendto[s] = p)

\* The process that executes in user mode is one that may run: no call returns
\* to a process that it has blocked.
RunnerIsRunnable == InUser => pcb_ptr \in Runnable

\* Assertions that no interrupt can make fail: lines 182-191 (the two parties
\* of a direct delivery are clean after it), 195 and 214-217 (the blocked
\* sender, looked at after another process was chosen), 283-291 and 323-332
\* (the two parties of a delivery from the queue), 408-414 (a task that an
\* interrupt wakes was doing nothing but receive).
AssertsHold ==
    stopped = "no" =>
    /\ kpc = "send_release" =>
        /\ p_flags[peer] \subseteq {RECEIVING}
        /\ ~p_msg[peer] /\ p_sendto[peer] = NO_TASK
        /\ p_flags[caller] = {} /\ ~p_msg[caller]
        /\ p_recvfrom[caller] = NO_TASK /\ p_sendto[caller] = NO_TASK
    /\ kpc = "send_block" =>
        /\ p_flags[caller] = {SENDING} /\ p_msg[caller]
        /\ p_recvfrom[caller] = NO_TASK /\ p_sendto[caller] = peer
    /\ kpc = "msg_receive" => \A sender \in Sender :
        /\ p_flags[caller] = {} /\ ~p_msg[caller]
        /\ p_recvfrom[caller] = NO_TASK /\ p_sendto[caller] = NO_TASK
        /\ p_flags[sender] = {SENDING} /\ p_msg[sender]
        /\ p_recvfrom[sender] = NO_TASK
    /\ \A task \in IntTasks : WaitsForInt(task) =>
        p_flags[task] = {RECEIVING} /\ p_sendto[task] = NO_TASK

\* An assertion stops the machine only in a call that receives for, or sends
\* to, a task that interrupts inform: without interrupts none ever fails.
HaltsOnlyForIntTasks ==
    stopped = "assert" =>
        IF kpc = "send_assert" THEN peer \in IntTasks ELSE caller \in IntTasks

\* An interrupt that waits to be received by a task that waits for interrupts
\* is a lost wakeup: nothing would deliver it before the next interrupt.  No
\* call returns in such a state.
NoLostWakeup ==
    InUser => \A task \in IntTasks : ~(has_int_msg[task] /\ WaitsForInt(task))

\* msg_receive serves the queue in order and one sender at a time: as long as
\* d keeps taking messages from ANY, a process blocked in a send to d is
\* served in the end, however the others compete with it.
SendersAreServed ==
    \A d, s \in Procs :
        ([]<><<kpc = "msg_receive" /\ caller = d /\ peer = ANY
               /\ \E sender \in Procs : ReceiveTakesSender(sender)>>_vars)
            => ((Sending(s) /\ p_sendto[s] = d) ~> ~(Sending(s) /\ p_sendto[s] = d))

-----------------------------------------------------------------------------
(***************************************************************************)
(* What a comment of the code says, and interrupts break.                  *)
(***************************************************************************)
\* ipc.c:148-149: "If dest_process_pid is blocked waiting for the message,
\* copy the message to it and unblock dest_process_pid."
WaitingReceiverGetsMessage ==
    stopped = "no" /\ kpc = "send_release" => msg[peer] = msg[caller]
=============================================================================
