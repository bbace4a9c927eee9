------------------------------ MODULE Rendezvous -------------------------------
(***************************************************************************)
(* What the message passing of MINX promises to processes, without PCBs,   *)
(* queues, flags or kernel steps: a send and a receive that want each      *)
(* other complete together, and the receiver then holds what the sender    *)
(* sent.  No call completes in any other way, except a receive that an     *)
(* interrupt satisfies.                                                    *)
(*                                                                         *)
(* The promise is as weak as the kernel keeps it where interrupts are      *)
(* concerned: see Collide and Fault.  Without interrupt tasks, both are    *)
(* impossible.                                                             *)
(***************************************************************************)
CONSTANTS
    Procs, IntTasks,
    Messages,       \* what a send can carry
    IntMessage,     \* what an interrupt delivers
    NoMessage,      \* the buffer of a receive that has not completed
    ANY, INTERRUPT  \* the peers that are not processes

VARIABLES
    call,       \* per process: the call it is in, or NoCall
    buffer,     \* per process: the message it holds
    pending,    \* per process: an interrupt waits for it
    stopped     \* why the system stands still, or "no"

vars == <<call, buffer, pending, stopped>>

NoCall == [op |-> "none"]
SendTo(p) == [op |-> "send", to |-> p]
ReceiveFrom(f) == [op |-> "receive", from |-> f]

Calls == {NoCall} \cup {SendTo(p) : p \in Procs}
                  \cup {ReceiveFrom(f) : f \in Procs \cup {ANY, INTERRUPT}}

TypeOK ==
    /\ call \in [Procs -> Calls]
    /\ buffer \in [Procs -> Messages \cup {IntMessage, NoMessage}]
    /\ pending \in [Procs -> BOOLEAN]
    /\ stopped \in {"no", "panic", "assert"}

Init ==
    /\ call = [p \in Procs |-> NoCall]
    /\ buffer = [p \in Procs |-> NoMessage]
    /\ pending = [p \in Procs |-> FALSE]
    /\ stopped = "no"

-----------------------------------------------------------------------------
Receives(r, froms) == \E f \in froms : call[r] = ReceiveFrom(f)

Send(s, r, m) ==
    /\ stopped = "no"
    /\ call[s] = NoCall
    /\ r # s
    /\ call' = [call EXCEPT ![s] = SendTo(r)]
    /\ buffer' = [buffer EXCEPT ![s] = m]
    /\ UNCHANGED <<pending, stopped>>

Receive(r, from) ==
    /\ stopped = "no"
    /\ call[r] = NoCall
    /\ from # r
    /\ call' = [call EXCEPT ![r] = ReceiveFrom(from)]
    /\ buffer' = [buffer EXCEPT ![r] = NoMessage]
    /\ UNCHANGED <<pending, stopped>>

\* Both calls complete at once; the receiver holds the sender's message.
Meet(s, r) ==
    /\ stopped = "no"
    /\ call[s] = SendTo(r)
    /\ Receives(r, {s, ANY})
    /\ call' = [call EXCEPT ![s] = NoCall, ![r] = NoCall]
    /\ buffer' = [buffer EXCEPT ![r] = buffer[s]]
    /\ UNCHANGED <<pending, stopped>>

\* An interrupt comes while a message is handed to a task that waits for both:
\* both calls complete, and the interrupt has destroyed the message.
Collide(s, r) ==
    /\ stopped = "no"
    /\ r \in IntTasks
    /\ call[s] = SendTo(r)
    /\ Receives(r, {ANY})
    /\ call' = [call EXCEPT ![s] = NoCall, ![r] = NoCall]
    /\ buffer' = [buffer EXCEPT ![r] = IntMessage]
    /\ UNCHANGED <<pending, stopped>>

Arrive(t) ==
    /\ stopped = "no"
    /\ t \in IntTasks
    /\ pending' = [pending EXCEPT ![t] = TRUE]
    /\ UNCHANGED <<call, buffer, stopped>>

\* A receive is satisfied by an interrupt, which may have come just now.
TakeInterrupt(t) ==
    /\ stopped = "no"
    /\ t \in IntTasks
    /\ Receives(t, {ANY, INTERRUPT})
    /\ call' = [call EXCEPT ![t] = NoCall]
    /\ buffer' = [buffer EXCEPT ![t] = IntMessage]
    /\ pending' = [pending EXCEPT ![t] = FALSE]
    /\ UNCHANGED stopped

\* A send that closes a circle of sends stops the system on purpose.
Panic ==
    /\ stopped = "no"
    /\ \E S \in (SUBSET Procs) \ {{}} :
        \A p \in S : \E q \in S : call[p] = SendTo(q)
    /\ stopped' = "panic"
    /\ UNCHANGED <<call, buffer, pending>>

\* An assertion stops the system when an interrupt meets a receive it concerns.
Fault(t) ==
    /\ stopped = "no"
    /\ t \in IntTasks
    /\ Receives(t, Procs \cup {ANY, INTERRUPT})
    /\ stopped' = "assert"
    /\ UNCHANGED <<call, buffer, pending>>

Next ==
    \/ \E p, q \in Procs, m \in Messages : Send(p, q, m)
    \/ \E p \in Procs, from \in Procs \cup {ANY, INTERRUPT} : Receive(p, from)
    \/ \E p, q \in Procs : Meet(p, q) \/ Collide(p, q)
    \/ \E t \in IntTasks : Arrive(t) \/ TakeInterrupt(t) \/ Fault(t)
    \/ Panic

Spec == Init /\ [][Next]_vars

\* Two calls that want each other complete.
MeetFairness == \A p, q \in Procs : WF_vars(Meet(p, q) \/ Collide(p, q))

FairSpec == Spec /\ MeetFairness
=============================================================================
