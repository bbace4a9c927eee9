----------------------------- MODULE IpcRefinement -----------------------------
(***************************************************************************)
(* The kernel's message passing (Ipc) implements the promise (Rendezvous). *)
(*                                                                         *)
(* A process is in a call from its system call until the step that         *)
(* completes it: the delivery for a pair that meets (the end of msg_send,  *)
(* or the copy in msg_receive), the wakeup by inform_int or the end of     *)
(* msg_receive for an interrupt.  In between its buffer counts as empty if *)
(* it receives.                                                            *)
(***************************************************************************)
EXTENDS Ipc

\* What a receiver's buffer counts for.
NoMessage == [source |-> NO_TASK, type |-> NO_TASK]

\* The calls of Rendezvous.
NoCall == [op |-> "none"]
SendTo(p) == [op |-> "send", to |-> p]
ReceiveFrom(f) == [op |-> "receive", from |-> f]

\* The caller has found the receiver waiting and is handing its message over.
Delivering == kpc \in {"send_assert", "send_copy", "send_clear_msg", "send_release"}

\* The call process p is in.  An interrupt may clear p_recvfrom of a receiver
\* while a message is handed to it: then it was waiting for ANY.
CallOf(p) ==
    CASE p = caller /\ kpc \in SendSteps -> SendTo(peer)
      [] p = caller /\ kpc \in ReceiveSteps -> ReceiveFrom(peer)
      [] p = peer /\ Delivering ->
            ReceiveFrom(IF p_recvfrom[p] = NO_TASK THEN ANY ELSE p_recvfrom[p])
      [] p # caller /\ ~(p = peer /\ Delivering) ->
            IF Sending(p) THEN SendTo(p_sendto[p])
            ELSE IF Receiving(p) THEN ReceiveFrom(p_recvfrom[p])
            ELSE NoCall

call == [p \in Procs |-> CallOf(p)]

buffer == [p \in Procs |-> IF call[p].op = "receive" THEN NoMessage ELSE msg[p]]

\* The caller has been given an interrupt in a call that has not ended.
TakingInt(p) ==
    /\ p = caller
    /\ \/ kpc = "receive_int"
       \/ kpc \in {"receive_block", "receive_schedule", "receive_assert"}
            /\ ~Receiving(p)

pending == [p \in Procs |-> has_int_msg[p] \/ TakingInt(p)]

R == INSTANCE Rendezvous WITH
        Messages <- [source : Procs, type : MsgTypes]

\* Every step of the kernel is a step of Rendezvous or changes nothing there:
\* no call completes alone, with another's message, twice, or for a receiver
\* that did not ask for it.
ImplementsRendezvous == R!Spec

\* Two calls that want each other complete, if the processor executes the
\* kernel's instructions.
MeetingsComplete == R!MeetFairness
=============================================================================
