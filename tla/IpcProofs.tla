------------------------------- MODULE IpcProofs -------------------------------
(***************************************************************************)
(* The safety of the kernel's message passing, for any set of processes.   *)
(*                                                                         *)
(* The inductive invariant adds to the properties of Ipc what they rest    *)
(* on: the fields of each PCB agree with one another (PcbsAgree) except in *)
(* the windows that kpc names, and the system call that runs has the PCBs  *)
(* of its two parties in the state its step needs (CallAgrees).            *)
(*                                                                         *)
(* The last part shows that the kernel implements Rendezvous: from the     *)
(* invariant each process's call is known (CallFacts), and every action is *)
(* matched with the step of Rendezvous that completes the call, or with    *)
(* none.                                                                   *)
(***************************************************************************)
EXTENDS IpcRefinement, SequenceTheorems, Loops, TLAPS

\* The receive has blocked its caller and not ended.
Blocking == kpc \in {"receive_block", "receive_schedule", "receive_assert"}

\* The fields of one PCB.  p_msg is cleared a step before p_flags, and set a
\* step before p_recvfrom.
PcbAgrees(p) ==
    /\ p_flags[p] \in {{}, {SENDING}, {RECEIVING}}
    /\ IF Sending(p) THEN p_sendto[p] \in Procs \ {p} ELSE p_sendto[p] = NO_TASK
    /\ ~Receiving(p) => p_recvfrom[p] = NO_TASK
    /\ Receiving(p) /\ p_recvfrom[p] = NO_TASK => p = caller /\ kpc = "receive_from"
    /\ p_msg[p] => p_flags[p] # {}
    /\ p_flags[p] # {} /\ ~p_msg[p] => p = peer /\ kpc = "send_release"
    /\ has_int_msg[p] => p \in IntTasks

PcbsAgree == \A p \in Procs : PcbAgrees(p)

\* The second half of a BOTH has a peer, as the first had.
RepliesAgree == \A p \in Procs : reply_from[p] # p

\* The system call that runs.
CallAgrees ==
    /\ kpc = "user" => caller = NO_TASK /\ peer = NO_TASK
    /\ kpc # "user" => caller \in Procs
    /\ kpc \notin {"user", "receive_assert"} => pcb_ptr = caller
    /\ kpc \in {"user", "receive_assert"} => p_flags[pcb_ptr] = {}
    /\ kpc \in SendSteps => peer \in Procs \ {caller}
    /\ kpc \in ReceiveSteps => peer \notin {caller, NO_TASK}
    /\ kpc \in {"msg_send", "msg_receive", "receive_int"} \/ Delivering
            => p_flags[caller] = {}
    /\ Delivering =>
            \/ WaitsFor(peer, caller)
            \/ peer \in IntTasks /\ p_flags[peer] = {}
    /\ kpc = "send_release" => ~p_msg[peer]
    /\ kpc = "send_block" => Sending(caller) /\ p_sendto[caller] = peer
    /\ kpc = "receive_from" =>
            /\ Receiving(caller) /\ p_recvfrom[caller] = NO_TASK
            /\ \A s \in Procs :
                Sending(s) /\ p_sendto[s] = caller => peer \notin {s, ANY}
    /\ Blocking =>
            \/ Receiving(caller) /\ p_recvfrom[caller] = peer
            \/ caller \in IntTasks /\ p_flags[caller] = {}

\* A wakeup is lost only in the windows that end in a failed assertion.
LostWakeupIsCaught ==
    \A t \in Procs : has_int_msg[t] /\ WaitsForInt(t) => t = caller /\ Blocking

\* The inductive invariant.
IInv ==
    /\ TypeOK
    /\ PcbsAgree
    /\ RepliesAgree
    /\ CallAgrees
    /\ QueueHoldsSenders
    /\ NoSendCycle
    /\ NoMissedRendezvous
    /\ LostWakeupIsCaught
    /\ HaltsOnlyForIntTasks

-----------------------------------------------------------------------------
\* A queue that a sender is taken out of keeps the others in their order (ipc.c:341-347).
LEMMA RemoveAtProperties ==
  ASSUME NEW S, NEW s \in Seq(S), NEW i \in DOMAIN s
  PROVE  /\ RemoveAt(s, i) \in Seq(S)
         /\ Len(RemoveAt(s, i)) = Len(s) - 1
         /\ \A j \in 1 .. Len(s) - 1 :
                RemoveAt(s, i)[j] = IF j < i THEN s[j] ELSE s[j + 1]
<1> DEFINE front == SubSeq(s, 1, i - 1)
           back == SubSeq(s, i + 1, Len(s))
<1>1. i \in 1 .. Len(s) /\ Len(s) \in Nat
  BY LenProperties
<1>2. /\ front \in Seq(S)
      /\ Len(front) = i - 1
      /\ \A j \in 1 .. i - 1 : front[j] = s[j]
  BY <1>1, SubSeqProperties, ElementOfSeq
<1>3. /\ back \in Seq(S)
      /\ Len(back) = Len(s) - i
      /\ \A j \in 1 .. Len(s) - i : back[j] = s[i + j]
  BY <1>1, SubSeqProperties, ElementOfSeq
<1> HIDE DEF front, back
<1>4. /\ front \o back \in Seq(S)
      /\ Len(front \o back) = Len(s) - 1
      /\ \A j \in 1 .. Len(s) - 1 :
            (front \o back)[j] = IF j <= i - 1 THEN front[j] ELSE back[j - (i - 1)]
  <2>1. Len(front) + Len(back) = Len(s) - 1
    BY <1>1, <1>2, <1>3
  <2>2. /\ front \o back \in Seq(S)
        /\ Len(front \o back) = Len(front) + Len(back)
        /\ \A j \in 1 .. Len(front) + Len(back) :
                (front \o back)[j] = IF j <= Len(front) THEN front[j] ELSE back[j - Len(front)]
    BY <1>2, <1>3, ConcatProperties
  <2> QED BY <1>2, <2>1, <2>2
<1>5. ASSUME NEW j \in 1 .. Len(s) - 1
      PROVE  (front \o back)[j] = IF j < i THEN s[j] ELSE s[j + 1]
  <2>1. CASE j < i
    BY <1>1, <1>2, <1>4, <2>1
  <2>2. CASE ~(j < i)
    <3>1. (front \o back)[j] = back[j - (i - 1)]
      BY <1>1, <1>4, <2>2
    <3>2. j - (i - 1) \in 1 .. Len(s) - i /\ i + (j - (i - 1)) = j + 1
      BY <1>1, <2>2
    <3> QED BY <1>1, <1>3, <2>2, <3>1, <3>2
  <2> QED BY <2>1, <2>2
<1> QED BY <1>4, <1>5 DEF RemoveAt, front, back

-----------------------------------------------------------------------------
(***************************************************************************)
(* Every variable has its type, whatever the kernel does.                  *)
(***************************************************************************)
LEMMA TypeInit == Init => TypeOK
  BY NamesAssumption DEF Init, TypeOK, Messages

\* Each step of the kernel keeps the types.
LEMMA TypeStep == TypeOK /\ CallAgrees /\ [Next]_vars => TypeOK'
<1> SUFFICES ASSUME TypeOK, CallAgrees, [Next]_vars
             PROVE  TypeOK'
  OBVIOUS
<1> DEFINE Parties == /\ kpc # "user" => caller \in Procs
                      /\ kpc \in SendSteps => peer \in Procs
<1>0. Parties
  BY DEF CallAgrees
<1> USE ProcsAssumption DEF TypeOK, pcbVars, callVars, SendSteps, ReceiveSteps
<1>1. ASSUME NEW dest \in Procs, NEW type \in MsgTypes, NEW both \in BOOLEAN,
             CallSend(dest, type, both)
      PROVE  TypeOK'
  <2>1. [source |-> pcb_ptr, type |-> type] \in Messages
    BY DEF Messages
  <2> QED BY <1>1, <2>1 DEF CallSend, InUser
<1>2. ASSUME NEW from \in Procs \cup {ANY, INTERRUPT}, CallReceive(from)
      PROVE  TypeOK'
  <2>1. [source |-> pcb_ptr, type |-> NO_TASK] \in Messages
    BY DEF Messages
  <2> QED BY <1>2, <2>1 DEF CallReceive, InUser
<1>3. CASE CallReceiveReply
  <2>1. [msg[pcb_ptr] EXCEPT !.source = pcb_ptr] \in Messages
    BY ZenonT(60) DEF Messages
  <2> QED BY <1>3, <2>1 DEF CallReceiveReply, InUser
<1>4. CASE Preempt
  BY <1>4 DEF Preempt, Runnable
<1>5. CASE SendPanics
  BY <1>5 DEF SendPanics
<1>6. CASE SendFindsReceiver
  BY <1>6 DEF SendFindsReceiver, Goto
<1>7. CASE SendEnqueues
  <2>0. caller \in Procs /\ peer \in Procs
    BY <1>0, <1>7 DEF SendEnqueues, In
  <2>1. Append(q_sending[peer], caller) \in Seq(Procs)
    BY <2>0, AppendProperties
  <2>2. q_sending' \in [Procs -> Seq(Procs)] /\ p_sendto' \in [Procs -> Procs \cup {NO_TASK}]
    BY <1>7, <2>0, <2>1 DEF SendEnqueues
  <2> QED BY <1>7, <2>2 DEF SendEnqueues, Goto
<1>8. CASE SendSchedules
  BY <1>8 DEF SendSchedules, Return, Runnable
<1>9. CASE SendAsserts
  BY <1>9 DEF SendAsserts, Checked, Goto
<1>10. CASE SendCopies
  BY <1>0, <1>10 DEF SendCopies, In, Goto
<1>11. CASE SendClearsMsg
  BY <1>11 DEF SendClearsMsg, Goto
<1>12. CASE SendReleases
  BY <1>12 DEF SendReleases, Return
<1>13. IntMessage \in Messages
  BY DEF IntMessage, Messages
<1>14. CASE ReceiveTakesInt
  BY <1>13, <1>14 DEF ReceiveTakesInt, Goto
<1>15. CASE ReceiveIntAsserts
  BY <1>15 DEF ReceiveIntAsserts, Checked, Return
<1>16. ASSUME NEW sender \in Procs, ReceiveTakesSender(sender)
      PROVE  TypeOK'
  <2>1. PICK i \in DOMAIN q_sending[caller] :
            q_sending' = [q_sending EXCEPT ![caller] = RemoveAt(@, i)]
    BY <1>16 DEF ReceiveTakesSender
  <2>2. caller \in Procs
    BY <1>0, <1>16 DEF ReceiveTakesSender, In
  <2>3. q_sending' \in [Procs -> Seq(Procs)]
    BY <2>1, <2>2, RemoveAtProperties
  <2> QED BY <1>16, <2>3 DEF ReceiveTakesSender, Return
<1>17. CASE ReceiveFindsNone
  BY <1>17 DEF ReceiveFindsNone, Goto
<1>18. CASE ReceiveSetsFrom
  <2>1. p_recvfrom' \in [Procs -> Procs \cup {ANY, INTERRUPT, NO_TASK}]
    BY <1>18 DEF ReceiveSetsFrom
  <2> QED BY <1>18, <2>1 DEF ReceiveSetsFrom, Goto
<1>19. CASE ReceiveBlocks
  BY <1>19 DEF ReceiveBlocks, Checked, Goto
<1>20. CASE ReceiveSchedules
  BY <1>20 DEF ReceiveSchedules, Goto, Runnable
<1>21. CASE ReceiveAsserts
  BY <1>21 DEF ReceiveAsserts, Checked, Return
<1>22. ASSUME NEW task \in IntTasks, InformWakes(task)
       PROVE  TypeOK'
  BY <1>13, <1>22 DEF InformWakes
<1>23. ASSUME NEW task \in IntTasks, InformPends(task)
       PROVE  TypeOK'
  BY <1>23 DEF InformPends
<1>24. CASE UNCHANGED vars
  BY <1>24 DEF vars
<1> QED
  BY SMTT(30), <1>1, <1>2, <1>3, <1>4, <1>5, <1>6, <1>7, <1>8, <1>9, <1>10, <1>11, <1>12,
     <1>14, <1>15, <1>16, <1>17, <1>18, <1>19, <1>20, <1>21, <1>22, <1>23, <1>24
     DEF Next, UserStep, SendStep, ReceiveStep, Interrupt

-----------------------------------------------------------------------------
(***************************************************************************)
(* The PCBs agree with themselves and with the call that runs.             *)
(***************************************************************************)
LEMMA PcbStep ==
  TypeOK /\ PcbsAgree /\ CallAgrees /\ [Next]_vars => PcbsAgree'
<1> SUFFICES ASSUME TypeOK, PcbsAgree, CallAgrees, [Next]_vars,
                    NEW p \in Procs
             PROVE  PcbAgrees(p)'
  BY DEF PcbsAgree
<1> USE ProcsAssumption, NamesAssumption
    DEF TypeOK, PcbsAgree, PcbAgrees, CallAgrees, Sending, Receiving,
        Delivering, Blocking, SendSteps, ReceiveSteps, pcbVars, callVars
<1>1. ASSUME NEW dest \in Procs, NEW type \in MsgTypes, NEW both \in BOOLEAN,
             CallSend(dest, type, both)
      PROVE  PcbAgrees(p)'
  BY <1>1 DEF CallSend, InUser
<1>2. ASSUME NEW from \in Procs \cup {ANY, INTERRUPT}, CallReceive(from)
      PROVE  PcbAgrees(p)'
  BY <1>2 DEF CallReceive, InUser
<1>3. CASE CallReceiveReply
  BY <1>3 DEF CallReceiveReply, InUser
<1>4. CASE Preempt
  BY <1>4 DEF Preempt, InUser, Runnable
<1>5. CASE SendPanics
  BY <1>5 DEF SendPanics, In
<1>6. CASE SendFindsReceiver
  BY <1>6 DEF SendFindsReceiver, In, Goto
<1>7. CASE SendEnqueues
  <2>1. CASE p = caller
    <3>1. /\ p_flags[p] = {} /\ p_flags'[p] = {SENDING}
          /\ p_sendto'[p] = peer /\ p_msg'[p]
      BY <1>7, <2>1 DEF SendEnqueues, In
    <3> QED BY <1>7, <2>1, <3>1 DEF SendEnqueues, In, Goto
  <2>2. CASE p # caller
    <3>1. p_flags'[p] = p_flags[p] /\ p_sendto'[p] = p_sendto[p] /\ p_msg'[p] = p_msg[p]
      BY <1>7, <2>2 DEF SendEnqueues, In
    <3> QED BY <1>7, <2>2, <3>1 DEF SendEnqueues, In, Goto
  <2> QED BY <2>1, <2>2
<1>8. CASE SendSchedules
  BY <1>8 DEF SendSchedules, In, Return, Runnable
<1>9. CASE SendAsserts
  BY <1>9 DEF SendAsserts, In, Checked, Goto
<1>10. CASE SendCopies
  BY <1>10 DEF SendCopies, In, Goto
<1>11. CASE SendClearsMsg
  BY <1>11 DEF SendClearsMsg, In, Goto
<1>12. CASE SendReleases
  <2>1. CASE p = peer
    <3>1. kpc = "send_release"
      BY <1>12 DEF SendReleases, In
    <3>2. p_flags[p] \in {{}, {RECEIVING}} /\ ~p_msg[p] /\ p_sendto[p] = NO_TASK
      BY <2>1, <3>1 DEF WaitsFor
    <3>3. p_flags'[p] = p_flags[p] \ {RECEIVING} /\ p_recvfrom'[p] = NO_TASK
      BY <1>12, <2>1 DEF SendReleases
    <3>4. p_flags'[p] = {}
      BY <3>2, <3>3
    <3> QED BY <1>12, <2>1, <3>2, <3>3, <3>4 DEF SendReleases, In, Return
  <2>2. CASE p # peer
    <3>1. p_flags'[p] = p_flags[p] /\ p_recvfrom'[p] = p_recvfrom[p]
      BY <1>12, <2>2 DEF SendReleases, In
    <3> QED BY <1>12, <2>2, <3>1 DEF SendReleases, In, Return
  <2> QED BY <2>1, <2>2
<1>13. CASE ReceiveTakesInt
  BY <1>13 DEF ReceiveTakesInt, In, Goto
<1>14. CASE ReceiveIntAsserts
  BY <1>14 DEF ReceiveIntAsserts, In, Checked, Return
<1>15. ASSUME NEW sender \in Procs, ReceiveTakesSender(sender)
       PROVE  PcbAgrees(p)'
  BY ZenonT(60), <1>15 DEF ReceiveTakesSender, Sender, In, Return
<1>16. CASE ReceiveFindsNone
  <2>1. CASE p = caller
    <3>1. /\ p_flags[p] = {} /\ p_flags'[p] = {RECEIVING} /\ p_msg'[p]
      BY <1>16, <2>1 DEF ReceiveFindsNone, In
    <3> QED BY <1>16, <2>1, <3>1 DEF ReceiveFindsNone, In, Goto
  <2>2. CASE p # caller
    <3>1. p_flags'[p] = p_flags[p] /\ p_msg'[p] = p_msg[p]
      BY <1>16, <2>2 DEF ReceiveFindsNone, In
    <3> QED BY <1>16, <2>2, <3>1 DEF ReceiveFindsNone, In, Goto
  <2> QED BY <2>1, <2>2
<1>17. CASE ReceiveSetsFrom
  BY ZenonT(60), <1>17 DEF ReceiveSetsFrom, In, Goto
<1>18. CASE ReceiveBlocks
  BY <1>18 DEF ReceiveBlocks, In, Checked, Goto
<1>19. CASE ReceiveSchedules
  BY <1>19 DEF ReceiveSchedules, In, Goto, Runnable
<1>20. CASE ReceiveAsserts
  BY <1>20 DEF ReceiveAsserts, In, Checked, Return
<1>21. ASSUME NEW task \in IntTasks, InformWakes(task)
       PROVE  PcbAgrees(p)'
  BY ZenonT(60), <1>21 DEF InformWakes, WaitsForInt
<1>22. ASSUME NEW task \in IntTasks, InformPends(task)
       PROVE  PcbAgrees(p)'
  BY <1>22 DEF InformPends, WaitsForInt
<1>23. CASE UNCHANGED vars
  BY <1>23 DEF vars
<1> HIDE DEF TypeOK, PcbAgrees, CallAgrees
<1> QED
  BY <1>1, <1>2, <1>3, <1>4, <1>5, <1>6, <1>7, <1>8, <1>9, <1>10, <1>11,
     <1>12, <1>13, <1>14, <1>15, <1>16, <1>17, <1>18, <1>19, <1>20, <1>21,
     <1>22, <1>23
     DEF Next, UserStep, SendStep, ReceiveStep, Interrupt

\* No second half of a BOTH comes to wait for its own caller.
LEMMA RepliesStep == TypeOK /\ RepliesAgree /\ [Next]_vars => RepliesAgree'
<1> SUFFICES ASSUME TypeOK, RepliesAgree, [Next]_vars
             PROVE  RepliesAgree'
  OBVIOUS
<1> USE NamesAssumption DEF RepliesAgree
<1>1. ASSUME NEW dest \in Procs, NEW type \in MsgTypes, NEW both \in BOOLEAN,
             CallSend(dest, type, both)
      PROVE  RepliesAgree'
  BY <1>1 DEF CallSend, TypeOK
<1>2. CASE CallReceiveReply
  BY <1>2 DEF CallReceiveReply, TypeOK
<1>3. CASE UNCHANGED reply_from
  BY <1>3
<1> QED
  BY <1>1, <1>2, <1>3
     DEF Next, UserStep, SendStep, ReceiveStep, Interrupt, vars, CallReceive,
         Preempt, SendPanics, SendFindsReceiver, SendEnqueues, SendSchedules,
         SendAsserts, SendCopies, SendClearsMsg, SendReleases, ReceiveTakesInt,
         ReceiveIntAsserts, ReceiveTakesSender, ReceiveFindsNone, ReceiveSetsFrom,
         ReceiveBlocks, ReceiveSchedules, ReceiveAsserts, InformWakes, InformPends

\* The running system call and the interrupts leave each other what they rely on.
LEMMA CallStep ==
  TypeOK /\ PcbsAgree /\ RepliesAgree /\ CallAgrees /\ QueueHoldsSenders
    /\ [Next]_vars => CallAgrees'
<1> SUFFICES ASSUME TypeOK, PcbsAgree, RepliesAgree, CallAgrees, QueueHoldsSenders,
                    [Next]_vars
             PROVE  CallAgrees'
  OBVIOUS
<1> USE ProcsAssumption, NamesAssumption
    DEF TypeOK, PcbsAgree, PcbAgrees, CallAgrees, Sending, Receiving, WaitsFor,
        Delivering, Blocking, SendSteps, ReceiveSteps, pcbVars, callVars
<1>1. ASSUME NEW dest \in Procs, NEW type \in MsgTypes, NEW both \in BOOLEAN,
             CallSend(dest, type, both)
      PROVE  CallAgrees'
  BY <1>1 DEF CallSend, InUser
<1>2. ASSUME NEW from \in Procs \cup {ANY, INTERRUPT}, CallReceive(from)
      PROVE  CallAgrees'
  BY <1>2 DEF CallReceive, InUser
<1>3. CASE CallReceiveReply
  BY <1>3 DEF CallReceiveReply, InUser, RepliesAgree
<1>4. CASE Preempt
  BY <1>4 DEF Preempt, InUser, Runnable
<1>5. CASE SendPanics
  BY <1>5 DEF SendPanics, In
<1>6. CASE SendFindsReceiver
  BY <1>6 DEF SendFindsReceiver, In, Goto
<1>7. CASE SendEnqueues
  BY <1>7 DEF SendEnqueues, In, Goto
<1>8. CASE SendSchedules
  BY <1>8 DEF SendSchedules, In, Return, Runnable
<1>9. CASE SendAsserts
  BY <1>9 DEF SendAsserts, In, Checked, Goto
<1>10. CASE SendCopies
  BY <1>10 DEF SendCopies, In, Goto
<1>11. CASE SendClearsMsg
  BY <1>11 DEF SendClearsMsg, In, Goto
<1>12. CASE SendReleases
  BY <1>12 DEF SendReleases, In, Return
<1>13. CASE ReceiveTakesInt
  BY <1>13 DEF ReceiveTakesInt, In, Goto
<1>14. CASE ReceiveIntAsserts
  BY <1>14 DEF ReceiveIntAsserts, In, Checked, Return
<1>15. ASSUME NEW sender \in Procs, ReceiveTakesSender(sender)
       PROVE  CallAgrees'
  BY <1>15 DEF ReceiveTakesSender, Sender, In, Return
<1>16. CASE ReceiveFindsNone
  <2>1. caller \in Procs
    BY <1>16 DEF ReceiveFindsNone, In
  <2>2. ASSUME NEW s \in Procs, Sending(s), p_sendto[s] = caller
        PROVE  peer \notin {s, ANY}
    <3>1. q_sending[caller] # <<>>
      BY <2>1, <2>2 DEF QueueHoldsSenders
    <3>2. /\ Head(q_sending[caller]) \in Procs
          /\ Head(q_sending[caller]) = q_sending[caller][1]
          /\ 1 \in DOMAIN q_sending[caller]
      BY <2>1, <3>1, HeadTailProperties
    <3>3. /\ Sending(Head(q_sending[caller]))
          /\ p_sendto[Head(q_sending[caller])] = caller
      BY <2>1, <3>2 DEF QueueHoldsSenders
    <3> QED BY <1>16, <2>2, <3>1, <3>2, <3>3 DEF ReceiveFindsNone, Sender
  <2> QED BY <1>16, <2>1, <2>2 DEF ReceiveFindsNone, In, Goto
<1>17. CASE ReceiveSetsFrom
  BY <1>17 DEF ReceiveSetsFrom, In, Goto
<1>18. CASE ReceiveBlocks
  BY <1>18 DEF ReceiveBlocks, In, Checked, Goto
<1>19. CASE ReceiveSchedules
  BY <1>19 DEF ReceiveSchedules, In, Goto, Runnable
<1>20. CASE ReceiveAsserts
  BY <1>20 DEF ReceiveAsserts, In, Checked, Return
<1>21. ASSUME NEW task \in IntTasks, InformWakes(task)
       PROVE  CallAgrees'
  <2>1. task \in Procs /\ p_flags[task] = {RECEIVING}
    BY <1>21 DEF InformWakes, WaitsForInt
  <2>2. p_flags' = [p_flags EXCEPT ![task] = {}]
    BY ZenonT(60), <1>21, <2>1 DEF InformWakes
  <2>3. \A p \in Procs \ {task} :
            p_flags'[p] = p_flags[p] /\ p_recvfrom'[p] = p_recvfrom[p]
    BY <1>21, <2>2 DEF InformWakes
  <2>4. \A p \in Procs : (SENDING \in p_flags'[p]) <=> (SENDING \in p_flags[p])
    BY <2>1, <2>2
  <2>5. /\ p_flags[task] = {RECEIVING} /\ p_flags'[task] = {}
        /\ \A p \in Procs \ {task} :
            p_flags'[p] = p_flags[p] /\ p_recvfrom'[p] = p_recvfrom[p]
        /\ \A p \in Procs : (SENDING \in p_flags'[p]) <=> (SENDING \in p_flags[p])
    BY <2>1, <2>2, <2>3, <2>4
  <2>6. ~p_msg[peer] => ~p_msg'[peer]
    BY <1>21 DEF InformWakes
  <2>7. CASE kpc \in {"user"} \cup SendSteps
    BY <1>21, <2>5, <2>6, <2>7 DEF InformWakes
  <2>8. CASE kpc \in {"msg_receive", "receive_int"}
    BY <1>21, <2>5, <2>8 DEF InformWakes
  <2>9. CASE kpc = "receive_from"
    <3>1. caller # task
      BY <1>21, <2>9 DEF InformWakes, WaitsForInt
    <3> QED BY <1>21, <2>5, <2>9, <3>1 DEF InformWakes
  <2>10. CASE Blocking
    BY <1>21, <2>5, <2>10 DEF InformWakes
  <2> QED BY <2>7, <2>8, <2>9, <2>10
<1>22. ASSUME NEW task \in IntTasks, InformPends(task)
       PROVE  CallAgrees'
  BY <1>22 DEF InformPends, WaitsForInt
<1>23. CASE UNCHANGED vars
  BY <1>23 DEF vars
<1> HIDE DEF TypeOK, PcbAgrees, CallAgrees
<1> QED
  BY <1>1, <1>2, <1>3, <1>4, <1>5, <1>6, <1>7, <1>8, <1>9, <1>10, <1>11,
     <1>12, <1>13, <1>14, <1>15, <1>16, <1>17, <1>18, <1>19, <1>20, <1>21,
     <1>22, <1>23
     DEF Next, UserStep, SendStep, ReceiveStep, Interrupt
-----------------------------------------------------------------------------
(***************************************************************************)
(* Queues and circles.  Only two steps change who is blocked in a send.    *)
(***************************************************************************)
SendersUnchanged ==
    /\ q_sending' = q_sending
    /\ p_sendto' = p_sendto
    /\ \A p \in Procs : (SENDING \in p_flags'[p]) <=> (SENDING \in p_flags[p])

\* Only an enqueued send and a receive that takes a sender change who is blocked sending.
LEMMA SendersChange ==
  TypeOK /\ CallAgrees /\ [Next]_vars =>
    \/ SendEnqueues
    \/ \E sender \in Procs : ReceiveTakesSender(sender)
    \/ SendersUnchanged
<1> SUFFICES ASSUME TypeOK, CallAgrees, [Next]_vars,
                    ~SendEnqueues, \A sender \in Procs : ~ReceiveTakesSender(sender)
             PROVE  SendersUnchanged
  OBVIOUS
<1> USE ProcsAssumption, NamesAssumption DEF SendersUnchanged, pcbVars
<1>1. CASE pcbVars' = pcbVars
  BY <1>1
<1>2. CASE SendClearsMsg \/ ReceiveTakesInt \/ ReceiveSetsFrom
  BY <1>2 DEF SendClearsMsg, ReceiveTakesInt, ReceiveSetsFrom
<1>3. CASE SendReleases
  BY <1>3 DEF SendReleases, TypeOK
<1>4. CASE ReceiveFindsNone
  BY <1>4 DEF ReceiveFindsNone, TypeOK
<1>5. ASSUME NEW task \in IntTasks, InformWakes(task)
      PROVE  SendersUnchanged
  BY <1>5 DEF InformWakes, TypeOK
<1>6. ASSUME NEW task \in IntTasks, InformPends(task)
      PROVE  SendersUnchanged
  BY <1>6 DEF InformPends
<1> QED
  BY <1>1, <1>2, <1>3, <1>4, <1>5, <1>6
     DEF Next, UserStep, SendStep, ReceiveStep, Interrupt, vars, CallSend,
         CallReceive, CallReceiveReply, Preempt, SendPanics, SendFindsReceiver,
         SendSchedules, SendAsserts, SendCopies, ReceiveIntAsserts, ReceiveBlocks,
         ReceiveSchedules, ReceiveAsserts

\* The queues stay exact.
LEMMA QueueStep ==
  TypeOK /\ PcbsAgree /\ CallAgrees /\ QueueHoldsSenders /\ [Next]_vars
    => QueueHoldsSenders'
<1> SUFFICES ASSUME TypeOK, PcbsAgree, CallAgrees, QueueHoldsSenders, [Next]_vars
             PROVE  QueueHoldsSenders'
  OBVIOUS
<1> USE NamesAssumption DEF Sending
<1>1. CASE SendersUnchanged
  BY <1>1 DEF SendersUnchanged, QueueHoldsSenders
<1>2. CASE SendEnqueues
  <2>1. /\ caller \in Procs /\ peer \in Procs
        /\ p_flags[caller] = {}
        /\ p_flags'[caller] = {SENDING} /\ p_sendto'[caller] = peer
        /\ \A p \in Procs \ {caller} :
            p_flags'[p] = p_flags[p] /\ p_sendto'[p] = p_sendto[p]
    BY <1>2 DEF SendEnqueues, In, CallAgrees, SendSteps, TypeOK
  <2>2. /\ q_sending'[peer] = Append(q_sending[peer], caller)
        /\ \A d \in Procs \ {peer} : q_sending'[d] = q_sending[d]
    BY <1>2, <2>1 DEF SendEnqueues, TypeOK
  <2>3. \A d \in Procs : \A i \in DOMAIN q_sending[d] : q_sending[d][i] # caller
    BY <2>1 DEF QueueHoldsSenders
  <2> DEFINE old == q_sending[peer]
             new == q_sending'[peer]
  <2>4. /\ DOMAIN old = 1 .. Len(old) /\ Len(old) \in Nat
        /\ DOMAIN new = 1 .. Len(old) + 1
        /\ \A i \in DOMAIN old : new[i] = old[i]
        /\ new[Len(old) + 1] = caller
    BY <2>1, <2>2, AppendProperties, LenProperties DEF TypeOK
  <2> HIDE DEF old, new
  <2>5. ASSUME NEW d \in Procs, NEW p \in Procs
        PROVE  (SENDING \in p_flags'[p] /\ p_sendto'[p] = d)
                    <=> (\E i \in DOMAIN q_sending'[d] : q_sending'[d][i] = p)
    <3>1. CASE d # peer
      BY <2>1, <2>2, <2>3, <3>1 DEF QueueHoldsSenders
    <3>2. CASE d = peer /\ p = caller
      <4>1. Len(old) + 1 \in DOMAIN new
        BY <2>4
      <4> QED BY <2>1, <2>4, <3>2, <4>1 DEF new
    <3>3. CASE d = peer /\ p # caller
      <4>1. (\E i \in DOMAIN new : new[i] = p) <=> (\E i \in DOMAIN old : old[i] = p)
        BY <2>4, <3>3
      <4> QED BY <2>1, <3>3, <4>1 DEF QueueHoldsSenders, old, new
    <3> QED BY <3>1, <3>2, <3>3
  <2>6. ASSUME NEW d \in Procs, NEW i \in DOMAIN q_sending'[d],
               NEW j \in DOMAIN q_sending'[d], q_sending'[d][i] = q_sending'[d][j]
        PROVE  i = j
    <3>1. CASE d # peer
      BY <2>2, <2>6, <3>1 DEF QueueHoldsSenders
    <3>2. CASE d = peer
      <4>1. \A k, l \in DOMAIN old : old[k] = old[l] => k = l
        BY <2>1 DEF QueueHoldsSenders, old
      <4>2. \A k \in DOMAIN old : old[k] # caller
        BY <2>1, <2>3 DEF old
      <4>3. i \in DOMAIN new /\ j \in DOMAIN new /\ new[i] = new[j]
        BY <2>6, <3>2 DEF new
      <4> QED BY <2>4, <4>1, <4>2, <4>3
    <3> QED BY <3>1, <3>2
  <2> QED BY <2>5, <2>6 DEF QueueHoldsSenders
<1>3. ASSUME NEW sender \in Procs, ReceiveTakesSender(sender)
      PROVE  QueueHoldsSenders'
  <2>1. PICK n \in DOMAIN q_sending[caller] :
            /\ q_sending[caller][n] = sender
            /\ q_sending' = [q_sending EXCEPT ![caller] = RemoveAt(@, n)]
    BY <1>3 DEF ReceiveTakesSender
  <2>2. /\ caller \in Procs
        /\ SENDING \in p_flags[sender] /\ p_sendto[sender] = caller
        /\ SENDING \notin p_flags'[sender]
        /\ \A p \in Procs \ {sender} :
            p_flags'[p] = p_flags[p] /\ p_sendto'[p] = p_sendto[p]
    BY <1>3 DEF ReceiveTakesSender, Sender, In, CallAgrees, TypeOK
  <2> DEFINE old == q_sending[caller]
             new == q_sending'[caller]
  <2>3. /\ DOMAIN old = 1 .. Len(old) /\ Len(old) \in Nat
        /\ DOMAIN new = 1 .. Len(old) - 1
        /\ \A j \in DOMAIN new : new[j] = IF j < n THEN old[j] ELSE old[j + 1]
    <3>1. new = RemoveAt(old, n) /\ old \in Seq(Procs)
      BY <2>1, <2>2 DEF TypeOK
    <3>2. new \in Seq(Procs) /\ Len(new) = Len(old) - 1
      BY <3>1, RemoveAtProperties
    <3>3. DOMAIN new = 1 .. Len(new)
      BY <3>2, LenProperties
    <3> QED BY SMTT(30), <3>1, <3>2, <3>3, RemoveAtProperties, LenProperties
  <2>4. \A d \in Procs \ {caller} : q_sending'[d] = q_sending[d]
    BY <2>1 DEF TypeOK
  <2>5. n \in DOMAIN old /\ old[n] = sender
    BY <2>1
  <2>6. \A k, l \in DOMAIN old : old[k] = old[l] => k = l
    BY <2>2 DEF QueueHoldsSenders
  <2> HIDE DEF old, new
  <2>7. ASSUME NEW p \in Procs
        PROVE  (\E j \in DOMAIN new : new[j] = p)
                    <=> (p # sender /\ \E j \in DOMAIN old : old[j] = p)
    <3>1. ASSUME NEW j \in DOMAIN new, new[j] = p
          PROVE  p # sender /\ \E k \in DOMAIN old : old[k] = p
      BY <2>3, <2>5, <2>6, <3>1
    <3>2. ASSUME p # sender, NEW k \in DOMAIN old, old[k] = p
          PROVE  \E j \in DOMAIN new : new[j] = p
      <4>1. CASE k < n
        BY <2>3, <2>5, <3>2, <4>1
      <4>2. CASE k > n
        <5>1. k - 1 \in DOMAIN new /\ new[k - 1] = p
          BY <2>3, <2>5, <3>2, <4>2
        <5> QED BY <5>1
      <4>3. k # n
        BY <2>5, <3>2
      <4> QED BY <2>3, <2>5, <4>1, <4>2, <4>3
    <3> QED BY <3>1, <3>2
  <2>8. ASSUME NEW d \in Procs, NEW p \in Procs
        PROVE  (SENDING \in p_flags'[p] /\ p_sendto'[p] = d)
                    <=> (\E i \in DOMAIN q_sending'[d] : q_sending'[d][i] = p)
    <3>1. CASE d # caller
      BY <2>2, <2>4, <3>1 DEF QueueHoldsSenders
    <3>2. CASE d = caller
      <4>1. (\E i \in DOMAIN old : old[i] = p) <=> (SENDING \in p_flags[p] /\ p_sendto[p] = d)
        BY <3>2 DEF QueueHoldsSenders, old
      <4> QED BY <2>2, <2>7, <3>2, <4>1 DEF new
    <3> QED BY <3>1, <3>2
  <2>9. ASSUME NEW d \in Procs, NEW i \in DOMAIN q_sending'[d],
               NEW j \in DOMAIN q_sending'[d], q_sending'[d][i] = q_sending'[d][j]
        PROVE  i = j
    <3>1. CASE d # caller
      BY <2>4, <2>9, <3>1 DEF QueueHoldsSenders
    <3>2. CASE d = caller
      <4>1. i \in DOMAIN new /\ j \in DOMAIN new /\ new[i] = new[j]
        BY <2>9, <3>2 DEF new
      <4> QED BY <2>3, <2>5, <2>6, <4>1
    <3> QED BY <3>1, <3>2
  <2> QED BY <2>8, <2>9 DEF QueueHoldsSenders
<1> QED BY <1>1, <1>2, <1>3, SendersChange

\* A send that would close a circle panics instead of blocking.
LEMMA CycleStep ==
  TypeOK /\ PcbsAgree /\ CallAgrees /\ NoSendCycle /\ [Next]_vars => NoSendCycle'
<1> SUFFICES ASSUME TypeOK, PcbsAgree, CallAgrees, NoSendCycle, [Next]_vars,
                    NEW S \in (SUBSET Procs) \ {{}},
                    \A p \in S : SENDING \in p_flags'[p] /\ p_sendto'[p] \in S
             PROVE  FALSE
  BY DEF NoSendCycle, Sending
<1> USE NamesAssumption DEF Sending
<1>1. CASE SendersUnchanged
  BY <1>1 DEF SendersUnchanged, NoSendCycle
<1>2. CASE SendEnqueues
  <2>1. /\ caller \in Procs /\ peer \in Procs
        /\ p_sendto'[caller] = peer
        /\ \A p \in Procs \ {caller} :
            p_flags'[p] = p_flags[p] /\ p_sendto'[p] = p_sendto[p]
    BY <1>2 DEF SendEnqueues, In, CallAgrees, SendSteps, TypeOK
  <2>2. caller \in S
    BY <2>1 DEF NoSendCycle
  \* deadlock() has seen that the procs peer waits for do not include caller.
  <2>3. PICK T \in SUBSET Procs :
            /\ peer \in T /\ caller \notin T
            /\ \A p \in T : SENDING \in p_flags[p] => p_sendto[p] \in T
    BY <1>2 DEF SendEnqueues, Deadlock
  <2>4. S \cap T \in (SUBSET Procs) \ {{}}
    BY <2>1, <2>2, <2>3
  <2>5. ASSUME NEW p \in S \cap T
        PROVE  SENDING \in p_flags[p] /\ p_sendto[p] \in S \cap T
    BY <2>1, <2>3, <2>5
  <2> QED BY <2>4, <2>5 DEF NoSendCycle
<1>3. ASSUME NEW sender \in Procs, ReceiveTakesSender(sender)
      PROVE  FALSE
  <2>1. /\ SENDING \notin p_flags'[sender]
        /\ \A p \in Procs \ {sender} :
            p_flags'[p] = p_flags[p] /\ p_sendto'[p] = p_sendto[p]
    BY <1>3 DEF ReceiveTakesSender, TypeOK
  <2> QED BY <2>1 DEF NoSendCycle
<1> QED BY <1>1, <1>2, <1>3, SendersChange
-----------------------------------------------------------------------------
(***************************************************************************)
(* Rendezvous, wakeups and halts.                                          *)
(***************************************************************************)
LEMMA RendezvousStep ==
  TypeOK /\ PcbsAgree /\ CallAgrees /\ NoMissedRendezvous /\ [Next]_vars
    => NoMissedRendezvous'
<1> SUFFICES ASSUME TypeOK, PcbsAgree, CallAgrees, NoMissedRendezvous, [Next]_vars,
                    NEW p \in Procs, NEW s \in Procs,
                    (WaitsFor(p, s) /\ Sending(s) /\ p_sendto[s] = p)'
             PROVE  FALSE
  BY DEF NoMissedRendezvous
<1> USE ProcsAssumption, NamesAssumption
    DEF TypeOK, PcbsAgree, PcbAgrees, CallAgrees, Sending, Receiving, WaitsFor,
        Delivering, Blocking, SendSteps, ReceiveSteps, pcbVars, callVars
<1>1. ASSUME NEW dest \in Procs, NEW type \in MsgTypes, NEW both \in BOOLEAN,
             CallSend(dest, type, both)
      PROVE  FALSE
  BY <1>1 DEF NoMissedRendezvous, CallSend, InUser
<1>2. ASSUME NEW from \in Procs \cup {ANY, INTERRUPT}, CallReceive(from)
      PROVE  FALSE
  BY <1>2 DEF NoMissedRendezvous, CallReceive, InUser
<1>3. CASE CallReceiveReply
  BY <1>3 DEF NoMissedRendezvous, CallReceiveReply, InUser
<1>4. CASE Preempt
  BY <1>4 DEF NoMissedRendezvous, Preempt, InUser, Runnable
<1>5. CASE SendPanics
  BY <1>5 DEF NoMissedRendezvous, SendPanics, In
<1>6. CASE SendFindsReceiver
  BY <1>6 DEF NoMissedRendezvous, SendFindsReceiver, In, Goto
<1>7. CASE SendEnqueues
  BY <1>7 DEF NoMissedRendezvous, SendEnqueues, In, Goto
<1>8. CASE SendSchedules
  BY <1>8 DEF NoMissedRendezvous, SendSchedules, In, Return, Runnable
<1>9. CASE SendAsserts
  BY <1>9 DEF NoMissedRendezvous, SendAsserts, In, Checked, Goto
<1>10. CASE SendCopies
  BY <1>10 DEF NoMissedRendezvous, SendCopies, In, Goto
<1>11. CASE SendClearsMsg
  BY <1>11 DEF NoMissedRendezvous, SendClearsMsg, In, Goto
<1>12. CASE SendReleases
  BY <1>12 DEF NoMissedRendezvous, SendReleases, In, Return
<1>13. CASE ReceiveTakesInt
  BY <1>13 DEF NoMissedRendezvous, ReceiveTakesInt, In, Goto
<1>14. CASE ReceiveIntAsserts
  BY <1>14 DEF NoMissedRendezvous, ReceiveIntAsserts, In, Checked, Return
<1>15. ASSUME NEW sender \in Procs, ReceiveTakesSender(sender)
       PROVE  FALSE
  BY <1>15 DEF NoMissedRendezvous, ReceiveTakesSender, Sender, In, Return
<1>16. CASE ReceiveFindsNone
  BY <1>16 DEF NoMissedRendezvous, ReceiveFindsNone, In, Goto
<1>17. CASE ReceiveSetsFrom
  BY <1>17 DEF NoMissedRendezvous, ReceiveSetsFrom, In, Goto
<1>18. CASE ReceiveBlocks
  BY <1>18 DEF NoMissedRendezvous, ReceiveBlocks, In, Checked, Goto
<1>19. CASE ReceiveSchedules
  BY <1>19 DEF NoMissedRendezvous, ReceiveSchedules, In, Goto, Runnable
<1>20. CASE ReceiveAsserts
  BY <1>20 DEF NoMissedRendezvous, ReceiveAsserts, In, Checked, Return
<1>21. ASSUME NEW task \in IntTasks, InformWakes(task)
       PROVE  FALSE
  BY <1>21 DEF NoMissedRendezvous, InformWakes, WaitsForInt
<1>22. ASSUME NEW task \in IntTasks, InformPends(task)
       PROVE  FALSE
  BY <1>22 DEF NoMissedRendezvous, InformPends, WaitsForInt
<1>23. CASE UNCHANGED vars
  BY <1>23 DEF NoMissedRendezvous, vars
<1> HIDE DEF TypeOK, PcbAgrees, CallAgrees
<1> QED
  BY <1>1, <1>2, <1>3, <1>4, <1>5, <1>6, <1>7, <1>8, <1>9, <1>10, <1>11,
     <1>12, <1>13, <1>14, <1>15, <1>16, <1>17, <1>18, <1>19, <1>20, <1>21,
     <1>22, <1>23
     DEF Next, UserStep, SendStep, ReceiveStep, Interrupt

\* An interrupt noted for a task that already waits stays in the window that asserts.
LEMMA WakeupStep ==
  TypeOK /\ PcbsAgree /\ CallAgrees /\ LostWakeupIsCaught /\ [Next]_vars
    => LostWakeupIsCaught'
<1> SUFFICES ASSUME TypeOK, PcbsAgree, CallAgrees, LostWakeupIsCaught, [Next]_vars,
                    NEW t \in Procs, (has_int_msg[t] /\ WaitsForInt(t))'
             PROVE  (t = caller /\ Blocking)'
  BY DEF LostWakeupIsCaught
<1> USE ProcsAssumption, NamesAssumption
    DEF TypeOK, PcbsAgree, PcbAgrees, CallAgrees, Sending, Receiving, WaitsForInt,
        Delivering, Blocking, SendSteps, ReceiveSteps, pcbVars, callVars
<1>1. ASSUME NEW dest \in Procs, NEW type \in MsgTypes, NEW both \in BOOLEAN,
             CallSend(dest, type, both)
      PROVE  (t = caller /\ Blocking)'
  BY <1>1 DEF LostWakeupIsCaught, CallSend, InUser
<1>2. ASSUME NEW from \in Procs \cup {ANY, INTERRUPT}, CallReceive(from)
      PROVE  (t = caller /\ Blocking)'
  BY <1>2 DEF LostWakeupIsCaught, CallReceive, InUser
<1>3. CASE CallReceiveReply
  BY <1>3 DEF LostWakeupIsCaught, CallReceiveReply, InUser
<1>4. CASE Preempt
  BY <1>4 DEF LostWakeupIsCaught, Preempt, InUser, Runnable
<1>5. CASE SendPanics
  BY <1>5 DEF LostWakeupIsCaught, SendPanics, In
<1>6. CASE SendFindsReceiver
  BY <1>6 DEF LostWakeupIsCaught, SendFindsReceiver, In, Goto
<1>7. CASE SendEnqueues
  BY <1>7 DEF LostWakeupIsCaught, SendEnqueues, In, Goto
<1>8. CASE SendSchedules
  BY <1>8 DEF LostWakeupIsCaught, SendSchedules, In, Return, Runnable
<1>9. CASE SendAsserts
  BY <1>9 DEF LostWakeupIsCaught, SendAsserts, In, Checked, Goto
<1>10. CASE SendCopies
  BY <1>10 DEF LostWakeupIsCaught, SendCopies, In, Goto
<1>11. CASE SendClearsMsg
  BY <1>11 DEF LostWakeupIsCaught, SendClearsMsg, In, Goto
<1>12. CASE SendReleases
  BY <1>12 DEF LostWakeupIsCaught, SendReleases, In, Return
<1>13. CASE ReceiveTakesInt
  BY <1>13 DEF LostWakeupIsCaught, ReceiveTakesInt, In, Goto
<1>14. CASE ReceiveIntAsserts
  BY <1>14 DEF LostWakeupIsCaught, ReceiveIntAsserts, In, Checked, Return
<1>15. ASSUME NEW sender \in Procs, ReceiveTakesSender(sender)
       PROVE  (t = caller /\ Blocking)'
  BY <1>15 DEF LostWakeupIsCaught, ReceiveTakesSender, Sender, In, Return
<1>16. CASE ReceiveFindsNone
  BY <1>16 DEF LostWakeupIsCaught, ReceiveFindsNone, In, Goto
<1>17. CASE ReceiveSetsFrom
  BY <1>17 DEF LostWakeupIsCaught, ReceiveSetsFrom, In, Goto
<1>18. CASE ReceiveBlocks
  BY <1>18 DEF LostWakeupIsCaught, ReceiveBlocks, In, Checked, Goto
<1>19. CASE ReceiveSchedules
  BY <1>19 DEF LostWakeupIsCaught, ReceiveSchedules, In, Goto, Runnable
<1>20. CASE ReceiveAsserts
  BY <1>20 DEF LostWakeupIsCaught, ReceiveAsserts, In, Checked, Return
<1>21. ASSUME NEW task \in IntTasks, InformWakes(task)
       PROVE  (t = caller /\ Blocking)'
  BY <1>21 DEF LostWakeupIsCaught, InformWakes, WaitsForInt
<1>22. ASSUME NEW task \in IntTasks, InformPends(task)
       PROVE  (t = caller /\ Blocking)'
  BY <1>22 DEF LostWakeupIsCaught, InformPends, WaitsForInt
<1>23. CASE UNCHANGED vars
  BY <1>23 DEF LostWakeupIsCaught, vars
<1> HIDE DEF TypeOK, PcbAgrees, CallAgrees
<1> QED
  BY <1>1, <1>2, <1>3, <1>4, <1>5, <1>6, <1>7, <1>8, <1>9, <1>10, <1>11,
     <1>12, <1>13, <1>14, <1>15, <1>16, <1>17, <1>18, <1>19, <1>20, <1>21,
     <1>22, <1>23
     DEF Next, UserStep, SendStep, ReceiveStep, Interrupt

\* Only the call of a task that interrupts inform fails an assertion.
LEMMA HaltStep ==
  TypeOK /\ PcbsAgree /\ CallAgrees /\ HaltsOnlyForIntTasks /\ [Next]_vars
    => HaltsOnlyForIntTasks'
<1> SUFFICES ASSUME TypeOK, PcbsAgree, CallAgrees, HaltsOnlyForIntTasks, [Next]_vars
             PROVE  HaltsOnlyForIntTasks'
  OBVIOUS
<1> USE ProcsAssumption, NamesAssumption
    DEF TypeOK, PcbsAgree, PcbAgrees, CallAgrees, Sending, Receiving, WaitsFor,
        Delivering, Blocking, SendSteps, ReceiveSteps, pcbVars, callVars
<1>1. ASSUME NEW dest \in Procs, NEW type \in MsgTypes, NEW both \in BOOLEAN,
             CallSend(dest, type, both)
      PROVE  HaltsOnlyForIntTasks'
  BY <1>1 DEF HaltsOnlyForIntTasks, CallSend, InUser
<1>2. ASSUME NEW from \in Procs \cup {ANY, INTERRUPT}, CallReceive(from)
      PROVE  HaltsOnlyForIntTasks'
  BY <1>2 DEF HaltsOnlyForIntTasks, CallReceive, InUser
<1>3. CASE CallReceiveReply
  BY <1>3 DEF HaltsOnlyForIntTasks, CallReceiveReply, InUser
<1>4. CASE Preempt
  BY <1>4 DEF HaltsOnlyForIntTasks, Preempt, InUser, Runnable
<1>5. CASE SendPanics
  BY <1>5 DEF HaltsOnlyForIntTasks, SendPanics, In
<1>6. CASE SendFindsReceiver
  BY <1>6 DEF HaltsOnlyForIntTasks, SendFindsReceiver, In, Goto
<1>7. CASE SendEnqueues
  BY <1>7 DEF HaltsOnlyForIntTasks, SendEnqueues, In, Goto
<1>8. CASE SendSchedules
  BY <1>8 DEF HaltsOnlyForIntTasks, SendSchedules, In, Return, Runnable
<1>9. CASE SendAsserts
  BY <1>9 DEF HaltsOnlyForIntTasks, SendAsserts, In, Checked, Goto
<1>10. CASE SendCopies
  BY <1>10 DEF HaltsOnlyForIntTasks, SendCopies, In, Goto
<1>11. CASE SendClearsMsg
  BY <1>11 DEF HaltsOnlyForIntTasks, SendClearsMsg, In, Goto
<1>12. CASE SendReleases
  BY <1>12 DEF HaltsOnlyForIntTasks, SendReleases, In, Return
<1>13. CASE ReceiveTakesInt
  BY <1>13 DEF HaltsOnlyForIntTasks, ReceiveTakesInt, In, Goto
<1>14. CASE ReceiveIntAsserts
  BY <1>14 DEF HaltsOnlyForIntTasks, ReceiveIntAsserts, In, Checked, Return
<1>15. ASSUME NEW sender \in Procs, ReceiveTakesSender(sender)
       PROVE  HaltsOnlyForIntTasks'
  BY <1>15 DEF HaltsOnlyForIntTasks, ReceiveTakesSender, Sender, In, Return
<1>16. CASE ReceiveFindsNone
  BY <1>16 DEF HaltsOnlyForIntTasks, ReceiveFindsNone, In, Goto
<1>17. CASE ReceiveSetsFrom
  BY <1>17 DEF HaltsOnlyForIntTasks, ReceiveSetsFrom, In, Goto
<1>18. CASE ReceiveBlocks
  BY <1>18 DEF HaltsOnlyForIntTasks, ReceiveBlocks, In, Checked, Goto
<1>19. CASE ReceiveSchedules
  BY <1>19 DEF HaltsOnlyForIntTasks, ReceiveSchedules, In, Goto, Runnable
<1>20. CASE ReceiveAsserts
  <2>1. kpc = "receive_assert" /\ caller \in Procs /\ stopped = "no"
    BY <1>20 DEF ReceiveAsserts, In
  <2>2. /\ peer # NO_TASK
        /\ \/ p_flags[caller] = {RECEIVING} /\ p_recvfrom[caller] = peer
           \/ caller \in IntTasks
    BY <2>1
  <2>3. CASE caller \in IntTasks
    BY <1>20, <2>1, <2>3 DEF HaltsOnlyForIntTasks, ReceiveAsserts, Checked, Return
  <2>4. CASE caller \notin IntTasks
    <3>1. p_msg[caller] /\ p_sendto[caller] = NO_TASK /\ ~has_int_msg[caller]
      BY <2>1, <2>2, <2>4
    <3>2. stopped' = "no"
      BY <1>20, <2>1, <2>2, <2>4, <3>1 DEF ReceiveAsserts, Checked
    <3> QED BY <3>2 DEF HaltsOnlyForIntTasks
  <2> QED BY <2>3, <2>4
<1>21. ASSUME NEW task \in IntTasks, InformWakes(task)
       PROVE  HaltsOnlyForIntTasks'
  BY <1>21 DEF HaltsOnlyForIntTasks, InformWakes, WaitsForInt
<1>22. ASSUME NEW task \in IntTasks, InformPends(task)
       PROVE  HaltsOnlyForIntTasks'
  BY <1>22 DEF HaltsOnlyForIntTasks, InformPends, WaitsForInt
<1>23. CASE UNCHANGED vars
  BY <1>23 DEF HaltsOnlyForIntTasks, vars
<1> HIDE DEF TypeOK, PcbAgrees, CallAgrees
<1> QED
  BY <1>1, <1>2, <1>3, <1>4, <1>5, <1>6, <1>7, <1>8, <1>9, <1>10, <1>11,
     <1>12, <1>13, <1>14, <1>15, <1>16, <1>17, <1>18, <1>19, <1>20, <1>21,
     <1>22, <1>23
     DEF Next, UserStep, SendStep, ReceiveStep, Interrupt

-----------------------------------------------------------------------------
\* At boot all PCBs are idle and the queues empty.
LEMMA Initially == Init => IInv
<1> SUFFICES ASSUME Init
             PROVE  IInv
  OBVIOUS
<1> USE NamesAssumption DEF Init
<1>1. PcbsAgree /\ RepliesAgree
  BY DEF PcbsAgree, PcbAgrees, RepliesAgree, Sending, Receiving
<1>2. CallAgrees
  BY DEF CallAgrees, Delivering, Blocking, SendSteps, ReceiveSteps
<1>3. QueueHoldsSenders
  <2>1. \A d \in Procs : DOMAIN q_sending[d] = {}
    OBVIOUS
  <2> QED BY <2>1 DEF QueueHoldsSenders, Sending
<1>4. NoSendCycle
  <2>1. \A p \in Procs : ~Sending(p)
    BY DEF Sending
  <2>2. \A S \in (SUBSET Procs) \ {{}} : \E p \in S : p \in Procs
    OBVIOUS
  <2> QED BY <2>1, <2>2 DEF NoSendCycle
<1>5. NoMissedRendezvous /\ LostWakeupIsCaught /\ HaltsOnlyForIntTasks
  BY DEF NoMissedRendezvous, LostWakeupIsCaught, HaltsOnlyForIntTasks, WaitsFor,
         WaitsForInt, Receiving
<1> QED BY <1>1, <1>2, <1>3, <1>4, <1>5, TypeInit DEF IInv

\* All parts of the invariant together are kept by every step.
LEMMA Inductive == IInv /\ [Next]_vars => IInv'
  BY TypeStep, PcbStep, RepliesStep, CallStep, QueueStep, CycleStep,
     RendezvousStep, WakeupStep, HaltStep DEF IInv

\* So they hold in every state.
LEMMA Invariance == Spec => []IInv
  BY Initially, Inductive, PTL DEF Spec

\* Every variable of the kernel keeps its type, in spite of interrupts at every
\* point of a system call (ipc.c).
THEOREM TypeCorrect == Spec => []TypeOK
<1>1. IInv => TypeOK
  BY DEF IInv
<1> QED BY <1>1, Invariance, PTL

\* The list of waiting senders of each process is exact (ipc.c:199-210 and
\* 341-350), for any number of processes and any interrupts.
THEOREM QueuesAreExact == Spec => []QueueHoldsSenders
<1>1. IInv => QueueHoldsSenders
  BY DEF IInv
<1> QED BY <1>1, Invariance, PTL

\* deadlock() (ipc.c:117-142) is enough to keep circles of blocked senders of
\* any length out, and therefore its own walk is finite.
THEOREM SendsAreAcyclic == Spec => []NoSendCycle
<1>1. IInv => NoSendCycle
  BY DEF IInv
<1> QED BY <1>1, Invariance, PTL

-----------------------------------------------------------------------------
(***************************************************************************)
(* The loop of deadlock().                                                 *)
(***************************************************************************)
\* What a turn does: go on to whom p sends, and stay at a p that does not.
After(p) == IF Sending(p) THEN p_sendto[p] ELSE p

\* The loop has a run.
LEMMA WalkIs ==
  ASSUME TypeOK, PcbsAgree, NEW dest \in Procs
  PROVE  /\ Cardinality(Procs) \in Nat
         /\ \A n \in 0 .. Cardinality(Procs) : Walk(dest)[n] \in Procs
         /\ Walk(dest)[0] = dest
         /\ \A n \in 0 .. Cardinality(Procs) - 1 : Walk(dest)[n + 1] = After(Walk(dest)[n])
<1> DEFINE C == Cardinality(Procs)
           turn == [p \in Procs |-> After(p)]
           Walks(f) == f = [n \in 0 .. C |-> IF n = 0 THEN dest
                                ELSE IF Sending(f[n - 1]) THEN p_sendto[f[n - 1]]
                                ELSE f[n - 1]]
<1>1. C \in Nat
  BY ProcsAssumption, FS_CardinalityType
<1>2. turn \in [Procs -> Procs]
  BY DEF After, PcbsAgree, PcbAgrees
<1> HIDE DEF C
<1>3. PICK f \in [0 .. C -> Procs] : IsRun(f, dest, turn, C)
  <2> HIDE DEF turn
  <2> QED
    BY <1>1, <1>2, LoopRuns
<1>4. Walks(f)
  <2>1. ASSUME NEW n \in 0 .. C, n # 0
        PROVE  f[n] = IF Sending(f[n - 1]) THEN p_sendto[f[n - 1]] ELSE f[n - 1]
    <3>1. n \in 1 .. C /\ n - 1 \in 0 .. C
      BY <1>1, <2>1
    <3> QED
      BY <1>3, <3>1 DEF After, IsRun
  <2> QED
    BY <1>3, <2>1 DEF IsRun
<1>5. Walks(Walk(dest))
  BY <1>4 DEF Walk, C
<1> DEFINE w == Walk(dest)
<1> HIDE DEF w
<1>6. w = [n \in 0 .. C |-> IF n = 0 THEN dest ELSE After(w[n - 1])]
  BY <1>5 DEF w, After
<1> HIDE DEF Walks
<1>7. w[0] = dest
  BY <1>1, <1>6
<1>8. \A n \in 0 .. C - 1 : w[n + 1] = After(w[n])
  <2> TAKE n \in 0 .. C - 1
  <2>1. n + 1 \in 0 .. C /\ n + 1 # 0 /\ (n + 1) - 1 = n
    BY <1>1
  <2> QED
    BY <1>6, <2>1
<1>9. \A n \in 0 .. C : w[n] \in Procs
  <2> DEFINE T == {n \in 0 .. C : w[n] \in Procs}
  <2>1. 0 \in T
    BY <1>1, <1>7
  <2>2. \A n \in 0 .. C - 1 : n \in T => n + 1 \in T
    BY <1>1, <1>2, <1>8
  <2>3. 0 .. C \subseteq T
    <3> HIDE DEF T
    <3> QED
      BY <1>1, <2>1, <2>2, TurnByTurn
  <2> QED
    BY <2>3
<1> QED
  BY <1>1, <1>7, <1>8, <1>9 DEF w, C

\* The loop is at no proc for two turns: it ends, since the senders are no circle.
LEMMA WalkEnds ==
  ASSUME TypeOK, PcbsAgree, NoSendCycle, NEW dest \in Procs
  PROVE  ~Sending(Walk(dest)[Cardinality(Procs)])
<1> DEFINE C == Cardinality(Procs)
           w == Walk(dest)
<1>1. C \in Nat
  BY WalkIs
<1>2. \A n \in 0 .. C : w[n] \in Procs
  BY WalkIs
<1>3. \A n \in 0 .. C - 1 : w[n + 1] = After(w[n])
  BY WalkIs
<1>4. IsFiniteSet(Procs) /\ C = Cardinality(Procs)
  BY ProcsAssumption
<1> HIDE DEF C, w
<1>5. SUFFICES ASSUME Sending(w[C])
               PROVE  FALSE
  BY DEF C, w
<1>6. \A n \in 0 .. C : Sending(w[n])
  <2> TAKE n \in 0 .. C
  <2> DEFINE T == {k \in Nat : n + k <= C => w[n + k] = w[n]}
  <2>1. SUFFICES ASSUME ~Sending(w[n])
                 PROVE  FALSE
    OBVIOUS
  <2>2. 0 \in T
    OBVIOUS
  <2>3. ASSUME NEW k \in 0 .. (C - n) - 1, k \in T
        PROVE  k + 1 \in T
    <3>1. n + k \in 0 .. C - 1 /\ n + (k + 1) = (n + k) + 1
      BY <1>1
    <3>2. w[n + k] = w[n]
      BY <1>1, <2>3, <3>1
    <3>3. w[n + (k + 1)] = w[n]
      BY <1>3, <2>1, <3>1, <3>2 DEF After
    <3> QED
      BY <3>3
  <2>4. C - n \in Nat
    BY <1>1
  <2>5. 0 .. C - n \subseteq T
    <3> HIDE DEF T
    <3> QED
      BY <2>2, <2>3, <2>4, TurnByTurn
  <2>6. w[n + (C - n)] = w[n] /\ n + (C - n) = C
    BY <1>1, <2>4, <2>5
  <2> QED
    BY <1>5, <2>1, <2>6
<1>7. PICK i \in 0 .. C, j \in 0 .. C : i < j /\ w[i] = w[j]
  <2> DEFINE f == [n \in 0 .. C |-> w[n]]
  <2>1. f \in [0 .. C -> Procs]
    BY <1>2
  <2>2. IsFiniteSet(0 .. C) /\ Cardinality(Procs) < Cardinality(0 .. C)
    BY <1>1, <1>4, FS_Interval
  <2>3. \E x, y \in 0 .. C : x # y /\ f[x] = f[y]
    <3> HIDE DEF f
    <3> QED
      BY <1>4, <2>1, <2>2, FS_PigeonHole
  <2>4. PICK x \in 0 .. C, y \in 0 .. C : x # y /\ w[x] = w[y]
    BY <2>3
  <2> QED
    BY <1>1, <2>4
<1> DEFINE S == {w[k] : k \in i .. j - 1}
<1>8. S \in (SUBSET Procs) \ {{}}
  <2>1. i \in i .. j - 1 /\ \A k \in i .. j - 1 : k \in 0 .. C
    BY <1>1, <1>7
  <2> QED
    BY <1>2, <2>1
<1>9. ASSUME NEW p \in S
      PROVE  Sending(p) /\ p_sendto[p] \in S
  <2>1. PICK k \in i .. j - 1 : p = w[k]
    OBVIOUS
  <2>2. k \in 0 .. C - 1 /\ k \in 0 .. C
    BY <1>1, <1>7
  <2>3. Sending(p) /\ p_sendto[p] = w[k + 1]
    BY <1>3, <1>6, <2>1, <2>2 DEF After
  <2>4. CASE k + 1 = j
    BY <1>7, <2>3, <2>4
  <2>5. CASE k + 1 # j
    <3>1. k + 1 \in i .. j - 1
      BY <1>7, <2>5
    <3> QED
      BY <2>3, <3>1
  <2> QED
    BY <2>4, <2>5
<1> HIDE DEF S
<1> QED
  BY <1>8, <1>9 DEF NoSendCycle

\* Where the loop ends is the end of the chain that deadlock() is about.
LEMMA WalkFinds ==
  ASSUME TypeOK, PcbsAgree, NoSendCycle,
         NEW src \in Procs, NEW dest \in Procs, ~Sending(src)
  PROVE  Deadlock(src, dest) <=> Walk(dest)[Cardinality(Procs)] = src
<1> DEFINE C == Cardinality(Procs)
           w == Walk(dest)
<1>1. C \in Nat
  BY WalkIs
<1>2. w[0] = dest /\ \A n \in 0 .. C : w[n] \in Procs
  BY WalkIs
<1>3. \A n \in 0 .. C - 1 : w[n + 1] = After(w[n])
  BY WalkIs
<1>4. ~Sending(w[C])
  BY WalkEnds
<1> HIDE DEF C, w
<1>5. ASSUME Deadlock(src, dest)
      PROVE  w[C] = src
  <2> DEFINE S == {w[k] : k \in 0 .. C}
  <2>1. S \in SUBSET Procs /\ dest \in S
    BY <1>1, <1>2
  <2>2. ASSUME NEW p \in S, Sending(p)
        PROVE  p_sendto[p] \in S
    <3>1. PICK k \in 0 .. C : p = w[k]
      OBVIOUS
    <3>2. k \in 0 .. C - 1 /\ k + 1 \in 0 .. C
      BY <1>1, <1>4, <2>2, <3>1
    <3>3. p_sendto[p] = w[k + 1]
      BY <1>3, <2>2, <3>1, <3>2 DEF After
    <3> QED
      BY <3>2, <3>3
  <2>3. src \in S
    <3> HIDE DEF S
    <3> QED
      BY <1>5, <2>1, <2>2 DEF Deadlock
  <2>4. PICK n \in 0 .. C : src = w[n]
    BY <2>3
  <2> DEFINE T == {k \in Nat : n + k <= C => w[n + k] = src}
  <2>5. 0 \in T
    BY <2>4
  <2>6. ASSUME NEW k \in 0 .. (C - n) - 1, k \in T
        PROVE  k + 1 \in T
    <3>1. n + k \in 0 .. C - 1 /\ n + (k + 1) = (n + k) + 1
      BY <1>1
    <3>2. w[n + k] = src
      BY <1>1, <2>6, <3>1
    <3>3. w[n + (k + 1)] = src
      BY <1>3, <3>1, <3>2 DEF After
    <3> QED
      BY <3>3
  <2>7. C - n \in Nat
    BY <1>1
  <2>8. 0 .. C - n \subseteq T
    <3> HIDE DEF T
    <3> QED
      BY <2>5, <2>6, <2>7, TurnByTurn
  <2> QED
    BY <1>1, <2>7, <2>8
<1>6. ASSUME w[C] = src
      PROVE  Deadlock(src, dest)
  <2> SUFFICES ASSUME NEW S \in SUBSET Procs, dest \in S,
                      \A p \in S : Sending(p) => p_sendto[p] \in S
               PROVE  src \in S
    BY DEF Deadlock
  <2> DEFINE T == {n \in 0 .. C : w[n] \in S}
  <2>1. 0 \in T
    BY <1>1, <1>2
  <2>2. \A n \in 0 .. C - 1 : n \in T => n + 1 \in T
    BY <1>1, <1>3 DEF After
  <2>3. 0 .. C \subseteq T
    <3> HIDE DEF T
    <3> QED
      BY <1>1, <2>1, <2>2, TurnByTurn
  <2> QED
    BY <1>1, <1>6, <2>3
<1> QED
  BY <1>5, <1>6 DEF C, w

\* deadlock() ends, and answers what the set-based Deadlock says.
THEOREM DeadlockEnds == Spec => []DeadlockIsTheWalk
<1>1. IInv => DeadlockIsTheWalk
  BY WalkEnds, WalkFinds DEF IInv, DeadlockIsTheWalk
<1> QED
  BY <1>1, Invariance, PTL

-----------------------------------------------------------------------------
\* msg_send and msg_receive never leave a sender and a receiver that could meet
\* both blocked.
THEOREM NoRendezvousIsMissed == Spec => []NoMissedRendezvous
<1>1. IInv => NoMissedRendezvous
  BY DEF IInv
<1> QED BY <1>1, Invariance, PTL

\* No system call returns while a task that waits for an interrupt has one
\* pending: the assertion at ipc.c:380 catches what the window before it lets
\* slip.
THEOREM WakeupsAreNotLost == Spec => []NoLostWakeup
<1>1. IInv => NoLostWakeup
  BY ProcsAssumption DEF IInv, LostWakeupIsCaught, NoLostWakeup, Blocking, InUser
<1> QED BY <1>1, Invariance, PTL

\* Only the interrupt tasks can fail an assertion of ipc.c, so a system without
\* interrupts never stops in one.
THEOREM HaltsNeedInterrupts == Spec => []HaltsOnlyForIntTasks
<1>1. IInv => HaltsOnlyForIntTasks
  BY DEF IInv
<1> QED BY <1>1, Invariance, PTL

\* The process that executes in user mode may run: block() never returns to the
\* process it was called for.
THEOREM OnlyRunnableRun == Spec => []RunnerIsRunnable
<1>1. IInv => RunnerIsRunnable
  BY DEF IInv, TypeOK, CallAgrees, RunnerIsRunnable, InUser, Runnable
<1> QED BY <1>1, Invariance, PTL

\* The assertions of ipc.c that AssertsHold lists never fail, at any interrupt.
THEOREM AssertionsHold == Spec => []AssertsHold
<1>1. ASSUME IInv
      PROVE  AssertsHold
  <2> USE <1>1, ProcsAssumption, NamesAssumption
      DEF IInv, TypeOK, PcbsAgree, PcbAgrees, CallAgrees, Sending, Receiving,
          SendSteps, ReceiveSteps, Delivering
  <2>1. ASSUME kpc = "send_release"
        PROVE  /\ p_flags[peer] \subseteq {RECEIVING}
               /\ ~p_msg[peer] /\ p_sendto[peer] = NO_TASK
               /\ p_flags[caller] = {} /\ ~p_msg[caller]
               /\ p_recvfrom[caller] = NO_TASK /\ p_sendto[caller] = NO_TASK
    BY <2>1 DEF WaitsFor
  <2>2. ASSUME kpc = "send_block"
        PROVE  /\ p_flags[caller] = {SENDING} /\ p_msg[caller]
               /\ p_recvfrom[caller] = NO_TASK /\ p_sendto[caller] = peer
    BY <2>2
  <2>3. ASSUME kpc = "msg_receive", NEW sender \in Sender
        PROVE  /\ p_flags[caller] = {} /\ ~p_msg[caller]
               /\ p_recvfrom[caller] = NO_TASK /\ p_sendto[caller] = NO_TASK
               /\ p_flags[sender] = {SENDING} /\ p_msg[sender]
               /\ p_recvfrom[sender] = NO_TASK
    <3>1. sender \in Procs /\ Sending(sender) /\ PcbAgrees(sender) /\ PcbAgrees(caller)
      BY <2>3 DEF Sender
    <3> QED
      BY <2>3, <3>1
  <2>4. ASSUME NEW task \in IntTasks, WaitsForInt(task)
        PROVE  p_flags[task] = {RECEIVING} /\ p_sendto[task] = NO_TASK
    BY <2>4 DEF WaitsForInt
  <2> QED BY <2>1, <2>2, <2>3, <2>4 DEF AssertsHold
<1> QED BY <1>1, Invariance, PTL

-----------------------------------------------------------------------------
(***************************************************************************)
(* The kernel implements Rendezvous, step by step.                         *)
(***************************************************************************)
\* The receiver of a message that is being handed over was woken by an interrupt.
Woken == peer \in IntTasks /\ p_flags[peer] = {} /\ msg[peer] = IntMessage

\* What the parties hold in the windows of a call that has met its peer.
MessagesAgree ==
    /\ kpc = "receive_int" =>
            peer \in {ANY, INTERRUPT} /\ caller \in IntTasks /\ msg[caller] = IntMessage
    /\ kpc \in {"send_assert", "send_copy"} /\ ~p_msg[peer] => Woken
    /\ kpc \in {"send_clear_msg", "send_release"} => msg[peer] = msg[caller] \/ Woken

\* The message that is handed over stays what it was, or an interrupt's takes its place.
LEMMA MessagesStep == IInv /\ MessagesAgree /\ [Next]_vars => MessagesAgree'
<1> SUFFICES ASSUME IInv, MessagesAgree, [Next]_vars
             PROVE  MessagesAgree'
  OBVIOUS
<1> USE ProcsAssumption, NamesAssumption
    DEF IInv, TypeOK, PcbsAgree, PcbAgrees, CallAgrees, Sending, Receiving, WaitsFor,
        Delivering, Blocking, SendSteps, ReceiveSteps, pcbVars, callVars,
        MessagesAgree, Woken
<1>1. ASSUME NEW dest \in Procs, NEW type \in MsgTypes, NEW both \in BOOLEAN,
             CallSend(dest, type, both)
      PROVE  MessagesAgree'
  BY <1>1 DEF CallSend, InUser
<1>2. ASSUME NEW from \in Procs \cup {ANY, INTERRUPT}, CallReceive(from)
      PROVE  MessagesAgree'
  BY <1>2 DEF CallReceive, InUser
<1>3. CASE CallReceiveReply
  BY <1>3 DEF CallReceiveReply, InUser
<1>4. CASE Preempt
  BY <1>4 DEF Preempt, InUser, Runnable
<1>5. CASE SendPanics
  BY <1>5 DEF SendPanics, In
<1>6. CASE SendFindsReceiver
  BY <1>6 DEF SendFindsReceiver, In, Goto
<1>7. CASE SendEnqueues
  BY <1>7 DEF SendEnqueues, In, Goto
<1>8. CASE SendSchedules
  BY <1>8 DEF SendSchedules, In, Return, Runnable
<1>9. CASE SendAsserts
  BY <1>9 DEF SendAsserts, In, Checked, Goto
<1>10. CASE SendCopies
  BY <1>10 DEF SendCopies, In, Goto
<1>11. CASE SendClearsMsg
  BY <1>11 DEF SendClearsMsg, In, Goto
<1>12. CASE SendReleases
  BY <1>12 DEF SendReleases, In, Return
<1>13. CASE ReceiveTakesInt
  BY <1>13 DEF ReceiveTakesInt, IntPending, In, Goto
<1>14. CASE ReceiveIntAsserts
  BY <1>14 DEF ReceiveIntAsserts, In, Checked, Return
<1>15. ASSUME NEW sender \in Procs, ReceiveTakesSender(sender)
       PROVE  MessagesAgree'
  BY <1>15 DEF ReceiveTakesSender, In, Return
<1>16. CASE ReceiveFindsNone
  BY <1>16 DEF ReceiveFindsNone, In, Goto
<1>17. CASE ReceiveSetsFrom
  BY <1>17 DEF ReceiveSetsFrom, In, Goto
<1>18. CASE ReceiveBlocks
  BY <1>18 DEF ReceiveBlocks, In, Checked, Goto
<1>19. CASE ReceiveSchedules
  BY <1>19 DEF ReceiveSchedules, In, Goto, Runnable
<1>20. CASE ReceiveAsserts
  BY <1>20 DEF ReceiveAsserts, In, Checked, Return
<1>21. ASSUME NEW task \in IntTasks, InformWakes(task)
       PROVE  MessagesAgree'
  <2>1. task \in Procs /\ p_flags[task] = {RECEIVING} /\ p_flags'[task] = {}
    BY <1>21 DEF InformWakes, WaitsForInt
  <2>2. /\ p_msg'[task] = FALSE
        /\ msg'[task] = IF p_msg[task] THEN IntMessage ELSE msg[task]
        /\ \A p \in Procs \ {task} :
            p_flags'[p] = p_flags[p] /\ p_msg'[p] = p_msg[p] /\ msg'[p] = msg[p]
        /\ UNCHANGED <<kpc, caller, peer>>
    BY <1>21, <2>1 DEF InformWakes
  <2>3. kpc = "receive_int" \/ Delivering => caller \in Procs /\ task # caller
    BY <2>1
  <2>4. kpc = "receive_int" =>
            peer' \in {ANY, INTERRUPT} /\ caller' \in IntTasks /\ msg'[caller'] = IntMessage
    BY <2>2, <2>3
  <2>5. Delivering /\ task # peer => MessagesAgree'
    BY <2>2, <2>3
  <2>6. Delivering /\ task = peer => MessagesAgree'
    BY <1>21, <2>1, <2>2, <2>3
  <2> QED
    BY <2>2, <2>4, <2>5, <2>6
<1>22. ASSUME NEW task \in IntTasks, InformPends(task)
       PROVE  MessagesAgree'
  BY <1>22 DEF InformPends
<1>23. CASE UNCHANGED vars
  BY <1>23 DEF vars
<1> HIDE DEF IInv, TypeOK, PcbAgrees, CallAgrees, MessagesAgree
<1> QED
  BY <1>1, <1>2, <1>3, <1>4, <1>5, <1>6, <1>7, <1>8, <1>9, <1>10, <1>11,
     <1>12, <1>13, <1>14, <1>15, <1>16, <1>17, <1>18, <1>19, <1>20, <1>21,
     <1>22, <1>23
     DEF Next, UserStep, SendStep, ReceiveStep, Interrupt

\* The call of each process, where it is found.
CallFacts ==
    \A p \in Procs :
        /\ p = caller /\ kpc \in SendSteps => call[p] = SendTo(peer)
        /\ p = caller /\ kpc \in ReceiveSteps => call[p] = ReceiveFrom(peer)
        /\ p = peer /\ Delivering =>
                call[p] = ReceiveFrom(IF p_recvfrom[p] = NO_TASK THEN ANY
                                      ELSE p_recvfrom[p])
        /\ p # caller /\ ~(p = peer /\ Delivering) =>
                call[p] = IF Sending(p) THEN SendTo(p_sendto[p])
                          ELSE IF Receiving(p) THEN ReceiveFrom(p_recvfrom[p])
                          ELSE NoCall

\* The inductive invariant says which call each process is in.
LEMMA CallsAre == IInv => CallFacts
<1> SUFFICES ASSUME IInv, NEW p \in Procs
             PROVE  /\ p = caller /\ kpc \in SendSteps => call[p] = SendTo(peer)
                    /\ p = caller /\ kpc \in ReceiveSteps => call[p] = ReceiveFrom(peer)
                    /\ p = peer /\ Delivering =>
                            call[p] = ReceiveFrom(IF p_recvfrom[p] = NO_TASK THEN ANY
                                                  ELSE p_recvfrom[p])
                    /\ p # caller /\ ~(p = peer /\ Delivering) =>
                            call[p] = IF Sending(p) THEN SendTo(p_sendto[p])
                                      ELSE IF Receiving(p) THEN ReceiveFrom(p_recvfrom[p])
                                      ELSE NoCall
  BY DEF CallFacts
<1>1. call[p] = CallOf(p)
  BY DEF call
<1>2. Delivering => peer # caller /\ kpc \in SendSteps
  BY DEF IInv, CallAgrees, Delivering, SendSteps
<1>3. kpc \in SendSteps => kpc \notin ReceiveSteps
  BY DEF SendSteps, ReceiveSteps
<1> QED
  BY <1>1, <1>2, <1>3 DEF CallOf

\* The three kinds of calls are different, and Rendezvous has the same.
LEMMA CallsDiffer ==
  /\ NoCall.op = "none"
  /\ \A p : SendTo(p).op = "send" /\ SendTo(p).to = p
  /\ \A f : ReceiveFrom(f).op = "receive" /\ ReceiveFrom(f).from = f
  /\ R!NoCall = NoCall
  /\ \A p : R!SendTo(p) = SendTo(p) /\ R!ReceiveFrom(p) = ReceiveFrom(p)
BY DEF NoCall, SendTo, ReceiveFrom, R!NoCall, R!SendTo, R!ReceiveFrom

\* What a process holds, and what waits for it.
LEMMA BuffersAre ==
  \A p \in Procs :
    /\ buffer[p] = IF call[p].op = "receive" THEN NoMessage ELSE msg[p]
    /\ buffer'[p] = IF call'[p].op = "receive" THEN NoMessage ELSE msg'[p]
    /\ pending[p] \in BOOLEAN /\ pending'[p] \in BOOLEAN
    /\ pending[p] <=> has_int_msg[p] \/ TakingInt(p)
    /\ pending'[p] <=> has_int_msg'[p] \/ TakingInt(p)'
BY DEF buffer, pending

\* Functions on the processes are equal where their values are.
LEMMA Unseen ==
  ASSUME \A p \in Procs : call'[p] = call[p],
         \A p \in Procs : call[p].op # "receive" => msg'[p] = msg[p],
         \A p \in Procs : pending'[p] <=> pending[p],
         stopped' = stopped
  PROVE  UNCHANGED R!vars
<1>1. call' = call
  BY DEF call
<1>2. buffer' = buffer
  BY <1>1, BuffersAre DEF buffer
<1>3. pending' = pending
  <2>1. \A p \in Procs : pending'[p] = pending[p]
    BY BuffersAre
  <2> QED
    BY <2>1 DEF pending
<1> QED
  BY <1>1, <1>2, <1>3 DEF R!vars

\* A call that begins is a Send or a Receive.
LEMMA BeginRefines ==
  ASSUME IInv, IInv',
         \/ \E dest \in Procs, type \in MsgTypes, both \in BOOLEAN :
                CallSend(dest, type, both)
         \/ \E from \in Procs \cup {ANY, INTERRUPT} : CallReceive(from)
         \/ CallReceiveReply
  PROVE  R!Next
<1>1. CallFacts /\ CallFacts'
  BY CallsAre, PTL
<1>2. /\ kpc = "user" /\ stopped = "no" /\ UNCHANGED <<pcbVars, pcb_ptr, stopped>>
      /\ caller' = pcb_ptr /\ pcb_ptr \in Procs /\ peer' \in Procs \cup {ANY, INTERRUPT}
      /\ peer' # pcb_ptr /\ p_flags[pcb_ptr] = {} /\ caller = NO_TASK
      /\ kpc' \in {"msg_send", "msg_receive"}
      /\ \A p \in Procs \ {pcb_ptr} : msg'[p] = msg[p]
  BY DEF CallSend, CallReceive, CallReceiveReply, InUser, IInv, TypeOK, CallAgrees,
         RepliesAgree
<1>3. call[pcb_ptr] = NoCall
  BY <1>1, <1>2, NamesAssumption DEF CallFacts, Delivering, Sending, Receiving
<1>4. \A p \in Procs \ {pcb_ptr} : call'[p] = call[p]
  BY <1>1, <1>2, NamesAssumption
  DEF CallFacts, Delivering, Sending, Receiving, pcbVars
<1>5. pending' = pending
  <2>1. \A p \in Procs : pending'[p] = pending[p]
    BY <1>2, BuffersAre DEF TakingInt, pcbVars
  <2> QED
    BY <2>1 DEF pending
<1>6. \A p \in Procs \ {pcb_ptr} : buffer'[p] = buffer[p]
  BY <1>2, <1>4, BuffersAre
<1>7. CASE kpc' = "msg_send"
  <2>1. PICK dest \in Procs, type \in MsgTypes, both \in BOOLEAN :
            CallSend(dest, type, both)
    BY <1>7 DEF CallReceive, CallReceiveReply
  <2>2. call'[pcb_ptr] = SendTo(dest)
    BY <1>1, <1>2, <1>7, <2>1 DEF CallFacts, SendSteps, CallSend
  <2> DEFINE m == [source |-> pcb_ptr, type |-> type]
  <2>3. buffer'[pcb_ptr] = m
    BY <1>2, <2>1, <2>2, BuffersAre, CallsDiffer DEF CallSend, IInv, TypeOK
  <2>4. call' = [call EXCEPT ![pcb_ptr] = SendTo(dest)]
    BY <1>4, <2>2 DEF call
  <2>5. buffer' = [buffer EXCEPT ![pcb_ptr] = m]
    BY <1>6, <2>3 DEF buffer
  <2>6. R!Send(pcb_ptr, dest, m)
    BY <1>2, <1>3, <1>5, <2>1, <2>4, <2>5, CallsDiffer DEF R!Send, CallSend
  <2>7. m \in [source : Procs, type : MsgTypes]
    BY <1>2
  <2> QED
    BY <1>2, <2>6, <2>7 DEF R!Next
<1>8. CASE kpc' = "msg_receive"
  <2>1. call'[pcb_ptr] = ReceiveFrom(peer')
    BY <1>1, <1>2, <1>8 DEF CallFacts, ReceiveSteps
  <2>2. buffer'[pcb_ptr] = NoMessage
    BY <1>2, <2>1, BuffersAre, CallsDiffer
  <2>3. call' = [call EXCEPT ![pcb_ptr] = ReceiveFrom(peer')]
    BY <1>4, <2>1 DEF call
  <2>4. buffer' = [buffer EXCEPT ![pcb_ptr] = NoMessage]
    BY <1>6, <2>2 DEF buffer
  <2>5. R!Receive(pcb_ptr, peer')
    BY <1>2, <1>3, <1>5, <2>3, <2>4, CallsDiffer DEF R!Receive
  <2> QED
    BY <1>2, <2>5 DEF R!Next
<1> QED
  BY <1>2, <1>7, <1>8

\* A message that is handed over, or taken from the queue, is a Meet.
LEMMA MeetIs ==
  ASSUME NEW s \in Procs, NEW r \in Procs, s # r, stopped = "no", stopped' = stopped,
         call[s] = SendTo(r), NEW f, call[r] = ReceiveFrom(f), f \in {s, ANY},
         call'[s] = NoCall, call'[r] = NoCall,
         \A p \in Procs \ {s, r} : call'[p] = call[p] /\ msg'[p] = msg[p],
         msg'[s] = msg[s],
         \/ msg'[r] = msg[s]
         \/ r \in IntTasks /\ f = ANY /\ msg'[r] = IntMessage,
         \A p \in Procs : pending'[p] <=> pending[p]
  PROVE  R!Next
<1>1. call' = [call EXCEPT ![s] = NoCall, ![r] = NoCall]
  BY DEF call
<1>2. pending' = pending
  <2>1. \A p \in Procs : pending'[p] = pending[p]
    BY BuffersAre
  <2> QED
    BY <2>1 DEF pending
<1>3. buffer[s] = msg[s] /\ buffer'[s] = msg[s] /\ buffer'[r] = msg'[r]
  BY BuffersAre, CallsDiffer
<1>4. \A p \in Procs \ {r} : buffer'[p] = buffer[p]
  BY <1>3, BuffersAre
<1>5. buffer' = [buffer EXCEPT ![r] = msg'[r]]
  BY <1>3, <1>4 DEF buffer
<1>6. R!Meet(s, r) \/ R!Collide(s, r)
  <2>1. R!Receives(r, {s, ANY}) /\ (f = ANY => R!Receives(r, {ANY}))
    BY CallsDiffer DEF R!Receives
  <2>2. CASE msg'[r] = msg[s]
    BY <1>1, <1>2, <1>3, <1>5, <2>1, <2>2, CallsDiffer DEF R!Meet
  <2>3. CASE r \in IntTasks /\ f = ANY /\ msg'[r] = IntMessage
    BY <1>1, <1>2, <1>3, <1>5, <2>1, <2>3, CallsDiffer DEF R!Collide
  <2> QED
    BY <2>2, <2>3
<1> QED
  BY <1>6 DEF R!Next

\* A receive that an interrupt satisfies.
LEMMA TakeIs ==
  ASSUME NEW t \in IntTasks, stopped = "no", stopped' = stopped,
         NEW f, call[t] = ReceiveFrom(f), f \in {ANY, INTERRUPT},
         call'[t] = NoCall, msg'[t] = IntMessage, ~pending'[t],
         \A p \in Procs \ {t} :
            call'[p] = call[p] /\ msg'[p] = msg[p] /\ (pending'[p] <=> pending[p])
  PROVE  R!Next
<1>1. t \in Procs
  BY ProcsAssumption
<1>2. call' = [call EXCEPT ![t] = NoCall]
  BY <1>1 DEF call
<1>3. buffer'[t] = IntMessage
  BY <1>1, BuffersAre, CallsDiffer
<1>4. \A p \in Procs \ {t} : buffer'[p] = buffer[p]
  BY BuffersAre
<1>5. buffer' = [buffer EXCEPT ![t] = IntMessage]
  BY <1>1, <1>3, <1>4 DEF buffer
<1>6. pending' = [pending EXCEPT ![t] = FALSE]
  <2>1. \A p \in Procs : pending'[p] = IF p = t THEN FALSE ELSE pending[p]
    BY <1>1, BuffersAre
  <2> QED
    BY <1>1, <2>1 DEF pending
<1>7. R!Receives(t, {ANY, INTERRUPT})
  BY CallsDiffer DEF R!Receives
<1>8. R!TakeInterrupt(t)
  BY <1>2, <1>5, <1>6, <1>7, CallsDiffer DEF R!TakeInterrupt
<1> QED
  BY <1>8 DEF R!Next

\* An interrupt that is noted.
LEMMA ArriveIs ==
  ASSUME NEW t \in IntTasks, stopped = "no", stopped' = stopped, pending'[t],
         \A p \in Procs : call'[p] = call[p] /\ (call[p].op # "receive" => msg'[p] = msg[p]),
         \A p \in Procs \ {t} : pending'[p] <=> pending[p]
  PROVE  R!Next
<1>1. t \in Procs
  BY ProcsAssumption
<1>2. call' = call
  BY DEF call
<1>3. buffer' = buffer
  BY <1>2, BuffersAre DEF buffer
<1>4. pending' = [pending EXCEPT ![t] = TRUE]
  <2>1. \A p \in Procs : pending'[p] = IF p = t THEN TRUE ELSE pending[p]
    BY <1>1, BuffersAre
  <2> QED
    BY <1>1, <2>1 DEF pending
<1>5. R!Arrive(t)
  BY <1>2, <1>3, <1>4 DEF R!Arrive
<1> QED
  BY <1>5 DEF R!Next

\* A failed assertion, where nothing but stopped changes.
LEMMA FaultIs ==
  ASSUME IInv, NEW t \in IntTasks, stopped = "no", stopped' = "assert",
         NEW f \in Procs \cup {ANY, INTERRUPT}, call[t] = ReceiveFrom(f),
         UNCHANGED <<pcbVars, msg, callVars>>
  PROVE  R!Next
<1>1. call' = call /\ buffer' = buffer /\ pending' = pending
  BY DEF call, buffer, pending, CallOf, Delivering, Sending, Receiving, TakingInt,
         pcbVars, callVars
<1>2. R!Receives(t, Procs \cup {ANY, INTERRUPT})
  BY CallsDiffer DEF R!Receives
<1>3. R!Fault(t)
  BY <1>1, <1>2 DEF R!Fault
<1> QED
  BY <1>3 DEF R!Next

\* A send that would close a circle: the chain of senders from its peer on, and the
\* caller at its end, want one another.
LEMMA PanicIs ==
  ASSUME IInv, SendPanics
  PROVE  R!Next
<1> DEFINE Closed(S) == \A p \in S : Sending(p) => p_sendto[p] \in S
           Leads(x, p) == \A S \in SUBSET Procs : x \in S /\ Closed(S) => p \in S
           C == {p \in Procs : Leads(peer, p)}
<1>1. /\ kpc = "msg_send" /\ stopped = "no" /\ stopped' = "panic"
      /\ caller \in Procs /\ peer \in Procs /\ caller # peer
      /\ ~Sending(caller) /\ Leads(peer, caller)
      /\ UNCHANGED <<pcbVars, msg, callVars>>
  BY DEF SendPanics, In, Deadlock, IInv, CallAgrees, SendSteps, Sending
<1>2. \A p \in Procs : Sending(p) => p_sendto[p] \in Procs
  BY DEF IInv, PcbsAgree, PcbAgrees
<1>3. peer \in C /\ caller \in C
  BY <1>1
<1>4. Closed(C)
  <2> SUFFICES ASSUME NEW p \in C, Sending(p)
               PROVE  p_sendto[p] \in C
    OBVIOUS
  <2>1. p \in Procs /\ p_sendto[p] \in Procs /\ Leads(peer, p)
    BY <1>2
  <2>2. \A S \in SUBSET Procs : peer \in S /\ Closed(S) => p_sendto[p] \in S
    BY <2>1
  <2> QED
    BY <2>1, <2>2
<1>5. ASSUME NEW p \in C, p # caller
      PROVE  Sending(p)
  <2> SUFFICES ASSUME ~Sending(p) PROVE FALSE
    OBVIOUS
  <2> DEFINE T == {x \in Procs : Leads(x, p)}
  <2>1. p \in Procs /\ Leads(peer, p)
    OBVIOUS
  <2>2. Closed(T)
    <3> SUFFICES ASSUME NEW x \in Procs, Leads(x, p), Sending(x),
                        NEW S \in SUBSET Procs, p_sendto[x] \in S, Closed(S)
                 PROVE  p \in S
      BY <1>2
    <3>1. Closed(S \cup {x}) /\ S \cup {x} \in SUBSET Procs /\ x \in S \cup {x}
      OBVIOUS
    <3>2. p \in S \cup {x}
      BY <3>1
    <3>3. p # x
      OBVIOUS
    <3> QED
      BY <3>2, <3>3
  <2>3. peer \in T /\ T \in SUBSET Procs
    BY <1>1, <2>1
  <2>4. caller \in T
    <3> HIDE DEF T
    <3> QED
      BY <1>1, <2>2, <2>3
  <2>5. Closed({caller}) /\ {caller} \in SUBSET Procs /\ caller \in {caller}
    BY <1>1
  <2>6. p \in {caller}
    BY <2>4, <2>5
  <2> QED
    BY <1>5, <2>6
<1>6. \A p \in C : \E q \in C : call[p] = R!SendTo(q)
  <2> SUFFICES ASSUME NEW p \in C
               PROVE  \E q \in C : call[p] = R!SendTo(q)
    OBVIOUS
  <2>1. CallFacts /\ p \in Procs
    BY CallsAre
  <2>2. CASE p = caller
    <3>1. call[p] = SendTo(peer)
      BY <1>1, <2>1, <2>2 DEF CallFacts, SendSteps
    <3> HIDE DEF C
    <3> QED
      BY <1>3, <3>1, CallsDiffer
  <2>3. CASE p # caller
    <3>1. Sending(p)
      BY <1>5, <2>3
    <3>2. call[p] = SendTo(p_sendto[p])
      BY <1>1, <2>1, <2>3, <3>1 DEF CallFacts, Delivering
    <3>3. p_sendto[p] \in C
      BY <1>4, <3>1
    <3> HIDE DEF C
    <3> QED
      BY <3>2, <3>3, CallsDiffer
  <2> QED
    BY <2>2, <2>3
<1>7. C \in (SUBSET Procs) \ {{}}
  BY <1>3
<1>8. call' = call /\ buffer' = buffer /\ pending' = pending
  BY <1>1
  DEF call, buffer, pending, CallOf, Delivering, Sending, Receiving, TakingInt,
              pcbVars, callVars
<1> HIDE DEF C
<1>9. R!Panic
  BY <1>1, <1>6, <1>7, <1>8 DEF R!Panic
<1> QED
  BY <1>9 DEF R!Next

\* msg_send.
LEMMA SendRefines ==
  ASSUME IInv, IInv', MessagesAgree, SendStep
  PROVE  R!Next \/ UNCHANGED R!vars
<1>0. CallFacts /\ CallFacts'
  BY CallsAre, PTL
<1> USE ProcsAssumption, NamesAssumption, <1>0
    DEF IInv, TypeOK, PcbsAgree, PcbAgrees, CallAgrees, Sending, Receiving, WaitsFor,
        Delivering, SendSteps, ReceiveSteps, pcbVars, callVars, CallFacts, TakingInt
<1>1. CASE SendPanics
  BY <1>1, PanicIs
<1>2. CASE SendFindsReceiver
  <2>0. /\ kpc = "msg_send" /\ kpc' = "send_assert" /\ UNCHANGED <<pcbVars, caller, peer>>
        /\ caller \in Procs /\ peer \in Procs /\ peer # caller
        /\ Receiving(peer) /\ ~Sending(peer) /\ p_recvfrom[peer] # NO_TASK
    <3>1. /\ kpc = "msg_send" /\ kpc' = "send_assert"
          /\ UNCHANGED <<pcbVars, caller, peer>> /\ WaitsFor(peer, caller)
      BY <1>2 DEF SendFindsReceiver, In, Goto
    <3>2. caller \in Procs /\ peer \in Procs /\ peer # caller
      BY <3>1
    <3>3. PcbAgrees(peer)
      BY <3>2
    <3>4. Receiving(peer) /\ p_recvfrom[peer] # NO_TASK
      BY <3>1, <3>2
    <3>5. ~Sending(peer)
      BY <3>2, <3>3, <3>4
    <3> QED
      BY <3>1, <3>2, <3>4, <3>5
  <2>1. \A p \in Procs : call'[p] = call[p]
    <3> HIDE DEF IInv
    <3> QED
      BY <2>0
  <2>2. UNCHANGED msg /\ UNCHANGED stopped
    BY <1>2 DEF SendFindsReceiver
  <2>3. \A p \in Procs : pending'[p] <=> pending[p]
    BY <1>2, BuffersAre DEF SendFindsReceiver, In, Goto
  <2> QED
    BY <2>1, <2>2, <2>3, Unseen
<1>3. CASE SendEnqueues
  <2>0. /\ kpc = "msg_send" /\ kpc' = "send_block" /\ UNCHANGED <<caller, peer>>
        /\ caller \in Procs /\ peer \in Procs /\ peer # caller
        /\ \A p \in Procs \ {caller} : p_flags'[p] = p_flags[p] /\ p_sendto'[p] = p_sendto[p]
        /\ UNCHANGED p_recvfrom
    BY <1>3 DEF SendEnqueues, In, Goto
  <2>1. \A p \in Procs : call'[p] = call[p]
    <3> HIDE DEF IInv
    <3> QED
      BY <2>0
  <2>2. UNCHANGED msg /\ UNCHANGED stopped
    BY <1>3 DEF SendEnqueues
  <2>3. \A p \in Procs : pending'[p] <=> pending[p]
    BY <1>3, BuffersAre DEF SendEnqueues, In, Goto
  <2> QED
    BY <2>1, <2>2, <2>3, Unseen
<1>4. CASE SendSchedules
  <2>1. \A p \in Procs : call'[p] = call[p]
    BY <1>4 DEF SendSchedules, In, Return
  <2>2. UNCHANGED msg /\ UNCHANGED stopped
    BY <1>4 DEF SendSchedules
  <2>3. \A p \in Procs : pending'[p] <=> pending[p]
    BY <1>4, BuffersAre DEF SendSchedules, In, Return
  <2> QED
    BY <2>1, <2>2, <2>3, Unseen
<1>5. CASE SendAsserts /\ p_msg[peer]
  <2>0. /\ kpc = "send_assert" /\ kpc' = "send_copy" /\ UNCHANGED <<pcbVars, caller, peer>>
        /\ caller \in Procs /\ peer \in Procs /\ peer # caller
    BY <1>5 DEF SendAsserts, In, Checked, Goto
  <2>1. \A p \in Procs : call'[p] = call[p]
    <3> HIDE DEF IInv
    <3> QED
      BY <2>0
  <2>2. UNCHANGED msg /\ UNCHANGED stopped
    BY <1>5 DEF SendAsserts, Checked
  <2>3. \A p \in Procs : pending'[p] <=> pending[p]
    BY <1>5, BuffersAre DEF SendAsserts, In, Checked, Goto
  <2> QED
    BY <2>1, <2>2, <2>3, Unseen
<1>6. CASE SendAsserts /\ ~p_msg[peer]
  <2>1. /\ peer \in IntTasks /\ peer \in Procs /\ p_flags[peer] = {}
        /\ kpc = "send_assert" /\ stopped = "no" /\ stopped' = "assert"
        /\ UNCHANGED <<pcbVars, msg, callVars>>
    BY <1>6 DEF SendAsserts, In, Checked, MessagesAgree, Woken
  <2>2. call[peer] = ReceiveFrom(ANY)
    BY <2>1
  <2> HIDE DEF IInv, CallFacts
  <2> QED
    BY <2>1, <2>2, FaultIs
<1>7. CASE SendCopies
  <2>0. /\ kpc = "send_copy" /\ kpc' = "send_clear_msg" /\ UNCHANGED <<pcbVars, caller, peer>>
        /\ caller \in Procs /\ peer \in Procs /\ peer # caller
    BY <1>7 DEF SendCopies, In, Goto
  <2>1. \A p \in Procs : call'[p] = call[p]
    <3> HIDE DEF IInv
    <3> QED
      BY <2>0
  <2>2. UNCHANGED stopped /\ \A p \in Procs \ {peer} : msg'[p] = msg[p]
    BY <1>7 DEF SendCopies
  <2>3. call[peer].op = "receive"
    BY <1>7, CallsDiffer DEF SendCopies, In
  <2>4. \A p \in Procs : pending'[p] <=> pending[p]
    BY <1>7, BuffersAre DEF SendCopies, In, Goto
  <2> QED
    BY <2>1, <2>2, <2>3, <2>4, Unseen
<1>8. CASE SendClearsMsg
  <2>0. /\ kpc = "send_clear_msg" /\ kpc' = "send_release"
        /\ UNCHANGED <<p_flags, p_sendto, p_recvfrom, caller, peer>>
        /\ caller \in Procs /\ peer \in Procs /\ peer # caller
    BY <1>8 DEF SendClearsMsg, In, Goto
  <2>1. \A p \in Procs : call'[p] = call[p]
    <3> HIDE DEF IInv
    <3> QED
      BY <2>0
  <2>2. UNCHANGED msg /\ UNCHANGED stopped
    BY <1>8 DEF SendClearsMsg
  <2>3. \A p \in Procs : pending'[p] <=> pending[p]
    BY <1>8, BuffersAre DEF SendClearsMsg, In, Goto
  <2> QED
    BY <2>1, <2>2, <2>3, Unseen
<1>9. CASE SendReleases
  <2>1. /\ kpc = "send_release" /\ stopped = "no" /\ stopped' = stopped /\ msg' = msg
        /\ caller \in Procs /\ peer \in Procs /\ caller # peer
        /\ p_flags[caller] = {}
        /\ kpc' = "user" /\ caller' = NO_TASK /\ peer' = NO_TASK
        /\ p_flags' = [p_flags EXCEPT ![peer] = @ \ {RECEIVING}]
        /\ p_recvfrom' = [p_recvfrom EXCEPT ![peer] = NO_TASK]
        /\ UNCHANGED <<p_sendto, has_int_msg>>
    BY <1>9 DEF SendReleases, In, Return
  <2> DEFINE f == IF p_recvfrom[peer] = NO_TASK THEN ANY ELSE p_recvfrom[peer]
  <2>2. call[caller] = SendTo(peer) /\ call[peer] = ReceiveFrom(f)
    BY <2>1
  <2>3. /\ f \in {caller, ANY}
        /\ msg[peer] = msg[caller] \/ (peer \in IntTasks /\ f = ANY /\ msg[peer] = IntMessage)
    BY <2>1 DEF MessagesAgree, Woken
  <2>4. p_flags'[peer] = {}
    <3>1. p_flags[peer] \in {{}, {RECEIVING}}
      BY <2>1
    <3>2. p_flags'[peer] = p_flags[peer] \ {RECEIVING}
      BY <2>1
    <3> HIDE DEF IInv
    <3> QED
      BY <3>1, <3>2
  <2>5. /\ call'[caller] = NoCall /\ call'[peer] = NoCall
        /\ \A p \in Procs \ {caller, peer} : call'[p] = call[p]
    <3>1. \A p \in Procs \ {peer} : /\ p_flags'[p] = p_flags[p]
                                   /\ p_recvfrom'[p] = p_recvfrom[p]
      BY <2>1
    <3> HIDE DEF IInv
    <3> QED
      BY <2>1, <2>4, <3>1
  <2>7. \A p \in Procs : pending'[p] <=> pending[p]
    BY <2>1, BuffersAre
  <2> HIDE DEF f, IInv, CallFacts
  <2> QED
    BY <2>1, <2>2, <2>3, <2>5, <2>7, MeetIs
<1> HIDE DEF IInv, CallFacts
<1> QED
  BY <1>1, <1>2, <1>3, <1>4, <1>5, <1>6, <1>7, <1>8, <1>9 DEF SendStep

\* msg_receive.
LEMMA ReceiveRefines ==
  ASSUME IInv, IInv', MessagesAgree, ReceiveStep
  PROVE  R!Next \/ UNCHANGED R!vars
<1>0. CallFacts /\ CallFacts'
  BY CallsAre, PTL
<1> USE ProcsAssumption, NamesAssumption, <1>0
    DEF IInv, TypeOK, PcbsAgree, PcbAgrees, CallAgrees, Sending, Receiving, WaitsFor,
        Delivering, Blocking, SendSteps, ReceiveSteps, pcbVars, callVars, CallFacts,
        TakingInt
<1>1. CASE ReceiveTakesInt
  <2>0. /\ kpc = "msg_receive" /\ kpc' = "receive_int" /\ caller \in Procs
        /\ UNCHANGED <<p_flags, p_sendto, p_recvfrom, caller, peer>>
    BY <1>1 DEF ReceiveTakesInt, In, Goto
  <2>1. \A p \in Procs : call'[p] = call[p]
    <3> HIDE DEF IInv
    <3> QED
      BY <2>0
  <2>2. /\ UNCHANGED stopped /\ \A p \in Procs \ {caller} : msg'[p] = msg[p]
        /\ call[caller].op = "receive"
    BY <1>1, CallsDiffer DEF ReceiveTakesInt, In
  <2>3. \A p \in Procs : pending'[p] <=> pending[p]
    BY <1>1, BuffersAre DEF ReceiveTakesInt, IntPending, In, Goto
  <2> QED
    BY <2>1, <2>2, <2>3, Unseen
<1>2. CASE ReceiveIntAsserts /\ stopped' = "no"
  <2>1. /\ kpc = "receive_int" /\ stopped = "no" /\ msg' = msg
        /\ caller \in IntTasks /\ peer \in {ANY, INTERRUPT} /\ msg[caller] = IntMessage
        /\ p_flags[caller] = {} /\ ~has_int_msg[caller]
        /\ kpc' = "user" /\ caller' = NO_TASK /\ peer' = NO_TASK
        /\ UNCHANGED pcbVars
    BY <1>2 DEF ReceiveIntAsserts, Checked, In, Return, MessagesAgree
  <2>2. call[caller] = ReceiveFrom(peer) /\ call'[caller] = NoCall
    BY <2>1
  <2>3. \A p \in Procs \ {caller} : call'[p] = call[p]
    BY <2>1
  <2>4. ~pending'[caller] /\ \A p \in Procs \ {caller} : pending'[p] <=> pending[p]
    BY <2>1, BuffersAre
  <2> HIDE DEF IInv, CallFacts
  <2> QED
    BY <1>2, <2>1, <2>2, <2>3, <2>4, TakeIs
<1>3. CASE ReceiveIntAsserts /\ stopped' # "no"
  <2>1. /\ kpc = "receive_int" /\ stopped = "no" /\ stopped' = "assert"
        /\ caller \in IntTasks /\ peer \in {ANY, INTERRUPT}
        /\ UNCHANGED <<pcbVars, msg, callVars>>
    BY <1>3 DEF ReceiveIntAsserts, Checked, In, MessagesAgree
  <2>2. call[caller] = ReceiveFrom(peer)
    BY <2>1
  <2> QED
    BY ZenonT(60), <2>1, <2>2, FaultIs
<1>4. ASSUME NEW sender \in Procs, ReceiveTakesSender(sender)
      PROVE  R!Next
  <2>1. /\ kpc = "msg_receive" /\ stopped = "no" /\ stopped' = stopped
        /\ caller \in Procs /\ p_flags[caller] = {}
        /\ Sending(sender) /\ p_sendto[sender] = caller /\ p_flags[sender] = {SENDING}
        /\ sender # caller /\ peer \in {sender, ANY}
        /\ msg' = [msg EXCEPT ![caller] = msg[sender]]
        /\ p_sendto' = [p_sendto EXCEPT ![sender] = NO_TASK]
        /\ p_flags' = [p_flags EXCEPT ![sender] = @ \ {SENDING}]
        /\ kpc' = "user" /\ caller' = NO_TASK /\ peer' = NO_TASK
        /\ UNCHANGED <<p_recvfrom, has_int_msg>>
    BY <1>4 DEF ReceiveTakesSender, Sender, In, Return
  <2>2. call[caller] = ReceiveFrom(peer) /\ call[sender] = SendTo(caller)
    BY <2>1
  <2>3. p_flags'[sender] = {} /\ p_flags'[caller] = {}
    BY <2>1
  <2>4. /\ call'[caller] = NoCall /\ call'[sender] = NoCall
        /\ \A p \in Procs \ {caller, sender} : call'[p] = call[p]
    <3>1. \A p \in Procs \ {sender} : /\ p_flags'[p] = p_flags[p]
                                     /\ p_sendto'[p] = p_sendto[p]
      BY <2>1
    <3> HIDE DEF IInv
    <3> QED
      BY <2>1, <2>3, <3>1
  <2>6. \A p \in Procs : pending'[p] <=> pending[p]
    BY <2>1, BuffersAre
  <2>7. /\ msg'[sender] = msg[sender] /\ msg'[caller] = msg[sender]
        /\ \A p \in Procs \ {caller, sender} : msg'[p] = msg[p]
    BY <2>1
  <2> HIDE DEF IInv, CallFacts
  <2> QED
    BY <2>1, <2>2, <2>4, <2>6, <2>7, MeetIs
<1>5. CASE ReceiveFindsNone
  <2>0. /\ kpc = "msg_receive" /\ kpc' = "receive_from" /\ caller \in Procs
        /\ UNCHANGED <<p_sendto, p_recvfrom, caller, peer>>
        /\ \A p \in Procs \ {caller} : p_flags'[p] = p_flags[p]
    BY <1>5 DEF ReceiveFindsNone, In, Goto
  <2>1. \A p \in Procs : call'[p] = call[p]
    <3> HIDE DEF IInv
    <3> QED
      BY <2>0
  <2>2. UNCHANGED msg /\ UNCHANGED stopped
    BY <1>5 DEF ReceiveFindsNone
  <2>3. \A p \in Procs : pending'[p] <=> pending[p]
    BY <1>5, BuffersAre DEF ReceiveFindsNone, In, Goto
  <2> QED
    BY <2>1, <2>2, <2>3, Unseen
<1>6. CASE ReceiveSetsFrom
  <2>0. /\ kpc = "receive_from" /\ kpc' = "receive_block" /\ caller \in Procs
        /\ UNCHANGED <<p_sendto, p_flags, caller, peer>>
        /\ \A p \in Procs \ {caller} : p_recvfrom'[p] = p_recvfrom[p]
    BY <1>6 DEF ReceiveSetsFrom, In, Goto
  <2>1. \A p \in Procs : call'[p] = call[p]
    <3> HIDE DEF IInv
    <3> QED
      BY <2>0
  <2>2. UNCHANGED msg /\ UNCHANGED stopped
    BY <1>6 DEF ReceiveSetsFrom
  <2>3. \A p \in Procs : pending'[p] <=> pending[p]
    BY <1>6, BuffersAre DEF ReceiveSetsFrom, In, Goto
  <2> QED
    BY <2>1, <2>2, <2>3, Unseen
<1>7. CASE ReceiveBlocks /\ p_flags[caller] # {}
  <2>0. /\ kpc = "receive_block" /\ kpc' = "receive_schedule" /\ caller \in Procs
        /\ UNCHANGED <<pcbVars, caller, peer>>
    BY <1>7 DEF ReceiveBlocks, Checked, In, Goto
  <2>1. \A p \in Procs : call'[p] = call[p]
    <3> HIDE DEF IInv
    <3> QED
      BY <2>0
  <2>2. UNCHANGED msg /\ UNCHANGED stopped
    BY <1>7 DEF ReceiveBlocks, Checked
  <2>3. \A p \in Procs : pending'[p] <=> pending[p]
    BY <1>7, BuffersAre DEF ReceiveBlocks, Checked, In, Goto
  <2> QED
    BY <2>1, <2>2, <2>3, Unseen
<1>8. CASE ReceiveBlocks /\ p_flags[caller] = {}
  <2>1. /\ kpc = "receive_block" /\ stopped = "no" /\ stopped' = "assert"
        /\ caller \in IntTasks /\ peer \in Procs \cup {ANY, INTERRUPT}
        /\ UNCHANGED <<pcbVars, msg, callVars>>
    BY <1>8 DEF ReceiveBlocks, Checked, In
  <2>2. call[caller] = ReceiveFrom(peer)
    BY <2>1
  <2> QED
    BY ZenonT(60), <2>1, <2>2, FaultIs
<1>9. CASE ReceiveSchedules
  <2>0. /\ kpc = "receive_schedule" /\ kpc' = "receive_assert" /\ caller \in Procs
        /\ UNCHANGED <<pcbVars, caller, peer>>
    BY <1>9 DEF ReceiveSchedules, In, Goto
  <2>1. \A p \in Procs : call'[p] = call[p]
    <3> HIDE DEF IInv
    <3> QED
      BY <2>0
  <2>2. UNCHANGED msg /\ UNCHANGED stopped
    BY <1>9 DEF ReceiveSchedules
  <2>3. \A p \in Procs : pending'[p] <=> pending[p]
    BY <1>9, BuffersAre DEF ReceiveSchedules, In, Goto
  <2> QED
    BY <2>1, <2>2, <2>3, Unseen
<1>10. CASE ReceiveAsserts /\ stopped' = "no"
  <2>1. /\ kpc = "receive_assert" /\ stopped = "no" /\ msg' = msg
        /\ caller \in Procs /\ p_flags[caller] = {RECEIVING} /\ p_recvfrom[caller] = peer
        /\ kpc' = "user" /\ caller' = NO_TASK /\ peer' = NO_TASK
        /\ UNCHANGED pcbVars
    BY <1>10 DEF ReceiveAsserts, Checked, In, Return
  <2>2. \A p \in Procs : call'[p] = call[p]
    BY <2>1
  <2>3. \A p \in Procs : pending'[p] <=> pending[p]
    BY <2>1, BuffersAre
  <2> QED
    BY <1>10, <2>1, <2>2, <2>3, Unseen
<1>11. CASE ReceiveAsserts /\ stopped' # "no"
  <2>1. /\ kpc = "receive_assert" /\ stopped = "no" /\ stopped' = "assert"
        /\ UNCHANGED <<pcbVars, msg, callVars>>
        /\ peer \in Procs \cup {ANY, INTERRUPT}
    BY <1>11 DEF ReceiveAsserts, Checked, In
  <2>2. caller \in IntTasks
    BY <2>1 DEF HaltsOnlyForIntTasks
  <2>3. call[caller] = ReceiveFrom(peer)
    BY <2>1, <2>2
  <2> QED
    BY ZenonT(60), <2>1, <2>2, <2>3, FaultIs
<1> HIDE DEF IInv, CallFacts
<1> QED
  BY <1>1, <1>2, <1>3, <1>4, <1>5, <1>6, <1>7, <1>8, <1>9, <1>10, <1>11
  DEF ReceiveStep

\* inform_int.
LEMMA InterruptRefines ==
  ASSUME IInv, IInv', MessagesAgree, Interrupt
  PROVE  R!Next \/ UNCHANGED R!vars
<1>0. CallFacts /\ CallFacts'
  BY CallsAre, PTL
<1> USE ProcsAssumption, NamesAssumption, <1>0
    DEF IInv, TypeOK, PcbsAgree, PcbAgrees, CallAgrees, Sending, Receiving, WaitsFor,
        Delivering, Blocking, SendSteps, ReceiveSteps, pcbVars, callVars, CallFacts,
        TakingInt
<1>1. ASSUME NEW task \in IntTasks, InformPends(task)
      PROVE  R!Next
  <2>0. /\ UNCHANGED <<p_flags, p_sendto, p_recvfrom, kpc, caller, peer>>
        /\ caller = NO_TASK \/ (caller \in Procs /\ kpc \in SendSteps \cup ReceiveSteps)
    BY <1>1 DEF InformPends
  <2>1. \A p \in Procs : call'[p] = call[p]
    <3> HIDE DEF IInv
    <3> QED
      BY <2>0
  <2>2. stopped = "no" /\ UNCHANGED msg /\ UNCHANGED stopped
    BY <1>1 DEF InformPends
  <2>3. pending'[task] /\ \A p \in Procs \ {task} : pending'[p] <=> pending[p]
    BY <1>1, BuffersAre DEF InformPends
  <2> HIDE DEF IInv, CallFacts
  <2> QED
    BY <2>1, <2>2, <2>3, ArriveIs
<1>2. ASSUME NEW task \in IntTasks, InformWakes(task)
      PROVE  R!Next \/ UNCHANGED R!vars
  <2>1. /\ task \in Procs /\ p_flags[task] = {RECEIVING} /\ p_flags'[task] = {}
        /\ p_recvfrom[task] \in {INTERRUPT, ANY} /\ p_recvfrom'[task] = NO_TASK
        /\ has_int_msg'[task] = FALSE
        /\ \A p \in Procs \ {task} :
            /\ p_flags'[p] = p_flags[p] /\ p_recvfrom'[p] = p_recvfrom[p]
            /\ has_int_msg'[p] = has_int_msg[p] /\ msg'[p] = msg[p]
        /\ UNCHANGED <<p_sendto, kpc, caller, peer, stopped>> /\ stopped = "no"
        /\ p_msg[task] => msg'[task] = IntMessage
    BY <1>2 DEF InformWakes, WaitsForInt
  <2>0. caller = NO_TASK \/ (caller \in Procs /\ kpc \in SendSteps \cup ReceiveSteps)
    OBVIOUS
  <2>2. \A p \in Procs \ {task} : call'[p] = call[p] /\ (pending'[p] <=> pending[p])
    <3> HIDE DEF IInv
    <3>1. \A p \in Procs \ {task} : call'[p] = call[p]
      BY <2>0, <2>1
    <3>2. \A p \in Procs \ {task} : pending'[p] <=> pending[p]
      BY <2>1, BuffersAre
    <3> QED
      BY <3>1, <3>2
  <2>3. CASE task = caller
    <3>1. Blocking /\ kpc \in ReceiveSteps
      BY <2>1, <2>3
    <3>2. call'[task] = call[task] /\ call[task].op = "receive"
      BY <2>1, <2>3, <3>1, CallsDiffer
    <3>3. pending'[task]
      BY <2>1, <2>3, <3>1, BuffersAre
    <3> HIDE DEF IInv, CallFacts
    <3> QED
      BY <2>1, <2>2, <3>2, <3>3, ArriveIs
  <2>4. CASE task = peer /\ Delivering
    <3>1. task # caller /\ call[task] = ReceiveFrom(ANY) /\ call'[task] = ReceiveFrom(ANY)
      BY <2>1, <2>4
    <3>2. ~has_int_msg[task]
      BY <2>1, <3>1 DEF LostWakeupIsCaught, WaitsForInt
    <3>3. pending'[task] <=> pending[task]
      BY <2>1, <3>1, <3>2, BuffersAre
    <3> HIDE DEF IInv, CallFacts
    <3> QED
      BY <2>1, <2>2, <3>1, <3>3, CallsDiffer, Unseen
  <2>5. CASE task # caller /\ ~(task = peer /\ Delivering)
    <3>1. call[task] = ReceiveFrom(p_recvfrom[task]) /\ call'[task] = NoCall
      BY <2>1, <2>5
    <3>2. ~pending'[task]
      BY <2>1, <2>5, BuffersAre
    <3>3. p_msg[task]
      BY <2>1, <2>5
    <3> HIDE DEF IInv, CallFacts
    <3> QED
      BY <2>1, <2>2, <3>1, <3>2, <3>3, TakeIs
  <2> QED
    BY <2>3, <2>4, <2>5
<1> HIDE DEF IInv, CallFacts
<1> QED
  BY <1>1, <1>2 DEF Interrupt

\* Each step of the kernel is a step of Rendezvous, or unseen there.
LEMMA StepRefines ==
  ASSUME IInv, IInv', MessagesAgree, [Next]_vars
  PROVE  [R!Next]_(R!vars)
<1>1. CASE UserStep
  BY <1>1, BeginRefines DEF UserStep
<1>2. CASE Preempt
  BY <1>2 DEF Preempt, R!vars, call, buffer, pending, CallOf, Delivering, Sending,
              Receiving, TakingInt, pcbVars, callVars
<1>3. CASE SendStep
  BY <1>3, SendRefines
<1>4. CASE ReceiveStep
  BY <1>4, ReceiveRefines
<1>5. CASE Interrupt
  BY <1>5, InterruptRefines
<1>6. CASE UNCHANGED vars
  BY <1>6 DEF vars, R!vars, call, buffer, pending, CallOf, Delivering, Sending,
              Receiving, TakingInt, pcbVars, callVars
<1> QED
  BY <1>1, <1>2, <1>3, <1>4, <1>5, <1>6 DEF Next

\* The kernel implements Rendezvous (ipc.c:145-381, for any processes and at any
\* interrupts): calls complete in pairs that want each other, and the receiver then
\* holds the sender's message, except where an interrupt comes between.
THEOREM KernelImplementsRendezvous == Spec => ImplementsRendezvous
<1>1. Init => R!Init
  BY NamesAssumption
     DEF Init, R!Init, R!NoCall, call, buffer, pending, CallOf, Delivering, Sending,
         Receiving, TakingInt, NoCall, NoMessage
<1>2. Init => MessagesAgree
  BY DEF Init, MessagesAgree
<1>3. IInv /\ IInv' /\ MessagesAgree /\ [Next]_vars => [R!Next]_(R!vars)
  BY StepRefines
<1> QED
  BY <1>1, <1>2, <1>3, MessagesStep, Invariance, PTL
  DEF Spec, ImplementsRendezvous, R!Spec

=============================================================================
