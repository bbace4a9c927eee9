---------------------------------- MODULE FsTty --------------------------------
(***************************************************************************)
(* Reading from and writing to a terminal: user processes, the file system *)
(* server (task_fs and the terminal half of do_rdwt and do_open) and the   *)
(* TTY task, and the messages between them.                                *)
(*                                                                         *)
(* A read is answered in two parts: TTY answers FS with SUSPEND_PROC, and  *)
(* FS leaves its caller waiting; when the line is there, TTY sends FS      *)
(* RESUME_PROC, and FS answers the caller.                                 *)
(*                                                                         *)
(* Messages are those of Rendezvous, which Ipc implements, with what an    *)
(* interrupt inside a system call can do to them: the clock, which informs *)
(* TTY of keys, destroys a message to TTY (Collide) or makes an assertion  *)
(* fail (Fault).  The keyboard is left open: in any round of TTY a         *)
(* character may have been typed on any console (see Tty).                 *)
(***************************************************************************)
EXTENDS Integers

CONSTANTS
    Users,      \* the user processes
    FS, TTY,    \* the tasks
    Ttys,       \* the terminals
    Bound,      \* the terminals each user has open
    Counts,     \* the numbers of characters users ask for
    ANY, INTERRUPT, NO_TASK

ASSUME BoundAssumption == Bound \in [Users -> SUBSET Ttys]
ASSUME CountsAssumption == Counts \subseteq Nat
ASSUME NamesAssumption ==
    /\ FS # TTY /\ FS \notin Users /\ TTY \notin Users
    /\ {ANY, INTERRUPT, NO_TASK} \cap (Users \cup {FS, TTY}) = {}
    /\ ANY # INTERRUPT

VARIABLES
    call, buffer, pending, stopped,     \* message passing, see Rendezvous
    upc,        \* per user: where it is in its call of read, write or open
    asked,      \* per user: the message of that call
    fpc,        \* where task_fs is
    src,        \* whom task_fs is going to answer
    served,     \* the message of the call that do_rdwt or do_open serves, while it does
    tpc,        \* where task_tty is
    current,    \* the terminal tty_dev_write works on
    req,        \* per terminal: the read it serves
    lost        \* history: an interrupt has destroyed a message to TTY

ipcVars == <<call, buffer, pending, stopped>>
vars == <<ipcVars, upc, asked, fpc, src, served, tpc, current, req, lost>>

Procs == Users \cup {FS, TTY}

MsgTypes == {"READ", "WRITE", "OPEN", "DEV_READ", "DEV_WRITE", "DEV_OPEN",
             "SUSPEND_PROC", "RESUME_PROC", "SYSCALL_RET", "HARD_INT", "none"}

Messages == [source : Procs \cup {INTERRUPT, NO_TASK}, type : MsgTypes,
             DEVICE : Ttys \cup {NO_TASK}, CNT : Nat, PROC_NR : Users \cup {NO_TASK}]

Msg(source, type, dev, cnt, proc) ==
    [source |-> source, type |-> type, DEVICE |-> dev, CNT |-> cnt, PROC_NR |-> proc]

NoMessage == Msg(NO_TASK, "none", NO_TASK, 0, NO_TASK)
IntMessage == Msg(INTERRUPT, "HARD_INT", NO_TASK, 0, NO_TASK)

K == INSTANCE Rendezvous WITH IntTasks <- {TTY}

NoRequest == [proc |-> NO_TASK, left |-> 0, trans |-> 0]

TypeOK ==
    /\ K!TypeOK
    /\ upc \in [Users -> {"run", "send", "receive"}]
    /\ asked \in [Users -> Messages]
    /\ fpc \in {"start", "receive", "driver", "answer"}
    /\ src \in Users \cup {NO_TASK}
    /\ served \in Messages
    /\ tpc \in {"work", "resume", "receive"}
    /\ current \in Ttys
    /\ req \in [Ttys -> [proc : Users \cup {NO_TASK}, left : Nat, trans : Nat]]
    /\ lost \in BOOLEAN

Init ==
    /\ K!Init
    /\ upc = [u \in Users |-> "run"]
    /\ asked = [u \in Users |-> NoMessage]
    /\ fpc = "start"
    /\ src = NO_TASK
    /\ served = NoMessage
    /\ tpc = "work"
    /\ current \in Ttys
    /\ req = [t \in Ttys |-> NoRequest]
    /\ lost = FALSE

\* Process p is not blocked in a call, so it executes its code.
Runs(p) == stopped = "no" /\ call[p] = K!NoCall

-----------------------------------------------------------------------------
(***************************************************************************)
(* User processes: read, write and open are send_recv(BOTH, TASK_FS).      *)
(***************************************************************************)
UserCalls(u, type, t, n) ==
    /\ Runs(u) /\ upc[u] = "run"
    /\ LET m == Msg(u, type, t, n, NO_TASK) IN
        /\ K!Send(u, FS, m)
        /\ asked' = [asked EXCEPT ![u] = m]
    /\ upc' = [upc EXCEPT ![u] = "send"]
    /\ UNCHANGED <<fpc, src, served, tpc, current, req, lost>>

UserReceives(u) ==
    /\ Runs(u) /\ upc[u] = "send"
    /\ K!Receive(u, FS)
    /\ upc' = [upc EXCEPT ![u] = "receive"]
    /\ UNCHANGED <<asked, fpc, src, served, tpc, current, req, lost>>

UserReturns(u) ==
    /\ Runs(u) /\ upc[u] = "receive"
    /\ upc' = [upc EXCEPT ![u] = "run"]
    /\ asked' = [asked EXCEPT ![u] = NoMessage]
    /\ UNCHANGED <<ipcVars, fpc, src, served, tpc, current, req, lost>>

-----------------------------------------------------------------------------
(***************************************************************************)
(* task_fs.                                                                *)
(***************************************************************************)
DriverType == [READ |-> "DEV_READ", WRITE |-> "DEV_WRITE", OPEN |-> "DEV_OPEN"]

\* The message that task_fs answers with, in the place of the one it received.
Answer(cnt) == Msg(FS, "SYSCALL_RET", NO_TASK, cnt, NO_TASK)

FsReceives ==
    /\ Runs(FS) /\ fpc = "start"
    /\ K!Receive(FS, ANY)
    /\ fpc' = "receive"
    /\ UNCHANGED <<upc, asked, src, served, tpc, current, req, lost>>

\* do_rdwt and do_open, for a terminal: send_recv(BOTH, TASK_TTY).
FsCallsDriver ==
    /\ Runs(FS) /\ fpc = "receive"
    /\ buffer[FS].type \in DOMAIN DriverType
    /\ served' = buffer[FS]
    /\ src' = served'.source
    /\ K!Send(FS, TTY, Msg(FS, DriverType[served'.type], served'.DEVICE, served'.CNT, src'))
    /\ fpc' = "driver"
    /\ UNCHANGED <<upc, asked, tpc, current, req, lost>>

FsAwaitsDriver ==
    /\ Runs(FS) /\ fpc = "driver"
    /\ K!Receive(FS, TTY)
    /\ fpc' = "answer"
    /\ UNCHANGED <<upc, asked, src, served, tpc, current, req, lost>>

\* The assertion of do_rdwt on the driver's answer; do_open has none.
LengthAgrees == served.type # "OPEN" => buffer[FS].CNT = served.CNT

\* Only do_rdwt has its answer in fs_msg, where task_fs looks for SUSPEND_PROC.
Suspends == served.type # "OPEN" /\ buffer[FS].type = "SUSPEND_PROC"

FsAsserts ==
    /\ Runs(FS) /\ fpc = "answer"
    /\ ~LengthAgrees
    /\ stopped' = "assert"
    /\ UNCHANGED <<call, buffer, pending, upc, asked, fpc, src, served, tpc, current,
                   req, lost>>

\* Mutation: no assertion on the length.
FsAnswersUnchecked ==
    /\ Runs(FS) /\ fpc = "answer"
    /\ IF Suspends THEN UNCHANGED ipcVars ELSE K!Send(FS, src, Answer(buffer[FS].CNT))
    /\ fpc' = "start"
    /\ served' = NoMessage
    /\ UNCHANGED <<upc, asked, src, tpc, current, req, lost>>

\* A caller that the driver suspends gets no answer now.
FsAnswers ==
    /\ Runs(FS) /\ fpc = "answer"
    /\ LengthAgrees
    /\ IF Suspends THEN UNCHANGED ipcVars ELSE K!Send(FS, src, Answer(buffer[FS].CNT))
    /\ fpc' = "start"
    /\ served' = NoMessage
    /\ UNCHANGED <<upc, asked, src, tpc, current, req, lost>>

\* Mutation: the answer goes to the last caller, not to the one that is resumed.
FsResumesLast ==
    /\ Runs(FS) /\ fpc = "receive"
    /\ buffer[FS].type = "RESUME_PROC"
    /\ K!Send(FS, src, Answer(buffer[FS].CNT))
    /\ fpc' = "start"
    /\ UNCHANGED <<upc, asked, src, served, tpc, current, req, lost>>

\* RESUME_PROC: the process that TTY names gets the answer.
FsResumes ==
    /\ Runs(FS) /\ fpc = "receive"
    /\ buffer[FS].type = "RESUME_PROC"
    /\ src' = buffer[FS].PROC_NR
    /\ K!Send(FS, src', Answer(buffer[FS].CNT))
    /\ fpc' = "start"
    /\ UNCHANGED <<upc, asked, served, tpc, current, req, lost>>

-----------------------------------------------------------------------------
(***************************************************************************)
(* task_tty.                                                               *)
(***************************************************************************)
\* No character, or one that changes nothing for a reader.
TtyReceives ==
    /\ Runs(TTY) /\ tpc = "work"
    /\ K!Receive(TTY, ANY)
    /\ tpc' = "receive"
    /\ UNCHANGED <<upc, asked, fpc, src, served, current, req, lost>>

Serves(t) == req[t].left > 0

Resume(r) == K!Send(TTY, FS, Msg(TTY, "RESUME_PROC", NO_TASK, r.trans, r.proc))

\* Mutation: a full buffer does not end the read.
TtyTransfersOn(t) ==
    /\ Runs(TTY) /\ tpc = "work"
    /\ Serves(t)
    /\ req' = [req EXCEPT ![t].trans = @ + 1, ![t].left = @ - 1]
    /\ K!Receive(TTY, ANY)
    /\ current' = t
    /\ tpc' = "receive"
    /\ UNCHANGED <<upc, asked, fpc, src, served, lost>>

\* tty_dev_write: a printable character for the reader of terminal t.
TtyTransfers(t) ==
    /\ Runs(TTY) /\ tpc = "work"
    /\ Serves(t)
    /\ LET r == [req[t] EXCEPT !.trans = @ + 1, !.left = @ - 1] IN
        /\ req' = [req EXCEPT ![t] = r]
        /\ IF r.left = 0 THEN Resume(r) /\ tpc' = "resume"
           ELSE K!Receive(TTY, ANY) /\ tpc' = "receive"
    /\ current' = t
    /\ UNCHANGED <<upc, asked, fpc, src, served, lost>>

\* Mutation: a backspace at the start of the line counts.
TtyTakesBackAlways(t) ==
    /\ Runs(TTY) /\ tpc = "work"
    /\ Serves(t) /\ req[t].left < 3
    /\ req' = [req EXCEPT ![t].trans = @ - 1, ![t].left = @ + 1]
    /\ K!Receive(TTY, ANY)
    /\ current' = t
    /\ tpc' = "receive"
    /\ UNCHANGED <<upc, asked, fpc, src, served, lost>>

\* tty_dev_write: a backspace.
TtyTakesBack(t) ==
    /\ Runs(TTY) /\ tpc = "work"
    /\ Serves(t) /\ req[t].trans > 0
    /\ req' = [req EXCEPT ![t].trans = @ - 1, ![t].left = @ + 1]
    /\ K!Receive(TTY, ANY)
    /\ current' = t
    /\ tpc' = "receive"
    /\ UNCHANGED <<upc, asked, fpc, src, served, lost>>

\* tty_dev_write: a newline.
TtyEndsLine(t) ==
    /\ Runs(TTY) /\ tpc = "work"
    /\ Serves(t)
    /\ Resume(req[t])
    /\ current' = t
    /\ tpc' = "resume"
    /\ UNCHANGED <<upc, asked, fpc, src, served, req, lost>>

\* FS has RESUME_PROC: the request is closed, and task_tty receives.
TtyResumed ==
    /\ Runs(TTY) /\ tpc = "resume"
    /\ req' = [req EXCEPT ![current].left = 0]
    /\ K!Receive(TTY, ANY)
    /\ tpc' = "receive"
    /\ UNCHANGED <<upc, asked, fpc, src, served, current, lost>>

TtyTakesInt ==
    /\ Runs(TTY) /\ tpc = "receive"
    /\ buffer[TTY].type = "HARD_INT"
    /\ tpc' = "work"
    /\ UNCHANGED <<ipcVars, upc, asked, fpc, src, served, current, req, lost>>

\* Mutation: SUSPEND_PROC tells how many have been transferred.
TtyDoReadForgetsCount ==
    /\ Runs(TTY) /\ tpc = "receive"
    /\ LET m == buffer[TTY] IN
        /\ m.type = "DEV_READ"
        /\ req' = [req EXCEPT ![m.DEVICE] =
                    [proc |-> m.PROC_NR, left |-> m.CNT, trans |-> 0]]
        /\ K!Send(TTY, m.source, Msg(TTY, "SUSPEND_PROC", NO_TASK, 0, NO_TASK))
    /\ tpc' = "work"
    /\ UNCHANGED <<upc, asked, fpc, src, served, current, lost>>

\* tty_do_read: the request takes the place of the one before.
TtyDoRead ==
    /\ Runs(TTY) /\ tpc = "receive"
    /\ LET m == buffer[TTY] IN
        /\ m.type = "DEV_READ"
        /\ req' = [req EXCEPT ![m.DEVICE] =
                    [proc |-> m.PROC_NR, left |-> m.CNT, trans |-> 0]]
        /\ K!Send(TTY, m.source, Msg(TTY, "SUSPEND_PROC", NO_TASK, m.CNT, NO_TASK))
    /\ tpc' = "work"
    /\ UNCHANGED <<upc, asked, fpc, src, served, current, lost>>

\* tty_do_write and DEV_OPEN.
TtyAnswers ==
    /\ Runs(TTY) /\ tpc = "receive"
    /\ LET m == buffer[TTY] IN
        /\ m.type \in {"DEV_WRITE", "DEV_OPEN"}
        /\ K!Send(TTY, m.source, Msg(TTY, "SYSCALL_RET", NO_TASK, m.CNT, NO_TASK))
    /\ tpc' = "work"
    /\ UNCHANGED <<upc, asked, fpc, src, served, current, req, lost>>

-----------------------------------------------------------------------------
(***************************************************************************)
(* The kernel, and the clock that informs TTY.                             *)
(***************************************************************************)
localVars == <<upc, asked, fpc, src, served, tpc, current, req>>

Meet(p, q) == K!Meet(p, q) /\ UNCHANGED <<localVars, lost>>
Collide(p, q) == K!Collide(p, q) /\ lost' = TRUE /\ UNCHANGED localVars
Inform == K!Arrive(TTY) /\ UNCHANGED <<localVars, lost>>
TakeInterrupt == pending[TTY] /\ K!TakeInterrupt(TTY) /\ UNCHANGED <<localVars, lost>>
Panic == K!Panic /\ UNCHANGED <<localVars, lost>>
Fault == K!Fault(TTY) /\ UNCHANGED <<localVars, lost>>

UserCallsSome(u) ==
    \E t \in Bound[u] :
        \/ \E n \in Counts : UserCalls(u, "READ", t, n) \/ UserCalls(u, "WRITE", t, n)
        \/ UserCalls(u, "OPEN", t, 0)

FsStep ==
    \/ FsReceives \/ FsCallsDriver \/ FsAwaitsDriver
    \/ FsAsserts \/ FsAnswers \/ FsResumes

TtyStep ==
    \/ TtyReceives \/ TtyResumed \/ TtyTakesInt \/ TtyDoRead \/ TtyAnswers
    \/ \E t \in Ttys : TtyTransfers(t) \/ TtyTakesBack(t) \/ TtyEndsLine(t)

Next ==
    \/ \E u \in Users : UserCallsSome(u) \/ UserReceives(u) \/ UserReturns(u)
    \/ FsStep
    \/ TtyStep
    \/ \E p, q \in Procs : Meet(p, q) \/ Collide(p, q)
    \/ Inform \/ TakeInterrupt \/ Panic \/ Fault

Spec == Init /\ [][Next]_vars

\* Processes that can run do, except that nobody has to make a call; a sender is
\* served in the end (SendersAreServed of Ipc); and somebody presses enter on
\* every console again and again.
Fairness ==
    /\ \A u \in Users : WF_vars(UserReceives(u) \/ UserReturns(u))
    /\ WF_vars(FsStep)
    /\ WF_vars(TtyStep)
    /\ \A u \in Users : SF_vars(Meet(u, FS)) /\ WF_vars(Meet(FS, u))
    /\ SF_vars(Meet(FS, TTY) \/ Collide(FS, TTY)) /\ SF_vars(Meet(TTY, FS))
    /\ WF_vars(Inform \/ TakeInterrupt \/ Panic)
    /\ \A t \in Ttys : SF_vars(TtyEndsLine(t))

FairSpec == Spec /\ Fairness

-----------------------------------------------------------------------------
\* FS answers only a process that waits for an answer, from it, and with what it
\* asked for: all that was written, or no more than was to be read, also after a
\* message was lost.  An answer to a process that has gone on would be taken for
\* that of its next call, or block FS for ever.
AnswersFit ==
    \A u \in Users : call[FS] = K!SendTo(u) =>
        /\ upc[u] \in {"send", "receive"} /\ call[u] # K!SendTo(FS)
        /\ asked[u].type = "READ" => buffer[FS].CNT <= asked[u].CNT
        /\ asked[u].type = "WRITE" => buffer[FS].CNT = asked[u].CNT

\* The request of u is on its way through FS and TTY, or its answer is.
Underway(u) ==
    \/ call[u] = K!SendTo(FS)
    \/ src = u /\ (fpc \in {"driver", "answer"} \/ call[FS] = K!SendTo(u))
    \/ /\ fpc = "receive" /\ call[FS] = K!NoCall
       /\ u \in {buffer[FS].source, buffer[FS].PROC_NR}
    \/ call[TTY] = K!SendTo(FS) /\ buffer[TTY].PROC_NR = u

\* As long as no interrupt has destroyed a message, a reader that FS leaves waiting is
\* one that TTY is going to resume.
NoReaderForgotten ==
    ~lost => \A u \in Users : call[u] = K!ReceiveFrom(FS) /\ ~Underway(u) =>
                \E t \in Ttys : req[t].proc = u /\ Serves(t)

\* read_write.c:59, assert(fs_msg.CNT == len): what FS takes for the driver's answer is
\* one about its own request, as long as no interrupt has destroyed a message.
DriverAnswersRequest ==
    ~lost /\ fpc = "answer" /\ call[FS] = K!NoCall => LengthAgrees

\* Every call returns, unless the system has stopped or an interrupt has destroyed a
\* message.
CallsReturn ==
    \A u \in Users : upc[u] # "run" ~> (upc[u] = "run" \/ stopped # "no" \/ lost)

\* ipc.c:166 stops the machine when two processes send to each other.  The tasks
\* do not get there.
TasksDoNotDeadlock == stopped # "panic"
=============================================================================
