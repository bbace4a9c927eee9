------------------------------- MODULE FsTtyProofs -----------------------------
(***************************************************************************)
(* The answers of the file system server to those who use terminals, for   *)
(* any number of users, terminals and characters, and also after messages  *)
(* have been destroyed by interrupts.                                      *)
(*                                                                         *)
(* The theorems rest on who has the request of a process that waits: FS or *)
(* a terminal, and never both.  FS hands it to TTY, which gives it back    *)
(* with its answer, with RESUME_PROC, or not yet with SUSPEND_PROC.  When  *)
(* the request is lost on its way, FS keeps it, and what it then takes for *)
(* the answer it gives on only if the length fits.                         *)
(***************************************************************************)
EXTENDS FsTty, TLAPS

\* The message of u has reached FS, and u has no answer yet.
Waiting(u) ==
    \/ upc[u] = "send" /\ call[u] = K!NoCall
    \/ upc[u] = "receive" /\ call[u] = K!ReceiveFrom(FS)

\* What a process asks for, and how far it has got.
CallerAgrees(u) ==
    /\ call[u] \in {K!NoCall, K!SendTo(FS), K!ReceiveFrom(FS)}
    /\ call[u] = K!SendTo(FS) => upc[u] = "send" /\ buffer[u] = asked[u]
    /\ call[u] = K!ReceiveFrom(FS) => upc[u] = "receive"
    /\ upc[u] # "run" =>
            /\ asked[u].source = u /\ asked[u].type \in DOMAIN DriverType
            /\ asked[u].DEVICE \in Bound[u] /\ asked[u].CNT \in Counts \cup {0}
            /\ asked[u].type = "READ" => asked[u].CNT \in Counts

\* n is an answer to what u has asked for.
Fits(u, n) ==
    /\ asked[u].type = "READ" => n <= asked[u].CNT
    /\ asked[u].type = "WRITE" => n = asked[u].CNT

\* What FS asks TTY for u, and what it accepts for an answer.
Request(u) ==
    Msg(FS, DriverType[asked[u].type], asked[u].DEVICE, asked[u].CNT, u)
IsReply(m) ==
    /\ m.type = IF served.type = "READ" THEN "SUSPEND_PROC" ELSE "SYSCALL_RET"
    /\ m.CNT = served.CNT

\* FS has sent its request to TTY, and has no answer yet.
FsWaits ==
    \/ fpc = "driver" /\ call[FS] = K!NoCall
    \/ fpc = "answer" /\ call[FS] = K!ReceiveFrom(TTY)

\* Whom the message is about that FS has received.
Client == IF buffer[FS].type = "RESUME_PROC" THEN buffer[FS].PROC_NR ELSE buffer[FS].source

\* What each step of FS finds.
FsAgrees ==
    /\ fpc = "start" => \/ call[FS] = K!NoCall
                        \/ /\ src \in Users /\ call[FS] = K!SendTo(src)
                           /\ Fits(src, buffer[FS].CNT)
    /\ fpc = "receive" =>
            \/ call[FS] = K!ReceiveFrom(ANY)
            \/ /\ call[FS] = K!NoCall /\ Client \in Users
               /\ \/ buffer[FS].type = "RESUME_PROC" /\ Fits(Client, buffer[FS].CNT)
                     /\ asked[Client].type = "READ"
                  \/ buffer[FS] = asked[Client]
    /\ fpc = "driver" => src \in Users /\ call[FS] \in {K!NoCall, K!SendTo(TTY)}
    /\ call[FS] = K!SendTo(TTY) => fpc = "driver" /\ buffer[FS] = Request(src)
    /\ fpc = "answer" => src \in Users /\ call[FS] \in {K!NoCall, K!ReceiveFrom(TTY)}
    /\ fpc = "answer" /\ call[FS] = K!NoCall =>
            IsReply(buffer[FS]) \/ (lost /\ buffer[FS].type = "RESUME_PROC")

\* What each step of TTY finds.  FS waits for an answer to a request that TTY does not
\* have only when an interrupt has destroyed it.
TtyAgrees ==
    /\ tpc = "work" => \/ call[TTY] = K!NoCall /\ (FsWaits => lost)
                       \/ call[TTY] = K!SendTo(FS) /\ FsWaits /\ IsReply(buffer[TTY])
    /\ tpc = "receive" =>
            \/ call[TTY] = K!ReceiveFrom(ANY) /\ (FsWaits => lost)
            \/ /\ call[TTY] = K!NoCall
               /\ \/ buffer[TTY].type = "HARD_INT" /\ (FsWaits => lost)
                  \/ buffer[TTY] = Request(src) /\ FsWaits
    /\ tpc = "resume" =>
            /\ FsWaits => lost
            /\ \/ call[TTY] = K!NoCall
               \/ /\ call[TTY] = K!SendTo(FS)
                  /\ buffer[TTY] = Msg(TTY, "RESUME_PROC", NO_TASK,
                                       req[current].trans, req[current].proc)

\* TTY is about to tell FS that it keeps the request.
Suspending ==
    tpc = "work" /\ call[TTY] = K!SendTo(FS) /\ buffer[TTY].type = "SUSPEND_PROC"

\* FS has the request of u, or TTY has it and has not suspended u.
FsOwns(u) ==
    \/ fpc = "start" /\ call[FS] = K!SendTo(u)
    \/ fpc = "receive" /\ call[FS] = K!NoCall /\ Client = u
    \/ call[FS] = K!SendTo(TTY) /\ src = u
    \/ FsWaits /\ src = u /\ ~Suspending
    \/ /\ fpc = "answer" /\ call[FS] = K!NoCall /\ src = u
       /\ buffer[FS].type # "SUSPEND_PROC"

\* Terminal t has a reader to which FS owes an answer.  It has none any more once FS
\* has the RESUME_PROC, although its request is closed only in the step after.
Holds(t) ==
    IF tpc = "resume" /\ current = t THEN call[TTY] # K!NoCall ELSE Serves(t)

\* The reader of a terminal waits for what it asked for, and there.
ReaderAgrees(t) ==
    Holds(t) =>
        LET u == req[t].proc IN
            /\ u \in Users /\ Waiting(u)
            /\ asked[u].type = "READ" /\ asked[u].DEVICE = t
            /\ asked[u].CNT = req[t].left + req[t].trans

\* While FS works with its driver it knows for whom and for what.
ServedAgrees ==
    fpc \in {"driver", "answer"} =>
        /\ served.type \in DOMAIN DriverType
        /\ FsOwns(src) => served = asked[src]

\* A process for which FS works waits, and is the reader of no terminal.
OwnedOnce(u) == FsOwns(u) => Waiting(u) /\ \A t \in Ttys : Holds(t) => req[t].proc # u

\* The inductive invariant.
IInv ==
    /\ TypeOK
    /\ \A u \in Users : CallerAgrees(u)
    /\ FsAgrees
    /\ TtyAgrees
    /\ ServedAgrees
    /\ \A t \in Ttys : ReaderAgrees(t)
    /\ \A u \in Users : OwnedOnce(u)

\* Whoever waits has its request with FS or at a terminal.
Known(u) == Waiting(u) => FsOwns(u) \/ \E t \in Ttys : Holds(t) /\ req[t].proc = u

\* Nobody else uses a terminal, and nobody asks for no characters.
OwnTerminals ==
    /\ \A u, v \in Users : u # v => Bound[u] \cap Bound[v] = {}
    /\ 0 \notin Counts

-----------------------------------------------------------------------------
\* The tasks are not users, and the peers that are not processes have other names.
LEMMA Names ==
  /\ FS # TTY /\ FS \notin Users /\ TTY \notin Users
  /\ FS \in Procs /\ TTY \in Procs /\ Users \subseteq Procs
  /\ ANY \notin Procs /\ INTERRUPT \notin Procs /\ NO_TASK \notin Procs
  /\ ANY # INTERRUPT
  BY NamesAssumption DEF Procs

\* The calls a process can be in are different.
LEMMA CallsDiffer ==
  ASSUME NEW p, NEW q
  PROVE  /\ K!NoCall # K!SendTo(p) /\ K!NoCall # K!ReceiveFrom(p)
         /\ K!SendTo(p) # K!ReceiveFrom(q)
         /\ K!SendTo(p) = K!SendTo(q) => p = q
         /\ K!ReceiveFrom(p) = K!ReceiveFrom(q) => p = q
<1>1. K!NoCall.op = "none" /\ K!SendTo(p).op = "send" /\ K!ReceiveFrom(q).op = "receive"
  BY DEF K!NoCall, K!SendTo, K!ReceiveFrom
<1>2. /\ K!SendTo(p).to = p /\ K!SendTo(q).to = q
      /\ K!ReceiveFrom(p).from = p /\ K!ReceiveFrom(q).from = q
      /\ K!ReceiveFrom(p).op = "receive"
  BY DEF K!SendTo, K!ReceiveFrom
<1> QED
  BY <1>1, <1>2

\* What a message holds.
LEMMA Fields ==
  ASSUME NEW source, NEW type, NEW dev, NEW cnt, NEW proc
  PROVE  LET m == Msg(source, type, dev, cnt, proc) IN
            /\ m.source = source /\ m.type = type /\ m.DEVICE = dev
            /\ m.CNT = cnt /\ m.PROC_NR = proc
  BY DEF Msg

\* Messages that processes send.
LEMMA MessagesAre ==
  ASSUME NEW source \in Procs \cup {INTERRUPT, NO_TASK}, NEW type \in MsgTypes,
         NEW dev \in Ttys \cup {NO_TASK}, NEW cnt \in Nat, NEW proc \in Users \cup {NO_TASK}
  PROVE  Msg(source, type, dev, cnt, proc) \in Messages
  BY DEF Msg, Messages

\* The driver's request for each call of a user.
LEMMA DriverTypes ==
  /\ DOMAIN DriverType = {"READ", "WRITE", "OPEN"}
  /\ DriverType["READ"] = "DEV_READ" /\ DriverType["WRITE"] = "DEV_WRITE"
  /\ DriverType["OPEN"] = "DEV_OPEN"
  BY DEF DriverType

-----------------------------------------------------------------------------
(***************************************************************************)
(* Types.                                                                  *)
(***************************************************************************)
\* Any call keeps the types of the message passing, and so do the interrupts.
LEMMA CallTypes ==
  ASSUME K!TypeOK, NEW p \in Procs, NEW q \in Procs,
         \/ \E m \in Messages : K!Send(p, q, m)
         \/ K!Receive(p, q) \/ K!Receive(p, ANY)
         \/ K!Meet(p, q) \/ K!Collide(p, q)
         \/ K!Arrive(TTY) \/ K!TakeInterrupt(TTY) \/ K!Panic \/ K!Fault(TTY)
  PROVE  K!TypeOK'
<1>1. /\ K!NoCall \in K!Calls /\ K!SendTo(q) \in K!Calls
      /\ K!ReceiveFrom(q) \in K!Calls /\ K!ReceiveFrom(ANY) \in K!Calls
  BY DEF K!Calls
<1>2. CASE (\E m \in Messages : K!Send(p, q, m)) \/ K!Receive(p, q) \/ K!Receive(p, ANY)
  BY <1>1, <1>2 DEF K!TypeOK, K!Send, K!Receive
<1>3. CASE K!Meet(p, q) \/ K!Collide(p, q)
  BY <1>1, <1>3 DEF K!TypeOK, K!Meet, K!Collide
<1>4. CASE K!Arrive(TTY) \/ K!TakeInterrupt(TTY) \/ K!Panic \/ K!Fault(TTY)
  BY ZenonT(60), <1>1, <1>4, Names
  DEF K!TypeOK, K!Arrive, K!TakeInterrupt, K!Panic, K!Fault
<1> QED
  BY <1>2, <1>3, <1>4

\* What TTY keeps of a read, of any length.
ReadRequests == [proc : Users \cup {NO_TASK}, left : Nat, trans : Nat]

\* The variables that message passing does not know.
OwnTypeOK ==
    /\ upc \in [Users -> {"run", "send", "receive"}]
    /\ asked \in [Users -> Messages]
    /\ fpc \in {"start", "receive", "driver", "answer"}
    /\ src \in Users \cup {NO_TASK}
    /\ served \in Messages
    /\ tpc \in {"work", "resume", "receive"}
    /\ current \in Ttys
    /\ req \in [Ttys -> ReadRequests]
    /\ lost \in BOOLEAN

\* The variables of the message passing, and the others.
LEMMA TypeSplits == TypeOK <=> K!TypeOK /\ OwnTypeOK
  BY DEF TypeOK, OwnTypeOK, ReadRequests

\* A character more for a reader.
LEMMA ReadersAre ==
  ASSUME NEW q \in ReadRequests, q.left > 0,
         NEW r, r = [q EXCEPT !.trans = @ + 1, !.left = @ - 1]
  PROVE  /\ r \in ReadRequests
         /\ r.proc = q.proc /\ r.left = q.left - 1 /\ r.trans = q.trans + 1
<1>1. q.proc \in Users \cup {NO_TASK} /\ q.left \in Nat /\ q.trans \in Nat
  BY DEF ReadRequests
<1>2. q.left - 1 \in Nat /\ q.trans + 1 \in Nat
  BY <1>1
<1>3. r = [proc |-> q.proc, left |-> q.left - 1, trans |-> q.trans + 1]
  BY DEF ReadRequests
<1> QED
  BY <1>1, <1>2, <1>3 DEF ReadRequests

\* What the buffers hold.
LEMMA BuffersAre ==
  ASSUME TypeOK
  PROVE  /\ buffer \in [Procs -> Messages] /\ call \in [Procs -> K!Calls]
         /\ pending \in [Procs -> BOOLEAN] /\ asked \in [Users -> Messages]
         /\ \A m \in Messages : /\ m.CNT \in Nat /\ m.PROC_NR \in Users \cup {NO_TASK}
                               /\ m.DEVICE \in Ttys \cup {NO_TASK}
<1>1. NoMessage \in Messages /\ IntMessage \in Messages
  BY MessagesAre DEF NoMessage, IntMessage, MsgTypes
<1> QED
  BY <1>1 DEF TypeOK, K!TypeOK, Messages

\* What a process asks for, and what FS asks of TTY in its name.
LEMMA RequestsAre ==
  ASSUME IInv, NEW u \in Users, upc[u] # "run"
  PROVE  /\ asked[u].source = u /\ asked[u].type \in {"READ", "WRITE", "OPEN"}
         /\ asked[u].DEVICE \in Ttys /\ asked[u].CNT \in Nat
         /\ Request(u) \in Messages
         /\ Request(u).source = FS /\ Request(u).type \in {"DEV_READ", "DEV_WRITE", "DEV_OPEN"}
         /\ Request(u).type = "DEV_READ" <=> asked[u].type = "READ"
         /\ Request(u).DEVICE = asked[u].DEVICE /\ Request(u).CNT = asked[u].CNT
         /\ Request(u).PROC_NR = u
<1>1. /\ asked[u].source = u /\ asked[u].type \in {"READ", "WRITE", "OPEN"}
      /\ asked[u].DEVICE \in Ttys
  BY BoundAssumption, DriverTypes DEF IInv, CallerAgrees
<1>2. asked[u].CNT \in Nat
  BY BuffersAre DEF IInv
<1>3. DriverType[asked[u].type] \in {"DEV_READ", "DEV_WRITE", "DEV_OPEN"}
  BY <1>1, DriverTypes
<1>4. Request(u) \in Messages
  BY <1>1, <1>2, <1>3, Names, MessagesAre DEF Request, MsgTypes
<1> QED
  BY <1>1, <1>2, <1>3, <1>4, Fields, DriverTypes DEF Request

\* What FS finds in the message it has received.
LEMMA FsFinds ==
  ASSUME IInv, call[FS] = K!NoCall
  PROVE  /\ fpc = "receive" =>
                /\ Client \in Users /\ Waiting(Client) /\ FsOwns(Client)
                /\ buffer[FS].type \in DOMAIN DriverType =>
                        buffer[FS].source = Client /\ buffer[FS] = asked[Client]
                /\ buffer[FS].type = "RESUME_PROC" =>
                        /\ buffer[FS].PROC_NR = Client /\ asked[Client].type = "READ"
                        /\ Fits(Client, buffer[FS].CNT)
         /\ fpc = "answer" =>
                /\ src \in Users
                /\ Suspends <=> buffer[FS].type = "SUSPEND_PROC"
                /\ buffer[FS].type # "SUSPEND_PROC" =>
                        /\ Waiting(src) /\ FsOwns(src)
                        /\ LengthAgrees => Fits(src, buffer[FS].CNT)
                /\ ~lost => LengthAgrees
<1>0. call[FS] = K!NoCall /\ FsAgrees
  BY DEF IInv
<1>1. CASE fpc = "receive"
  <2>1. Client \in Users /\ FsOwns(Client)
    BY <1>0, <1>1, CallsDiffer DEF FsAgrees, FsOwns
  <2>2. Waiting(Client)
    BY <2>1 DEF IInv, OwnedOnce
  <2>3. upc[Client] # "run"
    BY <2>2 DEF Waiting
  <2>4. asked[Client].type \in DOMAIN DriverType /\ asked[Client].source = Client
    BY <2>1, <2>3, RequestsAre, DriverTypes
  <2> QED
    BY <1>0, <1>1, <2>1, <2>2, <2>4, CallsDiffer, DriverTypes DEF FsAgrees, Client
<1>2. CASE fpc = "answer"
  <2>1. src \in Users /\ (IsReply(buffer[FS]) \/ (lost /\ buffer[FS].type = "RESUME_PROC"))
    BY <1>0, <1>2 DEF FsAgrees
  <2>2. Suspends <=> buffer[FS].type = "SUSPEND_PROC"
    BY <2>1 DEF Suspends, IsReply
  <2>3. ~lost => LengthAgrees
    BY <2>1 DEF LengthAgrees, IsReply
  <2>4. ASSUME buffer[FS].type # "SUSPEND_PROC"
        PROVE  /\ Waiting(src) /\ FsOwns(src)
               /\ LengthAgrees => Fits(src, buffer[FS].CNT)
    <3>1. FsOwns(src)
      BY <1>0, <1>2, <2>4 DEF FsOwns
    <3>2. Waiting(src)
      BY <2>1, <3>1 DEF IInv, OwnedOnce
    <3>3. served = asked[src]
      BY <1>2, <3>1 DEF IInv, ServedAgrees
    <3>4. asked[src] \in Messages /\ asked[src].CNT \in Nat
      BY <2>1, BuffersAre DEF IInv
    <3>5. LengthAgrees => Fits(src, buffer[FS].CNT)
      BY <3>3, <3>4 DEF LengthAgrees, Fits
    <3> QED
      BY <3>1, <3>2, <3>5
  <2> QED
    BY <1>2, <2>1, <2>2, <2>3, <2>4
<1> QED
  BY <1>1, <1>2

\* What TTY finds when it has received a request.
LEMMA TtyFinds ==
  ASSUME IInv, Runs(TTY), tpc = "receive", buffer[TTY].type # "HARD_INT"
  PROVE  /\ FsWaits /\ src \in Users /\ FsOwns(src) /\ Waiting(src)
         /\ buffer[TTY] = Request(src) /\ buffer[TTY].source = FS /\ served = asked[src]
<1>1. FsWaits /\ buffer[TTY] = Request(src)
  BY CallsDiffer DEF Runs, IInv, TtyAgrees
<1>2. src \in Users /\ fpc \in {"driver", "answer"}
  BY <1>1 DEF FsWaits, IInv, FsAgrees
<1>3. FsOwns(src)
  BY <1>1 DEF FsOwns, Suspending
<1> QED
  BY <1>1, <1>2, <1>3, Fields DEF IInv, OwnedOnce, Request, ServedAgrees

\* Each step keeps the types.
LEMMA TypeStep ==
  ASSUME IInv, [Next]_vars
  PROVE  TypeOK'
<1> SUFFICES K!TypeOK' /\ OwnTypeOK'
  BY TypeSplits DEF TypeOK, OwnTypeOK, ReadRequests
<1>0. K!TypeOK /\ OwnTypeOK
  BY TypeSplits DEF IInv
<1>a. buffer[FS] \in Messages /\ buffer[TTY] \in Messages
  BY Names, BuffersAre DEF IInv
<1>b. buffer[FS].CNT \in Nat /\ buffer[TTY].CNT \in Nat
  BY <1>a, BuffersAre DEF IInv
<1> USE Names
<1>1. ASSUME NEW u \in Users, NEW t \in Bound[u], NEW n \in Counts \cup {0},
             NEW type \in {"READ", "WRITE", "OPEN"}, UserCalls(u, type, t, n)
      PROVE  K!TypeOK' /\ OwnTypeOK'
  <2> DEFINE m == Msg(u, type, t, n, NO_TASK)
  <2>1. m \in Messages
    BY BoundAssumption, CountsAssumption, MessagesAre DEF MsgTypes
  <2> HIDE DEF m
  <2>2. K!Send(u, FS, m) /\ asked' = [asked EXCEPT ![u] = m]
    BY <1>1 DEF UserCalls, m
  <2>3. K!TypeOK'
    BY <1>0, <2>1, <2>2, CallTypes
  <2> QED
    BY <1>0, <1>1, <2>1, <2>2, <2>3 DEF UserCalls, OwnTypeOK
<1>2. ASSUME NEW u \in Users, UserReceives(u)
      PROVE  K!TypeOK' /\ OwnTypeOK'
  BY <1>0, <1>2, CallTypes DEF UserReceives, OwnTypeOK
<1>3. ASSUME NEW u \in Users, UserReturns(u)
      PROVE  K!TypeOK' /\ OwnTypeOK'
  <2>1. NoMessage \in Messages
    BY MessagesAre DEF NoMessage, MsgTypes
  <2> QED
    BY <1>0, <1>3, <2>1 DEF UserReturns, ipcVars, K!TypeOK, OwnTypeOK
<1>4. CASE FsReceives \/ FsAwaitsDriver
  BY <1>0, <1>4, CallTypes DEF FsReceives, FsAwaitsDriver, OwnTypeOK
<1>5. CASE FsCallsDriver
  <2>1. /\ src' = Client /\ Client \in Users /\ served' = buffer[FS]
        /\ K!Send(FS, TTY, Request(Client)) /\ Request(Client) \in Messages
    BY <1>5, FsFinds, RequestsAre DEF FsCallsDriver, Runs, Waiting, Request
  <2> QED
    BY <1>0, <1>5, <1>a, <2>1, CallTypes DEF FsCallsDriver, OwnTypeOK
<1>6. CASE FsAnswers
  <2>1. src \in Users /\ Answer(buffer[FS].CNT) \in Messages /\ NoMessage \in Messages
    BY <1>6, <1>b, FsFinds, MessagesAre DEF FsAnswers, Runs, Answer, NoMessage, MsgTypes
  <2>2. CASE Suspends
    BY <1>0, <1>6, <2>1, <2>2 DEF FsAnswers, ipcVars, K!TypeOK, OwnTypeOK
  <2>3. CASE ~Suspends
    BY <1>0, <1>6, <2>1, <2>3, CallTypes DEF FsAnswers, OwnTypeOK
  <2> QED
    BY <2>2, <2>3
<1>7. CASE FsResumes
  <2>1. src' \in Users /\ Answer(buffer[FS].CNT) \in Messages
    BY <1>7, <1>b, FsFinds, MessagesAre DEF FsResumes, Runs, Answer, MsgTypes
  <2> QED
    BY <1>0, <1>7, <2>1, CallTypes DEF FsResumes, OwnTypeOK
<1>8. CASE TtyReceives
  BY <1>0, <1>8, CallTypes DEF TtyReceives, OwnTypeOK
<1>9. CASE TtyResumed
  BY <1>0, <1>9, CallTypes DEF TtyResumed, OwnTypeOK, ReadRequests
<1>10. CASE TtyTakesInt
  BY <1>0, <1>10 DEF TtyTakesInt, ipcVars, K!TypeOK, OwnTypeOK
<1>11. CASE TtyDoRead
  <2> DEFINE m == buffer[TTY]
  <2>1. m.source = FS /\ src \in Users /\ m.PROC_NR \in Users
    BY <1>11, TtyFinds, RequestsAre DEF TtyDoRead, Waiting
  <2>2. Msg(TTY, "SUSPEND_PROC", NO_TASK, m.CNT, NO_TASK) \in Messages
    BY <1>b, MessagesAre DEF MsgTypes
  <2> QED
    BY <1>0, <1>11, <1>b, <2>1, <2>2, CallTypes DEF TtyDoRead, OwnTypeOK, ReadRequests
<1>12. CASE TtyAnswers
  <2> DEFINE m == buffer[TTY]
  <2>1. m.source = FS
    BY <1>12, TtyFinds DEF TtyAnswers
  <2>2. Msg(TTY, "SYSCALL_RET", NO_TASK, m.CNT, NO_TASK) \in Messages
    BY <1>b, MessagesAre DEF MsgTypes
  <2> QED
    BY <1>0, <1>12, <2>1, <2>2, CallTypes DEF TtyAnswers, OwnTypeOK
<1>13. ASSUME NEW t \in Ttys, TtyTransfers(t)
       PROVE  K!TypeOK' /\ OwnTypeOK'
  <2>1. PICK r : /\ r = [req[t] EXCEPT !.trans = @ + 1, !.left = @ - 1]
                 /\ req' = [req EXCEPT ![t] = r]
                 /\ IF r.left = 0 THEN Resume(r) /\ tpc' = "resume"
                    ELSE K!Receive(TTY, ANY) /\ tpc' = "receive"
    BY <1>13 DEF TtyTransfers
  <2>2. r \in ReadRequests
    <3>1. req[t] \in ReadRequests
      BY <1>0 DEF OwnTypeOK, ReadRequests
    <3>2. req[t].left > 0
      BY <1>13 DEF TtyTransfers, Serves
    <3> QED
      BY <2>1, <3>1, <3>2, ReadersAre
  <2>3. Msg(TTY, "RESUME_PROC", NO_TASK, r.trans, r.proc) \in Messages
    BY <2>2, MessagesAre DEF MsgTypes, ReadRequests
  <2>4. K!TypeOK' /\ tpc' \in {"resume", "receive"}
    BY <1>0, <2>1, <2>3, CallTypes DEF Resume
  <2> QED
    BY <1>0, <1>13, <2>1, <2>2, <2>4 DEF TtyTransfers, OwnTypeOK, ReadRequests
<1>14. ASSUME NEW t \in Ttys, TtyTakesBack(t)
       PROVE  K!TypeOK' /\ OwnTypeOK'
  BY <1>0, <1>14, CallTypes DEF TtyTakesBack, OwnTypeOK, ReadRequests
<1>15. ASSUME NEW t \in Ttys, TtyEndsLine(t)
       PROVE  K!TypeOK' /\ OwnTypeOK'
  <2>1. Msg(TTY, "RESUME_PROC", NO_TASK, req[t].trans, req[t].proc) \in Messages
    BY <1>0, MessagesAre DEF MsgTypes, OwnTypeOK, ReadRequests
  <2> QED
    BY <1>0, <1>15, <2>1, CallTypes DEF TtyEndsLine, Resume, OwnTypeOK
<1>16. ASSUME NEW p \in Procs, NEW q \in Procs, Meet(p, q)
       PROVE  K!TypeOK' /\ OwnTypeOK'
  BY <1>0, <1>16, CallTypes DEF Meet, localVars, OwnTypeOK
<1>17. CASE Inform \/ TakeInterrupt \/ Panic \/ Fault
  BY <1>0, <1>17, CallTypes DEF Inform, TakeInterrupt, Panic, Fault, localVars, OwnTypeOK
<1>19. ASSUME NEW p \in Procs, NEW q \in Procs, Collide(p, q)
       PROVE  K!TypeOK' /\ OwnTypeOK'
  BY <1>0, <1>19, CallTypes DEF Collide, localVars, OwnTypeOK
<1>20. CASE FsAsserts
  BY <1>0, <1>20 DEF FsAsserts, K!TypeOK, OwnTypeOK
<1>18. CASE UNCHANGED vars
  BY <1>0, <1>18 DEF vars, ipcVars, K!TypeOK, OwnTypeOK
<1> QED
  BY <1>1, <1>2, <1>3, <1>4, <1>5, <1>6, <1>7, <1>8, <1>9, <1>10, <1>11, <1>12, <1>13,
     <1>14, <1>15, <1>16, <1>17, <1>18, <1>19, <1>20
  DEF Next, FsStep, TtyStep, UserCallsSome

-----------------------------------------------------------------------------
(***************************************************************************)
(* The users.                                                              *)
(***************************************************************************)
\* A send and a receive complete only where one of the two is waiting for the other.
LEMMA MeetsAre ==
  ASSUME IInv, NEW p \in Procs, NEW q \in Procs, Meet(p, q)
  PROVE  \/ /\ p \in Users /\ q = FS /\ fpc = "receive" /\ upc[p] = "send"
            /\ call[p] = K!SendTo(FS) /\ call[FS] = K!ReceiveFrom(ANY)
         \/ /\ p = FS /\ q \in Users /\ fpc = "start" /\ src = q /\ upc[q] = "receive"
            /\ call[FS] = K!SendTo(q) /\ call[q] = K!ReceiveFrom(FS)
         \/ /\ p = FS /\ q = TTY /\ fpc = "driver" /\ tpc = "receive"
            /\ call[FS] = K!SendTo(TTY) /\ call[TTY] = K!ReceiveFrom(ANY)
         \/ /\ p = TTY /\ q = FS /\ tpc = "resume" /\ fpc = "receive"
            /\ call[TTY] = K!SendTo(FS) /\ call[FS] = K!ReceiveFrom(ANY)
         \/ /\ p = TTY /\ q = FS /\ tpc = "work" /\ fpc = "answer"
            /\ call[TTY] = K!SendTo(FS) /\ call[FS] = K!ReceiveFrom(TTY)
         \/ /\ p = TTY /\ q = FS /\ tpc = "resume" /\ fpc = "answer" /\ lost
            /\ call[TTY] = K!SendTo(FS) /\ call[FS] = K!ReceiveFrom(TTY)
<1> USE Names, CallsDiffer
<1>0. /\ call[p] = K!SendTo(q)
      /\ call[q] = K!ReceiveFrom(p) \/ call[q] = K!ReceiveFrom(ANY)
      /\ \A u \in Users : CallerAgrees(u)
      /\ FsAgrees /\ TtyAgrees
  BY DEF Meet, K!Meet, K!Receives, IInv
<1>t. fpc \in {"start", "receive", "driver", "answer"} /\ tpc \in {"work", "resume", "receive"}
  BY DEF IInv, TypeOK
<1>1. CASE p \in Users
  <2>1. q = FS /\ upc[p] = "send"
    BY <1>0, <1>1 DEF CallerAgrees
  <2> QED
    BY <1>0, <1>t, <1>1, <2>1 DEF FsAgrees
<1>2. CASE p = FS
  <2>1. \/ fpc = "start" /\ q \in Users /\ src = q
        \/ fpc = "driver" /\ q = TTY
    BY <1>0, <1>t, <1>2 DEF FsAgrees
  <2>2. CASE q \in Users
    BY <1>0, <1>2, <2>1, <2>2 DEF CallerAgrees
  <2>3. CASE q = TTY
    BY <1>0, <1>t, <1>2, <2>1, <2>3 DEF TtyAgrees
  <2> QED
    BY <2>1, <2>2, <2>3
<1>3. CASE p = TTY
  <2>1. q = FS /\ tpc \in {"work", "resume"}
    BY <1>0, <1>t, <1>3 DEF TtyAgrees
  <2> QED
    BY <1>0, <1>t, <1>3, <2>1 DEF FsAgrees, TtyAgrees, FsWaits
<1> QED
  BY <1>1, <1>2, <1>3 DEF Procs

\* An interrupt destroys a message only on its way from FS to TTY.
LEMMA CollidesAre ==
  ASSUME IInv, NEW p \in Procs, NEW q \in Procs, Collide(p, q)
  PROVE  /\ p = FS /\ q = TTY /\ fpc = "driver" /\ tpc = "receive"
         /\ call[FS] = K!SendTo(TTY) /\ call[TTY] = K!ReceiveFrom(ANY)
         /\ call'[FS] = K!NoCall /\ call'[TTY] = K!NoCall
         /\ buffer'[TTY] = IntMessage /\ buffer'[FS] = buffer[FS]
         /\ lost' /\ UNCHANGED localVars
         /\ \A u \in Users : call'[u] = call[u] /\ buffer'[u] = buffer[u]
<1> USE Names, CallsDiffer
<1>1. /\ q = TTY /\ call[p] = K!SendTo(TTY) /\ call[TTY] = K!ReceiveFrom(ANY)
      /\ call' = [call EXCEPT ![p] = K!NoCall, ![q] = K!NoCall]
      /\ buffer' = [buffer EXCEPT ![q] = IntMessage]
      /\ lost' = TRUE /\ UNCHANGED localVars
  BY DEF Collide, K!Collide, K!Receives
<1>2. p = FS
  BY <1>1 DEF IInv, CallerAgrees, Procs
<1>3. fpc = "driver" /\ tpc = "receive"
  BY <1>1, <1>2 DEF IInv, TypeOK, FsAgrees, TtyAgrees
<1>4. call \in [Procs -> K!Calls] /\ buffer \in [Procs -> Messages]
  BY BuffersAre DEF IInv
<1> QED
  BY <1>1, <1>2, <1>3, <1>4

\* A message to TTY is destroyed.
Collision == \E p, q \in Procs : Collide(p, q)

\* A step of FS or TTY, or of the kernel without a message.
Local ==
    FsStep \/ TtyStep \/ Inform \/ TakeInterrupt \/ Panic \/ Fault \/ Collision \/ UNCHANGED vars

\* It leaves the users to themselves.
LEMMA LocalSteps ==
  ASSUME IInv, Local, NEW u \in Users
  PROVE  upc' = upc /\ asked' = asked /\ call'[u] = call[u] /\ buffer'[u] = buffer[u]
<1> USE Names
<1>1. CASE FsStep
  BY <1>1, BuffersAre
  DEF FsStep, FsReceives, FsCallsDriver, FsAwaitsDriver, FsAsserts, FsAnswers, FsResumes,
      K!Send, K!Receive, ipcVars, IInv
<1>2. ASSUME NEW t \in Ttys, TtyTransfers(t) \/ TtyTakesBack(t) \/ TtyEndsLine(t)
      PROVE  upc' = upc /\ asked' = asked /\ call'[u] = call[u] /\ buffer'[u] = buffer[u]
  BY <1>2, BuffersAre
  DEF TtyTransfers, TtyTakesBack, TtyEndsLine, Resume, K!Send, K!Receive, IInv
<1>3. CASE TtyReceives \/ TtyResumed \/ TtyTakesInt \/ TtyDoRead \/ TtyAnswers
  BY <1>3, BuffersAre
  DEF TtyReceives, TtyResumed, TtyTakesInt, TtyDoRead, TtyAnswers, K!Send, K!Receive,
      ipcVars, IInv
<1>4. CASE Inform \/ TakeInterrupt \/ Panic \/ Fault \/ UNCHANGED vars
  BY <1>4, BuffersAre
  DEF Inform, TakeInterrupt, Panic, Fault, K!Arrive, K!TakeInterrupt, K!Panic, K!Fault,
      localVars, vars, ipcVars, IInv
<1>5. CASE Collision
  BY <1>5, CollidesAre DEF Collision, localVars
<1> QED
  BY <1>1, <1>2, <1>3, <1>4, <1>5 DEF Local, TtyStep

\* Each user stays where its last call has left it, until that call completes.
LEMMA CallerStep ==
  ASSUME IInv, [Next]_vars, NEW u \in Users
  PROVE  CallerAgrees(u)'
<1> USE Names
<1>0. CallerAgrees(u)
  BY DEF IInv
<1>b. /\ call \in [Procs -> K!Calls] /\ buffer \in [Procs -> Messages]
      /\ upc \in [Users -> {"run", "send", "receive"}] /\ asked \in [Users -> Messages]
  BY BuffersAre DEF IInv, TypeOK
<1>1. ASSUME NEW v \in Users, NEW t \in Bound[v], NEW n \in Counts \cup {0},
             NEW type \in {"READ", "WRITE", "OPEN"}, UserCalls(v, type, t, n),
             type # "OPEN" => n \in Counts
      PROVE  CallerAgrees(u)'
  <2> DEFINE m == Msg(v, type, t, n, NO_TASK)
  <2>1. m.source = v /\ m.type = type /\ m.DEVICE = t /\ m.CNT = n
    BY Fields
  <2> HIDE DEF m
  <2>2. K!Send(v, FS, m) /\ asked' = [asked EXCEPT ![v] = m]
        /\ upc' = [upc EXCEPT ![v] = "send"]
    BY <1>1 DEF UserCalls, m
  <2>3. CASE u = v
    BY <1>b, <1>1, <2>1, <2>2, <2>3, DriverTypes, CallsDiffer DEF K!Send, CallerAgrees
  <2>4. CASE u # v
    BY <1>0, <1>b, <2>2, <2>4 DEF K!Send, CallerAgrees
  <2> QED
    BY <2>3, <2>4
<1>2. ASSUME NEW v \in Users, UserReceives(v)
      PROVE  CallerAgrees(u)'
  BY <1>0, <1>b, <1>2, CallsDiffer DEF UserReceives, K!Receive, CallerAgrees
<1>3. ASSUME NEW v \in Users, UserReturns(v)
      PROVE  CallerAgrees(u)'
  BY <1>0, <1>b, <1>3, CallsDiffer DEF UserReturns, Runs, ipcVars, CallerAgrees
<1>4. ASSUME NEW p \in Procs, NEW q \in Procs, Meet(p, q)
      PROVE  CallerAgrees(u)'
  BY <1>0, <1>b, <1>4, CallsDiffer DEF Meet, K!Meet, localVars, CallerAgrees
<1>5. CASE Local
  BY <1>0, <1>5, LocalSteps DEF CallerAgrees
<1> QED
  BY <1>1, <1>2, <1>3, <1>4, <1>5 DEF Next, UserCallsSome, Local, Collision

\* What a process asks for stays while it waits, so FS can rely on it.
LEMMA AskedStays ==
  ASSUME IInv, [Next]_vars, NEW u \in Users, Waiting(u) \/ FsOwns(u)
  PROVE  asked'[u] = asked[u]
<1> USE Names
<1>1. upc[u] # "run" /\ (upc[u] = "receive" => call[u] # K!NoCall)
  BY CallsDiffer DEF IInv, OwnedOnce, Waiting
<1>2. asked \in [Users -> Messages]
  BY BuffersAre DEF IInv
<1>3. ASSUME NEW v \in Users, UserCallsSome(v) \/ UserReceives(v) \/ UserReturns(v)
      PROVE  asked'[u] = asked[u]
  BY <1>1, <1>2, <1>3 DEF UserCallsSome, UserCalls, UserReceives, UserReturns, Runs
<1>4. ASSUME NEW p \in Procs, NEW q \in Procs, Meet(p, q)
      PROVE  asked'[u] = asked[u]
  BY <1>4 DEF Meet, localVars
<1>5. CASE Local
  BY <1>5, LocalSteps
<1> QED
  BY <1>3, <1>4, <1>5 DEF Next, Local, Collision

\* A step of a user, alone.
UserStep(u) == UserCallsSome(u) \/ UserReceives(u) \/ UserReturns(u)

\* It changes nothing of FS and TTY.
LEMMA UserSteps ==
  ASSUME IInv, NEW u \in Users, UserStep(u)
  PROVE  /\ UNCHANGED <<fpc, src, served, tpc, current, req, lost, pending, stopped>>
         /\ \A p \in Procs \ {u} : call'[p] = call[p] /\ buffer'[p] = buffer[p]
  BY BuffersAre
  DEF UserStep, UserCallsSome, UserCalls, UserReceives, UserReturns, K!Send, K!Receive,
      Runs, ipcVars, IInv

\* A step of TTY, alone.
LEMMA TtySteps ==
  ASSUME IInv, TtyStep
  PROVE  /\ UNCHANGED <<fpc, src, served, upc, asked, lost, pending, stopped>>
         /\ stopped = "no" /\ call[TTY] = K!NoCall
         /\ \A p \in Procs \ {TTY} : call'[p] = call[p] /\ buffer'[p] = buffer[p]
<1> USE Names, BuffersAre
<1>1. ASSUME NEW t \in Ttys, TtyTransfers(t) \/ TtyTakesBack(t) \/ TtyEndsLine(t)
      PROVE  /\ UNCHANGED <<fpc, src, served, upc, asked, lost, pending, stopped>>
             /\ stopped = "no" /\ call[TTY] = K!NoCall
             /\ \A p \in Procs \ {TTY} : call'[p] = call[p] /\ buffer'[p] = buffer[p]
  BY <1>1
  DEF TtyTransfers, TtyTakesBack, TtyEndsLine, Resume, Runs, K!Send, K!Receive, IInv
<1>2. CASE TtyReceives \/ TtyResumed \/ TtyTakesInt \/ TtyDoRead \/ TtyAnswers
  BY <1>2
  DEF TtyReceives, TtyResumed, TtyTakesInt, TtyDoRead, TtyAnswers, Runs, K!Send,
      K!Receive, ipcVars, IInv
<1> QED
  BY <1>1, <1>2 DEF TtyStep

\* A step of FS, alone, with its assertion holding.
FsWorks == FsReceives \/ FsCallsDriver \/ FsAwaitsDriver \/ FsAnswers \/ FsResumes

\* It changes nothing of the users and TTY.
LEMMA FsSteps ==
  ASSUME IInv, FsWorks
  PROVE  /\ UNCHANGED <<tpc, current, req, upc, asked, lost, pending, stopped>>
         /\ stopped = "no" /\ call[FS] = K!NoCall
         /\ \A p \in Procs \ {FS} : call'[p] = call[p] /\ buffer'[p] = buffer[p]
  BY Names, BuffersAre
  DEF FsWorks, FsReceives, FsCallsDriver, FsAwaitsDriver, FsAnswers, FsResumes, Runs,
      K!Send, K!Receive, ipcVars, IInv

\* An interrupt, or the end.
Interrupts == Inform \/ TakeInterrupt \/ Panic \/ Fault \/ FsAsserts \/ UNCHANGED vars

\* It changes at most the message of TTY.
LEMMA InterruptSteps ==
  ASSUME IInv, Interrupts
  PROVE  /\ UNCHANGED <<localVars, lost>>
         /\ \A p \in Procs \ {TTY} : call'[p] = call[p] /\ buffer'[p] = buffer[p]
         /\ \/ UNCHANGED <<call, buffer>>
            \/ /\ call[TTY] = K!ReceiveFrom(ANY) /\ call'[TTY] = K!NoCall
               /\ buffer'[TTY] = IntMessage
<1> USE Names, BuffersAre
<1>1. CASE TakeInterrupt
  <2>1. call[TTY] = K!ReceiveFrom(ANY)
    <3>1. call[TTY] # K!ReceiveFrom(INTERRUPT)
      BY CallsDiffer DEF IInv, TypeOK, TtyAgrees
    <3> QED
      BY <1>1, <3>1 DEF TakeInterrupt, K!TakeInterrupt, K!Receives
  <2> QED
    BY <1>1, <2>1 DEF TakeInterrupt, K!TakeInterrupt, IInv
<1>2. CASE Inform \/ Panic \/ Fault \/ FsAsserts \/ UNCHANGED vars
  BY <1>2
  DEF Inform, Panic, Fault, FsAsserts, K!Arrive, K!Panic, K!Fault, localVars, vars, ipcVars
<1> QED
  BY <1>1, <1>2 DEF Interrupts

\* Every step is one of these.
LEMMA StepsAre ==
  ASSUME [Next]_vars
  PROVE  \/ \E u \in Users : UserStep(u)
         \/ FsWorks \/ TtyStep \/ Interrupts
         \/ \E p, q \in Procs : Meet(p, q)
         \/ Collision
  BY DEF Next, FsStep, FsWorks, UserStep, Interrupts, Collision

-----------------------------------------------------------------------------
(***************************************************************************)
(* FS and TTY.                                                             *)
(***************************************************************************)
\* The file system server finds the message and the caller that each of its steps
\* needs.
LEMMA FsAgreesStep ==
  ASSUME IInv, [Next]_vars
  PROVE  FsAgrees'
<1> USE Names
<1>0. FsAgrees /\ TypeOK
  BY DEF IInv
<1>b. /\ call \in [Procs -> K!Calls] /\ buffer \in [Procs -> Messages]
      /\ fpc \in {"start", "receive", "driver", "answer"}
  BY <1>0, BuffersAre DEF TypeOK
<1>1. ASSUME UNCHANGED <<fpc, src, served>>, lost => lost', call'[FS] = call[FS],
             buffer'[FS] = buffer[FS]
      PROVE  FsAgrees'
  <2>1. \A u \in Users : FsOwns(u) => asked'[u] = asked[u]
    BY AskedStays
  <2>2. Client' = Client
    BY <1>1 DEF Client
  <2>3. CASE fpc = "start"
    BY <1>0, <1>1, <2>1, <2>3, CallsDiffer DEF FsAgrees, FsOwns, Fits
  <2>4. CASE fpc = "receive"
    BY <1>0, <1>1, <2>1, <2>2, <2>4, CallsDiffer DEF FsAgrees, FsOwns, Fits
  <2>5. CASE fpc = "driver"
    BY <1>0, <1>1, <2>1, <2>5, CallsDiffer DEF FsAgrees, FsOwns, Request
  <2>6. CASE fpc = "answer"
    BY <1>0, <1>1, <2>6, CallsDiffer DEF FsAgrees, IsReply
  <2> QED
    BY <1>b, <2>3, <2>4, <2>5, <2>6
<1>2. CASE \/ \E u \in Users : UserStep(u)
           \/ TtyStep \/ Interrupts
  BY <1>1, <1>2, UserSteps, TtySteps, InterruptSteps DEF localVars
<1>8. CASE Collision
  <2>1. /\ fpc' = "driver" /\ call'[FS] = K!NoCall /\ src' = src /\ fpc = "driver"
    BY <1>8, CollidesAre DEF Collision, localVars
  <2>2. src \in Users
    BY <1>0, <2>1 DEF FsAgrees
  <2> QED
    BY <2>1, <2>2, CallsDiffer DEF FsAgrees
<1>3. CASE FsReceives \/ FsAwaitsDriver
  BY <1>0, <1>b, <1>3, CallsDiffer DEF FsReceives, FsAwaitsDriver, K!Receive, FsAgrees
<1>4. CASE FsCallsDriver
  <2>1. /\ src' = Client /\ Client \in Users /\ fpc' = "driver"
        /\ K!Send(FS, TTY, Request(Client)) /\ asked' = asked
    BY <1>4, FsFinds DEF FsCallsDriver, Runs, Request
  <2>2. buffer'[FS] = Request(Client) /\ call'[FS] = K!SendTo(TTY)
    BY <1>b, <2>1 DEF K!Send
  <2> QED
    BY <2>1, <2>2, CallsDiffer DEF FsAgrees, Request
<1>5. CASE FsAnswers
  <2>1. /\ src \in Users /\ fpc' = "start" /\ UNCHANGED <<src, asked>>
        /\ ~Suspends => Fits(src, buffer[FS].CNT)
        /\ call[FS] = K!NoCall
    BY <1>5, FsFinds DEF FsAnswers, Runs
  <2>2. CASE Suspends
    BY <1>5, <2>1, <2>2, CallsDiffer DEF FsAnswers, ipcVars, FsAgrees
  <2>3. CASE ~Suspends
    <3>1. buffer'[FS] = Answer(buffer[FS].CNT) /\ call'[FS] = K!SendTo(src)
      BY <1>5, <1>b, <2>3 DEF FsAnswers, K!Send
    <3>2. buffer'[FS].CNT = buffer[FS].CNT
      BY <3>1, Fields DEF Answer
    <3> QED
      BY <2>1, <2>3, <3>1, <3>2, CallsDiffer DEF FsAgrees, Fits
  <2> QED
    BY <2>2, <2>3
<1>6. CASE FsResumes
  <2>1. /\ src' = Client /\ Client \in Users /\ fpc' = "start" /\ asked' = asked
        /\ Fits(Client, buffer[FS].CNT)
    BY <1>6, FsFinds DEF FsResumes, Runs
  <2>2. buffer'[FS] = Answer(buffer[FS].CNT) /\ call'[FS] = K!SendTo(src')
    BY <1>6, <1>b DEF FsResumes, K!Send
  <2>3. buffer'[FS].CNT = buffer[FS].CNT
    BY <2>2, Fields DEF Answer
  <2> QED
    BY <2>1, <2>2, <2>3, CallsDiffer DEF FsAgrees, Fits
<1>7. ASSUME NEW p \in Procs, NEW q \in Procs, Meet(p, q)
      PROVE  FsAgrees'
  <2>0. /\ UNCHANGED <<fpc, src, served, asked, lost>> /\ p # q
        /\ call' = [call EXCEPT ![p] = K!NoCall, ![q] = K!NoCall]
        /\ buffer' = [buffer EXCEPT ![q] = buffer[p]]
    BY <1>7, MeetsAre DEF Meet, K!Meet, localVars
  <2>1. CASE p \in Users /\ q = FS /\ fpc = "receive" /\ call[p] = K!SendTo(FS)
    <3>1. /\ buffer[p] = asked[p] /\ asked[p].source = p
          /\ asked[p].type \in {"READ", "WRITE", "OPEN"}
      BY <2>1, RequestsAre DEF IInv, CallerAgrees
    <3>2. Client' = p /\ buffer'[FS] = asked[p] /\ call'[FS] = K!NoCall
      BY <1>b, <2>0, <2>1, <3>1 DEF Client
    <3> QED
      BY <2>0, <2>1, <3>2, CallsDiffer DEF FsAgrees
  <2>2. CASE p = FS /\ fpc \in {"start", "driver"}
    BY <1>0, <1>b, <2>0, <2>2, CallsDiffer DEF FsAgrees
  <2>3. CASE p = TTY /\ q = FS /\ tpc = "resume" /\ fpc = "receive"
             /\ call[TTY] = K!SendTo(FS)
    <3>1. /\ buffer[TTY] = Msg(TTY, "RESUME_PROC", NO_TASK, req[current].trans,
                               req[current].proc)
          /\ Holds(current) /\ current \in Ttys
      BY <2>3, CallsDiffer DEF IInv, TypeOK, TtyAgrees, Holds
    <3>2. /\ req[current].proc \in Users /\ asked[req[current].proc].type = "READ"
          /\ asked[req[current].proc].CNT = req[current].left + req[current].trans
          /\ req[current].left \in Nat /\ req[current].trans \in Nat
      BY <3>1 DEF IInv, ReaderAgrees, TypeOK
    <3>3. /\ buffer'[FS].type = "RESUME_PROC" /\ Client' = req[current].proc
          /\ buffer'[FS].CNT = req[current].trans /\ call'[FS] = K!NoCall
      BY <1>b, <2>0, <2>3, <3>1, Fields DEF Client
    <3> QED
      BY <2>0, <2>3, <3>2, <3>3, CallsDiffer DEF FsAgrees, Fits
  <2>4. CASE p = TTY /\ q = FS /\ tpc = "work" /\ fpc = "answer"
             /\ call[TTY] = K!SendTo(FS)
    <3>1. IsReply(buffer[TTY])
      BY <2>4, CallsDiffer DEF IInv, TtyAgrees
    <3>2. buffer'[FS] = buffer[TTY] /\ call'[FS] = K!NoCall
      BY <1>b, <2>0, <2>4
    <3>3. /\ buffer'[FS].type = IF served'.type = "READ" THEN "SUSPEND_PROC"
                                                         ELSE "SYSCALL_RET"
          /\ buffer'[FS].CNT = served'.CNT
      BY <2>0, <3>1, <3>2 DEF IsReply
    <3>4. src' \in Users /\ fpc' = "answer"
      BY <1>0, <2>0, <2>4 DEF FsAgrees
    <3> QED
      BY <3>2, <3>3, <3>4, CallsDiffer DEF FsAgrees, IsReply
  <2>5. CASE p = TTY /\ q = FS /\ tpc = "resume" /\ fpc = "answer" /\ lost
             /\ call[TTY] = K!SendTo(FS)
    <3>1. buffer[TTY].type = "RESUME_PROC"
      BY <2>5, Fields, CallsDiffer DEF IInv, TtyAgrees
    <3>2. buffer'[FS] = buffer[TTY] /\ call'[FS] = K!NoCall
      BY <1>b, <2>0, <2>5
    <3> QED
      BY <1>0, <2>0, <2>5, <3>1, <3>2, CallsDiffer DEF FsAgrees
  <2> QED
    BY <1>7, <2>1, <2>2, <2>3, <2>4, <2>5, MeetsAre
<1> QED
  BY <1>2, <1>3, <1>4, <1>5, <1>6, <1>7, <1>8, StepsAre DEF FsWorks

\* What TTY takes for an interrupt is never the request of FS.
LEMMA IntIsNoRequest ==
  ASSUME IInv, TtyTakesInt
  PROVE  FsWaits => lost
<1>1. SUFFICES ASSUME FsWaits, buffer[TTY] = Request(src) PROVE FALSE
  BY CallsDiffer DEF TtyTakesInt, Runs, IInv, TtyAgrees
<1>2. src \in Users
  BY <1>1 DEF IInv, FsWaits, FsAgrees
<1>3. FsOwns(src)
  BY <1>1 DEF TtyTakesInt, FsOwns, Suspending
<1>4. upc[src] # "run"
  BY <1>2, <1>3 DEF IInv, OwnedOnce, Waiting
<1> QED
  BY <1>1, <1>2, <1>4, RequestsAre DEF TtyTakesInt

\* TTY does not miss a request of FS unless an interrupt has destroyed it, and tells it
\* nothing that FS does not await.
LEMMA TtyAgreesStep ==
  ASSUME IInv, [Next]_vars
  PROVE  TtyAgrees'
<1> USE Names
<1>0. TtyAgrees /\ FsAgrees
  BY DEF IInv
<1>b. /\ call \in [Procs -> K!Calls] /\ buffer \in [Procs -> Messages]
      /\ fpc \in {"start", "receive", "driver", "answer"}
      /\ tpc \in {"work", "resume", "receive"}
  BY BuffersAre DEF IInv, TypeOK
<1>1. ASSUME NEW u \in Users, UserStep(u)
      PROVE  TtyAgrees'
  <2>1. /\ UNCHANGED <<fpc, src, served, tpc, current, req, lost>>
        /\ call'[TTY] = call[TTY] /\ buffer'[TTY] = buffer[TTY] /\ call'[FS] = call[FS]
    BY <1>1, UserSteps
  <2>2. FsWaits' = FsWaits
    BY <2>1 DEF FsWaits
  <2>3. tpc = "receive" /\ FsWaits => Request(src)' = Request(src)
    <3>1. FsWaits => src \in Users
      BY <1>0 DEF FsWaits, FsAgrees
    <3>2. FsWaits /\ tpc = "receive" => asked'[src] = asked[src]
      BY <3>1, AskedStays DEF FsOwns, Suspending
    <3> QED
      BY <2>1, <3>2 DEF Request
  <2> QED
    BY <1>0, <1>b, <2>1, <2>2, <2>3 DEF TtyAgrees, IsReply
<1>2. CASE Interrupts
  <2>1. /\ UNCHANGED <<fpc, src, served, asked, tpc, current, req, lost>>
        /\ call'[FS] = call[FS]
    BY <1>2, InterruptSteps DEF localVars
  <2>2. FsWaits' = FsWaits /\ Request(src)' = Request(src)
    BY <2>1 DEF FsWaits, Request
  <2>3. CASE UNCHANGED <<call, buffer>>
    BY <1>0, <1>b, <2>1, <2>2, <2>3 DEF TtyAgrees, IsReply
  <2>4. CASE call[TTY] = K!ReceiveFrom(ANY) /\ call'[TTY] = K!NoCall
             /\ buffer'[TTY] = IntMessage
    <3>1. buffer'[TTY].type = "HARD_INT"
      BY <2>4, Fields DEF IntMessage
    <3>2. tpc = "receive" /\ (FsWaits => lost)
      BY <1>0, <1>b, <2>4, CallsDiffer DEF TtyAgrees
    <3> QED
      BY <2>1, <2>2, <2>4, <3>1, <3>2 DEF TtyAgrees
  <2> QED
    BY <1>2, <2>3, <2>4, InterruptSteps
<1>6. CASE Collision
  <2>1. /\ tpc' = "receive" /\ call'[TTY] = K!NoCall /\ buffer'[TTY] = IntMessage /\ lost'
    BY <1>6, CollidesAre DEF Collision, localVars
  <2> QED
    BY <2>1, Fields DEF IntMessage, TtyAgrees
<1>3. CASE FsWorks
  <2>1. /\ UNCHANGED <<tpc, current, req, asked, lost>> /\ call[FS] = K!NoCall
        /\ call'[TTY] = call[TTY] /\ buffer'[TTY] = buffer[TTY]
    BY <1>3, FsSteps
  <2>2. CASE FsAwaitsDriver
    <3>1. FsWaits /\ FsWaits' /\ src' = src /\ served' = served
      BY <1>b, <2>1, <2>2 DEF FsAwaitsDriver, K!Receive, FsWaits
    <3> QED
      BY <1>0, <1>b, <2>1, <3>1 DEF TtyAgrees, Request, IsReply
  <2>3. CASE FsReceives \/ FsCallsDriver \/ FsAnswers \/ FsResumes
    <3>1. ~FsWaits
      BY <2>1, <2>3, CallsDiffer
      DEF FsReceives, FsCallsDriver, FsAnswers, FsResumes, FsWaits
    <3>2. ~FsWaits'
      BY <1>b, <2>3, CallsDiffer
      DEF FsReceives, FsCallsDriver, FsAnswers, FsResumes, K!Send, FsWaits
    <3> QED
      BY <1>0, <1>b, <2>1, <3>1, <3>2 DEF TtyAgrees
  <2> QED
    BY <1>3, <2>2, <2>3 DEF FsWorks
<1>4. CASE TtyStep
  <2>1. /\ UNCHANGED <<fpc, src, served, asked, lost>> /\ call'[FS] = call[FS]
        /\ call[TTY] = K!NoCall /\ Runs(TTY)
    BY <1>4, TtySteps DEF Runs
  <2>2. FsWaits' = FsWaits /\ Request(src)' = Request(src)
    BY <2>1 DEF FsWaits, Request
  <2>3. tpc # "receive" => (FsWaits => lost)
    BY <1>0, <1>b, <2>1, CallsDiffer DEF TtyAgrees
  <2>4. CASE TtyReceives \/ TtyResumed
    BY <1>b, <2>1, <2>2, <2>3, <2>4 DEF TtyReceives, TtyResumed, K!Receive, TtyAgrees
  <2>5. CASE TtyTakesInt
    <3>1. FsWaits => lost
      BY <2>5, IntIsNoRequest
    <3> QED
      BY <2>1, <2>2, <2>5, <3>1 DEF TtyTakesInt, ipcVars, TtyAgrees
  <2>6. CASE TtyDoRead
    <3> DEFINE m == Msg(TTY, "SUSPEND_PROC", NO_TASK, buffer[TTY].CNT, NO_TASK)
    <3>1. /\ FsWaits /\ src \in Users /\ Waiting(src) /\ buffer[TTY] = Request(src)
          /\ buffer[TTY].source = FS /\ served = asked[src]
      BY <2>6, TtyFinds DEF TtyDoRead
    <3>2. buffer'[TTY] = m /\ call'[TTY] = K!SendTo(FS) /\ tpc' = "work"
      BY <1>b, <2>6, <3>1 DEF TtyDoRead, K!Send
    <3>3. m.type = "SUSPEND_PROC" /\ m.CNT = buffer[TTY].CNT
      BY Fields
    <3>4. served.type = "READ" /\ served.CNT = buffer[TTY].CNT
      BY <2>6, <3>1, RequestsAre DEF TtyDoRead, Waiting
    <3> QED
      BY <2>1, <2>2, <3>1, <3>2, <3>3, <3>4 DEF TtyAgrees, IsReply
  <2>7. CASE TtyAnswers
    <3> DEFINE m == Msg(TTY, "SYSCALL_RET", NO_TASK, buffer[TTY].CNT, NO_TASK)
    <3>1. /\ FsWaits /\ src \in Users /\ Waiting(src) /\ buffer[TTY] = Request(src)
          /\ buffer[TTY].source = FS /\ served = asked[src]
      BY <2>7, TtyFinds DEF TtyAnswers
    <3>2. buffer'[TTY] = m /\ call'[TTY] = K!SendTo(FS) /\ tpc' = "work"
      BY <1>b, <2>7, <3>1 DEF TtyAnswers, K!Send
    <3>3. m.type = "SYSCALL_RET" /\ m.CNT = buffer[TTY].CNT
      BY Fields
    <3>4. served.type # "READ" /\ served.CNT = buffer[TTY].CNT
      BY <2>7, <3>1, RequestsAre DEF TtyAnswers, Waiting
    <3> QED
      BY <2>1, <2>2, <3>1, <3>2, <3>3, <3>4 DEF TtyAgrees, IsReply
  <2>8. ASSUME NEW t \in Ttys, TtyTransfers(t) \/ TtyTakesBack(t) \/ TtyEndsLine(t)
        PROVE  TtyAgrees'
    <3>0. (FsWaits' => lost') /\ current' = t
      BY <2>1, <2>2, <2>3, <2>8 DEF TtyTransfers, TtyTakesBack, TtyEndsLine
    <3>1. CASE K!Receive(TTY, ANY) /\ tpc' = "receive"
      BY <1>b, <3>0, <3>1 DEF K!Receive, TtyAgrees
    <3>2. ASSUME Resume(req'[t]), tpc' = "resume"
          PROVE  TtyAgrees'
      BY <1>b, <3>0, <3>2 DEF Resume, K!Send, TtyAgrees
    <3>3. CASE TtyTransfers(t)
      <4>1. req'[t] = [req[t] EXCEPT !.trans = @ + 1, !.left = @ - 1]
        BY <3>3 DEF TtyTransfers, IInv, TypeOK
      <4> QED
        BY <3>1, <3>2, <3>3, <4>1 DEF TtyTransfers
    <3> QED
      BY <2>8, <3>1, <3>2, <3>3 DEF TtyTakesBack, TtyEndsLine
  <2> QED
    BY <1>4, <2>4, <2>5, <2>6, <2>7, <2>8 DEF TtyStep
<1>5. ASSUME NEW p \in Procs, NEW q \in Procs, Meet(p, q)
      PROVE  TtyAgrees'
  <2>0. /\ UNCHANGED <<fpc, src, served, asked, tpc, current, req, lost>> /\ p # q
        /\ call' = [call EXCEPT ![p] = K!NoCall, ![q] = K!NoCall]
        /\ buffer' = [buffer EXCEPT ![q] = buffer[p]]
    BY <1>5, MeetsAre DEF Meet, K!Meet, localVars
  <2>1. CASE p = FS /\ q = TTY /\ fpc = "driver" /\ tpc = "receive"
             /\ call[FS] = K!SendTo(TTY)
    <3>1. FsWaits' /\ call'[TTY] = K!NoCall /\ buffer'[TTY] = Request(src)
      BY <1>0, <1>b, <2>0, <2>1, CallsDiffer DEF FsAgrees, FsWaits
    <3> QED
      BY <2>0, <2>1, <3>1 DEF TtyAgrees, Request
  <2>2. CASE p = TTY /\ q = FS /\ fpc \in {"receive", "answer"}
    <3>1. ~FsWaits' /\ call'[TTY] = K!NoCall /\ tpc \in {"work", "resume"}
      BY <1>5, <1>b, <2>0, <2>2, CallsDiffer, MeetsAre DEF FsWaits
    <3> QED
      BY <2>0, <3>1 DEF TtyAgrees
  <2>3. CASE TTY \notin {p, q} /\ fpc \in {"start", "receive"}
    <3>1. ~FsWaits /\ ~FsWaits' /\ call'[TTY] = call[TTY] /\ buffer'[TTY] = buffer[TTY]
      BY <1>b, <2>0, <2>3 DEF FsWaits
    <3> QED
      BY <1>0, <1>b, <2>0, <3>1 DEF TtyAgrees
  <2> QED
    BY <1>5, <2>1, <2>2, <2>3, MeetsAre
<1> QED
  BY <1>1, <1>2, <1>3, <1>4, <1>5, <1>6, StepsAre

-----------------------------------------------------------------------------
(***************************************************************************)
(* Who has the request of a process that waits.                            *)
(***************************************************************************)
\* TTY gives FS the answer of the reader of its current terminal.
ResumeMeets == Meet(TTY, FS) /\ tpc = "resume"

\* FS learns whom it is to answer, and does not take it for an answer of its own.
Resumes == ResumeMeets /\ fpc = "receive"

\* A terminal gets a reader by DEV_READ and loses it when FS has the answer.
LEMMA HoldsSteps ==
  ASSUME IInv, [Next]_vars, NEW t \in Ttys
  PROVE  \/ /\ Holds(t)' <=> Holds(t)
            /\ Holds(t) => /\ req'[t].proc = req[t].proc
                           /\ req'[t].left + req'[t].trans = req[t].left + req[t].trans
         \/ /\ TtyDoRead /\ t = buffer[TTY].DEVICE
            /\ req'[t] = [proc |-> buffer[TTY].PROC_NR, left |-> buffer[TTY].CNT, trans |-> 0]
            /\ Holds(t)' <=> buffer[TTY].CNT > 0
         \/ ResumeMeets /\ t = current /\ ~Holds(t)'
<1> USE Names
<1>b. /\ call \in [Procs -> K!Calls] /\ buffer \in [Procs -> Messages]
      /\ tpc \in {"work", "resume", "receive"} /\ req \in [Ttys -> ReadRequests]
  BY BuffersAre DEF IInv, TypeOK, ReadRequests
<1>1. CASE (\E u \in Users : UserStep(u)) \/ FsWorks
  <2>1. UNCHANGED <<tpc, current, req>> /\ call'[TTY] = call[TTY]
    BY <1>1, UserSteps, FsSteps
  <2> QED
    BY <2>1 DEF Holds, Serves
<1>2. CASE Interrupts
  <2>1. UNCHANGED <<tpc, current, req>> /\ (tpc = "resume" => call'[TTY] = call[TTY])
    BY <1>2, InterruptSteps, CallsDiffer DEF localVars, IInv, TtyAgrees
  <2> QED
    BY <2>1 DEF Holds, Serves
<1>3. ASSUME NEW p \in Procs, NEW q \in Procs, Meet(p, q), ~ResumeMeets
      PROVE  UNCHANGED req /\ (Holds(t)' <=> Holds(t))
  <2>1. UNCHANGED <<tpc, current, req>> /\ (tpc = "resume" => call'[TTY] = call[TTY])
    BY <1>b, <1>3, MeetsAre DEF ResumeMeets, Meet, K!Meet, localVars
  <2> QED
    BY <2>1 DEF Holds, Serves
<1>9. CASE Collision
  BY <1>9, CollidesAre DEF Collision, localVars, Holds, Serves
<1>4. CASE ResumeMeets
  BY <1>b, <1>4 DEF ResumeMeets, Meet, K!Meet, localVars, Holds, Serves
<1>5. CASE TtyReceives \/ TtyTakesInt \/ TtyAnswers
  BY <1>5 DEF TtyReceives, TtyTakesInt, TtyAnswers, Holds, Serves
<1>6. CASE TtyResumed
  BY <1>b, <1>6 DEF TtyResumed, Runs, Holds, Serves, IInv, TypeOK
<1>7. CASE TtyDoRead
  <2>1. tpc = "receive" /\ tpc' = "work"
        /\ req' = [req EXCEPT ![buffer[TTY].DEVICE] =
                    [proc |-> buffer[TTY].PROC_NR, left |-> buffer[TTY].CNT, trans |-> 0]]
    BY <1>7 DEF TtyDoRead
  <2>2. CASE t = buffer[TTY].DEVICE
    BY <1>b, <1>7, <2>1, <2>2 DEF Holds, Serves
  <2>3. CASE t # buffer[TTY].DEVICE
    BY <1>b, <2>1, <2>3 DEF Holds, Serves
  <2> QED
    BY <2>2, <2>3
<1>8. ASSUME NEW x \in Ttys, TtyTransfers(x) \/ TtyTakesBack(x) \/ TtyEndsLine(x)
      PROVE  /\ Holds(t)' <=> Holds(t)
             /\ Holds(t) => /\ req'[t].proc = req[t].proc
                            /\ req'[t].left + req'[t].trans = req[t].left + req[t].trans
  <2>1. tpc = "work" /\ current' = x /\ tpc' \in {"resume", "receive"} /\ req[x].left > 0
    BY <1>8 DEF TtyTransfers, TtyTakesBack, TtyEndsLine, Serves
  <2>2. tpc' = "resume" => call'[TTY] # K!NoCall
    BY <1>b, <1>8, CallsDiffer
    DEF TtyTransfers, TtyTakesBack, TtyEndsLine, Resume, K!Send
  <2>3. CASE t # x
    <3>1. req'[t] = req[t]
      BY <1>b, <1>8, <2>3 DEF TtyTransfers, TtyTakesBack, TtyEndsLine
    <3> QED
      BY <2>1, <2>3, <3>1 DEF Holds, Serves
  <2>4. CASE t = x
    <3>1. /\ req[t].proc \in Users \cup {NO_TASK} /\ req[t].left \in Nat
          /\ req[t].trans \in Nat
      BY <1>b DEF ReadRequests
    <3>2. CASE TtyTransfers(t)
      <4>1. req'[t] = [req[t] EXCEPT !.trans = @ + 1, !.left = @ - 1]
        BY <1>b, <3>2 DEF TtyTransfers
      <4>2. /\ req'[t].proc = req[t].proc /\ req'[t].left = req[t].left - 1
            /\ req'[t].trans = req[t].trans + 1
        BY <1>b, <2>1, <2>4, <4>1, ReadersAre
      <4>3. tpc' = "receive" => req'[t].left # 0
        BY <3>2, <4>1 DEF TtyTransfers
      <4> QED
        BY <2>1, <2>2, <2>4, <3>1, <4>2, <4>3 DEF Holds, Serves
    <3>3. CASE TtyTakesBack(t)
      <4>1. req'[t] = [req[t] EXCEPT !.trans = @ - 1, !.left = @ + 1]
        BY <1>b, <3>3 DEF TtyTakesBack, ReadRequests
      <4>2. req'[t] = [proc |-> req[t].proc, left |-> req[t].left + 1,
                       trans |-> req[t].trans - 1]
        BY ZenonT(60), <1>b, <4>1 DEF ReadRequests
      <4>3. tpc' = "receive"
        BY <3>3 DEF TtyTakesBack
      <4> QED
        BY <2>1, <2>4, <3>1, <4>2, <4>3 DEF Holds, Serves
    <3>4. CASE TtyEndsLine(t)
      BY <2>1, <2>2, <2>4, <3>4 DEF TtyEndsLine, Holds, Serves
    <3> QED
      BY <1>8, <2>4, <3>2, <3>3, <3>4
  <2> QED
    BY <2>3, <2>4
<1> QED
  BY <1>1, <1>2, <1>3, <1>4, <1>5, <1>6, <1>7, <1>8, <1>9, StepsAre DEF TtyStep

\* FS works for u from its message, or its RESUME_PROC, to its answer, or to SUSPEND_PROC.
LEMMA OwnsSteps ==
  ASSUME IInv, [Next]_vars, NEW u \in Users
  PROVE  /\ FsOwns(u)' => \/ FsOwns(u) \/ Meet(u, FS)
                          \/ Resumes /\ u = req[current].proc
         /\ FsOwns(u) => \/ FsOwns(u)' \/ Meet(FS, u)
                         \/ TtyDoRead /\ u = src
         /\ Meet(u, FS) => FsOwns(u)'
         /\ Resumes /\ u = req[current].proc => FsOwns(u)'
         /\ Meet(FS, u) => FsOwns(u) /\ ~FsOwns(u)'
         /\ TtyDoRead /\ u = src => ~FsOwns(u)'
<1> USE Names
<1>0. FsAgrees /\ TtyAgrees
  BY DEF IInv
<1>b. /\ call \in [Procs -> K!Calls] /\ buffer \in [Procs -> Messages]
      /\ fpc \in {"start", "receive", "driver", "answer"}
      /\ tpc \in {"work", "resume", "receive"}
  BY BuffersAre DEF IInv, TypeOK
<1>c. ASSUME NEW p \in Procs, NEW q \in Procs, Meet(p, q)
      PROVE  call[p] # K!NoCall /\ call[q] # K!NoCall /\ call'[p] = K!NoCall /\ call'[q] = K!NoCall
  BY ZenonT(60), <1>b, <1>c, MeetsAre, CallsDiffer DEF Meet, K!Meet
<1>1. ASSUME UNCHANGED <<fpc, src, tpc>>, call'[FS] = call[FS], buffer'[FS] = buffer[FS],
             tpc = "work" => call'[TTY] = call[TTY] /\ buffer'[TTY] = buffer[TTY]
      PROVE  FsOwns(u)' <=> FsOwns(u)
  BY <1>1 DEF FsOwns, Client, FsWaits, Suspending
<1>2. CASE (\E v \in Users : UserStep(v)) \/ Interrupts
  <2>1. FsOwns(u)' <=> FsOwns(u)
    <3>1. tpc = "work" => call[TTY] # K!ReceiveFrom(ANY)
      BY <1>0, <1>b, CallsDiffer DEF TtyAgrees
    <3> QED
      BY <1>1, <1>2, <3>1, UserSteps, InterruptSteps DEF localVars
  <2>3. ~Meet(u, FS) /\ ~Meet(FS, u) /\ ~Resumes
    BY <1>2, <1>c, UserSteps, InterruptSteps DEF Resumes, ResumeMeets
  <2>4. ~TtyDoRead
    BY <1>2, UserSteps, InterruptSteps, <1>b DEF TtyDoRead, localVars
  <2> QED
    BY <2>1, <2>3, <2>4
<1>3. CASE FsWorks
  <2>1. /\ UNCHANGED tpc /\ call[FS] = K!NoCall /\ call'[TTY] = call[TTY]
        /\ buffer'[TTY] = buffer[TTY]
    BY <1>3, FsSteps
  <2>2. ~Meet(u, FS) /\ ~Meet(FS, u) /\ ~Resumes /\ ~TtyDoRead
    BY <1>c, <1>b, <2>1 DEF Resumes, ResumeMeets, TtyDoRead
  <2>3. FsOwns(u)' <=> FsOwns(u)
    <3>1. CASE FsReceives
      BY <1>b, <2>1, <3>1, CallsDiffer DEF FsReceives, K!Receive, FsOwns, FsWaits, Suspending
    <3>2. CASE FsCallsDriver
      <4>1. call'[FS] = K!SendTo(TTY) /\ fpc = "receive" /\ fpc' = "driver" /\ src' = Client
        BY <1>b, <2>1, <3>2, FsFinds DEF FsCallsDriver, K!Send
      <4> QED
        BY <2>1, <4>1, CallsDiffer DEF FsOwns, FsWaits, Suspending
    <3>3. CASE FsAwaitsDriver
      BY <1>b, <2>1, <3>3, CallsDiffer DEF FsAwaitsDriver, K!Receive, FsOwns, FsWaits, Suspending
    <3>4. CASE FsAnswers
      <4>1. fpc = "answer" /\ fpc' = "start" /\ src' = src
        BY <3>4 DEF FsAnswers
      <4>2. IF buffer[FS].type = "SUSPEND_PROC" THEN call'[FS] = K!NoCall
                                              ELSE call'[FS] = K!SendTo(src)
        BY <1>b, <2>1, <3>4, <4>1, FsFinds DEF FsAnswers, K!Send, ipcVars
      <4>3. src # TTY
        BY <4>1, <1>0 DEF FsAgrees
      <4> QED
        BY <2>1, <4>1, <4>2, <4>3, CallsDiffer DEF FsOwns, FsWaits, Suspending
    <3>5. CASE FsResumes
      <4>1. /\ fpc = "receive" /\ fpc' = "start" /\ call'[FS] = K!SendTo(Client)
            /\ Client \in Users
        BY <1>b, <2>1, <3>5, FsFinds DEF FsResumes, K!Send
      <4> QED
        BY <2>1, <4>1, CallsDiffer DEF FsOwns, FsWaits, Suspending
    <3> QED
      BY <1>3, <3>1, <3>2, <3>3, <3>4, <3>5 DEF FsWorks
  <2> QED
    BY <2>2, <2>3
<1>4. CASE TtyStep
  <2>1. /\ UNCHANGED <<fpc, src>> /\ call'[FS] = call[FS] /\ buffer'[FS] = buffer[FS]
        /\ call[TTY] = K!NoCall
    BY <1>4, TtySteps
  <2>2. ~Meet(u, FS) /\ ~Meet(FS, u) /\ ~Resumes
    BY <1>c, <1>4, <2>1, TtySteps DEF Resumes, ResumeMeets
  <2>3. FsWaits' = FsWaits /\ Client' = Client /\ ~Suspending
    BY <2>1, CallsDiffer DEF FsWaits, Client, Suspending
  <2>4. CASE TtyDoRead
    <3>1. FsWaits
      BY <2>4, TtyFinds DEF TtyDoRead
    <3>2. Suspending'
      BY <1>b, <2>4, Fields, TtyFinds DEF TtyDoRead, K!Send, Suspending
    <3>3. ~FsOwns(u)' /\ (FsOwns(u) => u = src)
      BY <2>1, <2>3, <3>1, <3>2, CallsDiffer DEF FsOwns, FsWaits
    <3> QED
      BY <2>2, <2>4, <3>3
  <2>5. ASSUME ~TtyDoRead
        PROVE  ~Suspending'
    <3>1. CASE TtyReceives \/ TtyResumed \/ TtyTakesInt
      BY <1>b, <2>1, <3>1, CallsDiffer
      DEF TtyReceives, TtyResumed, TtyTakesInt, ipcVars, Suspending
    <3>2. CASE TtyAnswers
      <4>1. buffer'[TTY].type = "SYSCALL_RET"
        BY <1>b, <3>2, Fields DEF TtyAnswers, K!Send
      <4> QED
        BY <4>1 DEF Suspending
    <3>3. ASSUME NEW t \in Ttys, TtyTransfers(t) \/ TtyTakesBack(t) \/ TtyEndsLine(t)
          PROVE  ~Suspending'
      BY <3>3 DEF TtyTransfers, TtyTakesBack, TtyEndsLine, Suspending
    <3> QED
      BY <1>4, <2>5, <3>1, <3>2, <3>3 DEF TtyStep
  <2>6. CASE ~TtyDoRead
    <3>1. FsOwns(u)' <=> FsOwns(u)
      BY <2>1, <2>3, <2>5, <2>6 DEF FsOwns
    <3> QED
      BY <2>2, <2>6, <3>1
  <2> QED
    BY <2>4, <2>6
<1>5. ASSUME NEW p \in Procs, NEW q \in Procs, Meet(p, q)
      PROVE  /\ FsOwns(u)' => \/ FsOwns(u)
                              \/ p = u /\ q = FS
                              \/ Resumes /\ u = req[current].proc
             /\ FsOwns(u) => FsOwns(u)' \/ (p = FS /\ q = u)
             /\ p = u /\ q = FS => FsOwns(u)'
             /\ Resumes /\ p = TTY /\ q = FS /\ u = req[current].proc => FsOwns(u)'
             /\ p = FS /\ q = u => FsOwns(u) /\ ~FsOwns(u)'
             /\ ~TtyDoRead
  <2>0. /\ UNCHANGED <<fpc, src, asked, tpc, current, req>> /\ p # q
        /\ call' = [call EXCEPT ![p] = K!NoCall, ![q] = K!NoCall]
        /\ buffer' = [buffer EXCEPT ![q] = buffer[p]]
    BY <1>5, MeetsAre DEF Meet, K!Meet, localVars
  <2>1. ~TtyDoRead
    BY <2>0 DEF TtyDoRead
  <2>2. CASE p \in Users /\ q = FS /\ fpc = "receive" /\ call[p] = K!SendTo(FS)
             /\ call[FS] = K!ReceiveFrom(ANY)
    <3>1. /\ buffer[p] = asked[p] /\ asked[p].source = p
          /\ asked[p].type \in {"READ", "WRITE", "OPEN"}
      BY <2>2, RequestsAre DEF IInv, CallerAgrees
    <3>2. Client' = p /\ call'[FS] = K!NoCall
      BY <1>b, <2>0, <2>2, <3>1 DEF Client
    <3>3. FsOwns(u)' <=> u = p
      BY <2>0, <2>2, <3>2, CallsDiffer DEF FsOwns, FsWaits, Suspending
    <3>4. ~FsOwns(u)
      BY <2>2, CallsDiffer DEF FsOwns, FsWaits, Suspending
    <3> QED
      BY <2>1, <2>2, <3>3, <3>4
  <2>3. CASE p = FS /\ q \in Users /\ fpc = "start" /\ call[FS] = K!SendTo(q)
    <3>1. FsOwns(u) <=> u = q
      BY <2>3, CallsDiffer DEF FsOwns, FsWaits, Suspending
    <3>2. ~FsOwns(u)'
      BY <1>b, <2>0, <2>3, CallsDiffer DEF FsOwns, FsWaits, Suspending
    <3> QED
      BY <2>1, <2>3, <3>1, <3>2
  <2>4. CASE p = FS /\ q = TTY /\ fpc = "driver" /\ tpc = "receive"
             /\ call[FS] = K!SendTo(TTY)
    <3>1. (FsOwns(u) <=> src = u) /\ (FsOwns(u)' <=> src = u)
      BY <1>b, <2>0, <2>4, CallsDiffer DEF FsOwns, FsWaits, Suspending
    <3>2. p # u /\ q # u /\ p # TTY
      BY <2>4
    <3> QED
      BY <2>1, <3>1, <3>2
  <2>5. CASE p = TTY /\ q = FS /\ tpc = "resume" /\ fpc = "receive"
             /\ call[TTY] = K!SendTo(FS) /\ call[FS] = K!ReceiveFrom(ANY)
    <3>1. buffer[TTY] = Msg(TTY, "RESUME_PROC", NO_TASK, req[current].trans,
                            req[current].proc)
      BY <1>0, <2>5, CallsDiffer DEF TtyAgrees
    <3>2. Client' = req[current].proc /\ call'[FS] = K!NoCall
      BY <1>b, <2>0, <2>5, <3>1, Fields DEF Client
    <3>3. FsOwns(u)' <=> u = req[current].proc
      BY <2>0, <2>5, <3>2, CallsDiffer DEF FsOwns, FsWaits, Suspending
    <3>4. ~FsOwns(u)
      BY <2>5, CallsDiffer DEF FsOwns, FsWaits, Suspending
    <3> QED
      BY <1>5, <2>1, <2>5, <3>3, <3>4 DEF Resumes, ResumeMeets
  <2>6. CASE p = TTY /\ q = FS /\ tpc = "work" /\ fpc = "answer"
             /\ call[TTY] = K!SendTo(FS) /\ call[FS] = K!ReceiveFrom(TTY)
    <3>1. FsOwns(u) <=> src = u /\ buffer[TTY].type # "SUSPEND_PROC"
      BY <2>6, CallsDiffer DEF FsOwns, FsWaits, Suspending
    <3>2. buffer'[FS] = buffer[TTY] /\ call'[FS] = K!NoCall
      BY <1>b, <2>0, <2>6
    <3>3. FsOwns(u)' <=> src = u /\ buffer[TTY].type # "SUSPEND_PROC"
      BY <2>0, <2>6, <3>2, CallsDiffer DEF FsOwns, FsWaits, Suspending
    <3>4. p # u /\ p # FS /\ ~Resumes
      BY <2>6 DEF Resumes
    <3> QED
      BY <2>1, <3>1, <3>3, <3>4
  <2>7. CASE p = TTY /\ q = FS /\ tpc = "resume" /\ fpc = "answer"
             /\ call[TTY] = K!SendTo(FS) /\ call[FS] = K!ReceiveFrom(TTY)
    <3>1. FsOwns(u) <=> src = u
      BY <2>7, CallsDiffer DEF FsOwns, FsWaits, Suspending
    <3>2. buffer[TTY].type = "RESUME_PROC"
      BY <1>0, <2>7, CallsDiffer, Fields DEF TtyAgrees
    <3>3. buffer'[FS] = buffer[TTY] /\ call'[FS] = K!NoCall
      BY <1>b, <2>0, <2>7
    <3>4. FsOwns(u)' <=> src = u
      BY <2>0, <2>7, <3>2, <3>3, CallsDiffer DEF FsOwns, FsWaits, Suspending
    <3>5. p # u /\ p # FS /\ ~Resumes
      BY <2>7 DEF Resumes
    <3> QED
      BY <2>1, <3>1, <3>4, <3>5
  <2> QED
    BY <1>5, <2>2, <2>3, <2>4, <2>5, <2>6, <2>7, MeetsAre
<1>6. CASE \E p, q \in Procs : Meet(p, q)
  <2>1. PICK p \in Procs, q \in Procs : Meet(p, q)
    BY <1>6
  <2> QED
    BY <1>5, <2>1 DEF Resumes, ResumeMeets
<1>7. CASE Collision
  <2>1. PICK p \in Procs, q \in Procs : Collide(p, q)
    BY <1>7 DEF Collision
  <2>2. FsOwns(u)' <=> FsOwns(u)
    BY <2>1, CollidesAre, CallsDiffer DEF localVars, FsOwns, FsWaits, Suspending
  <2>3. ~Meet(u, FS) /\ ~Meet(FS, u) /\ ~Resumes
    BY <2>1, CollidesAre, MeetsAre, CallsDiffer DEF Resumes, ResumeMeets
  <2>4. ~TtyDoRead
    BY <2>1, CollidesAre DEF localVars, TtyDoRead
  <2> QED
    BY <2>2, <2>3, <2>4
<1> QED
  BY <1>2, <1>3, <1>4, <1>6, <1>7, StepsAre

\* A process that waits waits until FS gives it its answer.
LEMMA WaitingSteps ==
  ASSUME IInv, [Next]_vars, NEW u \in Users
  PROVE  /\ Waiting(u)' => Waiting(u) \/ Meet(u, FS)
         /\ Waiting(u) => Waiting(u)' \/ Meet(FS, u)
         /\ Meet(u, FS) => ~Waiting(u) /\ Waiting(u)'
         /\ Meet(FS, u) => ~Waiting(u)'
<1> USE Names
<1>b. /\ call \in [Procs -> K!Calls] /\ buffer \in [Procs -> Messages]
      /\ upc \in [Users -> {"run", "send", "receive"}]
  BY BuffersAre DEF IInv, TypeOK
<1>1. ASSUME NEW p \in Procs, NEW q \in Procs, Meet(p, q)
      PROVE  /\ p = u \/ q = u => call[u] # K!NoCall /\ call'[u] = K!NoCall
             /\ p = u => q = FS /\ upc[u] = "send"
             /\ q = u => p = FS /\ upc[u] = "receive"
             /\ p # u /\ q # u => call'[u] = call[u]
             /\ upc' = upc
  BY ZenonT(60), <1>b, <1>1, MeetsAre, CallsDiffer DEF Meet, K!Meet, localVars
<1>2. ASSUME NEW v \in Users, UserStep(v)
      PROVE  (Waiting(u)' <=> Waiting(u)) /\ ~Meet(u, FS) /\ ~Meet(FS, u)
  <2>1. CASE v = u
    <3>1. call[u] = K!NoCall
      BY <1>2, <2>1
      DEF UserStep, UserCallsSome, UserCalls, UserReceives, UserReturns, Runs
    <3> QED
      BY <1>b, <1>1, <1>2, <2>1, <3>1, CallsDiffer
      DEF UserStep, UserCallsSome, UserCalls, UserReceives, UserReturns, K!Send,
          K!Receive, ipcVars, Waiting
  <2>2. CASE v # u
    <3>1. upc'[u] = upc[u] /\ call'[u] = call[u] /\ call'[FS] = call[FS]
      BY <1>b, <1>2, <2>2, UserSteps
      DEF UserStep, UserCallsSome, UserCalls, UserReceives, UserReturns
    <3> QED
      BY <1>1, <3>1 DEF Waiting
  <2> QED
    BY <2>1, <2>2
<1>3. CASE FsWorks \/ TtyStep \/ Interrupts \/ Collision
  <2>1. upc' = upc /\ call'[u] = call[u]
    BY <1>3, LocalSteps DEF Local, FsStep, FsWorks, Interrupts
  <2> QED
    BY <1>1, <2>1 DEF Waiting
<1>4. CASE \E p, q \in Procs : Meet(p, q)
  BY <1>b, <1>1, <1>4, CallsDiffer DEF Waiting
<1> QED
  BY <1>2, <1>3, <1>4, StepsAre

\* The reader of a terminal waits there for what it asked for.
LEMMA ReaderStep ==
  ASSUME IInv, [Next]_vars, NEW t \in Ttys
  PROVE  ReaderAgrees(t)'
<1> SUFFICES ASSUME Holds(t)'
             PROVE  \E u \in Users :
                        /\ u = req'[t].proc /\ Waiting(u)'
                        /\ asked'[u].type = "READ" /\ asked'[u].DEVICE = t
                        /\ asked'[u].CNT = req'[t].left + req'[t].trans
  BY DEF ReaderAgrees, Waiting, Holds
<1>1. CASE /\ Holds(t) /\ req'[t].proc = req[t].proc
           /\ req'[t].left + req'[t].trans = req[t].left + req[t].trans
  <2>1. PICK u \in Users : /\ u = req[t].proc /\ Waiting(u)
                           /\ asked[u].type = "READ" /\ asked[u].DEVICE = t
                           /\ asked[u].CNT = req[t].left + req[t].trans
    BY <1>1 DEF IInv, ReaderAgrees
  <2>2. Waiting(u)'
    BY <1>1, <2>1, OwnsSteps, WaitingSteps DEF IInv, OwnedOnce
  <2>3. asked'[u] = asked[u]
    BY <2>1, AskedStays
  <2> QED
    BY <1>1, <2>1, <2>2, <2>3
<1>2. CASE /\ TtyDoRead /\ t = buffer[TTY].DEVICE
           /\ req'[t] = [proc |-> buffer[TTY].PROC_NR, left |-> buffer[TTY].CNT, trans |-> 0]
  <2>1. PICK u \in Users : /\ u = src /\ Waiting(u) /\ buffer[TTY] = Request(u)
                           /\ buffer[TTY].type = "DEV_READ"
    BY <1>2, TtyFinds DEF TtyDoRead
  <2>2. /\ asked[u].type = "READ" /\ asked[u].DEVICE = t /\ asked[u].CNT \in Nat
        /\ asked[u].CNT = buffer[TTY].CNT /\ buffer[TTY].PROC_NR = u
    BY <1>2, <2>1, RequestsAre DEF Waiting
  <2>3. asked' = asked /\ Waiting(u)'
    <3>1. asked' = asked /\ upc' = upc /\ call'[u] = call[u]
      BY <1>2, <2>1, LocalSteps DEF Local, TtyStep
    <3> QED
      BY <2>1, <3>1 DEF Waiting
  <2>4. req'[t].proc = u /\ req'[t].left = asked[u].CNT /\ req'[t].trans = 0
    BY <1>2, <2>2
  <2> QED
    BY <2>1, <2>2, <2>3, <2>4
<1> QED
  BY <1>1, <1>2, HoldsSteps

\* No process has its request twice.
LEMMA OwnedStep ==
  ASSUME IInv, [Next]_vars, NEW u \in Users
  PROVE  OwnedOnce(u)'
<1> SUFFICES ASSUME FsOwns(u)'
             PROVE  Waiting(u)' /\ \A t \in Ttys : Holds(t)' => req'[t].proc # u
  BY DEF OwnedOnce, FsOwns, Waiting, Holds
<1>0. /\ \A t \in Ttys : ReaderAgrees(t)
      /\ OwnedOnce(u) /\ current \in Ttys
  BY DEF IInv, TypeOK
<1>1. \A t \in Ttys : Holds(t)' /\ req'[t].proc = u => Holds(t) /\ req[t].proc = u
  <2>1. TtyDoRead => buffer[TTY].PROC_NR # u
    <3>1. TtyDoRead => src \in Users /\ Waiting(src) /\ buffer[TTY] = Request(src)
      BY TtyFinds DEF TtyDoRead
    <3> QED
      BY <3>1, OwnsSteps, RequestsAre DEF Waiting
  <2> QED
    BY <2>1, HoldsSteps
<1>2. CASE FsOwns(u)
  BY <1>0, <1>1, <1>2, OwnsSteps, WaitingSteps DEF OwnedOnce
<1>3. CASE Meet(u, FS)
  BY <1>0, <1>1, <1>3, WaitingSteps DEF ReaderAgrees
<1>4. CASE Resumes /\ u = req[current].proc
  <2>1. Holds(current)
    BY <1>4, MeetsAre, Names, CallsDiffer DEF Resumes, ResumeMeets, Holds
  <2>2. Waiting(u) /\ Waiting(u)'
    BY <1>0, <1>4, <2>1, OwnsSteps, WaitingSteps DEF ReaderAgrees
  <2>3. \A t \in Ttys : t = current => ~Holds(t)'
    BY <1>0, <1>4, MeetsAre, Names, BuffersAre
    DEF Resumes, ResumeMeets, Meet, K!Meet, localVars, Holds, IInv
  <2>4. ASSUME NEW t \in Ttys, Holds(t)', req'[t].proc = u
        PROVE  FALSE
    <3>1. Holds(t) /\ req[t].proc = u
      BY <1>1, <2>4
    <3>2. t = current
      BY <1>0, <1>4, <2>1, <3>1 DEF ReaderAgrees
    <3> QED
      BY <2>3, <2>4, <3>2
  <2> QED
    BY <2>2, <2>4
<1> QED
  BY <1>2, <1>3, <1>4, OwnsSteps

\* FS remembers the request for which it waits.
LEMMA ServedStep ==
  ASSUME IInv, [Next]_vars
  PROVE  ServedAgrees'
<1> USE Names
<1>0. ServedAgrees /\ FsAgrees
  BY DEF IInv
<1>1. CASE FsCallsDriver
  <2>1. /\ src' = Client /\ Client \in Users /\ served' = asked[Client] /\ asked' = asked
        /\ served'.type \in DOMAIN DriverType
    BY <1>1, FsFinds DEF FsCallsDriver, Runs
  <2> QED
    BY <2>1 DEF ServedAgrees
<1>2. ASSUME fpc \in {"driver", "answer"}, fpc' = fpc \/ fpc' = "answer",
             UNCHANGED <<src, served>>, FsOwns(src)' => FsOwns(src)
      PROVE  ServedAgrees'
  <2>1. src \in Users
    BY <1>0, <1>2 DEF FsAgrees
  <2>2. FsOwns(src)' => asked'[src] = asked[src]
    BY <1>2, <2>1, AskedStays
  <2> QED
    BY <1>0, <1>2, <2>2 DEF ServedAgrees
<1>3. CASE fpc' \notin {"driver", "answer"}
  BY <1>3 DEF ServedAgrees
<1>4. ASSUME ~FsCallsDriver, fpc' \in {"driver", "answer"}
      PROVE  /\ fpc \in {"driver", "answer"} /\ (fpc' = fpc \/ fpc' = "answer")
             /\ UNCHANGED <<src, served>>
  <2>1. CASE FsWorks
    BY <1>4, <2>1
    DEF FsWorks, FsReceives, FsAwaitsDriver, FsAnswers, FsResumes
  <2>2. CASE TtyStep \/ Interrupts \/ \E u \in Users : UserStep(u)
    BY <1>4, <2>2, UserSteps, TtySteps, InterruptSteps DEF localVars
  <2>3. CASE Collision \/ \E p, q \in Procs : Meet(p, q)
    BY <1>4, <2>3 DEF Collision, Collide, Meet, localVars
  <2> QED
    BY <2>1, <2>2, <2>3, StepsAre
<1>5. ASSUME fpc \in {"driver", "answer"}, src' = src
      PROVE  FsOwns(src)' => FsOwns(src)
  <2>1. src \in Users
    BY <1>0, <1>5 DEF FsAgrees
  <2>2. PICK u \in Users : u = src
    BY <2>1
  <2>3. ~Meet(u, FS) /\ ~Resumes
    BY <1>5, MeetsAre DEF Resumes
  <2>4. FsOwns(u)' => FsOwns(u)
    BY <2>3, OwnsSteps
  <2> QED
    BY <1>5, <2>2, <2>4
<1> QED
  BY <1>1, <1>2, <1>3, <1>4, <1>5

-----------------------------------------------------------------------------
(***************************************************************************)
(* The theorems.                                                           *)
(***************************************************************************)
\* At the start nobody is in a call.
LEMMA InitHolds == Init => IInv
<1> SUFFICES ASSUME Init
             PROVE  IInv
  OBVIOUS
<1> USE Names
<1>1. NoMessage \in Messages
  BY MessagesAre DEF NoMessage, MsgTypes
<1>2. TypeOK
  BY <1>1 DEF Init, TypeOK, NoRequest, K!Init, K!TypeOK, K!Calls
<1>3. FsAgrees /\ TtyAgrees
  BY CallsDiffer DEF Init, K!Init, FsAgrees, TtyAgrees, FsWaits
<1>6. ServedAgrees
  BY DEF Init, ServedAgrees
<1>4. ASSUME NEW u \in Users
      PROVE  CallerAgrees(u) /\ OwnedOnce(u)
  BY CallsDiffer DEF Init, K!Init, CallerAgrees, OwnedOnce, FsOwns, FsWaits
<1>5. ASSUME NEW t \in Ttys
      PROVE  ReaderAgrees(t)
  BY DEF Init, NoRequest, ReaderAgrees, Holds, Serves
<1> QED
  BY <1>2, <1>3, <1>4, <1>5, <1>6 DEF IInv

\* FS and TTY always find the callers as their steps need them.
LEMMA Invariance == Spec => []IInv
<1>1. ASSUME IInv, [Next]_vars
      PROVE  IInv'
  <2>1. TypeOK' /\ FsAgrees' /\ TtyAgrees' /\ ServedAgrees'
    BY <1>1, TypeStep, FsAgreesStep, TtyAgreesStep, ServedStep
  <2>2. (\A u \in Users : CallerAgrees(u))' /\ (\A u \in Users : OwnedOnce(u))'
    BY <1>1, CallerStep, OwnedStep
  <2>3. (\A t \in Ttys : ReaderAgrees(t))'
    BY <1>1, ReaderStep
  <2> QED
    BY <2>1, <2>2, <2>3 DEF IInv
<1> QED
  BY <1>1, InitHolds, PTL DEF Spec

\* Everybody finds messages and requests of the right form, and FS and TTY index their
\* tables within bounds.
THEOREM TypeCorrect == Spec => []TypeOK
<1>1. IInv => TypeOK
  BY DEF IInv
<1> QED
  BY <1>1, Invariance, PTL

\* FS answers only who waits for it, with what it asked for, whatever terminals the users
\* share and in whatever order the terminals finish their lines.
THEOREM AnswersAlwaysFit == Spec => []AnswersFit
<1>1. ASSUME IInv, NEW u \in Users, call[FS] = K!SendTo(u)
      PROVE  /\ upc[u] \in {"send", "receive"} /\ call[u] # K!SendTo(FS)
             /\ Fits(u, buffer[FS].CNT)
  <2>1. fpc = "start" /\ src = u
    BY <1>1, Names, CallsDiffer DEF IInv, TypeOK, FsAgrees
  <2>2. FsOwns(u)
    BY <1>1, <2>1 DEF FsOwns
  <2> QED
    BY <1>1, <2>1, <2>2, CallsDiffer DEF IInv, FsAgrees, OwnedOnce, Waiting
<1>2. IInv => AnswersFit
  BY <1>1 DEF AnswersFit, Fits
<1> QED
  BY <1>2, Invariance, PTL

\* A message that is lost stays lost.
LEMMA LostStays ==
  ASSUME IInv, [Next]_vars
  PROVE  lost' = lost \/ lost'
<1>1. CASE (\E u \in Users : UserStep(u)) \/ FsWorks \/ TtyStep \/ Interrupts
  BY <1>1, UserSteps, FsSteps, TtySteps, InterruptSteps
<1>2. CASE Collision \/ \E p, q \in Procs : Meet(p, q)
  BY <1>2 DEF Collision, Collide, Meet
<1> QED
  BY <1>1, <1>2, StepsAre

\* Who waits at a terminal of its own is not replaced there, and a request for
\* characters makes it a reader.
LEMMA KnownStep ==
  ASSUME IInv, [Next]_vars, OwnTerminals, ~lost', NEW u \in Users, Known(u)
  PROVE  Known(u)'
<1> SUFFICES ASSUME Waiting(u)', ~FsOwns(u)'
             PROVE  \E t \in Ttys : Holds(t)' /\ req'[t].proc = u
  BY DEF Known, Waiting, FsOwns, Holds
<1>1. Waiting(u) /\ ~Meet(FS, u)
  BY WaitingSteps, OwnsSteps
<1>2. CASE FsOwns(u)
  <2>1. TtyDoRead /\ u = src
    BY <1>1, <1>2, OwnsSteps
  <2>2. buffer[TTY] = Request(u) /\ Request(u).type = "DEV_READ"
    BY <2>1, TtyFinds DEF TtyDoRead
  <2>3. /\ buffer[TTY].DEVICE \in Ttys /\ buffer[TTY].PROC_NR = u
        /\ asked[u].type = "READ" /\ buffer[TTY].CNT = asked[u].CNT
    BY <1>1, <2>2, RequestsAre DEF Waiting
  <2>4. buffer[TTY].CNT > 0
    <3>1. asked[u].CNT \in Counts
      BY <1>1, <2>3 DEF IInv, CallerAgrees, Waiting
    <3>2. \A n \in Counts : n > 0
      BY CountsAssumption DEF OwnTerminals
    <3> QED
      BY <2>3, <3>1, <3>2
  <2>5. PICK t \in Ttys : t = buffer[TTY].DEVICE
    BY <2>3
  <2>6. req' = [req EXCEPT ![t] = [proc |-> u, left |-> buffer[TTY].CNT, trans |-> 0]]
        /\ tpc' = "work"
    BY <2>1, <2>3, <2>5 DEF TtyDoRead
  <2> QED
    BY <2>4, <2>5, <2>6 DEF Holds, Serves, IInv, TypeOK
<1>3. CASE ~FsOwns(u)
  <2>1. PICK t \in Ttys : Holds(t) /\ req[t].proc = u
    BY <1>1, <1>3 DEF Known
  <2>2. asked[u].DEVICE = t /\ asked[u].DEVICE \in Bound[u]
    BY <1>1, <2>1 DEF IInv, ReaderAgrees, CallerAgrees, Waiting
  <2>3. ASSUME TtyDoRead, t = buffer[TTY].DEVICE
        PROVE  FALSE
    <3>1. /\ src \in Users /\ Waiting(src) /\ FsOwns(src) /\ buffer[TTY] = Request(src)
      BY <2>3, TtyFinds DEF TtyDoRead
    <3>2. asked[src].DEVICE = t /\ asked[src].DEVICE \in Bound[src]
      BY <2>3, <3>1, RequestsAre DEF IInv, CallerAgrees, Waiting
    <3> QED
      BY <1>3, <2>2, <3>1, <3>2 DEF OwnTerminals
  <2>4. ~(ResumeMeets /\ t = current)
    <3>1. ~(Resumes /\ t = current)
      BY <2>1, OwnsSteps
    <3>2. ResumeMeets => fpc = "receive"
      BY LostStays, MeetsAre, Names DEF ResumeMeets
    <3> QED
      BY <3>1, <3>2 DEF Resumes
  <2>5. Holds(t)' /\ req'[t].proc = u
    BY <2>1, <2>3, <2>4, HoldsSteps
  <2> QED
    BY <2>5
<1> QED
  BY <1>2, <1>3

\* As long as no message is destroyed, and with a terminal of its own and something to
\* ask for, a reader that FS has suspended is one that TTY serves: it is not forgotten
\* between the two.
THEOREM ReadersAreKnown ==
  ASSUME OwnTerminals
  PROVE  Spec => []NoReaderForgotten
<1> DEFINE Inv == IInv /\ (~lost => \A u \in Users : Known(u))
<1>1. Init => Inv
  <2>1. Init => \A u \in Users : Known(u)
    BY CallsDiffer DEF Init, K!Init, Known, Waiting
  <2> QED
    BY <2>1, InitHolds
<1>2. ASSUME Inv, IInv', [Next]_vars
      PROVE  Inv'
  <2>1. ASSUME ~lost'
        PROVE  (\A u \in Users : Known(u))'
    <3>1. ~lost
      BY <1>2, <2>1, LostStays
    <3> QED
      BY <1>2, <2>1, <3>1, KnownStep
  <2> QED
    BY <1>2, <2>1
<1>3. ASSUME Inv
      PROVE  NoReaderForgotten
  <2> SUFFICES ASSUME NEW u \in Users, ~lost, call[u] = K!ReceiveFrom(FS), ~Underway(u)
               PROVE  \E t \in Ttys : req[t].proc = u /\ Serves(t)
    BY DEF NoReaderForgotten
  <2>1. Waiting(u)
    BY <1>3 DEF IInv, CallerAgrees, Waiting
  <2>2. CASE FsOwns(u)
    <3>1. ~(fpc = "start" /\ call[FS] = K!SendTo(u))
      BY <1>3, Names, CallsDiffer DEF IInv, FsAgrees, Underway
    <3>2. ~(fpc = "receive" /\ call[FS] = K!NoCall /\ Client = u)
      BY <1>3 DEF Underway, Client
    <3>3. ~(src = u /\ fpc \in {"driver", "answer"})
      BY DEF Underway
    <3> QED
      BY <1>3, <2>2, <3>1, <3>2, <3>3 DEF FsOwns, FsWaits, IInv, FsAgrees
  <2>3. ASSUME NEW t \in Ttys, Holds(t), req[t].proc = u
        PROVE  Serves(t)
    <3>1. CASE tpc = "resume" /\ current = t
      <4>1. call[TTY] = K!SendTo(FS) /\ buffer[TTY].PROC_NR = u
        BY <1>3, <2>3, <3>1, Fields DEF IInv, TtyAgrees, Holds
      <4> QED
        BY <4>1 DEF Underway
    <3> QED
      BY <2>3, <3>1 DEF Holds
  <2> QED
    BY <1>3, <2>1, <2>2, <2>3 DEF Known
<1> QED
  BY <1>1, <1>2, <1>3, Invariance, PTL DEF Spec

\* The assertion of do_rdwt on the driver's answer holds as long as no message has been
\* destroyed, whatever the users ask for and however many terminals have readers.
THEOREM LengthsAlwaysAgree == Spec => []DriverAnswersRequest
<1>1. IInv => DriverAnswersRequest
  BY FsFinds DEF DriverAnswersRequest
<1> QED
  BY <1>1, Invariance, PTL

=============================================================================
