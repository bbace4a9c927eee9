---------------------------------- MODULE Tty ----------------------------------
(***************************************************************************)
(* The terminals: the keyboard handler and its ring kb_buf                 *)
(* (lib/keyboard.c), the scan code decoder, and the TTY task with its two  *)
(* consoles (kernel/tty.c).                                                *)
(*                                                                         *)
(* TTY runs one round for every message: it decodes one key, consumes one  *)
(* character, and receives.  The handlers of the keyboard and the clock    *)
(* run between any two of its steps.  FS, at the other end, is left open:  *)
(* it calls TTY with anything at any time (see FsTty for the two of them,  *)
(* and Ipc for the messages).  What is shown on the screen is left out.    *)
(***************************************************************************)
EXTENDS Integers, SequencesExt

CONSTANTS
    KE_IN_COUNT,    \* the length of kb_buf
    NR_TTY,         \* the number of terminals
    NR_TTY_BUF,     \* the length of the ibuf of a terminal
    Codes,          \* the scan codes the keyboard sends
    MaxCnt          \* bound: the most characters a read asks for

ASSUME SizesAssumption ==
    /\ KE_IN_COUNT \in Nat \ {0}
    /\ NR_TTY \in Nat \ {0}
    /\ NR_TTY_BUF \in Nat \ {0}
    /\ MaxCnt \in Nat
    /\ Codes \subseteq 0 .. 255

VARIABLES
    kb_buf,         \* the ring of scan codes, 0 where none waits
    key_pressed,    \* a key was pressed and TTY has not reacted
    has_int_msg,    \* an interrupt message waits for TTY
    scan,           \* the scan codes keyboard_read has taken in this call
    ctrl,           \* the control keys that are held
    current_tty,    \* the terminal whose console is shown
    tty,            \* per terminal: its ring of characters
    req,            \* per terminal: the read it serves, with its buffer
    pc,             \* where task_tty is
    fs              \* the message FS waits for an answer to, or NoMsg

kbVars == <<kb_buf, key_pressed>>
vars == <<kbVars, has_int_msg, scan, ctrl, current_tty, tty, req, pc, fs>>

Ttys == 0 .. NR_TTY - 1

Chars == {"a", "b", "star", "newline", "backspace", "nul"}
ControlKeys == {"ctrl_l", "ctrl_r"}
NoMsg == [type |-> "none"]
FsMessages == [type : {"DEV_OPEN", "DEV_WRITE"}]
              \cup [type : {"DEV_READ"}, DEVICE : Ttys, CNT : 0 .. MaxCnt]

\* The head of a ring that has been overwritten: a pointer to somewhere else.
Wild == -1

TypeOK ==
    /\ kb_buf \in [buf : [0 .. KE_IN_COUNT - 1 -> Codes \cup {0}],
                   p_usable : 0 .. KE_IN_COUNT - 1,
                   p_pending : 0 .. KE_IN_COUNT - 1,
                   count : 0 .. KE_IN_COUNT]
    /\ key_pressed \in BOOLEAN
    /\ has_int_msg \in BOOLEAN
    /\ scan \in Seq(Codes) /\ Len(scan) <= 5
    /\ ctrl \subseteq ControlKeys
    /\ current_tty \in Ttys
    /\ tty \in [Ttys -> [ibuf : [0 .. NR_TTY_BUF - 1 -> Chars],
                         head : 0 .. NR_TTY_BUF \cup {Wild},
                         tail : 0 .. NR_TTY_BUF - 1,
                         cnt : 0 .. NR_TTY_BUF]]
    /\ req \in [Ttys -> [left : 0 .. MaxCnt, trans : 0 .. MaxCnt, buf : Seq(Chars)]]
    /\ pc \in {"read", "write", "resume", "receive", "hard_int"}
    /\ fs \in FsMessages \cup {NoMsg}

Init ==
    /\ kb_buf = [buf |-> [k \in 0 .. KE_IN_COUNT - 1 |-> 0],
                 p_usable |-> 0, p_pending |-> 0, count |-> 0]
    /\ key_pressed = FALSE
    /\ has_int_msg = FALSE
    /\ scan = <<>>
    /\ ctrl = {}
    /\ current_tty = 0
    /\ tty = [t \in Ttys |-> [ibuf |-> [k \in 0 .. NR_TTY_BUF - 1 |-> "nul"],
                              head |-> 0, tail |-> 0, cnt |-> 0]]
    /\ req = [t \in Ttys |-> [left |-> 0, trans |-> 0, buf |-> <<>>]]
    /\ pc = "read"
    /\ fs = NoMsg

-----------------------------------------------------------------------------
(***************************************************************************)
(* The interrupt handlers.                                                 *)
(***************************************************************************)
\* Mutation: the test of the count after the code is stored.
KeyboardHandlerOverruns(c) ==
    /\ kb_buf' = [kb_buf EXCEPT
                    !.buf[kb_buf.p_usable] = c,
                    !.p_usable = (@ + 1) % KE_IN_COUNT,
                    !.count = IF @ < KE_IN_COUNT THEN @ + 1 ELSE @]
    /\ key_pressed' = TRUE
    /\ UNCHANGED <<has_int_msg, scan, ctrl, current_tty, tty, req, pc, fs>>

\* Mutation: a key counts as pressed only while none is waiting.
KeyboardHandlerQuiet(c) ==
    /\ kb_buf' = IF kb_buf.count < KE_IN_COUNT
                 THEN [kb_buf EXCEPT
                        !.buf[kb_buf.p_usable] = c,
                        !.p_usable = (@ + 1) % KE_IN_COUNT,
                        !.count = @ + 1]
                 ELSE kb_buf
    /\ key_pressed' = (key_pressed \/ kb_buf.count = 0)
    /\ UNCHANGED <<has_int_msg, scan, ctrl, current_tty, tty, req, pc, fs>>

\* A code that finds the ring full is dropped.
KeyboardHandler(c) ==
    /\ kb_buf' = IF kb_buf.count < KE_IN_COUNT
                 THEN [kb_buf EXCEPT
                        !.buf[kb_buf.p_usable] = c,
                        !.p_usable = (@ + 1) % KE_IN_COUNT,
                        !.count = @ + 1]
                 ELSE kb_buf
    /\ key_pressed' = TRUE
    /\ UNCHANGED <<has_int_msg, scan, ctrl, current_tty, tty, req, pc, fs>>

\* inform_int(TASK_TTY), every tick for as long as key_pressed is set.
ClockHandler ==
    /\ key_pressed
    /\ IF pc = "receive"
       THEN pc' = "hard_int" /\ UNCHANGED has_int_msg
       ELSE has_int_msg' = TRUE /\ UNCHANGED pc
    /\ UNCHANGED <<kbVars, scan, ctrl, current_tty, tty, req, fs>>

-----------------------------------------------------------------------------
(***************************************************************************)
(* keyboard_read: one key, of as many scan codes as it takes.              *)
(***************************************************************************)
PrintScreenMake == <<\hE0, \h2A, \hE0, \h37>>
PrintScreenBreak == <<\hE0, \hB7, \hE0, \hAA>>
PauseBreak == <<\hE1, \h1D, \h45, \hE1, \h9D, \hC5>>
LongKeys == {PrintScreenMake, PrintScreenBreak, PauseBreak}

\* keyboard_read needs more codes: none is read yet, or E0 or E1 was and what
\* followed has been as in a long key.
Unfinished(s) == \E k \in LongKeys : IsStrictPrefix(s, k)

IsMake(c) == c < \h80

\* The key of a row of keymap, without and with E0.
Keymap(row, ext) ==
    CASE row = \h1E /\ ~ext -> "a"
      [] row = \h30 /\ ~ext -> "b"
      [] row = \h37 /\ ~ext -> "star"
      [] row = \h0E /\ ~ext -> "backspace"
      [] row = \h1C         -> "newline"
      [] row = \h1D         -> IF ext THEN "ctrl_r" ELSE "ctrl_l"
      [] row = \h3B /\ ~ext -> "F1"
      [] row = \h3C /\ ~ext -> "F2"
      [] row = \h2A /\ ~ext -> "shift_l"
      [] row = \h45 /\ ~ext -> "num_lock"
      [] OTHER              -> "nul"

\* Where F1 and F2 lead to.
ConsoleOf(key) == IF key = "F1" THEN 0 ELSE 1

\* A character enters the ring.  The test for the end compares the head before
\* its increment: the head goes on to ibuf + NR_TTY_BUF, which is where ibuf_head
\* itself is, and the next character is written over it.
Put(t, ch) ==
    LET r == tty[t] IN
    [tty EXCEPT ![t] =
        CASE r.cnt = NR_TTY_BUF  -> r
          [] r.cnt < NR_TTY_BUF /\ r.head \in 0 .. NR_TTY_BUF - 1 ->
                [r EXCEPT !.ibuf[r.head] = ch, !.head = @ + 1, !.cnt = @ + 1]
          [] r.cnt < NR_TTY_BUF /\ r.head \in {NR_TTY_BUF, Wild} ->
                [r EXCEPT !.head = Wild, !.cnt = @ + 1]]

\* in_process: a character goes into the ring of the current terminal, control
\* and a function key show another one.  A character that is typed with control
\* held is ignored.
InProcess(key, held) ==
    /\ tty' = IF key \in Chars /\ held = {} THEN Put(current_tty, key) ELSE tty
    /\ current_tty' = IF key \in {"F1", "F2"} /\ held # {} /\ ConsoleOf(key) \in Ttys
                      THEN ConsoleOf(key) ELSE current_tty

\* What keyboard_read makes of the codes of one key.  Of a long key that broke
\* off, it takes the code after E0; Pause and PrintScreen do nothing.
Decode(s) ==
    LET ext == s[1] = \hE0
        code == IF ext THEN s[2] ELSE s[1]
        key == Keymap(code % \h80, ext)
    IN  IF s \in LongKeys \/ s[1] = \hE1
        THEN UNCHANGED <<ctrl, current_tty, tty>>
        ELSE /\ ctrl' = IF key \notin ControlKeys THEN ctrl
                        ELSE IF IsMake(code) THEN ctrl \cup {key} ELSE ctrl \ {key}
             /\ IF IsMake(code) THEN InProcess(key, ctrl')
                ELSE UNCHANGED <<current_tty, tty>>

\* Mutation: keyboard_read goes on for as long as there are codes.
KeyboardReadAll ==
    /\ pc = "read"
    /\ kb_buf.count > 0
    /\ LET s == Append(scan, kb_buf.buf[kb_buf.p_pending]) IN
        IF Unfinished(s)
        THEN scan' = s /\ UNCHANGED <<pc, ctrl, current_tty, tty>>
        ELSE scan' = <<>> /\ pc' = (IF kb_buf.count > 1 THEN "read" ELSE "write") /\ Decode(s)
    /\ kb_buf' = [kb_buf EXCEPT !.buf[kb_buf.p_pending] = 0,
                                !.p_pending = (@ + 1) % KE_IN_COUNT,
                                !.count = @ - 1]
    /\ UNCHANGED <<key_pressed, has_int_msg, req, fs>>

\* Mutation: the test for the end of the ring that the ring of characters has.
KeyboardReadPastEnd ==
    /\ pc = "read"
    /\ kb_buf.count > 0
    /\ LET s == Append(scan, kb_buf.buf[kb_buf.p_pending]) IN
        IF Unfinished(s)
        THEN scan' = s /\ UNCHANGED <<pc, ctrl, current_tty, tty>>
        ELSE scan' = <<>> /\ pc' = "write" /\ Decode(s)
    /\ kb_buf' = [kb_buf EXCEPT !.buf[kb_buf.p_pending] = 0,
                                !.p_pending = IF @ = KE_IN_COUNT THEN 0 ELSE @ + 1,
                                !.count = @ - 1]
    /\ UNCHANGED <<key_pressed, has_int_msg, req, fs>>

\* One get_scanCode_from_kbBuf, which spins while the ring is empty and takes a
\* code with interrupts off, and what keyboard_read does with it.
KeyboardRead ==
    /\ pc = "read"
    /\ kb_buf.count > 0
    /\ LET s == Append(scan, kb_buf.buf[kb_buf.p_pending]) IN
        IF Unfinished(s)
        THEN scan' = s /\ UNCHANGED <<pc, ctrl, current_tty, tty>>
        ELSE scan' = <<>> /\ pc' = "write" /\ Decode(s)
    /\ kb_buf' = [kb_buf EXCEPT !.buf[kb_buf.p_pending] = 0,
                                !.p_pending = (@ + 1) % KE_IN_COUNT,
                                !.count = @ - 1]
    /\ UNCHANGED <<key_pressed, has_int_msg, req, fs>>

\* keyboard_read returns at once if there is no code.
KeyboardReadNothing ==
    /\ pc = "read"
    /\ scan = <<>>
    /\ kb_buf.count = 0
    /\ pc' = "write"
    /\ UNCHANGED <<kbVars, has_int_msg, scan, ctrl, current_tty, tty, req, fs>>

-----------------------------------------------------------------------------
(***************************************************************************)
(* tty_dev_write: one character of the current terminal, to the process    *)
(* that reads from it.                                                     *)
(***************************************************************************)
Printable == {"a", "b", "star"}

\* Memory of the reader: offset k of its buffer, or beyond it.
StoreAt(s, k, ch) == IF k < Len(s) THEN [s EXCEPT ![k + 1] = ch] ELSE Append(s, ch)

\* The request after a character.  The character is stored in the memory of the
\* process that reads; backspace takes back the last one.
Edited(r, ch) ==
    CASE ch \in Printable ->
            [r EXCEPT !.buf = StoreAt(@, r.trans, ch), !.trans = @ + 1, !.left = @ - 1]
      [] ch = "backspace" /\ r.trans > 0 ->
            [r EXCEPT !.trans = @ - 1, !.left = @ + 1]
      [] OTHER -> r

\* A line that ends, or a buffer that is full: TTY sends RESUME_PROC to FS.
DevWrite ==
    /\ pc = "write"
    /\ LET t == current_tty
           r == tty[t]
           ch == r.ibuf[r.tail]
           served == Edited(req[t], ch)
       IN  /\ r.cnt > 0
           /\ tty' = [tty EXCEPT ![t].tail = (@ + 1) % NR_TTY_BUF, ![t].cnt = @ - 1]
           /\ IF req[t].left > 0
              THEN /\ req' = [req EXCEPT ![t] = served]
                   /\ pc' = IF ch = "newline" \/ served.left = 0
                            THEN "resume" ELSE "receive"
              ELSE UNCHANGED req /\ pc' = "receive"
    /\ UNCHANGED <<kbVars, has_int_msg, scan, ctrl, current_tty, fs>>

DevWriteNothing ==
    /\ pc = "write"
    /\ tty[current_tty].cnt = 0
    /\ pc' = "receive"
    /\ UNCHANGED <<kbVars, has_int_msg, scan, ctrl, current_tty, tty, req, fs>>

\* FS receives RESUME_PROC.  If FS is itself sending to TTY, it never does: the
\* kernel stops (FsTty).
Resumed ==
    /\ pc = "resume"
    /\ fs = NoMsg
    /\ req' = [req EXCEPT ![current_tty].left = 0]
    /\ pc' = "receive"
    /\ UNCHANGED <<kbVars, has_int_msg, scan, ctrl, current_tty, tty, fs>>

-----------------------------------------------------------------------------
(***************************************************************************)
(* task_tty receives: an interrupt that waits comes before a message.      *)
(***************************************************************************)
ReceiveInt ==
    /\ pc = "receive"
    /\ has_int_msg
    /\ has_int_msg' = FALSE
    /\ pc' = "hard_int"
    /\ UNCHANGED <<kbVars, scan, ctrl, current_tty, tty, req, fs>>

HardInt ==
    /\ pc = "hard_int"
    /\ key_pressed' = FALSE
    /\ pc' = "read"
    /\ UNCHANGED <<kb_buf, has_int_msg, scan, ctrl, current_tty, tty, req, fs>>

FsCalls(m) ==
    /\ fs = NoMsg
    /\ fs' = m
    /\ UNCHANGED <<kbVars, has_int_msg, scan, ctrl, current_tty, tty, req, pc>>

\* The buffer a reader names, of n characters.
Blank(n) == [k \in 1 .. n |-> "nul"]

\* tty_do_read: the request takes the place of the one before; FS is told to
\* leave its caller suspended.
DoRead ==
    /\ pc = "receive"
    /\ ~has_int_msg
    /\ fs.type = "DEV_READ"
    /\ req' = [req EXCEPT ![fs.DEVICE] = [left |-> fs.CNT, trans |-> 0, buf |-> Blank(fs.CNT)]]
    /\ fs' = NoMsg
    /\ pc' = "read"
    /\ UNCHANGED <<kbVars, has_int_msg, scan, ctrl, current_tty, tty>>

\* DEV_OPEN, and tty_do_write: FS gets its answer.
Answer ==
    /\ pc = "receive"
    /\ ~has_int_msg
    /\ fs.type \in {"DEV_OPEN", "DEV_WRITE"}
    /\ fs' = NoMsg
    /\ pc' = "read"
    /\ UNCHANGED <<kbVars, has_int_msg, scan, ctrl, current_tty, tty, req>>

-----------------------------------------------------------------------------
Round ==
    \/ KeyboardRead \/ KeyboardReadNothing
    \/ DevWrite \/ DevWriteNothing \/ Resumed
    \/ ReceiveInt \/ HardInt \/ DoRead \/ Answer

Next ==
    \/ \E c \in Codes : KeyboardHandler(c)
    \/ ClockHandler
    \/ Round
    \/ \E m \in FsMessages : FsCalls(m)

Spec == Init /\ [][Next]_vars

\* TTY is scheduled, and the clock ticks.  Nobody has to type, and FS need not
\* call.
FairSpec == Spec /\ WF_vars(Round) /\ WF_vars(ClockHandler)

-----------------------------------------------------------------------------
\* No character is left in the ring of a terminal when another one is shown:
\* tty_dev_write looks at the current one only.
NoCharLeftBehind ==
    \A t \in Ttys : tty[t].cnt > 0 => t = current_tty /\ pc = "write"

\* The ring of scan codes does not stay full, so keys are not dropped for ever, as
\* long as TTY gets to its receive: no interleaving of the handlers with the
\* clearing of key_pressed puts TTY to sleep over a full ring.
NoKeyboardStall == []<>(pc = "receive") => []<>(kb_buf.count < KE_IN_COUNT)
=============================================================================
