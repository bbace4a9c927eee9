-------------------------------- MODULE TtyProofs -------------------------------
(***************************************************************************)
(* The terminals, for any number of them, any lengths of the rings and of  *)
(* the reads, and any scan codes.                                          *)
(*                                                                         *)
(* The inductive invariant says what the fields of a ring and of a request *)
(* have to do with one another.  The last part shows that every step       *)
(* implements one of Terminal: the ring is the queue of the codes in their *)
(* order (KeysAre), and the beginning of a reader's buffer its line        *)
(* (ReadersAre).                                                           *)
(***************************************************************************)
EXTENDS TtyRefinement, SequenceTheorems, TLAPS

\* The ring of scan codes: where the next one goes follows from where the oldest one is
\* and how many there are, and each of them is a code.
RingAgrees ==
    /\ kb_buf.p_usable = (kb_buf.p_pending + kb_buf.count) % KE_IN_COUNT
    /\ \A k \in 0 .. kb_buf.count - 1 :
        kb_buf.buf[(kb_buf.p_pending + k) % KE_IN_COUNT] \in Codes

\* A key that is half read is the beginning of a long one.
ScanAgrees ==
    /\ scan # <<>> => Unfinished(scan)
    /\ pc # "read" => scan = <<>>

\* Each round decodes at most one character and takes it out again.
CharsAgree ==
    \A t \in Ttys : tty[t].cnt <= 1 /\ (tty[t].cnt = 1 => t = current_tty /\ pc = "write")

\* A request has room for what is left of it, until its answer is sent.
RequestsAgree ==
    /\ \A t \in Ttys :
        /\ Len(req[t].buf) <= MaxCnt
        /\ req[t].trans <= Len(req[t].buf)
        /\ req[t].left > 0 => req[t].left + req[t].trans = Len(req[t].buf)
    /\ pc = "resume" => Len(req[current_tty].buf) > 0

\* The inductive invariant.
IInv ==
    /\ TypeOK
    /\ RingAgrees
    /\ ScanAgrees
    /\ CharsAgree
    /\ RequestsAgree

-----------------------------------------------------------------------------
\* The remainder for what is less than twice the modulus, as positions in a ring are.
LEMMA ModIs ==
  ASSUME NEW n \in Nat \ {0}, NEW x \in 0 .. 2 * n - 1
  PROVE  x % n = IF x < n THEN x ELSE x - n
OBVIOUS

\* The types of the rings and of the requests.
Rings == [buf : [0 .. KE_IN_COUNT - 1 -> Codes \cup {0}],
          p_usable : 0 .. KE_IN_COUNT - 1,
          p_pending : 0 .. KE_IN_COUNT - 1,
          count : 0 .. KE_IN_COUNT]
CharRings == [ibuf : [0 .. NR_TTY_BUF - 1 -> Chars],
              head : 0 .. NR_TTY_BUF \cup {Wild},
              tail : 0 .. NR_TTY_BUF - 1,
              cnt : 0 .. NR_TTY_BUF]
Requests == [left : 0 .. MaxCnt, trans : 0 .. MaxCnt, buf : Seq(Chars)]

\* The fields of a ring of scan codes that a code is put into, and of one that a code is
\* taken from.
LEMMA RingFields ==
  ASSUME SizesAssumption, NEW r \in Rings, NEW c \in Codes
  PROVE  LET put == [r EXCEPT !.buf[r.p_usable] = c,
                              !.p_usable = (@ + 1) % KE_IN_COUNT,
                              !.count = @ + 1]
             taken == [r EXCEPT !.buf[r.p_pending] = 0,
                                !.p_pending = (@ + 1) % KE_IN_COUNT,
                                !.count = @ - 1]
         IN  /\ r.count < KE_IN_COUNT =>
                /\ put \in Rings
                /\ put.buf = [r.buf EXCEPT ![r.p_usable] = c]
                /\ put.p_usable = (r.p_usable + 1) % KE_IN_COUNT
                /\ put.p_pending = r.p_pending
                /\ put.count = r.count + 1
             /\ r.count > 0 =>
                /\ taken \in Rings
                /\ taken.buf = [r.buf EXCEPT ![r.p_pending] = 0]
                /\ taken.p_pending = (r.p_pending + 1) % KE_IN_COUNT
                /\ taken.p_usable = r.p_usable
                /\ taken.count = r.count - 1
<1>1. KE_IN_COUNT \in Nat \ {0}
  BY DEF SizesAssumption
<1>2. (r.p_usable + 1) % KE_IN_COUNT \in 0 .. KE_IN_COUNT - 1
  <2>1. r.p_usable + 1 \in Int
    BY <1>1 DEF Rings
  <2> QED
    BY <1>1, <2>1
<1>3. (r.p_pending + 1) % KE_IN_COUNT \in 0 .. KE_IN_COUNT - 1
  <2>1. r.p_pending + 1 \in Int
    BY <1>1 DEF Rings
  <2> QED
    BY <1>1, <2>1
<1>4. [r.buf EXCEPT ![r.p_usable] = c] \in [0 .. KE_IN_COUNT - 1 -> Codes \cup {0}]
  BY DEF Rings
<1>5. [r.buf EXCEPT ![r.p_pending] = 0] \in [0 .. KE_IN_COUNT - 1 -> Codes \cup {0}]
  BY DEF Rings
<1> DEFINE b1 == [r.buf EXCEPT ![r.p_usable] = c]
           u1 == (r.p_usable + 1) % KE_IN_COUNT
           n1 == r.count + 1
           q1 == [r EXCEPT !.buf[r.p_usable] = c, !.p_usable = (@ + 1) % KE_IN_COUNT,
                           !.count = @ + 1]
           b2 == [r.buf EXCEPT ![r.p_pending] = 0]
           u2 == (r.p_pending + 1) % KE_IN_COUNT
           n2 == r.count - 1
           q2 == [r EXCEPT !.buf[r.p_pending] = 0, !.p_pending = (@ + 1) % KE_IN_COUNT,
                           !.count = @ - 1]
<1>6. q1 = [r EXCEPT !.buf = b1, !.p_usable = u1, !.count = n1]
  BY DEF Rings
<1>7. q2 = [r EXCEPT !.buf = b2, !.p_pending = u2, !.count = n2]
  BY DEF Rings
<1>8. r.count \in 0 .. KE_IN_COUNT
  BY DEF Rings
<1>9. r.count < KE_IN_COUNT =>
        /\ q1 \in Rings /\ q1.buf = b1 /\ q1.p_usable = u1
        /\ q1.p_pending = r.p_pending /\ q1.count = n1
  <2>1. r.count < KE_IN_COUNT => n1 \in 0 .. KE_IN_COUNT
    BY <1>1, <1>8
  <2>2. /\ b1 \in [0 .. KE_IN_COUNT - 1 -> Codes \cup {0}] /\ u1 \in 0 .. KE_IN_COUNT - 1
    BY <1>2, <1>4
  <2> HIDE DEF b1, u1, n1, q1
  <2> QED
    BY <1>6, <2>1, <2>2 DEF Rings
<1>10. r.count > 0 =>
        /\ q2 \in Rings /\ q2.buf = b2 /\ q2.p_pending = u2
        /\ q2.p_usable = r.p_usable /\ q2.count = n2
  <2>1. r.count > 0 => n2 \in 0 .. KE_IN_COUNT
    BY <1>1, <1>8
  <2>2. /\ b2 \in [0 .. KE_IN_COUNT - 1 -> Codes \cup {0}] /\ u2 \in 0 .. KE_IN_COUNT - 1
    BY <1>3, <1>5
  <2> HIDE DEF b2, u2, n2, q2
  <2> QED
    BY <1>7, <2>1, <2>2 DEF Rings
<1> QED
  BY <1>9, <1>10

\* A character enters an empty ring.
LEMMA PutIs ==
  ASSUME SizesAssumption, NEW t \in Ttys, NEW ch \in Chars,
         tty \in [Ttys -> CharRings], tty[t].cnt = 0
  PROVE  /\ Put(t, ch) \in [Ttys -> CharRings]
         /\ Put(t, ch)[t].cnt = 1
         /\ \A u \in Ttys \ {t} : Put(t, ch)[u] = tty[u]
<1> DEFINE r == tty[t]
           e1 == [r EXCEPT !.ibuf[r.head] = ch, !.head = @ + 1, !.cnt = @ + 1]
           e2 == [r EXCEPT !.head = Wild, !.cnt = @ + 1]
<1>1. NR_TTY_BUF \in Nat \ {0} /\ r \in CharRings /\ r.cnt = 0
  BY DEF SizesAssumption
<1>2. CASE r.head \in 0 .. NR_TTY_BUF - 1
  <2>1. Put(t, ch) = [tty EXCEPT ![t] = e1]
    <3>1. r.cnt < NR_TTY_BUF /\ r.cnt # NR_TTY_BUF /\ r.head \notin {NR_TTY_BUF, Wild}
      BY <1>1, <1>2 DEF Wild
    <3> QED
      BY <1>2, <3>1 DEF Put
  <2>2. [r.ibuf EXCEPT ![r.head] = ch] \in [0 .. NR_TTY_BUF - 1 -> Chars]
    BY <1>1 DEF CharRings
  <2> DEFINE b == [r.ibuf EXCEPT ![r.head] = ch]
             h == r.head + 1
             n == r.cnt + 1
  <2>3. e1 = [r EXCEPT !.ibuf = b, !.head = h, !.cnt = n]
    BY <1>1 DEF CharRings
  <2>6. b \in [0 .. NR_TTY_BUF - 1 -> Chars]
    BY <2>2
  <2>4. h \in 0 .. NR_TTY_BUF \cup {Wild} /\ n \in 0 .. NR_TTY_BUF /\ n = 1
    BY <1>1, <1>2
  <2>5. e1 \in CharRings /\ e1.cnt = 1
    <3> HIDE DEF e1, r, b, h, n
    <3> QED
      BY ZenonT(60), <1>1, <2>3, <2>4, <2>6 DEF CharRings
  <2> HIDE DEF e1
  <2> QED
    BY <2>1, <2>5
<1>3. CASE r.head \in {NR_TTY_BUF, Wild}
  <2>1. Put(t, ch) = [tty EXCEPT ![t] = e2]
    <3>1. r.cnt < NR_TTY_BUF /\ r.cnt # NR_TTY_BUF /\ r.head \notin 0 .. NR_TTY_BUF - 1
      BY <1>1, <1>3 DEF Wild
    <3> QED
      BY <1>3, <3>1 DEF Put
  <2> DEFINE n == r.cnt + 1
  <2>2. e2 = [r EXCEPT !.head = Wild, !.cnt = n]
    BY <1>1 DEF CharRings
  <2>3. e2 \in CharRings /\ e2.cnt = 1
    <3>1. Wild \in 0 .. NR_TTY_BUF \cup {Wild} /\ n \in 0 .. NR_TTY_BUF /\ n = 1
      BY <1>1
    <3> HIDE DEF e2, r, n
    <3> QED
      BY ZenonT(60), <1>1, <2>2, <3>1 DEF CharRings
  <2> HIDE DEF e2
  <2> QED
    BY <2>1, <2>3
<1> QED
  BY <1>1, <1>2, <1>3 DEF CharRings

\* keyboard_read puts at most one character into the ring of the terminal that is shown.
LEMMA DecodeIs ==
  ASSUME TypeOK, NEW s, Decode(s)
  PROVE  /\ ctrl' \subseteq ControlKeys
         /\ current_tty' \in Ttys
         /\ \/ tty' = tty
            \/ \E ch \in Chars : tty' = Put(current_tty, ch) /\ current_tty' = current_tty
<1> DEFINE ext == s[1] = \hE0
           code == IF ext THEN s[2] ELSE s[1]
           key == Keymap(code % \h80, ext)
<1>1. CASE s \in LongKeys \/ s[1] = \hE1
  BY <1>1 DEF Decode, TypeOK
<1>2. CASE ~(s \in LongKeys \/ s[1] = \hE1)
  <2>1. /\ ctrl' = IF key \notin ControlKeys THEN ctrl
                   ELSE IF IsMake(code) THEN ctrl \cup {key} ELSE ctrl \ {key}
        /\ IF IsMake(code) THEN InProcess(key, ctrl')
           ELSE UNCHANGED <<current_tty, tty>>
    BY <1>2 DEF Decode
  <2> HIDE DEF key, code
  <2>2. ctrl' \subseteq ControlKeys
    BY <2>1 DEF TypeOK
  <2>3. CASE InProcess(key, ctrl')
    <3>1. key \in Chars => key \notin {"F1", "F2"}
      BY DEF Chars
    <3> QED
      BY <2>2, <2>3, <3>1 DEF InProcess, TypeOK
  <2>4. CASE UNCHANGED <<current_tty, tty>>
    BY <2>2, <2>4 DEF TypeOK
  <2> QED
    BY <2>1, <2>3, <2>4
<1> QED
  BY <1>1, <1>2

\* What is read of a long key is shorter than the longest one.
LEMMA UnfinishedIsShort ==
  ASSUME NEW S, NEW s \in Seq(S), Unfinished(s)
  PROVE  Len(s) <= 5
<1>1. PICK k \in LongKeys : IsStrictPrefix(s, k)
  BY DEF Unfinished
<1>2. k \in Seq(Nat) /\ Len(k) \in 4 .. 6
  <2>1. PrintScreenMake \in Seq(Nat) /\ Len(PrintScreenMake) = 4
    BY DEF PrintScreenMake
  <2>2. PrintScreenBreak \in Seq(Nat) /\ Len(PrintScreenBreak) = 4
    BY DEF PrintScreenBreak
  <2>3. PauseBreak \in Seq(Nat) /\ Len(PauseBreak) = 6
    BY DEF PauseBreak
  <2> QED
    BY <2>1, <2>2, <2>3 DEF LongKeys
<1>3. /\ Len(s) \in Nat /\ Len(s) <= Len(k) /\ s # k
      /\ SubSeq(s, 1, Len(s)) = SubSeq(k, 1, Len(s))
  BY <1>1 DEF IsStrictPrefix, IsPrefix
<1>4. Len(s) # Len(k)
  <2> SUFFICES ASSUME Len(s) = Len(k) PROVE FALSE
    OBVIOUS
  <2>1. SubSeq(s, 1, Len(s)) = s
    BY SubSeqFull
  <2>2. SubSeq(k, 1, Len(k)) = k
    BY <1>2, SubSeqFull
  <2> QED
    BY <1>3, <2>1, <2>2
<1> QED
  BY SMTT(30), <1>2, <1>3, <1>4

\* tty_dev_write: a character is stored, or the last one taken back.
LEMMA EditedIs ==
  ASSUME SizesAssumption, NEW r \in Requests, NEW ch \in Chars,
         r.left > 0, r.left + r.trans = Len(r.buf), Len(r.buf) <= MaxCnt
  PROVE  LET e == Edited(r, ch) IN
         /\ e \in Requests
         /\ Len(e.buf) = Len(r.buf) /\ e.left + e.trans = Len(r.buf)
         /\ ch \in Printable =>
                /\ e.buf = [r.buf EXCEPT ![r.trans + 1] = ch]
                /\ e.trans = r.trans + 1
         /\ ch = "backspace" /\ r.trans > 0 =>
                e.buf = r.buf /\ e.trans = r.trans - 1
         /\ ch \notin Printable /\ ~(ch = "backspace" /\ r.trans > 0) => e = r
<1>1. /\ MaxCnt \in Nat /\ r.left \in 0 .. MaxCnt /\ r.trans \in 0 .. MaxCnt
      /\ r.buf \in Seq(Chars) /\ Len(r.buf) \in Nat
  BY DEF SizesAssumption, Requests
<1> DEFINE b == [r.buf EXCEPT ![r.trans + 1] = ch]
           more == r.trans + 1
           less == r.trans - 1
           leftLess == r.left - 1
           leftMore == r.left + 1
<1>2. CASE ch \in Printable
  <2>1. ch # "backspace"
    BY <1>2 DEF Printable
  <2>2. StoreAt(r.buf, r.trans, ch) = b
    BY <1>1 DEF StoreAt
  <2>3. Edited(r, ch) = [r EXCEPT !.buf = b, !.trans = more, !.left = leftLess]
    <3>1. Edited(r, ch) = [r EXCEPT !.buf = StoreAt(@, r.trans, ch), !.trans = @ + 1,
                                    !.left = @ - 1]
      BY <1>2, <2>1, ZenonT(30) DEF Edited
    <3>2. [r EXCEPT !.buf = StoreAt(@, r.trans, ch), !.trans = @ + 1, !.left = @ - 1]
            = [r EXCEPT !.buf = StoreAt(r.buf, r.trans, ch), !.trans = more, !.left = leftLess]
      BY DEF Requests
    <3> HIDE DEF b, more, leftLess
    <3> QED
      BY <2>2, <3>1, <3>2
  <2>4. b \in Seq(Chars) /\ Len(b) = Len(r.buf)
    <3>1. r.trans + 1 \in 1 .. Len(r.buf)
      BY <1>1
    <3> QED
      BY <1>1, <3>1, ExceptSeq
  <2>5. /\ more \in 0 .. MaxCnt /\ leftLess \in 0 .. MaxCnt
        /\ leftLess + more = Len(r.buf)
    BY <1>1
  <2>6. ASSUME NEW e, e = Edited(r, ch)
        PROVE  /\ e \in Requests
               /\ e.buf = b /\ e.trans = more /\ e.left = leftLess
    <3>1. b \in Seq(Chars) /\ more \in 0 .. MaxCnt /\ leftLess \in 0 .. MaxCnt
      BY <2>4, <2>5
    <3> HIDE DEF b, more, leftLess
    <3>2. e = [r EXCEPT !.buf = b, !.trans = more, !.left = leftLess]
      BY <2>3, <2>6
    <3> QED
      BY <3>1, <3>2 DEF Requests
  <2> QED
    BY <1>2, <2>1, <2>4, <2>5, <2>6
<1>3. CASE ch = "backspace" /\ r.trans > 0
  <2>1. ch \notin Printable
    BY <1>3 DEF Printable
  <2>2. Edited(r, ch) = [r EXCEPT !.trans = less, !.left = leftMore]
    BY <1>1, <1>3, <2>1 DEF Edited, Requests
  <2>3. /\ less \in 0 .. MaxCnt /\ leftMore \in 0 .. MaxCnt
        /\ leftMore + less = Len(r.buf)
    BY <1>1, <1>3
  <2>4. ASSUME NEW e, e = Edited(r, ch)
        PROVE  /\ e \in Requests
               /\ e.buf = r.buf /\ e.trans = less /\ e.left = leftMore
    <3>1. less \in 0 .. MaxCnt /\ leftMore \in 0 .. MaxCnt
      BY <2>3
    <3> HIDE DEF less, leftMore
    <3>2. e = [r EXCEPT !.trans = less, !.left = leftMore]
      BY <2>2, <2>4
    <3> QED
      BY <3>1, <3>2 DEF Requests
  <2> QED
    BY <1>1, <1>3, <2>1, <2>3, <2>4
<1>4. CASE ch \notin Printable /\ ~(ch = "backspace" /\ r.trans > 0)
  <2>1. Edited(r, ch) = r
    BY <1>4 DEF Edited
  <2> QED
    BY <1>1, <1>4, <2>1
<1> QED
  BY <1>2, <1>3, <1>4

\* The oldest scan code of a ring that is not empty.
LEMMA OldestIs ==
  ASSUME IInv, kb_buf.count > 0
  PROVE  kb_buf.buf[kb_buf.p_pending] \in Codes
<1>1. KE_IN_COUNT \in Nat \ {0} /\ kb_buf.p_pending \in 0 .. KE_IN_COUNT - 1
      /\ kb_buf.count \in 0 .. KE_IN_COUNT
  BY SizesAssumption DEF SizesAssumption, IInv, TypeOK
<1>2. 0 \in 0 .. kb_buf.count - 1 /\ (kb_buf.p_pending + 0) % KE_IN_COUNT = kb_buf.p_pending
  <2>1. kb_buf.p_pending \in 0 .. 2 * KE_IN_COUNT - 1
    BY <1>1
  <2>2. kb_buf.p_pending % KE_IN_COUNT = kb_buf.p_pending
    BY <1>1, <2>1, ModIs
  <2> QED
    BY <1>1, <2>2
<1> QED
  BY <1>2 DEF IInv, RingAgrees

\* What tty_dev_write does, when there is a character: then it is the only one.
LEMMA DevWriteIs ==
  ASSUME IInv, DevWrite
  PROVE  LET t == current_tty
             ch == tty[t].ibuf[tty[t].tail]
         IN  /\ t \in Ttys /\ ch \in Chars /\ pc = "write"
             /\ tty' \in [Ttys -> CharRings] /\ \A u \in Ttys : tty'[u].cnt = 0
             /\ \/ /\ req[t].left > 0
                   /\ req' = [req EXCEPT ![t] = Edited(req[t], ch)]
                   /\ pc' = IF ch = "newline" \/ Edited(req[t], ch).left = 0
                            THEN "resume" ELSE "receive"
                \/ req[t].left = 0 /\ req' = req /\ pc' = "receive"
             /\ UNCHANGED <<kbVars, has_int_msg, scan, ctrl, current_tty, fs>>
<1> DEFINE t == current_tty
           r == tty[t]
<1>1. /\ NR_TTY_BUF \in Nat \ {0} /\ t \in Ttys /\ tty \in [Ttys -> CharRings]
      /\ \A u \in Ttys : tty[u].cnt <= 1 /\ tty[u].cnt \in Nat
      /\ \A u \in Ttys : tty[u].cnt = 1 => u = t /\ pc = "write"
  BY SizesAssumption DEF SizesAssumption, IInv, TypeOK, CharsAgree, CharRings
<1>2. r \in CharRings /\ r.cnt = 1
  BY <1>1 DEF DevWrite
<1>3. tty' = [tty EXCEPT ![t].tail = (@ + 1) % NR_TTY_BUF, ![t].cnt = @ - 1]
  BY DEF DevWrite
<1> DEFINE i == (r.tail + 1) % NR_TTY_BUF
           n == r.cnt - 1
           q == [r EXCEPT !.tail = i, !.cnt = n]
<1>4. tty' = [tty EXCEPT ![t] = q]
  BY <1>1, <1>3
<1>5. i \in 0 .. NR_TTY_BUF - 1
  <2>1. r.tail + 1 \in Int
    BY <1>1, <1>2 DEF CharRings
  <2> QED
    BY <1>1, <2>1
<1>6. q \in CharRings /\ q.cnt = 0
  <2>1. n \in 0 .. NR_TTY_BUF /\ n = 0
    BY <1>1, <1>2
  <2> HIDE DEF i, n, r
  <2> QED
    BY <1>2, <1>5, <2>1 DEF CharRings
<1>7. tty' \in [Ttys -> CharRings] /\ \A u \in Ttys : tty'[u].cnt = 0
  <2> HIDE DEF q, r
  <2> QED
    BY <1>1, <1>4, <1>6
<1>8. r.ibuf[r.tail] \in Chars
  BY <1>2 DEF CharRings
<1>9. req[t].left \in Nat
  BY <1>1 DEF IInv, TypeOK, SizesAssumption
<1> QED
  BY <1>1, <1>7, <1>8, <1>9 DEF DevWrite

-----------------------------------------------------------------------------
\* What the other two steps with data do: the next scan code is taken, a request takes
\* the place of the one before.
LEMMA KeyboardReadIs ==
  ASSUME IInv, KeyboardRead
  PROVE  LET c == kb_buf.buf[kb_buf.p_pending]
             s == Append(scan, c)
         IN  /\ c \in Codes /\ kb_buf.count > 0 /\ pc = "read"
             /\ \/ scan' = s /\ Unfinished(s) /\ UNCHANGED <<pc, ctrl, current_tty, tty>>
                \/ scan' = <<>> /\ pc' = "write" /\ Decode(s)
             /\ kb_buf' = [kb_buf EXCEPT !.buf[kb_buf.p_pending] = 0,
                                         !.p_pending = (@ + 1) % KE_IN_COUNT,
                                         !.count = @ - 1]
             /\ kb_buf' \in Rings
             /\ kb_buf'.buf = [kb_buf.buf EXCEPT ![kb_buf.p_pending] = 0]
             /\ kb_buf'.p_pending = (kb_buf.p_pending + 1) % KE_IN_COUNT
             /\ kb_buf'.p_usable = kb_buf.p_usable
             /\ kb_buf'.count = kb_buf.count - 1
             /\ UNCHANGED <<key_pressed, has_int_msg, req, fs>>
<1>1. kb_buf \in Rings /\ kb_buf.count > 0
  BY DEF KeyboardRead, IInv, TypeOK, Rings
<1>2. kb_buf.buf[kb_buf.p_pending] \in Codes
  BY <1>1, OldestIs
<1>3. kb_buf' = [kb_buf EXCEPT !.buf[kb_buf.p_pending] = 0,
                               !.p_pending = (@ + 1) % KE_IN_COUNT, !.count = @ - 1]
  BY DEF KeyboardRead
<1>4. /\ kb_buf' \in Rings
      /\ kb_buf'.buf = [kb_buf.buf EXCEPT ![kb_buf.p_pending] = 0]
      /\ kb_buf'.p_pending = (kb_buf.p_pending + 1) % KE_IN_COUNT
      /\ kb_buf'.p_usable = kb_buf.p_usable
      /\ kb_buf'.count = kb_buf.count - 1
  BY <1>1, <1>2, <1>3, RingFields, SizesAssumption
<1> QED
  BY <1>1, <1>2, <1>3, <1>4 DEF KeyboardRead

\* tty_do_read takes a request of FS.
LEMMA DoReadIs ==
  ASSUME IInv, DoRead
  PROVE  LET n == fs.CNT
             t == fs.DEVICE
             new == [left |-> n, trans |-> 0, buf |-> Blank(n)]
         IN  /\ n \in 0 .. MaxCnt /\ t \in Ttys /\ new \in Requests /\ Len(new.buf) = n
             /\ req' = [req EXCEPT ![t] = new] /\ fs' = NoMsg
             /\ pc = "receive" /\ pc' = "read"
             /\ UNCHANGED <<kbVars, has_int_msg, scan, ctrl, current_tty, tty>>
<1>1. fs.CNT \in 0 .. MaxCnt /\ fs.DEVICE \in Ttys
  BY DEF DoRead, IInv, TypeOK, FsMessages, NoMsg
<1>2. MaxCnt \in Nat
  BY SizesAssumption DEF SizesAssumption
<1>3. Blank(fs.CNT) \in Seq(Chars) /\ Len(Blank(fs.CNT)) = fs.CNT
  BY <1>1, <1>2 DEF Blank, Chars
<1> QED
  BY <1>1, <1>2, <1>3 DEF DoRead, Requests

\* The keyboard handler drops a code or puts it into the ring.
LEMMA KeyboardHandlerIs ==
  ASSUME IInv, NEW c \in Codes, KeyboardHandler(c)
  PROVE  /\ key_pressed' = TRUE
         /\ UNCHANGED <<has_int_msg, scan, ctrl, current_tty, tty, req, pc, fs>>
         /\ \/ kb_buf.count = KE_IN_COUNT /\ kb_buf' = kb_buf
            \/ /\ kb_buf.count < KE_IN_COUNT
               /\ kb_buf' \in Rings
               /\ kb_buf'.buf = [kb_buf.buf EXCEPT ![kb_buf.p_usable] = c]
               /\ kb_buf'.p_usable = (kb_buf.p_usable + 1) % KE_IN_COUNT
               /\ kb_buf'.p_pending = kb_buf.p_pending
               /\ kb_buf'.count = kb_buf.count + 1
<1>1. kb_buf \in Rings /\ kb_buf.count \in 0 .. KE_IN_COUNT /\ KE_IN_COUNT \in Nat
  BY SizesAssumption DEF SizesAssumption, IInv, TypeOK, Rings
<1>2. CASE kb_buf.count < KE_IN_COUNT
  <2>1. kb_buf' = [kb_buf EXCEPT !.buf[kb_buf.p_usable] = c,
                                 !.p_usable = (@ + 1) % KE_IN_COUNT, !.count = @ + 1]
    BY <1>2 DEF KeyboardHandler
  <2>2. /\ kb_buf' \in Rings
        /\ kb_buf'.buf = [kb_buf.buf EXCEPT ![kb_buf.p_usable] = c]
        /\ kb_buf'.p_usable = (kb_buf.p_usable + 1) % KE_IN_COUNT
        /\ kb_buf'.p_pending = kb_buf.p_pending
        /\ kb_buf'.count = kb_buf.count + 1
    BY <1>1, <1>2, <2>1, RingFields, SizesAssumption
  <2>3. /\ key_pressed' = TRUE
        /\ UNCHANGED <<has_int_msg, scan, ctrl, current_tty, tty, req, pc, fs>>
    BY DEF KeyboardHandler
  <2> QED
    BY <1>2, <2>2, <2>3
<1>3. CASE ~(kb_buf.count < KE_IN_COUNT)
  BY <1>1, <1>3 DEF KeyboardHandler
<1> QED
  BY <1>2, <1>3

\* Every variable keeps its type.
LEMMA TypeStep == IInv /\ [Next]_vars => TypeOK'
<1> SUFFICES ASSUME IInv, [Next]_vars
             PROVE  TypeOK'
  OBVIOUS
<1>0. /\ kb_buf \in Rings /\ key_pressed \in BOOLEAN /\ has_int_msg \in BOOLEAN
      /\ scan \in Seq(Codes) /\ Len(scan) <= 5 /\ ctrl \subseteq ControlKeys
      /\ current_tty \in Ttys /\ tty \in [Ttys -> CharRings]
      /\ req \in [Ttys -> Requests]
      /\ pc \in {"read", "write", "resume", "receive", "hard_int"}
      /\ fs \in FsMessages \cup {NoMsg}
  BY DEF IInv, TypeOK, Rings, CharRings, Requests
<1>z. ASSUME /\ kb_buf' \in Rings /\ key_pressed' \in BOOLEAN /\ has_int_msg' \in BOOLEAN
             /\ scan' \in Seq(Codes) /\ Len(scan') <= 5 /\ ctrl' \subseteq ControlKeys
             /\ current_tty' \in Ttys /\ tty' \in [Ttys -> CharRings]
             /\ req' \in [Ttys -> Requests]
             /\ pc' \in {"read", "write", "resume", "receive", "hard_int"}
             /\ fs' \in FsMessages \cup {NoMsg}
      PROVE  TypeOK'
  BY <1>z DEF TypeOK, Rings, CharRings, Requests
<1>1. ASSUME NEW c \in Codes, KeyboardHandler(c)
      PROVE  TypeOK'
  BY <1>0, <1>1, <1>z, KeyboardHandlerIs
<1>2. CASE ClockHandler
  BY <1>0, <1>2, <1>z DEF ClockHandler, kbVars
<1>3. CASE KeyboardRead
  <2> DEFINE c == kb_buf.buf[kb_buf.p_pending]
             s == Append(scan, c)
  <2>1. /\ c \in Codes /\ pc = "read" /\ kb_buf' \in Rings
        /\ \/ scan' = s /\ Unfinished(s) /\ UNCHANGED <<pc, ctrl, current_tty, tty>>
           \/ scan' = <<>> /\ pc' = "write" /\ Decode(s)
        /\ UNCHANGED <<key_pressed, has_int_msg, req, fs>>
    BY <1>3, KeyboardReadIs
  <2>2. CASE scan' = s /\ Unfinished(s) /\ UNCHANGED <<pc, ctrl, current_tty, tty>>
    <3>1. s \in Seq(Codes)
      BY <1>0, <2>1, AppendProperties
    <3>2. Len(s) <= 5
      BY <2>2, <3>1, UnfinishedIsShort
    <3> HIDE DEF s
    <3> QED
      BY <1>0, <2>1, <2>2, <3>1, <3>2, <1>z
  <2>3. CASE scan' = <<>> /\ pc' = "write" /\ Decode(s)
    <3>1. /\ ctrl' \subseteq ControlKeys /\ current_tty' \in Ttys
          /\ \/ tty' = tty
             \/ \E ch \in Chars : tty' = Put(current_tty, ch) /\ current_tty' = current_tty
      BY <2>3, DecodeIs DEF IInv
    <3>2. tty[current_tty].cnt = 0
      BY <1>0, <2>1 DEF IInv, CharsAgree, CharRings
    <3>3. tty' \in [Ttys -> CharRings]
      BY <1>0, <3>1, <3>2, PutIs, SizesAssumption
    <3>4. scan' \in Seq(Codes) /\ Len(scan') <= 5
      BY <2>3
    <3> HIDE DEF s
    <3> QED
      BY <1>0, <2>1, <2>3, <3>1, <3>3, <3>4, <1>z
  <2> QED
    BY <2>1, <2>2, <2>3
<1>4. CASE KeyboardReadNothing
  BY <1>0, <1>4, <1>z DEF KeyboardReadNothing, kbVars
<1>5. CASE DevWrite
  <2> DEFINE ch == tty[current_tty].ibuf[tty[current_tty].tail]
             e == Edited(req[current_tty], ch)
  <2>1. /\ ch \in Chars /\ tty' \in [Ttys -> CharRings]
        /\ \/ /\ req[current_tty].left > 0
              /\ req' = [req EXCEPT ![current_tty] = e]
           \/ req' = req
        /\ pc' \in {"resume", "receive"}
        /\ UNCHANGED <<kbVars, has_int_msg, scan, ctrl, current_tty, fs>>
    BY <1>5, DevWriteIs
  <2>2. req[current_tty].left > 0 => e \in Requests
    <3>1. req[current_tty] \in Requests
      BY <1>0
    <3>2. /\ Len(req[current_tty].buf) <= MaxCnt
          /\ req[current_tty].left > 0 =>
                req[current_tty].left + req[current_tty].trans = Len(req[current_tty].buf)
      BY <1>0 DEF IInv, RequestsAgree
    <3> HIDE DEF ch
    <3> QED
      BY <2>1, <3>1, <3>2, EditedIs, SizesAssumption
  <2>3. req' \in [Ttys -> Requests]
    <3> HIDE DEF ch, e
    <3> QED
      BY <1>0, <2>1, <2>2
  <2> HIDE DEF ch, e
  <2> QED
    BY <1>0, <2>1, <2>3, <1>z DEF kbVars
<1>6. CASE DevWriteNothing
  BY <1>0, <1>6, <1>z DEF DevWriteNothing, kbVars
<1>7. CASE Resumed
  <2>1. [req[current_tty] EXCEPT !.left = 0] \in Requests
    <3>1. req[current_tty] \in Requests /\ 0 \in 0 .. MaxCnt
      BY <1>0, SizesAssumption DEF SizesAssumption
    <3> QED
      BY <3>1 DEF Requests
  <2>2. req' \in [Ttys -> Requests]
    BY <1>0, <1>7, <2>1 DEF Resumed
  <2> QED
    BY <1>0, <1>7, <2>2, <1>z DEF Resumed, kbVars
<1>8. CASE ReceiveInt
  BY <1>0, <1>8, <1>z DEF ReceiveInt, kbVars
<1>9. CASE HardInt
  BY <1>0, <1>9, <1>z DEF HardInt
<1>10. CASE DoRead
  <2>1. /\ req' \in [Ttys -> Requests] /\ fs' = NoMsg /\ pc' = "read"
        /\ UNCHANGED <<kbVars, has_int_msg, scan, ctrl, current_tty, tty>>
    BY <1>0, <1>10, DoReadIs
  <2> QED
    BY <1>0, <2>1, <1>z DEF kbVars
<1>11. CASE Answer
  BY <1>0, <1>11, <1>z DEF Answer, kbVars
<1>12. ASSUME NEW m \in FsMessages, FsCalls(m)
       PROVE  TypeOK'
  BY <1>0, <1>12, <1>z DEF FsCalls, kbVars
<1>13. CASE UNCHANGED vars
  BY <1>0, <1>13, <1>z DEF vars, kbVars
<1> HIDE DEF IInv, TypeOK
<1> QED
  BY <1>1, <1>2, <1>3, <1>4, <1>5, <1>6, <1>7, <1>8, <1>9, <1>10, <1>11, <1>12, <1>13
     DEF Next, Round

\* The position of each code in the ring.
LEMMA RingStep == IInv /\ [Next]_vars => RingAgrees'
<1> SUFFICES ASSUME IInv, [Next]_vars
             PROVE  RingAgrees'
  OBVIOUS
<1> DEFINE n == KE_IN_COUNT
           p == kb_buf.p_pending
           cnt == kb_buf.count
           At(x) == x % KE_IN_COUNT
<1>1. /\ n \in Nat \ {0} /\ p \in 0 .. n - 1 /\ cnt \in 0 .. n
      /\ kb_buf.buf \in [0 .. n - 1 -> Codes \cup {0}]
      /\ kb_buf.p_usable = At(p + cnt)
      /\ \A k \in 0 .. cnt - 1 : kb_buf.buf[At(p + k)] \in Codes
  BY SizesAssumption DEF SizesAssumption, IInv, TypeOK, RingAgrees
<1>2. \A x \in 0 .. 2 * n - 1 : At(x) = IF x < n THEN x ELSE x - n
  BY <1>1, ModIs
<1> HIDE DEF At
<1>3. CASE kb_buf' = kb_buf
  BY <1>3 DEF IInv, RingAgrees
<1>4. ASSUME NEW c \in Codes, KeyboardHandler(c)
      PROVE  RingAgrees'
  <2>1. CASE kb_buf' = kb_buf
    BY <1>3, <2>1
  <2>2. CASE kb_buf' # kb_buf
    <3>1. /\ cnt < n
          /\ kb_buf'.buf = [kb_buf.buf EXCEPT ![kb_buf.p_usable] = c]
          /\ kb_buf'.p_usable = At(kb_buf.p_usable + 1)
          /\ kb_buf'.p_pending = p
          /\ kb_buf'.count = cnt + 1
      BY <1>4, <2>2, KeyboardHandlerIs DEF At
    <3> HIDE DEF n, p, cnt
    <3>2. p + cnt \in 0 .. 2 * n - 1 /\ p + cnt + 1 \in 0 .. 2 * n - 1
      BY <1>1, <3>1
    <3>3. kb_buf.p_usable = IF p + cnt < n THEN p + cnt ELSE p + cnt - n
      BY <1>1, <1>2, <3>2
    <3>4. kb_buf.p_usable + 1 \in 0 .. 2 * n - 1
      BY <1>1, <3>1, <3>3
    <3>5. kb_buf'.p_usable = At(p + (cnt + 1))
      <4>1. At(kb_buf.p_usable + 1) = IF kb_buf.p_usable + 1 < n THEN kb_buf.p_usable + 1
                                        ELSE kb_buf.p_usable + 1 - n
        BY <1>1, <1>2, <3>4
      <4>2. At(p + cnt + 1) = IF p + cnt + 1 < n THEN p + cnt + 1 ELSE p + cnt + 1 - n
        BY <1>1, <1>2, <3>2
      <4>3. p + (cnt + 1) = p + cnt + 1
        BY <1>1
      <4> QED
        BY <1>1, <3>1, <3>3, <4>1, <4>2, <4>3
    <3>6. ASSUME NEW k \in 0 .. cnt
          PROVE  kb_buf'.buf[At(p + k)] \in Codes
      <4> DEFINE x == p + k
      <4>1. x \in 0 .. 2 * n - 1 /\ x \in Int
        BY <1>1, <3>1
      <4>2. k < cnt => x # p + cnt /\ x - n # p + cnt /\ x # p + cnt - n
        BY <1>1, <3>1
      <4>3. k = cnt => x = p + cnt
        BY <1>1
      <4>4. k < cnt => kb_buf.buf[At(x)] \in Codes
        BY <1>1
      <4>5. k < cnt \/ k = cnt
        BY <1>1
      <4> HIDE DEF x
      <4>6. At(x) = IF x < n THEN x ELSE x - n
        BY <1>2, <4>1
      <4>7. At(x) \in 0 .. n - 1
        BY <1>1, <4>1, <4>6
      <4>8. k < cnt => At(x) # kb_buf.p_usable
        BY <1>1, <3>3, <4>1, <4>2, <4>6
      <4>9. k = cnt => At(x) = kb_buf.p_usable
        BY <1>1, <4>3
      <4>10. kb_buf'.buf[At(x)] \in Codes
        BY <1>1, <3>1, <4>4, <4>5, <4>7, <4>8, <4>9
      <4> QED
        BY <4>10 DEF x
    <3>7. 0 .. (cnt + 1) - 1 = 0 .. cnt
      BY <1>1
    <3> QED
      BY <3>1, <3>5, <3>6, <3>7 DEF RingAgrees, n, At
  <2> QED
    BY <2>1, <2>2
<1>5. CASE KeyboardRead
  <2>1. /\ cnt > 0
        /\ kb_buf'.buf = [kb_buf.buf EXCEPT ![p] = 0]
        /\ kb_buf'.p_pending = At(p + 1)
        /\ kb_buf'.p_usable = kb_buf.p_usable
        /\ kb_buf'.count = cnt - 1
    BY <1>5, KeyboardReadIs DEF At
  <2> DEFINE q == At(p + 1)
  <2>2. q = IF p + 1 < n THEN p + 1 ELSE p + 1 - n
    BY <1>1, <1>2
  <2> HIDE DEF n, p, cnt, q
  <2>3. ASSUME NEW k \in 0 .. cnt - 1
        PROVE  At(q + k) = At(p + (k + 1))
    <3>1. q + k \in 0 .. 2 * n - 1
      BY <1>1, <2>1, <2>2
    <3>2. CASE p + (k + 1) \in 0 .. 2 * n - 1
      <4>1. At(q + k) = IF q + k < n THEN q + k ELSE q + k - n
        BY <1>1, <1>2, <2>2, <3>1
      <4>2. At(p + (k + 1)) = IF p + (k + 1) < n THEN p + (k + 1) ELSE p + (k + 1) - n
        BY <1>1, <1>2, <3>2
      <4> QED
        BY <1>1, <2>1, <2>2, <3>1, <4>1, <4>2
    <3>3. p + (k + 1) \in 0 .. 2 * n - 1
      BY <1>1, <2>1
    <3> QED
      BY <3>2, <3>3
  <2>4. kb_buf'.p_usable = At(q + (cnt - 1))
    <3>1. cnt - 1 \in 0 .. cnt - 1 /\ (cnt - 1) + 1 = cnt
      BY <1>1, <2>1
    <3> QED
      BY <1>1, <2>1, <2>3, <3>1
  <2>5. ASSUME NEW k \in 0 .. (cnt - 1) - 1
        PROVE  kb_buf'.buf[At(q + k)] \in Codes
    <3>1. k \in 0 .. cnt - 1 /\ k + 1 \in 0 .. cnt - 1
      BY <1>1, <2>1
    <3>2. kb_buf.buf[At(p + (k + 1))] \in Codes
      BY <1>1, <3>1
    <3>3. At(p + (k + 1)) = IF p + (k + 1) < n THEN p + (k + 1) ELSE p + (k + 1) - n
      BY <1>1, <1>2, <3>1
    <3>4. At(p + (k + 1)) # p /\ At(p + (k + 1)) \in 0 .. n - 1
      BY <1>1, <3>1, <3>3
    <3> QED
      BY <1>1, <2>1, <2>3, <3>1, <3>2, <3>4
  <2> QED
    BY <2>1, <2>4, <2>5 DEF RingAgrees, n, At, q
<1>6. kb_buf' = kb_buf \/ KeyboardRead \/ \E c \in Codes : KeyboardHandler(c)
  BY DEF Next, Round, vars, kbVars, ClockHandler, KeyboardReadNothing, DevWrite,
         DevWriteNothing, Resumed, ReceiveInt, HardInt, DoRead, Answer, FsCalls
<1> QED
  BY <1>3, <1>4, <1>5, <1>6

\* What is read of a key, and the ring of characters.
LEMMA ScanStep == IInv /\ [Next]_vars => ScanAgrees'
<1> SUFFICES ASSUME IInv, [Next]_vars
             PROVE  ScanAgrees'
  OBVIOUS
<1>1. CASE KeyboardRead
  <2> DEFINE s == Append(scan, kb_buf.buf[kb_buf.p_pending])
  <2>1. \/ scan' = s /\ Unfinished(s) /\ UNCHANGED pc
        \/ scan' = <<>> /\ pc' = "write"
    BY <1>1, KeyboardReadIs
  <2>2. pc = "read"
    BY <1>1 DEF KeyboardRead
  <2> HIDE DEF s
  <2> QED
    BY <2>1, <2>2 DEF ScanAgrees, Unfinished
<1>2. scan' = scan /\ (pc' = "read" \/ pc # "read" \/ scan = <<>> \/ pc' = pc) => ScanAgrees'
  BY DEF IInv, ScanAgrees, Unfinished
<1>3. CASE ~KeyboardRead
  <2>1. scan' = scan
    BY <1>3 DEF Next, Round, vars, KeyboardHandler, ClockHandler, KeyboardReadNothing,
                DevWrite, DevWriteNothing, Resumed, ReceiveInt, HardInt, DoRead, Answer,
                FsCalls
  <2>2. pc' = "read" \/ pc # "read" \/ scan = <<>> \/ pc' = pc
    BY <1>3 DEF Next, Round, vars, KeyboardHandler, ClockHandler, KeyboardReadNothing,
                DevWrite, DevWriteNothing, Resumed, ReceiveInt, HardInt, DoRead, Answer,
                FsCalls
  <2> QED
    BY <1>2, <2>1, <2>2
<1> QED
  BY <1>1, <1>3

\* At most one character waits, and only for tty_dev_write.
LEMMA CharsStep == IInv /\ [Next]_vars => CharsAgree'
<1> SUFFICES ASSUME IInv, [Next]_vars
             PROVE  CharsAgree'
  OBVIOUS
<1>1. CASE KeyboardRead
  <2> DEFINE s == Append(scan, kb_buf.buf[kb_buf.p_pending])
  <2>1. \/ scan' = s /\ UNCHANGED <<pc, current_tty, tty>>
        \/ pc' = "write" /\ Decode(s)
    BY <1>1, KeyboardReadIs
  <2>2. CASE UNCHANGED <<pc, current_tty, tty>>
    BY <2>2 DEF IInv, CharsAgree
  <2>3. CASE pc' = "write" /\ Decode(s)
    <3>1. pc = "read" /\ current_tty \in Ttys /\ tty \in [Ttys -> CharRings]
      BY <1>1 DEF KeyboardRead, IInv, TypeOK, CharRings
    <3>2. \A t \in Ttys : tty[t].cnt = 0
      BY <3>1 DEF IInv, CharsAgree, CharRings
    <3>3. \/ tty' = tty
          \/ \E ch \in Chars : tty' = Put(current_tty, ch) /\ current_tty' = current_tty
      BY <2>3, DecodeIs DEF IInv
    <3>4. ASSUME NEW ch \in Chars, tty' = Put(current_tty, ch), current_tty' = current_tty
          PROVE  CharsAgree'
      <4>1. tty'[current_tty].cnt = 1 /\ \A u \in Ttys \ {current_tty} : tty'[u].cnt = 0
        BY <3>1, <3>2, <3>4, PutIs, SizesAssumption
      <4> QED
        BY <2>3, <3>4, <4>1 DEF CharsAgree
    <3>5. CASE tty' = tty
      BY <3>2, <3>5 DEF CharsAgree
    <3> QED
      BY <3>3, <3>4, <3>5
  <2> QED
    BY <2>1, <2>2, <2>3
<1>2. CASE DevWrite
  <2>1. \A u \in Ttys : tty'[u].cnt = 0
    BY <1>2, DevWriteIs
  <2> QED
    BY <2>1 DEF CharsAgree
<1>3. CASE DevWriteNothing
  BY <1>3 DEF DevWriteNothing, IInv, CharsAgree
<1>4. CASE ~KeyboardRead /\ ~DevWrite /\ ~DevWriteNothing
  <2>1. tty' = tty /\ current_tty' = current_tty /\ (pc # "write" \/ pc' = pc)
    BY <1>4 DEF Next, Round, vars, KeyboardHandler, ClockHandler, KeyboardReadNothing,
                Resumed, ReceiveInt, HardInt, DoRead, Answer, FsCalls
  <2> QED
    BY <2>1 DEF IInv, CharsAgree
<1> QED
  BY <1>1, <1>2, <1>3, <1>4

\* What is left of a request.
LEMMA RequestsStep == IInv /\ [Next]_vars => RequestsAgree'
<1> SUFFICES ASSUME IInv, [Next]_vars
             PROVE  RequestsAgree'
  OBVIOUS
<1>0. /\ req \in [Ttys -> Requests] /\ current_tty \in Ttys /\ MaxCnt \in Nat
      /\ \A t \in Ttys : req[t].left \in Nat /\ req[t].trans \in Nat
                         /\ req[t].buf \in Seq(Chars) /\ Len(req[t].buf) \in Nat
      /\ \A t \in Ttys :
            /\ Len(req[t].buf) <= MaxCnt /\ req[t].trans <= Len(req[t].buf)
            /\ req[t].left > 0 => req[t].left + req[t].trans = Len(req[t].buf)
  <2>1. req \in [Ttys -> Requests] /\ current_tty \in Ttys /\ MaxCnt \in Nat
    BY SizesAssumption DEF SizesAssumption, IInv, TypeOK, Requests
  <2>2. \A t \in Ttys : req[t].left \in Nat /\ req[t].trans \in Nat
                         /\ req[t].buf \in Seq(Chars) /\ Len(req[t].buf) \in Nat
    BY <2>1 DEF Requests
  <2> QED
    BY <2>1, <2>2 DEF IInv, RequestsAgree
<1>1. CASE DevWrite
  <2> DEFINE t == current_tty
             ch == tty[t].ibuf[tty[t].tail]
             e == Edited(req[t], ch)
  <2>1. /\ ch \in Chars
        /\ \/ req[t].left > 0 /\ req' = [req EXCEPT ![t] = e] /\ current_tty' = t
           \/ req' = req /\ pc' = "receive"
    BY <1>1, DevWriteIs
  <2>2. CASE req' = req /\ pc' = "receive"
    BY <1>0, <2>2 DEF RequestsAgree
  <2>3. CASE req[t].left > 0 /\ req' = [req EXCEPT ![t] = e] /\ current_tty' = t
    <3>1. e \in Requests /\ Len(e.buf) = Len(req[t].buf) /\ e.left + e.trans = Len(req[t].buf)
      <4> HIDE DEF ch
      <4> QED
        BY <1>0, <2>1, <2>3, EditedIs, SizesAssumption
    <3>2. e.left \in Nat /\ e.trans \in Nat
      BY <1>0, <3>1 DEF Requests
    <3> HIDE DEF e
    <3>3. req'[t] = e /\ \A u \in Ttys \ {t} : req'[u] = req[u]
      BY <1>0, <2>3
    <3>4. Len(req[t].buf) > 0
      BY <1>0, <2>3
    <3> QED
      BY <1>0, <2>3, <3>1, <3>2, <3>3, <3>4 DEF RequestsAgree
  <2> QED
    BY <2>1, <2>2, <2>3
<1>2. CASE Resumed
  <2>1. /\ \A t \in Ttys : req'[t].buf = req[t].buf /\ req'[t].trans = req[t].trans
        /\ \A t \in Ttys : req'[t].left = 0 \/ req'[t].left = req[t].left
        /\ pc' = "receive"
    BY <1>0, <1>2 DEF Resumed, Requests
  <2> QED
    BY <1>0, <2>1 DEF RequestsAgree
<1>3. CASE DoRead
  <2> DEFINE new == [left |-> fs.CNT, trans |-> 0, buf |-> Blank(fs.CNT)]
  <2>1. /\ fs.CNT \in 0 .. MaxCnt /\ fs.DEVICE \in Ttys /\ Len(Blank(fs.CNT)) = fs.CNT
        /\ req' = [req EXCEPT ![fs.DEVICE] = new] /\ pc' = "read"
    BY <1>3, DoReadIs
  <2>2. new.left = fs.CNT /\ new.trans = 0 /\ Len(new.buf) = fs.CNT
    BY <2>1
  <2> HIDE DEF new
  <2>3. req'[fs.DEVICE] = new /\ \A u \in Ttys \ {fs.DEVICE} : req'[u] = req[u]
    BY <1>0, <2>1
  <2> QED
    BY <1>0, <2>1, <2>2, <2>3 DEF RequestsAgree
<1>4. CASE ~DevWrite /\ ~Resumed /\ ~DoRead
  <2>1. req' = req /\ (pc' = "resume" => pc = "resume" /\ current_tty' = current_tty)
    BY <1>4 DEF Next, Round, vars, KeyboardHandler, ClockHandler, KeyboardRead,
                KeyboardReadNothing, DevWriteNothing, ReceiveInt, HardInt, Answer, FsCalls
  <2> QED
    BY <1>0, <2>1 DEF IInv, RequestsAgree
<1> QED
  BY <1>1, <1>2, <1>3, <1>4

\* Every behaviour keeps the inductive invariant.
LEMMA Invariance == Spec => []IInv
<1>1. Init => IInv
  <2> SUFFICES ASSUME Init PROVE IInv
    OBVIOUS
  <2>1. KE_IN_COUNT \in Nat \ {0} /\ NR_TTY \in Nat \ {0} /\ NR_TTY_BUF \in Nat \ {0}
        /\ MaxCnt \in Nat
    BY SizesAssumption DEF SizesAssumption
  <2>2. TypeOK
    <3>1. kb_buf \in [buf : [0 .. KE_IN_COUNT - 1 -> Codes \cup {0}],
                      p_usable : 0 .. KE_IN_COUNT - 1,
                      p_pending : 0 .. KE_IN_COUNT - 1,
                      count : 0 .. KE_IN_COUNT]
      BY <2>1 DEF Init
    <3>2. tty \in [Ttys -> [ibuf : [0 .. NR_TTY_BUF - 1 -> Chars],
                            head : 0 .. NR_TTY_BUF \cup {Wild},
                            tail : 0 .. NR_TTY_BUF - 1,
                            cnt : 0 .. NR_TTY_BUF]]
      BY <2>1 DEF Init, Chars
    <3>3. req \in [Ttys -> [left : 0 .. MaxCnt, trans : 0 .. MaxCnt, buf : Seq(Chars)]]
      BY <2>1 DEF Init
    <3>4. 0 \in Ttys
      BY <2>1 DEF Ttys
    <3>5. /\ key_pressed \in BOOLEAN /\ has_int_msg \in BOOLEAN
          /\ scan \in Seq(Codes) /\ Len(scan) <= 5 /\ ctrl \subseteq ControlKeys
          /\ current_tty \in Ttys /\ pc = "read" /\ fs = NoMsg
      <4>1. key_pressed = FALSE /\ has_int_msg = FALSE /\ scan = <<>> /\ ctrl = {}
            /\ current_tty = 0 /\ pc = "read" /\ fs = NoMsg
        BY DEF Init
      <4>2. <<>> \in Seq(Codes) /\ Len(<<>>) = 0
        OBVIOUS
      <4>3. key_pressed \in BOOLEAN
        BY <4>1
      <4>4. has_int_msg \in BOOLEAN
        BY <4>1
      <4>5. scan \in Seq(Codes) /\ Len(scan) <= 5
        BY <4>1, <4>2
      <4>6. ctrl \subseteq ControlKeys /\ current_tty \in Ttys
        BY <3>4, <4>1
      <4> QED
        BY <4>1, <4>3, <4>4, <4>5, <4>6
    <3> QED
      BY <3>1, <3>2, <3>3, <3>5 DEF TypeOK
  <2>3. RingAgrees
    <3>1. 0 % KE_IN_COUNT = 0
      BY <2>1, ModIs
    <3> QED
      BY <2>1, <3>1 DEF Init, RingAgrees
  <2>4. ScanAgrees /\ CharsAgree /\ RequestsAgree
    BY <2>1 DEF Init, ScanAgrees, CharsAgree, RequestsAgree
  <2> QED
    BY <2>2, <2>3, <2>4 DEF IInv
<1>2. IInv /\ [Next]_vars => IInv'
  BY TypeStep, RingStep, ScanStep, CharsStep, RequestsStep DEF IInv
<1> QED
  BY <1>1, <1>2, PTL DEF Spec

\* Every variable keeps its type: the positions in kb_buf and the tail of ibuf stay within
\* their rings, and no key is longer than keyboard_read expects (tty.c:21, keyboard.c:166).
THEOREM TypeCorrect == Spec => []TypeOK
<1>1. IInv => TypeOK
  BY DEF IInv
<1> QED
  BY <1>1, Invariance, PTL

\* No character is left in the ring of a terminal that is not shown (tty_dev_write,
\* tty.c:127-128, looks at the current one only), for any number of terminals and lengths
\* of their rings.
THEOREM RingsAreEmptied == Spec => []NoCharLeftBehind
<1>1. IInv => NoCharLeftBehind
  <2>1. IInv => \A t \in Ttys : tty[t].cnt \in Nat
    BY SizesAssumption DEF SizesAssumption, IInv, TypeOK
  <2> QED
    BY <2>1 DEF IInv, CharsAgree, NoCharLeftBehind
<1> QED
  BY <1>1, Invariance, PTL

-----------------------------------------------------------------------------
(***************************************************************************)
(* The terminals implement Terminal.                                       *)
(***************************************************************************)
\* The ring as a queue of scan codes.
KeyFacts ==
    /\ keys \in Seq(Codes) /\ Len(keys) = kb_buf.count
    /\ kb_buf.count \in 0 .. KE_IN_COUNT
    /\ \A i \in 1 .. kb_buf.count :
           keys[i] = kb_buf.buf[(kb_buf.p_pending + i - 1) % KE_IN_COUNT]

\* They hold in every state.
LEMMA KeysAre == IInv => KeyFacts
<1> SUFFICES ASSUME IInv PROVE KeyFacts
  OBVIOUS
<1>1. /\ kb_buf.count \in 0 .. KE_IN_COUNT /\ KE_IN_COUNT \in Nat \ {0}
      /\ kb_buf.p_pending \in Nat
  BY SizesAssumption DEF SizesAssumption, IInv, TypeOK
<1>2. ASSUME NEW i \in 1 .. kb_buf.count
      PROVE  kb_buf.buf[(kb_buf.p_pending + i - 1) % KE_IN_COUNT] \in Codes
  <2>1. i - 1 \in 0 .. kb_buf.count - 1
        /\ kb_buf.p_pending + (i - 1) = kb_buf.p_pending + i - 1
    BY <1>1
  <2>2. kb_buf.buf[(kb_buf.p_pending + (i - 1)) % KE_IN_COUNT] \in Codes
    BY <2>1 DEF IInv, RingAgrees
  <2> QED
    BY <2>1, <2>2
<1>3. keys \in [1 .. kb_buf.count -> Codes]
  BY <1>2 DEF keys
<1>4. keys \in Seq(Codes) /\ Len(keys) = kb_buf.count
  BY <1>1, <1>3
<1> QED
  BY <1>1, <1>4 DEF KeyFacts, keys

\* A code that is pressed goes to the end of the queue.
LEMMA PressKeys ==
  ASSUME IInv, IInv', NEW c \in Codes, KeyboardHandler(c)
  PROVE  keys' = IF Len(keys) < KE_IN_COUNT THEN Append(keys, c) ELSE keys
<1>0. KeyFacts'
  BY KeysAre, PTL
<1>h. /\ kb_buf.count \in 0 .. KE_IN_COUNT /\ KE_IN_COUNT \in Nat
      /\ \/ kb_buf.count = KE_IN_COUNT /\ kb_buf' = kb_buf
         \/ /\ kb_buf.count < KE_IN_COUNT
            /\ kb_buf'.buf = [kb_buf.buf EXCEPT ![kb_buf.p_usable] = c]
            /\ kb_buf'.p_pending = kb_buf.p_pending
            /\ kb_buf'.count = kb_buf.count + 1
  <2>1. kb_buf.count \in 0 .. KE_IN_COUNT /\ KE_IN_COUNT \in Nat
    BY SizesAssumption DEF SizesAssumption, IInv, TypeOK
  <2> QED
    BY <2>1, KeyboardHandlerIs
<1> DEFINE n == KE_IN_COUNT
           p == kb_buf.p_pending
           cnt == kb_buf.count
           At(x) == x % KE_IN_COUNT
<1>1. /\ keys \in Seq(Codes) /\ Len(keys) = cnt
      /\ \A i \in 1 .. cnt : keys[i] = kb_buf.buf[At(p + i - 1)]
  BY KeysAre DEF KeyFacts
<1>2. /\ keys' \in Seq(Codes) /\ Len(keys') = kb_buf'.count
      /\ \A i \in 1 .. kb_buf'.count : keys'[i] = kb_buf'.buf[At(kb_buf'.p_pending + i - 1)]
  BY <1>0 DEF KeyFacts
<1>3. /\ n \in Nat \ {0} /\ p \in 0 .. n - 1 /\ cnt \in 0 .. n
      /\ kb_buf.buf \in [0 .. n - 1 -> Codes \cup {0}]
      /\ kb_buf.p_usable = At(p + cnt)
  BY SizesAssumption DEF SizesAssumption, IInv, TypeOK, RingAgrees
<1>4. \A x \in 0 .. 2 * n - 1 : At(x) = IF x < n THEN x ELSE x - n
  BY <1>3, ModIs
<1>5. CASE cnt = n
  <2>1. kb_buf' = kb_buf
    BY <1>h, <1>5
  <2>2. keys' = keys
    BY <2>1 DEF keys
  <2> QED
    BY <1>1, <1>3, <1>5, <2>2
<1>6. CASE cnt < n
  <2>1. /\ kb_buf'.buf = [kb_buf.buf EXCEPT ![kb_buf.p_usable] = c]
        /\ kb_buf'.p_pending = p
        /\ kb_buf'.count = cnt + 1
    BY <1>h, <1>6
  <2> HIDE DEF At, n, p, cnt
  <2>2. /\ Append(keys, c) \in Seq(Codes) /\ Len(Append(keys, c)) = cnt + 1
        /\ \A i \in 1 .. cnt : Append(keys, c)[i] = keys[i]
        /\ Append(keys, c)[cnt + 1] = c
    BY <1>1, <1>3
  <2>3. ASSUME NEW i \in 1 .. cnt + 1
        PROVE  keys'[i] = Append(keys, c)[i]
    <3> DEFINE x == p + i - 1
    <3>1. x \in 0 .. 2 * n - 1 /\ p + cnt \in 0 .. 2 * n - 1
      BY <1>3, <1>6
    <3>2. /\ At(x) = IF x < n THEN x ELSE x - n
          /\ At(p + cnt) = IF p + cnt < n THEN p + cnt ELSE p + cnt - n
      <4> HIDE DEF x
      <4> QED
        BY <1>3, <1>4, <3>1
    <3>3. At(x) \in 0 .. n - 1
      BY SMTT(30), <1>3, <1>6, <3>1, <3>2
    <3>4. i <= cnt => At(x) # At(p + cnt)
      BY <1>3, <1>6, <3>2
    <3>5. i = cnt + 1 => x = p + cnt
      BY <1>3
    <3>6. keys'[i] = kb_buf'.buf[At(x)]
      BY <1>2, <2>1
    <3> HIDE DEF x
    <3>7. CASE i <= cnt
      <4>1. i \in 1 .. cnt
        BY <1>3, <3>7
      <4>2. keys[i] = kb_buf.buf[At(x)]
        BY <1>1, <4>1 DEF x
      <4>3. kb_buf'.buf[At(x)] = kb_buf.buf[At(x)]
        BY <1>3, <2>1, <3>3, <3>4, <3>7
      <4> QED
        BY <2>2, <3>6, <4>1, <4>2, <4>3
    <3>8. CASE i = cnt + 1
      <4>1. kb_buf'.buf[At(x)] = c
        BY <1>3, <2>1, <3>3, <3>5, <3>8
      <4> QED
        BY <2>2, <3>6, <3>8, <4>1
    <3>9. i <= cnt \/ i = cnt + 1
      BY <1>3
    <3> QED
      BY <3>7, <3>8, <3>9
  <2>4. keys' = Append(keys, c)
    <3>1. Len(keys') = cnt + 1
      BY <1>2, <2>1
    <3> QED
      BY <1>2, <2>2, <2>3, <3>1, SeqEqual
  <2> QED
    BY <1>1, <1>6, <2>4 DEF n, cnt
<1> QED
  BY <1>3, <1>5, <1>6

\* A code that is taken is the first of the queue.
LEMMA TakeKeys ==
  ASSUME IInv, IInv', KeyboardRead
  PROVE  keys # <<>> /\ keys' = Tail(keys)
<1>0. KeyFacts'
  BY KeysAre, PTL
<1> DEFINE n == KE_IN_COUNT
           p == kb_buf.p_pending
           cnt == kb_buf.count
           At(x) == x % KE_IN_COUNT
<1>1. /\ keys \in Seq(Codes) /\ Len(keys) = cnt
      /\ \A i \in 1 .. cnt : keys[i] = kb_buf.buf[At(p + i - 1)]
  BY KeysAre DEF KeyFacts
<1>2. /\ keys' \in Seq(Codes) /\ Len(keys') = kb_buf'.count
      /\ \A i \in 1 .. kb_buf'.count : keys'[i] = kb_buf'.buf[At(kb_buf'.p_pending + i - 1)]
  BY <1>0 DEF KeyFacts
<1>3. /\ n \in Nat \ {0} /\ p \in 0 .. n - 1 /\ cnt \in 0 .. n
      /\ kb_buf.buf \in [0 .. n - 1 -> Codes \cup {0}]
  BY SizesAssumption DEF SizesAssumption, IInv, TypeOK
<1>4. \A x \in 0 .. 2 * n - 1 : At(x) = IF x < n THEN x ELSE x - n
  BY <1>3, ModIs
<1>5. /\ cnt > 0
      /\ kb_buf'.buf = [kb_buf.buf EXCEPT ![p] = 0]
      /\ kb_buf'.p_pending = At(p + 1)
      /\ kb_buf'.count = cnt - 1
  BY KeyboardReadIs
<1> DEFINE q == At(p + 1)
<1>6. q = IF p + 1 < n THEN p + 1 ELSE p + 1 - n
  BY <1>3, <1>4
<1> HIDE DEF At, n, p, cnt, q
<1>7. keys # <<>>
  BY <1>1, <1>3, <1>5
<1>8. /\ Tail(keys) \in Seq(Codes) /\ Len(Tail(keys)) = cnt - 1
      /\ \A i \in 1 .. cnt - 1 : Tail(keys)[i] = keys[i + 1]
  BY <1>1, <1>7, HeadTailProperties
<1>9. ASSUME NEW i \in 1 .. cnt - 1
      PROVE  keys'[i] = Tail(keys)[i]
  <2> DEFINE x == p + (i + 1) - 1
             y == q + i - 1
  <2>1. x \in 0 .. 2 * n - 1 /\ y \in 0 .. 2 * n - 1 /\ i + 1 \in 1 .. cnt
    BY <1>3, <1>5, <1>6
  <2>2. /\ At(x) = IF x < n THEN x ELSE x - n
        /\ At(y) = IF y < n THEN y ELSE y - n
    BY <1>4, <2>1
  <2>3. At(y) = At(x) /\ At(x) # p /\ At(x) \in 0 .. n - 1
    BY <1>3, <1>5, <1>6, <2>1, <2>2
  <2>4. keys[i + 1] = kb_buf.buf[At(x)]
    BY <1>1, <2>1
  <2>5. keys'[i] = kb_buf'.buf[At(y)]
    BY <1>2, <1>5 DEF q
  <2> HIDE DEF x, y
  <2>6. kb_buf'.buf[At(y)] = kb_buf.buf[At(x)]
    BY <1>3, <1>5, <2>3
  <2> QED
    BY <1>8, <2>4, <2>5, <2>6
<1>10. Len(keys') = cnt - 1
  BY <1>2, <1>5
<1>11. keys' = Tail(keys)
  BY <1>2, <1>8, <1>9, <1>10, SeqEqual
<1> QED
  BY <1>7, <1>11

\* The readers of Terminal, as their processes see them.
Readers == [t \in Ttys |-> ReaderAt(t)]

\* NoReader of Terminal, and a reader.
Nobody == [cnt |-> 0]
HasLine(n, line, done) == [cnt |-> n, line |-> line, done |-> done]

\* Who reads at a terminal: somebody who asked for a character at least, or nobody.
ReadersAgree ==
    \A t \in Ttys :
        /\ req[t].left = 0 /\ ~Resuming(t) => Readers[t] = Nobody
        /\ req[t].left > 0 \/ Resuming(t) =>
                /\ Len(req[t].buf) \in Nat \ {0}
                /\ Readers[t] = HasLine(Len(req[t].buf),
                                        SubSeq(req[t].buf, 1, req[t].trans), Resuming(t))

\* It follows from the invariant.
LEMMA ReadersAre == IInv => ReadersAgree
<1> SUFFICES ASSUME IInv, NEW t \in Ttys
             PROVE  /\ req[t].left = 0 /\ ~Resuming(t) => Readers[t] = Nobody
                    /\ req[t].left > 0 \/ Resuming(t) =>
                         /\ Len(req[t].buf) \in Nat \ {0}
                         /\ Readers[t] = HasLine(Len(req[t].buf),
                                   SubSeq(req[t].buf, 1, req[t].trans), Resuming(t))
  BY DEF ReadersAgree
<1>1. req[t].left \in Nat /\ req[t].trans \in Nat /\ req[t].buf \in Seq(Chars)
  <2>1. req \in [Ttys -> Requests] /\ MaxCnt \in Nat
    BY SizesAssumption DEF SizesAssumption, IInv, TypeOK, Requests
  <2> QED
    BY <2>1 DEF Requests
<1>2. req[t].left > 0 => req[t].left + req[t].trans = Len(req[t].buf)
  BY DEF IInv, RequestsAgree
<1>3. Resuming(t) => Len(req[t].buf) > 0
  BY DEF IInv, RequestsAgree, Resuming
<1>4. req[t].left > 0 \/ Resuming(t) => Len(req[t].buf) \in Nat \ {0}
  BY <1>1, <1>2, <1>3
<1>5. Readers[t] = ReaderAt(t)
  BY DEF Readers
<1>6. req[t].left = 0 /\ ~Resuming(t) => ReaderAt(t) = Nobody
  BY DEF ReaderAt, Nobody
<1>7. req[t].left > 0 \/ Resuming(t) =>
        ReaderAt(t) = HasLine(Len(req[t].buf), SubSeq(req[t].buf, 1, req[t].trans),
                              Resuming(t))
  <2>1. req[t].left > 0 \/ Resuming(t) => ~(req[t].left = 0 /\ ~Resuming(t))
    BY <1>1
  <2> QED
    BY <2>1 DEF ReaderAt, HasLine
<1> QED
  BY <1>4, <1>5, <1>6, <1>7

\* A reader is seen to change only where its request does, or the end of its line.
LEMMA ReaderStays ==
  ASSUME NEW t \in Ttys, req'[t] = req[t], Resuming(t)' <=> Resuming(t)
  PROVE  Readers'[t] = Readers[t]
<1>1. Readers'[t] = ReaderAt(t)' /\ Readers[t] = ReaderAt(t)
  BY DEF Readers
<1>2. CASE Resuming(t)
  <2>1. Resuming(t)' = TRUE /\ Resuming(t) = TRUE
    BY <1>2
  <2> HIDE DEF Resuming
  <2> QED
    BY <1>1, <2>1 DEF ReaderAt
<1>3. CASE ~Resuming(t)
  <2>1. Resuming(t)' = FALSE /\ Resuming(t) = FALSE
    BY <1>3
  <2> HIDE DEF Resuming
  <2> QED
    BY <1>1, <2>1 DEF ReaderAt
<1> QED
  BY <1>2, <1>3

\* No reader is seen to change.
LEMMA ReadersStay ==
  ASSUME UNCHANGED req, \A t \in Ttys : Resuming(t)' <=> Resuming(t)
  PROVE  Readers' = Readers
<1>1. \A t \in Ttys : Readers'[t] = Readers[t]
  BY ReaderStays
<1> QED
  BY <1>1 DEF Readers

\* One reader is seen to change.
LEMMA ReaderChanges ==
  ASSUME NEW t \in Ttys, NEW v, Readers'[t] = v,
         \A u \in Ttys \ {t} : Readers'[u] = Readers[u]
  PROVE  Readers' = [Readers EXCEPT ![t] = v]
<1>1. Readers' = [u \in Ttys |-> Readers'[u]]
  BY DEF Readers
<1>2. [Readers EXCEPT ![t] = v] = [u \in Ttys |-> IF u = t THEN v ELSE Readers[u]]
  BY DEF Readers
<1> HIDE DEF Readers
<1> QED
  BY <1>1, <1>2

\* The changes that Insert, Rubout and EndLine of Terminal make.
Changed(t, v) == [Readers EXCEPT ![t] = v]
LineChanged(t, line) == [Readers EXCEPT ![t].line = line]
DoneChanged(t, done) == [Readers EXCEPT ![t].done = done]
BothChanged(t, line, done) == [Readers EXCEPT ![t].line = line, ![t].done = done]

\* They change the reader to the one with the other line.
LEMMA LineChanges ==
  ASSUME NEW t \in Ttys, NEW n, NEW line, NEW done, Readers[t] = HasLine(n, line, done)
  PROVE  /\ \A new, d : BothChanged(t, new, d) = Changed(t, HasLine(n, new, d))
         /\ \A new : LineChanged(t, new) = Changed(t, HasLine(n, new, done))
         /\ \A d : DoneChanged(t, d) = Changed(t, HasLine(n, line, d))
<1> DEFINE f == Readers
<1>1. f = [u \in Ttys |-> f[u]]
  BY DEF Readers
<1> HIDE DEF f
<1>2. f[t] = [cnt |-> n, line |-> line, done |-> done]
  BY DEF f, HasLine
<1>3. ASSUME NEW new
      PROVE  LineChanged(t, new) = Changed(t, HasLine(n, new, done))
  <2>1. [f[t] EXCEPT !.line = new] = HasLine(n, new, done)
    BY <1>2 DEF HasLine
  <2>2. [f EXCEPT ![t].line = new] = [f EXCEPT ![t] = HasLine(n, new, done)]
    BY <2>1
  <2> QED
    BY <2>2 DEF LineChanged, Changed, f
<1>4. ASSUME NEW d
      PROVE  DoneChanged(t, d) = Changed(t, HasLine(n, line, d))
  <2>1. [f[t] EXCEPT !.done = d] = HasLine(n, line, d)
    BY <1>2 DEF HasLine
  <2>2. [f EXCEPT ![t].done = d] = [f EXCEPT ![t] = HasLine(n, line, d)]
    BY <2>1
  <2> QED
    BY <2>2 DEF DoneChanged, Changed, f
<1>5. ASSUME NEW new, NEW d
      PROVE  BothChanged(t, new, d) = Changed(t, HasLine(n, new, d))
  <2> DEFINE g == [f EXCEPT ![t].line = new]
  <2>1. g = [f EXCEPT ![t] = HasLine(n, new, done)]
    BY <1>3 DEF LineChanged, Changed, f
  <2>2. [f EXCEPT ![t].line = new, ![t].done = d] = [g EXCEPT ![t].done = d]
    OBVIOUS
  <2> HIDE DEF g
  <2>3. g = [u \in Ttys |-> IF u = t THEN HasLine(n, new, done) ELSE f[u]]
    <3> HIDE DEF HasLine
    <3> QED
      BY <1>1, <2>1
  <2>4. [g[t] EXCEPT !.done = d] = HasLine(n, new, d)
    BY <2>3 DEF HasLine
  <2>5. [g EXCEPT ![t].done = d] = [g EXCEPT ![t] = HasLine(n, new, d)]
    BY <2>4
  <2>6. [g EXCEPT ![t] = HasLine(n, new, d)] = [f EXCEPT ![t] = HasLine(n, new, d)]
    <3> HIDE DEF HasLine
    <3> QED
      BY <1>1, <2>3
  <2>7. [f EXCEPT ![t].line = new, ![t].done = d] = [f EXCEPT ![t] = HasLine(n, new, d)]
    BY <2>2, <2>5, <2>6
  <2> QED
    BY <2>7 DEF BothChanged, Changed, f
<1> QED
  BY <1>3, <1>4, <1>5

\* The beginning of a line, when a character is stored at its end.
LEMMA LongerLine ==
  ASSUME NEW s \in Seq(Chars), NEW k \in Nat, k < Len(s), NEW ch \in Chars
  PROVE  /\ SubSeq([s EXCEPT ![k + 1] = ch], 1, k + 1) = Append(SubSeq(s, 1, k), ch)
         /\ SubSeq(s, 1, k) \in Seq(Chars) /\ Len(SubSeq(s, 1, k)) = k
<1> DEFINE e == [s EXCEPT ![k + 1] = ch]
           a == SubSeq(e, 1, k + 1)
           b == SubSeq(s, 1, k)
<1>1. Len(s) \in Nat /\ k + 1 \in 1 .. Len(s)
  OBVIOUS
<1>2. /\ e \in Seq(Chars) /\ Len(e) = Len(s)
      /\ \A j \in 1 .. Len(s) : e[j] = IF j = k + 1 THEN ch ELSE s[j]
  BY <1>1, ExceptSeq
<1> HIDE DEF e
<1>3. a \in Seq(Chars) /\ Len(a) = k + 1 /\ \A i \in 1 .. k + 1 : a[i] = e[i]
  <2>1. \A i \in 1 .. k + 1 : e[i] \in Chars
    BY <1>1, <1>2
  <2>2. /\ a \in Seq(Chars) /\ Len(a) = (IF 1 <= k + 1 THEN k + 1 - 1 + 1 ELSE 0)
        /\ \A i \in 1 .. k + 1 - 1 + 1 : a[i] = e[1 + i - 1]
    BY <2>1, SubSeqProperties
  <2> QED
    BY <2>2
<1>4. b \in Seq(Chars) /\ Len(b) = k /\ \A i \in 1 .. k : b[i] = s[i]
  <2>1. \A i \in 1 .. k : s[i] \in Chars
    BY <1>1
  <2>2. /\ b \in Seq(Chars) /\ Len(b) = (IF 1 <= k THEN k - 1 + 1 ELSE 0)
        /\ \A i \in 1 .. k - 1 + 1 : b[i] = s[1 + i - 1]
    BY <2>1, SubSeqProperties
  <2> QED
    BY <2>2
<1> HIDE DEF a, b
<1>5. /\ Append(b, ch) \in Seq(Chars) /\ Len(Append(b, ch)) = k + 1
      /\ \A i \in 1 .. k : Append(b, ch)[i] = b[i]
      /\ Append(b, ch)[k + 1] = ch
  BY <1>4
<1>6. ASSUME NEW i \in 1 .. k + 1
      PROVE  a[i] = Append(b, ch)[i]
  <2>1. CASE i = k + 1
    BY <1>1, <1>2, <1>3, <1>5, <2>1
  <2>2. CASE i # k + 1
    <3>1. i \in 1 .. k /\ i \in 1 .. Len(s)
      BY <1>1, <2>2
    <3>2. a[i] = s[i]
      BY <1>2, <1>3, <2>2, <3>1
    <3> QED
      BY <1>4, <1>5, <3>1, <3>2
  <2> QED
    BY <2>1, <2>2
<1>7. a = Append(b, ch)
  BY <1>3, <1>5, <1>6, SeqEqual
<1> QED
  BY <1>4, <1>7 DEF a, b, e

\* The beginning of a line without its last character.
LEMMA ShorterLine ==
  ASSUME NEW s \in Seq(Chars), NEW k \in Nat, k > 0, k <= Len(s)
  PROVE  SubSeq(s, 1, k) # <<>> /\ SubSeq(s, 1, k - 1) = Front(SubSeq(s, 1, k))
<1> DEFINE b == SubSeq(s, 1, k)
           a == SubSeq(s, 1, k - 1)
<1>1. \A i \in 1 .. k : s[i] \in Chars
  OBVIOUS
<1>2. b \in Seq(Chars) /\ Len(b) = k /\ \A i \in 1 .. k : b[i] = s[i]
  <2>1. /\ b \in Seq(Chars) /\ Len(b) = (IF 1 <= k THEN k - 1 + 1 ELSE 0)
        /\ \A i \in 1 .. k - 1 + 1 : b[i] = s[1 + i - 1]
    BY <1>1, SubSeqProperties
  <2> QED
    BY <2>1
<1>3. a \in Seq(Chars) /\ Len(a) = k - 1 /\ \A i \in 1 .. k - 1 : a[i] = s[i]
  <2>1. k - 1 \in Int /\ \A i \in 1 .. k - 1 : s[i] \in Chars
    BY <1>1
  <2>2. /\ a \in Seq(Chars) /\ Len(a) = (IF 1 <= k - 1 THEN (k - 1) - 1 + 1 ELSE 0)
        /\ \A i \in 1 .. (k - 1) - 1 + 1 : a[i] = s[1 + i - 1]
    BY <2>1, SubSeqProperties
  <2> QED
    BY <2>2
<1> HIDE DEF a, b
<1> DEFINE c == SubSeq(b, 1, k - 1)
<1>4. c \in Seq(Chars) /\ Len(c) = k - 1 /\ \A i \in 1 .. k - 1 : c[i] = b[i]
  <2>1. k - 1 \in Int /\ \A i \in 1 .. k - 1 : b[i] \in Chars
    BY <1>1, <1>2
  <2>2. /\ c \in Seq(Chars) /\ Len(c) = (IF 1 <= k - 1 THEN (k - 1) - 1 + 1 ELSE 0)
        /\ \A i \in 1 .. (k - 1) - 1 + 1 : c[i] = b[1 + i - 1]
    BY <2>1, SubSeqProperties
  <2> QED
    BY <2>2
<1>5. Front(b) = c
  BY <1>2 DEF Front
<1> HIDE DEF c
<1>6. a = c
  <2>1. Len(a) = Len(c)
    BY <1>3, <1>4
  <2>2. \A i \in 1 .. Len(a) : a[i] = c[i]
    BY SMTT(30), <1>2, <1>3, <1>4
  <2> QED
    BY <1>3, <1>4, <2>1, <2>2, SeqEqual
<1> QED
  BY <1>2, <1>5, <1>6 DEF a, b

\* tty_dev_write: a character is inserted, taken back, ends the line, or is nothing to the
\* reader.
LEMMA DevWriteRefines ==
  ASSUME IInv, IInv', DevWrite
  PROVE  T!Next \/ UNCHANGED T!vars
<1> DEFINE t == current_tty
           r == req[t]
           ch == tty[t].ibuf[tty[t].tail]
           e == Edited(r, ch)
           n == Len(r.buf)
           line == SubSeq(r.buf, 1, r.trans)
<1>1. /\ t \in Ttys /\ ch \in Chars /\ pc = "write" /\ current_tty' = t
      /\ \/ r.left > 0 /\ req' = [req EXCEPT ![t] = e]
            /\ pc' = IF ch = "newline" \/ e.left = 0 THEN "resume" ELSE "receive"
         \/ req' = req /\ pc' = "receive"
      /\ UNCHANGED kb_buf
  BY DevWriteIs DEF kbVars
<1>2. keys' = keys
  BY <1>1 DEF keys
<1>3. \A u \in Ttys : ~Resuming(u) /\ (Resuming(u)' <=> pc' = "resume" /\ u = t)
  BY <1>1 DEF Resuming
<1>4. ASSUME Readers' = Readers
      PROVE  UNCHANGED T!vars
  BY <1>2, <1>4 DEF T!vars, Readers
<1>5. CASE req' = req /\ pc' = "receive"
  <2>1. Readers' = Readers
    BY <1>3, <1>5, ReadersStay
  <2> QED
    BY <1>4, <2>1
<1>6. CASE r.left > 0 /\ req' = [req EXCEPT ![t] = e]
           /\ pc' = IF ch = "newline" \/ e.left = 0 THEN "resume" ELSE "receive"
  <2>0. /\ req \in [Ttys -> Requests] /\ r \in Requests
        /\ r.left + r.trans = n /\ n <= MaxCnt
    BY <1>1, <1>6 DEF IInv, TypeOK, Requests, RequestsAgree
  <2>1. /\ r.left \in Nat /\ r.trans \in Nat /\ r.buf \in Seq(Chars) /\ n \in Nat
    BY <2>0, SizesAssumption DEF Requests, SizesAssumption
  <2>2. /\ e \in Requests /\ Len(e.buf) = n /\ e.left + e.trans = n
        /\ ch \in Printable => e.buf = [r.buf EXCEPT ![r.trans + 1] = ch] /\ e.trans = r.trans + 1
        /\ ch = "backspace" /\ r.trans > 0 => e.buf = r.buf /\ e.trans = r.trans - 1
        /\ ch \notin Printable /\ ~(ch = "backspace" /\ r.trans > 0) => e = r
    <3> HIDE DEF ch
    <3> QED
      BY <1>1, <1>6, <2>0, EditedIs, SizesAssumption
  <2>3. e.left \in Nat /\ e.trans \in Nat /\ e.left = n - e.trans
    BY <2>1, <2>2, SizesAssumption DEF Requests, SizesAssumption
  <2> HIDE DEF e, ch
  <2>4. Readers[t] = HasLine(n, line, FALSE) /\ n \in Nat \ {0} /\ r.trans < n
    <3>1. r.left > 0 \/ Resuming(t)
      BY <1>6
    <3>2. n \in Nat \ {0} /\ Readers[t] = HasLine(n, line, Resuming(t))
      BY <1>1, <3>1, ReadersAre DEF ReadersAgree
    <3>3. Resuming(t) = FALSE
      BY <1>1, <1>3
    <3>4. r.trans < n
      <4> HIDE DEF r, n
      <4> QED
        BY <1>6, <2>0, <2>1
    <3>5. Readers[t] = HasLine(n, line, FALSE)
      <4> HIDE DEF n, line, Resuming, HasLine
      <4> QED
        BY <3>2, <3>3
    <3> QED
      BY <3>2, <3>4, <3>5
  <2>5. req'[t] = e /\ \A u \in Ttys \ {t} : req'[u] = req[u]
    BY <1>1, <1>6, <2>0
  <2>6. \A u \in Ttys \ {t} : Readers'[u] = Readers[u]
    BY <1>3, <2>5, ReaderStays
  <2> DEFINE ends == pc' = "resume"
             v == HasLine(n, SubSeq(e.buf, 1, e.trans), ends)
  <2>7. Readers'[t] = v
    <3>1. e.left > 0 \/ Resuming(t)'
      BY <1>1, <1>3, <1>6, <2>3
    <3>2. ReadersAgree'
      BY ReadersAre, PTL
    <3>3. Readers'[t] = HasLine(Len(req'[t].buf), SubSeq(req'[t].buf, 1, req'[t].trans),
                                Resuming(t)')
      BY <1>1, <2>5, <3>1, <3>2 DEF ReadersAgree
    <3>4. Resuming(t)' = ends
      BY <1>1 DEF Resuming
    <3> QED
      BY <2>2, <2>5, <3>3, <3>4
  <2>8. Readers' = Changed(t, v)
    <3> HIDE DEF v
    <3> QED
      BY <1>1, <2>6, <2>7, ReaderChanges DEF Changed
  <2>9. /\ \A new, d : BothChanged(t, new, d) = Changed(t, HasLine(n, new, d))
        /\ \A new : LineChanged(t, new) = Changed(t, HasLine(n, new, FALSE))
        /\ \A d : DoneChanged(t, d) = Changed(t, HasLine(n, line, d))
    <3>1. t \in Ttys /\ Readers[t] = HasLine(n, line, FALSE)
      BY <1>1, <2>4
    <3> DEFINE no == FALSE
    <3>2. Readers[t] = HasLine(n, line, no)
      BY <3>1
    <3> HIDE DEF Readers, n, line, t, HasLine, no
    <3>3. /\ \A new, d : BothChanged(t, new, d) = Changed(t, HasLine(n, new, d))
          /\ \A new : LineChanged(t, new) = Changed(t, HasLine(n, new, no))
          /\ \A d : DoneChanged(t, d) = Changed(t, HasLine(n, line, d))
      BY <3>1, <3>2, LineChanges
    <3> QED
      BY <3>3 DEF no
  <2>10. /\ Readers[t] # Nobody /\ Readers[t].line = line
         /\ Readers[t].cnt = n /\ ~Readers[t].done
    <3>1. HasLine(n, line, FALSE).cnt = n /\ Nobody.cnt = 0
      BY DEF HasLine, Nobody
    <3>2. HasLine(n, line, FALSE).line = line /\ HasLine(n, line, FALSE).done = FALSE
      BY DEF HasLine
    <3> HIDE DEF Readers, line
    <3> QED
      BY <2>4, <3>1, <3>2
  <2>11. CASE ch \in Printable
    <3>1. /\ SubSeq(e.buf, 1, e.trans) = Append(line, ch)
          /\ Len(line) = r.trans
      <4> DEFINE s == r.buf
                 k == r.trans
      <4>1. s \in Seq(Chars) /\ k \in Nat /\ k < Len(s) /\ ch \in Chars
        BY <1>1, <2>1, <2>4
      <4>2. e.buf = [s EXCEPT ![k + 1] = ch] /\ e.trans = k + 1 /\ line = SubSeq(s, 1, k)
        BY <2>2, <2>11
      <4> HIDE DEF s, k, line, r
      <4>3. /\ SubSeq([s EXCEPT ![k + 1] = ch], 1, k + 1) = Append(SubSeq(s, 1, k), ch)
            /\ Len(SubSeq(s, 1, k)) = k
        BY <4>1, LongerLine
      <4> QED
        BY <4>2, <4>3 DEF k
    <3>2. ends <=> Len(line) + 1 = n
      <4>1. ch # "newline"
        BY <2>11 DEF Printable
      <4>2. e.left = 0 <=> r.trans + 1 = n
        <5>1. e.trans = r.trans + 1
          BY <2>2, <2>11
        <5> HIDE DEF r, n
        <5> QED
          BY <2>1, <2>3, <5>1
      <4> QED
        BY <1>6, <3>1, <4>1, <4>2
    <3>3. ends = (Len(line) + 1 = n)
      BY <3>2
    <3>4. Readers' = [Readers EXCEPT ![t].line = Append(line, ch),
                                     ![t].done = (Len(line) + 1 = n)]
      <4>1. v = HasLine(n, Append(line, ch), Len(line) + 1 = n)
        <5> HIDE DEF line, n, ends, HasLine
        <5> QED
          BY <3>1, <3>3
      <4> DEFINE full == Len(line) + 1 = n
                 longer == Append(line, ch)
      <4>2. v = HasLine(n, longer, full)
        BY <4>1
      <4> HIDE DEF Readers, line, v, n, t, HasLine, full, longer
      <4>3. Readers' = BothChanged(t, longer, full)
        BY <2>8, <2>9, <4>2
      <4> QED
        BY <4>3 DEF BothChanged, full, longer
    <3>5. T!Insert(t, ch)
      <4>1. Readers' = [Readers EXCEPT ![t].line = Append(@, ch),
                                     ![t].done = Len(Readers[t].line) + 1 = Readers[t].cnt]
        <5> HIDE DEF Readers, line
        <5> QED
          BY <2>10, <3>4
      <4>2. Len(Readers[t].line) < Readers[t].cnt
        BY <2>4, <2>10, <3>1
      <4> QED
        BY <1>2, <2>10, <4>1, <4>2
           DEF T!Insert, T!Edits, T!Reads, T!NoReader, Nobody, Readers
    <3> QED
      BY <1>1, <2>11, <3>5 DEF T!Next
  <2>12. CASE ch = "backspace" /\ r.trans > 0
    <3>1. line # <<>> /\ SubSeq(e.buf, 1, e.trans) = Front(line)
      <4> DEFINE s == r.buf
                 k == r.trans
      <4>1. s \in Seq(Chars) /\ k \in Nat /\ k > 0 /\ k <= Len(s)
        BY <2>1, <2>4, <2>12
      <4>2. e.buf = s /\ e.trans = k - 1 /\ line = SubSeq(s, 1, k)
        BY <2>2, <2>12
      <4> HIDE DEF s, k, line, r
      <4>3. SubSeq(s, 1, k) # <<>> /\ SubSeq(s, 1, k - 1) = Front(SubSeq(s, 1, k))
        BY <4>1, ShorterLine
      <4> QED
        BY <4>2, <4>3
    <3>2. ends = FALSE
      <4>1. e.trans = r.trans - 1 /\ ch # "newline"
        BY <2>2, <2>12
      <4>2. e.left # 0
        <5> HIDE DEF r, n
        <5> QED
          BY <2>1, <2>3, <2>4, <4>1
      <4> QED
        BY <1>6, <4>1, <4>2
    <3>3. Readers' = [Readers EXCEPT ![t].line = Front(@)]
      <4>1. Readers' = [Readers EXCEPT ![t].line = Front(line)]
        <5>1. v = HasLine(n, Front(line), FALSE)
          <6> HIDE DEF line, n, ends, HasLine
          <6> QED
            BY <3>1, <3>2
        <5> HIDE DEF Readers, line, v, n, t, HasLine
        <5>2. Readers' = LineChanged(t, Front(line))
          BY <2>8, <2>9, <5>1
        <5> QED
          BY <5>2 DEF LineChanged
      <4> HIDE DEF Readers, line
      <4> QED
        BY <2>10, <4>1
    <3>4. T!Rubout(t)
      <4>1. Readers[t].line # <<>>
        <5> HIDE DEF Readers, line
        <5> QED
          BY <2>10, <3>1
      <4> HIDE DEF line, n, t
      <4> QED
        BY <1>2, <2>10, <3>3, <4>1
           DEF T!Rubout, T!Edits, T!Reads, T!NoReader, T!Front, Front, Nobody, Readers
    <3> QED
      BY <1>1, <3>4 DEF T!Next
  <2>13. CASE ch \notin Printable /\ ~(ch = "backspace" /\ r.trans > 0)
    <3>1. SubSeq(e.buf, 1, e.trans) = line /\ e.left > 0
      BY <1>6, <2>2, <2>13
    <3>2. CASE ch = "newline"
      <4>1. ends = TRUE
        BY <1>6, <3>2
      <4>2. Readers' = [Readers EXCEPT ![t].done = TRUE]
        <5>1. v = HasLine(n, line, TRUE)
          <6> HIDE DEF line, n, ends, HasLine
          <6> QED
            BY <3>1, <4>1
        <5> HIDE DEF Readers, line, v, n, t, HasLine
        <5>2. Readers' = DoneChanged(t, TRUE)
          BY <2>8, <2>9, <5>1
        <5> QED
          BY <5>2 DEF DoneChanged
      <4>3. T!EndLine(t)
        BY <1>2, <2>10, <4>2 DEF T!EndLine, T!Edits, T!Reads, T!NoReader, Nobody, Readers
      <4> QED
        BY <1>1, <4>3 DEF T!Next
    <3>3. CASE ch # "newline"
      <4>1. e = r /\ pc' = "receive"
        BY <1>6, <2>1, <2>2, <2>13, <3>1, <3>3
      <4>2. req'[t] = req[t] /\ (Resuming(t)' <=> Resuming(t))
        BY <1>1, <1>3, <2>5, <4>1
      <4>3. Readers'[t] = Readers[t]
        BY <1>1, <4>2, ReaderStays
      <4>4. Readers' = Readers
        BY <2>6, <4>3 DEF Readers
      <4> QED
        BY <1>4, <4>4
    <3> QED
      BY <3>2, <3>3
  <2> QED
    BY <2>11, <2>12, <2>13
<1> QED
  BY <1>1, <1>5, <1>6

\* FS has received RESUME_PROC: the line is delivered.
LEMMA ResumedRefines ==
  ASSUME IInv, IInv', Resumed
  PROVE  T!Next
<1> DEFINE t == current_tty
<1>1. /\ t \in Ttys /\ pc = "resume" /\ pc' = "receive" /\ current_tty' = t
      /\ req \in [Ttys -> Requests] /\ req' = [req EXCEPT ![t].left = 0]
      /\ UNCHANGED kb_buf
  BY DEF Resumed, IInv, TypeOK, Requests, kbVars
<1>2. keys' = keys
  BY <1>1 DEF keys
<1>3. \A u \in Ttys : ~Resuming(u)' /\ (Resuming(u) <=> u = t)
  BY <1>1 DEF Resuming
<1>4. req'[t].left = 0 /\ \A u \in Ttys \ {t} : req'[u] = req[u]
  <2>1. req[t] \in Requests
    BY <1>1
  <2>2. [req[t] EXCEPT !.left = 0].left = 0
    BY <2>1 DEF Requests
  <2> QED
    BY <1>1, <2>2
<1>5. \A u \in Ttys \ {t} : Readers'[u] = Readers[u]
  BY <1>3, <1>4, ReaderStays
<1>6. Readers'[t] = Nobody
  <2>1. ReadersAgree'
    BY ReadersAre, PTL
  <2> QED
    BY <1>1, <1>3, <1>4, <2>1 DEF ReadersAgree
<1>7. Readers' = [Readers EXCEPT ![t] = Nobody]
  BY <1>1, <1>5, <1>6, ReaderChanges
<1>8. Readers[t] # Nobody /\ Readers[t].done
  <2> DEFINE n == Len(req[t].buf)
             line == SubSeq(req[t].buf, 1, req[t].trans)
  <2>1. n \in Nat \ {0} /\ Readers[t] = HasLine(n, line, TRUE)
    <3>1. Resuming(t) = TRUE
      BY <1>1, <1>3
    <3> QED
      BY <1>1, <3>1, ReadersAre DEF ReadersAgree
  <2>2. HasLine(n, line, TRUE).cnt = n /\ Nobody.cnt = 0 /\ HasLine(n, line, TRUE).done = TRUE
    BY DEF HasLine, Nobody
  <2> HIDE DEF n, line, Readers
  <2> QED
    BY <2>1, <2>2
<1>9. T!Deliver(t)
  BY <1>2, <1>7, <1>8 DEF T!Deliver, T!Reads, T!NoReader, Nobody, Readers
<1> QED
  BY <1>1, <1>9 DEF T!Next

\* tty_do_read: a process asks for a line, or for nothing.
LEMMA DoReadRefines ==
  ASSUME IInv, IInv', DoRead
  PROVE  T!Next
<1> SUFFICES ASSUME NEW t \in Ttys, NEW n \in 0 .. MaxCnt, t = fs.DEVICE, n = fs.CNT
             PROVE  T!Next
  BY DoReadIs
<1> DEFINE new == [left |-> n, trans |-> 0, buf |-> Blank(n)]
<1>1. /\ n \in 0 .. MaxCnt /\ t \in Ttys /\ Len(Blank(n)) = n
      /\ req' = [req EXCEPT ![t] = new]
      /\ pc = "receive" /\ pc' = "read" /\ UNCHANGED kb_buf
      /\ req \in [Ttys -> Requests] /\ MaxCnt \in Nat
  BY DoReadIs, SizesAssumption DEF IInv, TypeOK, Requests, kbVars, SizesAssumption
<1>2. keys' = keys
  BY <1>1 DEF keys
<1>3. \A u \in Ttys : ~Resuming(u)' /\ ~Resuming(u)
  BY <1>1 DEF Resuming
<1>4. /\ req'[t].left = n /\ req'[t].trans = 0 /\ req'[t].buf = Blank(n)
      /\ \A u \in Ttys \ {t} : req'[u] = req[u]
  BY <1>1
<1>5. \A u \in Ttys \ {t} : Readers'[u] = Readers[u]
  BY <1>3, <1>4, ReaderStays
<1>6. Readers'[t] = IF n = 0 THEN Nobody ELSE HasLine(n, <<>>, FALSE)
  <2>1. ReadersAgree'
    BY ReadersAre, PTL
  <2>2. SubSeq(Blank(n), 1, 0) = <<>>
    BY SubSeqEmpty
  <2>3. Resuming(t)' = FALSE
    BY <1>1 DEF Resuming
  <2>4. n > 0 => Readers'[t] = HasLine(n, <<>>, FALSE)
    <3>1. n > 0 => Readers'[t] = HasLine(Len(req'[t].buf),
                                    SubSeq(req'[t].buf, 1, req'[t].trans), Resuming(t)')
      <4> HIDE DEF HasLine, Resuming, Readers
      <4>1. n > 0 => req'[t].left > 0
        BY <1>1, <1>4
      <4> QED
        BY <1>1, <2>1, <4>1 DEF ReadersAgree
    <3> HIDE DEF HasLine, Resuming, Readers
    <3> QED
      BY <1>1, <1>4, <2>2, <2>3, <3>1
  <2>5. n = 0 => Readers'[t] = Nobody
    BY <1>1, <1>4, <2>1, <2>3 DEF ReadersAgree
  <2>6. n > 0 \/ n = 0
    BY <1>1
  <2> HIDE DEF HasLine, Readers
  <2> QED
    BY <2>4, <2>5, <2>6
<1>7. Readers' = [Readers EXCEPT ![t] = IF n = 0 THEN Nobody ELSE HasLine(n, <<>>, FALSE)]
  BY <1>1, <1>5, <1>6, ReaderChanges
<1>8. Readers[t] # Nobody => ~Readers[t].done
  <2> DEFINE line == SubSeq(req[t].buf, 1, req[t].trans)
             len == Len(req[t].buf)
  <2>1. req[t].left \in Nat
    BY <1>1 DEF Requests
  <2>2. Resuming(t) = FALSE
    BY <1>1, <1>3
  <2>3. Readers[t] = Nobody \/ Readers[t] = HasLine(len, line, FALSE)
    <3>1. ReadersAgree
      BY ReadersAre
    <3>2. req[t].left = 0 \/ req[t].left > 0
      BY <2>1
    <3>3. req[t].left = 0 => Readers[t] = Nobody
      BY <1>1, <2>2, <3>1 DEF ReadersAgree
    <3>4. req[t].left > 0 => Readers[t] = HasLine(len, line, Resuming(t))
      BY <1>1, <3>1 DEF ReadersAgree
    <3> HIDE DEF HasLine, Readers, Resuming, len, line
    <3> QED
      BY <2>2, <3>2, <3>3, <3>4
  <2>4. HasLine(len, line, FALSE).done = FALSE
    BY DEF HasLine
  <2> HIDE DEF line, len, Readers
  <2> QED
    BY <2>3, <2>4
<1>9. T!Ask(t, n)
  <2>1. T!Reader(n) = HasLine(n, <<>>, FALSE) /\ T!NoReader = Nobody
    BY DEF T!Reader, T!NoReader, HasLine, Nobody
  <2> QED
    BY <1>2, <1>7, <1>8, <2>1 DEF T!Ask, T!Reads, Readers
<1> QED
  BY <1>1, <1>9 DEF T!Next

\* Every step is one of Terminal, or none.
LEMMA StepRefines == IInv /\ IInv' /\ [Next]_vars => [T!Next]_(T!vars)
<1> SUFFICES ASSUME IInv, IInv', [Next]_vars
             PROVE  T!Next \/ UNCHANGED T!vars
  BY DEF T!vars
<1>1. ASSUME NEW c \in Codes, KeyboardHandler(c)
      PROVE  T!Next
  <2>1. UNCHANGED <<req, pc, current_tty>>
    BY <1>1 DEF KeyboardHandler
  <2>2. Readers' = Readers
    BY <2>1, ReadersStay DEF Resuming
  <2>3. T!Press(c)
    BY <1>1, <2>2, PressKeys DEF T!Press, Readers
  <2> QED
    BY <2>3 DEF T!Next
<1>2. CASE KeyboardRead
  <2>1. UNCHANGED req /\ pc = "read" /\ pc' \in {"read", "write"}
    BY <1>2, KeyboardReadIs
  <2>2. Readers' = Readers
    BY <2>1, ReadersStay DEF Resuming
  <2>3. T!Take
    BY <1>2, <2>2, TakeKeys DEF T!Take, Readers
  <2> QED
    BY <2>3 DEF T!Next
<1>3. CASE DevWrite
  BY <1>3, DevWriteRefines
<1>4. CASE Resumed
  BY <1>4, ResumedRefines
<1>5. CASE DoRead
  BY <1>5, DoReadRefines
<1>6. ASSUME UNCHANGED <<kb_buf, req, current_tty>>,
             pc' = pc \/ (pc # "resume" /\ pc' # "resume")
      PROVE  UNCHANGED T!vars
  <2>1. Readers' = Readers
    BY <1>6, ReadersStay DEF Resuming
  <2>2. keys' = keys
    BY <1>6 DEF keys
  <2> QED
    BY <2>1, <2>2 DEF T!vars, Readers
<1>7. CASE ~KeyboardRead /\ ~DevWrite /\ ~Resumed /\ ~DoRead
           /\ ~\E c \in Codes : KeyboardHandler(c)
  <2>1. UNCHANGED <<kb_buf, req, current_tty>>
    BY <1>7 DEF Next, Round, vars, kbVars, ClockHandler, KeyboardReadNothing, DevWriteNothing,
                ReceiveInt, HardInt, Answer, FsCalls
  <2>2. pc' = pc \/ (pc # "resume" /\ pc' # "resume")
    BY <1>7 DEF Next, Round, vars, ClockHandler, KeyboardReadNothing, DevWriteNothing,
                ReceiveInt, HardInt, Answer, FsCalls
  <2> QED
    BY <1>6, <2>1, <2>2
<1> QED
  BY <1>1, <1>2, <1>3, <1>4, <1>5, <1>7

\* The keyboard handler and TTY (keyboard.c:166, tty.c:21) implement Terminal, for any
\* number of terminals and any lengths of the rings and of the reads.
THEOREM TtyImplementsTerminal == Spec => ImplementsTerminal
<1>1. Init => T!Init
  <2> SUFFICES ASSUME Init PROVE T!Init
    OBVIOUS
  <2>1. keys = <<>>
    BY DEF Init, keys
  <2>2. \A t \in Ttys : ReaderAt(t) = Nobody
    BY DEF Init, ReaderAt, Resuming, Nobody
  <2>3. Readers = [t \in Ttys |-> Nobody]
    BY <2>2 DEF Readers
  <2> QED
    BY <2>1, <2>3 DEF T!Init, T!NoReader, Nobody, Readers
<1>2. IInv /\ IInv' /\ [Next]_vars => [T!Next]_(T!vars)
  BY StepRefines
<1> QED
  BY <1>1, <1>2, Invariance, PTL DEF Spec, ImplementsTerminal, T!Spec

===============================================================================
