------------------------------ MODULE TtyRefinement ----------------------------
(***************************************************************************)
(* The keyboard handler and the TTY task (Tty) implement Terminal: the     *)
(* ring kb_buf is the queue of scan codes, and the first characters of the *)
(* reader's own buffer are its line.                                       *)
(***************************************************************************)
EXTENDS Tty

keys == [k \in 1 .. kb_buf.count |->
            kb_buf.buf[(kb_buf.p_pending + k - 1) % KE_IN_COUNT]]

\* RESUME_PROC has been made up and not been received.
Resuming(t) == pc = "resume" /\ t = current_tty

ReaderAt(t) ==
    IF req[t].left = 0 /\ ~Resuming(t) THEN [cnt |-> 0]
    ELSE [cnt |-> Len(req[t].buf),
          line |-> SubSeq(req[t].buf, 1, req[t].trans),
          done |-> Resuming(t)]

T == INSTANCE Terminal WITH
        Chars <- Printable,
        Capacity <- KE_IN_COUNT,
        reader <- [t \in Ttys |-> ReaderAt(t)]

\* Scan codes are taken in order and only the ones that find kb_buf full are
\* lost; a line grows and shrinks at its end, stays within the buffer, is ended
\* once and delivered once.
ImplementsTerminal == T!Spec
=============================================================================
