-------------------------------- MODULE Terminal -------------------------------
(***************************************************************************)
(* What a terminal promises, without rings, flags, handlers or messages:   *)
(* scan codes are taken in the order in which they were sent, those that   *)
(* find the buffer full are lost and no others, and a reader gets a line   *)
(* no longer than it asked for, once.                                      *)
(***************************************************************************)
EXTENDS Integers, SequencesExt

CONSTANTS Ttys, Codes, Chars, Capacity, MaxCnt

VARIABLES
    keys,       \* the scan codes that wait
    reader      \* per terminal: the line that is being read, or NoReader

vars == <<keys, reader>>

NoReader == [cnt |-> 0]
Reader(n) == [cnt |-> n, line |-> <<>>, done |-> FALSE]

Reads(t) == reader[t] # NoReader
Edits(t) == Reads(t) /\ ~reader[t].done

Init ==
    /\ keys = <<>>
    /\ reader = [t \in Ttys |-> NoReader]

Press(c) ==
    /\ keys' = IF Len(keys) < Capacity THEN Append(keys, c) ELSE keys
    /\ UNCHANGED reader

Take ==
    /\ keys # <<>>
    /\ keys' = Tail(keys)
    /\ UNCHANGED reader

\* Whatever is being read at the terminal is given up.
Ask(t, n) ==
    /\ Reads(t) => ~reader[t].done
    /\ reader' = [reader EXCEPT ![t] = IF n = 0 THEN NoReader ELSE Reader(n)]
    /\ UNCHANGED keys

Insert(t, ch) ==
    /\ Edits(t)
    /\ Len(reader[t].line) < reader[t].cnt
    /\ reader' = [reader EXCEPT ![t].line = Append(@, ch),
                                ![t].done = Len(reader[t].line) + 1 = reader[t].cnt]
    /\ UNCHANGED keys

Rubout(t) ==
    /\ Edits(t)
    /\ reader[t].line # <<>>
    /\ reader' = [reader EXCEPT ![t].line = Front(@)]
    /\ UNCHANGED keys

EndLine(t) ==
    /\ Edits(t)
    /\ reader' = [reader EXCEPT ![t].done = TRUE]
    /\ UNCHANGED keys

Deliver(t) ==
    /\ Reads(t) /\ reader[t].done
    /\ reader' = [reader EXCEPT ![t] = NoReader]
    /\ UNCHANGED keys

Next ==
    \/ \E c \in Codes : Press(c)
    \/ Take
    \/ \E t \in Ttys :
        \/ \E n \in 0 .. MaxCnt : Ask(t, n)
        \/ \E ch \in Chars : Insert(t, ch)
        \/ Rubout(t)
        \/ EndLine(t)
        \/ Deliver(t)

Spec == Init /\ [][Next]_vars
=============================================================================
