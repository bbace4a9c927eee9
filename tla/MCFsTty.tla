-------------------------------- MODULE MCFsTty --------------------------------
(***************************************************************************)
(* Instances of FsTty for TLC.                                             *)
(***************************************************************************)
EXTENDS FsTty

CONSTANTS u, v, t0, t1

\* A terminal for every user.
OwnTerminals == [x \in Users |-> IF x = u THEN {t0} ELSE {t1}]

\* Every user at every terminal.
AllTerminals == [x \in Users |-> Ttys]
=============================================================================
