-------------------------------- MODULE MCFsRdwt -------------------------------
(***************************************************************************)
(* Instances of FsRdwt for TLC.                                            *)
(***************************************************************************)
EXTENDS FsRdwt, TLC

\* The calls name one descriptor, and the properties speak of all of them.
DescsAreAlike == Permutations(Descs)
=============================================================================
