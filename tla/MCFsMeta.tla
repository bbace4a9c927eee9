-------------------------------- MODULE MCFsMeta -------------------------------
(***************************************************************************)
(* Instances of FsMeta, and of the loops in FsBytes, for TLC.              *)
(***************************************************************************)
EXTENDS FsBytes, TLC

\* The names of files, and the processes, can be exchanged for one another.
NamesAndUsers == Permutations(Names) \cup Permutations(Users)
=============================================================================
