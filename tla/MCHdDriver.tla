------------------------------- MODULE MCHdDriver ------------------------------
(***************************************************************************)
(* An instance of HdDriver for TLC: a drive with a primary partition of    *)
(* four sectors in the second entry of its table, and an extended one in   *)
(* the third with a chain of three tables, one more than is read.          *)
(***************************************************************************)
EXTENDS HdDriver, TLC

Entry(type, start, size) == [sys_id |-> type, start |-> start, size |-> size]
Unused == Entry("NO_PART", 0, 0)

MCTables ==
    0 :> <<Unused, Entry("MINIX_PART", 1, 4), Entry("EXT_PART", 5, 8), Unused>>
    @@ 5 :> <<Entry("MINIX_PART", 1, 1), Entry("EXT_PART", 2, 3), Unused, Unused>>
    @@ 7 :> <<Entry("MINIX_PART", 1, 2), Entry("EXT_PART", 5, 3), Unused, Unused>>
    @@ 10 :> <<Entry("MINIX_PART", 1, 2), Unused, Unused, Unused>>

\* The primary partition, and the second logical one.
MCDevices == {2, 21}
=============================================================================
