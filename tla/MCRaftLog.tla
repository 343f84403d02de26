------------------------------ MODULE MCRaftLog ------------------------------
(***************************************************************************)
(* RaftLog for model checking: two entries, of one and of two bytes, so    *)
(* that the offsets of a rewritten log differ from those of the log it     *)
(* replaces; one node to vote for.                                         *)
(***************************************************************************)
EXTENDS RaftLog

CONSTANTS e1, e2

MCEntries   == {e1, e2}
MCEntrySize == (e1 :> 1) @@ (e2 :> 2)
MCNodes     == {1}

=============================================================================
