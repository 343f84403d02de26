------------------------------ MODULE MCLogImpl ------------------------------
(***************************************************************************)
(* LogImpl for model checking: two entries, of one and of two bytes, one   *)
(* node to vote for, and a cache of two slots, which is full at the second *)
(* entry and doubles at the third.  The run with failing calls has no node *)
(* to vote for: its questions are about the entries.                       *)
(***************************************************************************)
EXTENDS LogImpl, TLC

CONSTANTS e1, e2

MCEntries   == {e1, e2}
MCEntrySize == (e1 :> 1) @@ (e2 :> 2)
MCNodes     == {1}
MCNoNodes   == {}

=============================================================================
