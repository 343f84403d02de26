---------------------------- MODULE MCEntryCache ----------------------------
(***************************************************************************)
(* The entry cache for TLC: a ring that starts with two slots, so that it  *)
(* wraps and doubles (twice) within six log indices.                       *)
(***************************************************************************)
EXTENDS EntryCache

CONSTANTS e1, e2

MCEntries == {e1, e2}

=============================================================================
