------------------------------ MODULE MCFraming ------------------------------
(***************************************************************************)
(* Framing for model checking: entries with no data, with one byte, and    *)
(* with data that looks like the framing itself; headers whose numbers     *)
(* differ in their count of digits and in their sign; a dbid of two bytes. *)
(***************************************************************************)
EXTENDS Framing

MCEntries ==
    { [term |-> 1,  id |-> 0,  type |-> 0, data |-> <<>>],
      [term |-> 12, id |-> 3,  type |-> 1, data |-> <<"a">>],
      [term |-> 2,  id |-> 10, type |-> 0, data |-> <<"$", "1", CR, LF>>] }

MCHeaders ==
    [ snapshot_last_term : {0}, snapshot_last_idx : {0, 10},
      term : {1, 12}, vote : {-1, 1} ]

MCDbid == <<"d", "b">>

=============================================================================
