----------------------------- MODULE MCSegments ------------------------------
(* Segments for TLC, on hosts where directory syncs never fail and a loss of *)
(* power may undo a rename that a reopen has built on.                       *)
EXTENDS Segments

Undoes == {{"power", "undo"}}
=============================================================================
