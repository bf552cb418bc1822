--------------------------- MODULE MCFileHeadStore ---------------------------
(***************************************************************************)
(* FileHeadStore for TLC.                                                   *)
(***************************************************************************)
EXTENDS FileHeadStore, TLC

CONSTANTS p1, p2

Payloads == Permutations({p1, p2})
=============================================================================
