------------------------------ MODULE MCLedger ------------------------------
(* Ledger for TLC. *)
EXTENDS Ledger, TLC

CONSTANTS p1, p2, k1, k2, a, b

MCProc == {p1, p2}
MCKey == {k1, k2}
MCPayload == {a, b}

Sym == Permutations(MCProc) \cup Permutations(MCPayload)
=============================================================================
