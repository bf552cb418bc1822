----------------------------- MODULE MCMissions -----------------------------
(* Missions for TLC. *)
EXTENDS Missions, TLC

CONSTANTS m1, m2, r1, r2, r3

MCMission1 == {m1}
MCMission2 == {m1, m2}
MCReq2 == {r1, r2}
MCReq3 == {r1, r2, r3}

\* m1 expires first; m2 is still approvable when m1 no longer is.
MCExpiry1 == [m \in MCMission1 |-> 1]
MCExpiry2 == [m \in MCMission2 |-> IF m = m1 THEN 1 ELSE 2]

\* Any request may ask anything.
Any2 == [r \in MCReq2 |-> {"approve", "terminate", "decide"}]

\* Any two at once, but two exchanges of decisions.
Mixed2 == [r \in MCReq2 |-> IF r = r1 THEN {"approve", "terminate"}
                            ELSE {"approve", "terminate", "decide"}]

\* One client of each kind.
Apart3 == [r \in MCReq3 |-> CASE r = r1 -> {"approve"}
                              [] r = r2 -> {"terminate"}
                              [] r = r3 -> {"decide"}]

\* A host whose directory syncs fail and whose power fails; one that loses
\* power only, and whose process may be killed, as everywhere.
Faulty == {{"power", "dirsync"}}
Power == {{"power"}}

Sym2 == Permutations(MCReq2)
=============================================================================
