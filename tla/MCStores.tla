------------------------------ MODULE MCStores -------------------------------
(***************************************************************************)
(* What a server keeps in files besides a ledger of one file: a segmented   *)
(* ledger (Segments), shards (Sharded) and the mission registry behind its  *)
(* cache (CoherentMap).  None of them reads what another keeps, so a        *)
(* behaviour runs one of the three and leaves the other two as they start.  *)
(***************************************************************************)
EXTENDS Segments, Sharded, CoherentMap

CONSTANTS r1, r2, p1, p2

\* Each replica holds every key older than its own.  One may run on after a
\* later key was used, which it does not hold, or be put back on the oldest
\* key by an operator who holds them all.
Rotations ==
    {[key |-> 1, verifiers |-> {1}], [key |-> 2, verifiers |-> {1, 2}],
     [key |-> 3, verifiers |-> {1, 2, 3}], [key |-> 1, verifiers |-> {1, 2, 3}]}

\* Hosts that lose power, with directory syncs that never fail and with ones
\* that may.  A rename undone after a reopen built on it is MCSegments' case.
Powers == {{"power"}, {"power", "dirsync"}}

VARIABLE run

allVars == <<run, vars, shardVars, mapVars>>

UnusedSegments == faults = {"power"}
UnusedShards == booted = [r \in Replica |-> [key |-> 1, verifiers |-> {1}]]
UnusedMap == file.fp.ino = 1

StoresInit ==
    /\ run \in {"segments", "shards", "map"}
    /\ Init /\ ShardInit /\ MapInit
    /\ run # "segments" => UnusedSegments
    /\ run # "shards" => UnusedShards
    /\ run # "map" => UnusedMap

SegmentsStep == run = "segments" /\ Next /\ UNCHANGED <<run, shardVars, mapVars>>
ShardsStep == run = "shards" /\ ShardNext /\ UNCHANGED <<run, vars, mapVars>>
MapStep == run = "map" /\ MapNext /\ UNCHANGED <<run, vars, shardVars>>

StoresNext == SegmentsStep \/ ShardsStep \/ MapStep

StoresSpec == StoresInit /\ [][StoresNext]_allVars /\ MapFairness
=============================================================================
