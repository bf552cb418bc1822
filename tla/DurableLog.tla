----------------------------- MODULE DurableLog -----------------------------
(***************************************************************************)
(* What a durable log promises: items are added at its end, a prefix is     *)
(* promised to the callers, and a failure may lose only what follows it.    *)
(***************************************************************************)
EXTENDS Integers, Sequences

CONSTANT Item

VARIABLES log,      \* the items, oldest first
          promised  \* how many of them callers were told are recorded

Init == log \in Seq(Item) /\ promised \in 0..Len(log)

Write ==
    /\ log' \in Seq(Item)
    /\ Len(log') = Len(log) + 1
    /\ SubSeq(log', 1, Len(log)) = log
    /\ UNCHANGED promised

Promise ==
    /\ promised' \in promised..Len(log)
    /\ UNCHANGED log

Lose ==
    /\ \E n \in promised..Len(log) : log' = SubSeq(log, 1, n)
    /\ UNCHANGED promised

Next == Write \/ Promise \/ Lose

Spec == Init /\ [][Next]_<<log, promised>>
=============================================================================
