------------------------------- MODULE Merkle -------------------------------
(***************************************************************************)
(* The RFC 9162 tree over the log (merkle.rs), as the tree hash and the    *)
(* proofs of Evidence.  Hashes are terms: a tree hash is the tree itself,  *)
(* so two are equal exactly when what they commit to is.                   *)
(***************************************************************************)
EXTENDS Evidence

---------------------------------------------------------------------------
(***************************************************************************)
(* The tree.                                                               *)
(***************************************************************************)

Leaf(d) == <<"leaf", d>>
Node(l, r) == <<"node", l, r>>

SplitHalf(n) == n \div 2             \* mutant: the tree is halved, not split at a power of two

Split(n) == CHOOSE k \in {2 ^ i : i \in 0..n} : k < n /\ 2 * k >= n

RECURSIVE TreeHash(_)
TreeHash(d) ==
    LET n == Len(d)  k == Split(n) IN
    IF n = 0 THEN <<"empty">>
    ELSE IF n = 1 THEN Leaf(d[1])
    ELSE Node(TreeHash(SubSeq(d, 1, k)), TreeHash(SubSeq(d, k + 1, n)))

\* The audit path of the leaf at index m, counted from 0.
RECURSIVE InclusionProof(_, _)
InclusionProof(d, m) ==
    LET n == Len(d)  k == Split(n) IN
    IF n = 1 THEN <<>>
    ELSE IF m < k
      THEN Append(InclusionProof(SubSeq(d, 1, k), m), TreeHash(SubSeq(d, k + 1, n)))
      ELSE Append(InclusionProof(SubSeq(d, k + 1, n), m - k), TreeHash(SubSeq(d, 1, k)))

RECURSIVE Subproof(_, _, _)
Subproof(d, m, whole) ==
    LET n == Len(d)  k == Split(n) IN
    IF m = n THEN IF whole THEN <<>> ELSE <<TreeHash(d)>>
    ELSE IF m <= k
      THEN Append(Subproof(SubSeq(d, 1, k), m, whole), TreeHash(SubSeq(d, k + 1, n)))
      ELSE Append(Subproof(SubSeq(d, k + 1, n), m - k, FALSE), TreeHash(SubSeq(d, 1, k)))

ConsistencyProof(d, m) == Subproof(d, m, TRUE)

Halved(s) == [s EXCEPT !.fn = @ \div 2, !.sn = @ \div 2]

\* The shift over the levels where the node has no right sibling.
RECURSIVE Shifted(_)
Shifted(s) == IF s.fn % 2 = 0 /\ s.fn # 0 THEN Shifted(Halved(s)) ELSE s

\* One element of a proof: r is the root being rebuilt, and first the root of
\* the smaller tree, which a right-hand sibling leaves alone.
Climb(s, p) ==
    IF s.sn = 0 \/ ~s.ok THEN [s EXCEPT !.ok = FALSE]
    ELSE IF s.fn % 2 = 1 \/ s.fn = s.sn
      THEN Halved(Shifted([s EXCEPT !.r = Node(p, @), !.first = Node(p, @)]))
      ELSE Halved([s EXCEPT !.r = Node(@, p)])

VerifyInclusion(i, n, leaf, root, path) ==
    /\ i < n
    /\ LET s == FoldLeft(Climb, [fn |-> i, sn |-> n - 1, r |-> leaf, first |-> leaf, ok |-> TRUE], path)
       IN  s.ok /\ s.sn = 0 /\ s.r = root

PowerOfTwo(n) == n \in {2 ^ i : i \in 0..n}

RECURSIVE SkipOdd(_)
SkipOdd(s) == IF s.fn % 2 = 1 THEN SkipOdd(Halved(s)) ELSE s

Rebuilt(m, n, firstRoot, path) ==
    LET work == IF PowerOfTwo(m) THEN <<firstRoot>> \o path ELSE path
        start == SkipOdd([fn |-> m - 1, sn |-> n - 1, r |-> work[1], first |-> work[1], ok |-> TRUE])
    IN  FoldLeft(Climb, start, Tail(work))

VerifyConsistency(m, n, firstRoot, secondRoot, path) ==
    /\ m >= 1 /\ m <= n
    /\ IF m = n THEN path = <<>> /\ firstRoot = secondRoot
       ELSE /\ PowerOfTwo(m) \/ path # <<>>
            /\ LET s == Rebuilt(m, n, firstRoot, path)
               IN  s.ok /\ s.sn = 0 /\ s.first = firstRoot /\ s.r = secondRoot

---------------------------------------------------------------------------
\* The verifiers agree with the trees: an inclusion proof verifies for its own
\* leaf at its own index and for no other leaf or index of the log, and a
\* consistency proof for every size of the log and for no other earlier root.
\* (That is about the log alone, so the states where nothing else has happened
\* to it are enough.)  Against a root that was published, by this log or before
\* it was rewritten, the proof is as exact, and what a subject is shown verifies
\* against the head it came with.
ProofsAreExact ==
    /\ AtRest =>
        LET d == Leaves(log)  n == Len(log)  root == TreeHash(d)
            prefixRoot(m) == TreeHash(SubSeq(d, 1, m))
        IN  /\ \A i, j, l \in 0..(n - 1) :
                 VerifyInclusion(j, n, Leaf(d[l + 1]), root, InclusionProof(d, i)) <=>
                     i = j /\ i = l
            /\ \A m, l \in 1..n :
                 VerifyConsistency(m, n, prefixRoot(l), root, ConsistencyProof(d, m)) <=> m = l
    /\ ConsistencyIsExact
    /\ answer # NoAnswer =>
        \A i \in DOMAIN answer.decisions :
            VerifyInclusion(i - 1, answer.head.size, Leaf(answer.decisions[i].leaf),
                            answer.head.root, answer.decisions[i].path)
=============================================================================
