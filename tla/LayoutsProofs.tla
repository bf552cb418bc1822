---------------------------- MODULE LayoutsProofs ----------------------------
(***************************************************************************)
(* The two layouts of a ledger besides the single file.                     *)
(*                                                                         *)
(* Segments, for any policy and bounds and every environment in which no    *)
(* power loss undoes a rename that a reopen has built on (NoUndo; with      *)
(* "undo" TLC finds all three below violated): whatever fails or is cut     *)
(* off, a kill between a manifest's rename and the directory's sync         *)
(* included, the directory opens again as one chain, segments are rolled    *)
(* over by the policy, and the ledger is a durable log.  A manifest Fits    *)
(* the files when the segments it seals hold only records, as many as the   *)
(* last segment's start_seq, and the last one records and at most a torn    *)
(* line.  What a reopen reads is then the sealed records followed by the    *)
(* active segment's, so a step that changes only the active segment's       *)
(* lines, or exchanges one manifest that fits for another of the same       *)
(* records, is a step of the log.  chained_lines concatenates a sequence    *)
(* of files; that it is what the sealed files give and then the last one    *)
(* is shown by induction on their number.                                   *)
(*                                                                         *)
(* Sharded, for any keys, keyrings, replicas and numbers of records: the    *)
(* shard verifies however replicas, releases and rotations take turns, an   *)
(* append is recorded as it was answered, and the shard extends every       *)
(* checkpoint signed of it.  The guard of an append looks at key spans,     *)
(* cached by another replica or computed from the history with the          *)
(* replica's own keyring.  SignersInv says that either way they are         *)
(* Faithful: they name the signers of the records, all of them and no       *)
(* other, the last signer last.  What the history's spans are is shown by   *)
(* induction on the number of records.                                      *)
(*                                                                         *)
(* The library states induction for an operator, so it is stated here for   *)
(* a set of numbers.                                                        *)
(***************************************************************************)
EXTENDS Segments, Sharded, FiniteSetTheorems, SequenceTheorems, WellFoundedInduction, TLAPS

-----------------------------------------------------------------------------
(* Induction over the natural numbers, for a set of them.                    *)

Below == {p \in Nat \X Nat : p[1] < p[2]}

LEMMA SetInduction ==
  ASSUME NEW S \in SUBSET Nat, 0 \in S, \A n \in S : n + 1 \in S
  PROVE  \A n \in Nat : n \in S
  <1>. DEFINE T == Nat \ S
  <1>. SUFFICES ASSUME T # {} PROVE FALSE
    OBVIOUS
  <1>1. T \subseteq Nat /\ IsWellFoundedOn(Below, Nat)
    BY NatLessThanWellFounded DEF OpToRel, Below
  <1>2. \E x \in T : \A y \in T : <<y, x>> \notin Below
    <2>. HIDE DEF T
    <2>. QED BY <1>1, WFMin
  <1>3. PICK x \in T : \A y \in T : <<y, x>> \notin Below
    BY <1>2
  <1>4. x \in Nat /\ x # 0
    OBVIOUS
  <1>5. x - 1 \in Nat /\ <<x - 1, x>> \in Below
    BY <1>4 DEF Below
  <1>6. x - 1 \in S
    BY <1>3, <1>5
  <1>. QED BY <1>4, <1>6

-----------------------------------------------------------------------------
(* What the concatenation of a sequence of sequences is.                     *)

\* f gives the concatenations of the first i, for i up to n.
Flattens(f, seqs, n) ==
  f = [i \in 1..n |-> IF i = 1 THEN seqs[i] ELSE f[i - 1] \o seqs[i]]

LEMMA FlattensExist ==
  ASSUME NEW seqs
  PROVE  \A n \in Nat : \E f : Flattens(f, seqs, n)
  <1>. DEFINE S == {n \in Nat : \E f : Flattens(f, seqs, n)}
  <1>1. 0 \in S
    <2>. DEFINE f == [i \in 1..0 |-> IF i = 1 THEN seqs[i] ELSE <<>> \o seqs[i]]
    <2>1. Flattens(f, seqs, 0)
      BY DEF Flattens
    <2>. QED BY <2>1
  <1>2. ASSUME NEW n \in S PROVE n + 1 \in S
    <2>1. PICK f : Flattens(f, seqs, n)
      OBVIOUS
    <2>. DEFINE g == [i \in 1..(n + 1) |-> IF i <= n THEN f[i]
                                           ELSE IF i = 1 THEN seqs[i] ELSE f[n] \o seqs[n + 1]]
    <2>2. n \in Nat
      OBVIOUS
    <2>3. \A i \in 1..n : f[i] = IF i = 1 THEN seqs[i] ELSE f[i - 1] \o seqs[i]
      BY <2>1 DEF Flattens
    <2>4. \A i \in 1..(n + 1) : g[i] = IF i = 1 THEN seqs[i] ELSE g[i - 1] \o seqs[i]
      <3>. SUFFICES ASSUME NEW i \in 1..(n + 1)
                    PROVE  g[i] = IF i = 1 THEN seqs[i] ELSE g[i - 1] \o seqs[i]
        OBVIOUS
      <3>1. CASE i = 1
        BY <3>1, <2>2, <2>3
      <3>2. CASE i \in 2..n
        <4>1. g[i] = f[i] /\ g[i - 1] = f[i - 1]
          BY <3>2, <2>2
        <4>. QED BY <4>1, <3>2, <2>2, <2>3
      <3>3. CASE i = n + 1 /\ i # 1
        <4>1. ~(n + 1 <= n) /\ n + 1 \in 1..(n + 1) /\ n \in 1..(n + 1) /\ n <= n /\ n + 1 # 1
          BY <3>3, <2>2
        <4>2. g[n + 1] = f[n] \o seqs[n + 1]
          BY <4>1
        <4>3. g[n] = f[n]
          BY <4>1
        <4>4. i = n + 1 /\ i - 1 = n
          BY <3>3, <2>2
        <4>. QED BY <4>1, <4>2, <4>3, <4>4
      <3>. QED BY <3>1, <3>2, <3>3, <2>2
    <2>5. Flattens(g, seqs, n + 1)
      <3>1. \A x : (\A i \in 1..(n + 1) : g[i] = x[i]) /\ x = [i \in 1..(n + 1) |-> x[i]] => g = x
        OBVIOUS
      <3>. QED BY <2>4 DEF Flattens
    <2>. QED BY <2>2, <2>5
  <1>3. S \in SUBSET Nat
    OBVIOUS
  <1>4. \A n \in Nat : n \in S
    <2>. HIDE DEF S
    <2>. QED BY <1>1, <1>2, <1>3, SetInduction
  <1>. QED BY <1>4

\* Of two such functions each gives the other's concatenations.
LEMMA FlattensAgree ==
  ASSUME NEW seqs, NEW n \in Nat, NEW k \in Nat, NEW f, NEW g,
         Flattens(f, seqs, n), Flattens(g, seqs, k)
  PROVE  \A i \in Nat : i \in 1..n /\ i \in 1..k => f[i] = g[i]
  <1>. DEFINE S == {j \in Nat : \A i \in 1..j : i <= n /\ i <= k => f[i] = g[i]}
  <1>1. \A i \in 1..n : f[i] = IF i = 1 THEN seqs[i] ELSE f[i - 1] \o seqs[i]
    BY DEF Flattens
  <1>2. \A i \in 1..k : g[i] = IF i = 1 THEN seqs[i] ELSE g[i - 1] \o seqs[i]
    BY DEF Flattens
  <1>3. 0 \in S
    OBVIOUS
  <1>4. ASSUME NEW j \in S PROVE j + 1 \in S
    <2>1. j \in Nat /\ \A i \in 1..j : i <= n /\ i <= k => f[i] = g[i]
      OBVIOUS
    <2>2. ASSUME j + 1 <= n, j + 1 <= k PROVE f[j + 1] = g[j + 1]
      <3>1. CASE j = 0
        BY <3>1, <1>1, <1>2, <2>2
      <3>2. CASE j # 0
        <4>1. f[j] = g[j]
          BY <2>1, <2>2, <3>2
        <4>2. f[j + 1] = f[j] \o seqs[j + 1] /\ g[j + 1] = g[j] \o seqs[j + 1]
          <5>1. j + 1 \in 1..n /\ j + 1 \in 1..k /\ j + 1 # 1 /\ (j + 1) - 1 = j
            BY <2>1, <2>2, <3>2
          <5>. QED BY <5>1, <1>1, <1>2
        <4>. QED BY <4>1, <4>2
      <3>. QED BY <3>1, <3>2
    <2>. QED BY <2>1, <2>2
  <1>5. S \in SUBSET Nat
    OBVIOUS
  <1>6. \A j \in Nat : j \in S
    <2>. HIDE DEF S
    <2>. QED BY <1>3, <1>4, <1>5, SetInduction
  <1>. QED BY <1>6

LEMMA FlattenIs ==
  ASSUME NEW seqs, Len(seqs) \in Nat \ {0}, NEW f, Flattens(f, seqs, Len(seqs))
  PROVE  FlattenSeq(seqs) = f[Len(seqs)]
  <1>. DEFINE g == CHOOSE h : Flattens(h, seqs, Len(seqs))
  <1>1. Flattens(g, seqs, Len(seqs))
    BY FlattensExist
  <1>2. FlattenSeq(seqs) = g[Len(seqs)]
    BY DEF FlattenSeq, Flattens
  <1>3. g[Len(seqs)] = f[Len(seqs)]
    <2>. HIDE DEF g
    <2>. QED BY <1>1, FlattensAgree
  <1>. QED BY <1>2, <1>3

\* A concatenation is the concatenation of all but the last, then the last.
LEMMA FlattenSplit ==
  ASSUME NEW S, NEW seqs \in Seq(Seq(S)), seqs # <<>>
  PROVE  /\ FlattenSeq(Front(seqs)) \in Seq(S)
         /\ FlattenSeq(seqs) = FlattenSeq(Front(seqs)) \o Last(seqs)
  <1>0. PICK n : n = Len(seqs)
    OBVIOUS
  <1>1. n \in Nat \ {0} /\ n - 1 \in Nat /\ \A i \in 1..n : seqs[i] \in Seq(S)
    BY <1>0
  <1>2. PICK f : Flattens(f, seqs, n)
    BY <1>1, FlattensExist
  <1>3. \A i \in 1..n : f[i] = IF i = 1 THEN seqs[i] ELSE f[i - 1] \o seqs[i]
    BY <1>2 DEF Flattens
  <1>4. FlattenSeq(seqs) = f[n]
    BY <1>0, <1>1, <1>2, FlattenIs
  <1>5. PICK front : front = Front(seqs)
    OBVIOUS
  <1>6. front \in Seq(Seq(S)) /\ Len(front) = n - 1 /\ \A i \in 1..(n - 1) : front[i] = seqs[i]
    <2>1. \A i \in 1..(n - 1) : seqs[i] \in Seq(S)
      BY <1>1
    <2>2. front = SubSeq(seqs, 1, n - 1)
      BY <1>0, <1>5 DEF Front
    <2>. QED BY <1>1, <2>1, <2>2, SubSeqProperties
  <1>7. CASE n = 1
    <2>1. front = <<>> /\ Len(front) = 0
      BY <1>6, <1>7
    <2>2. FlattenSeq(front) = <<>>
      BY <2>1 DEF FlattenSeq
    <2>3. f[1] = seqs[1] /\ seqs[1] \in Seq(S)
      BY <1>1, <1>3, <1>7
    <2>4. <<>> \in Seq(S) /\ seqs[1] = <<>> \o seqs[1]
      BY <2>3
    <2>. QED BY <1>0, <1>4, <1>5, <1>7, <2>2, <2>3, <2>4 DEF Last
  <1>8. CASE n # 1
    <2>1. PICK g : Flattens(g, front, n - 1)
      BY <1>1, FlattensExist
    <2>2. \A i \in 1..(n - 1) : g[i] = IF i = 1 THEN front[i] ELSE g[i - 1] \o front[i]
      BY <2>1 DEF Flattens
    <2>3. FlattenSeq(front) = g[n - 1]
      BY <1>1, <1>6, <1>8, <2>1, FlattenIs
    <2>. DEFINE Q == {j \in Nat : \A i \in 1..j : i <= n - 1 => g[i] = f[i] /\ g[i] \in Seq(S)}
    <2>4. 0 \in Q
      OBVIOUS
    <2>5. ASSUME NEW j \in Q PROVE j + 1 \in Q
      <3>1. j \in Nat /\ \A i \in 1..j : i <= n - 1 => g[i] = f[i] /\ g[i] \in Seq(S)
        OBVIOUS
      <3>2. ASSUME j + 1 <= n - 1 PROVE g[j + 1] = f[j + 1] /\ g[j + 1] \in Seq(S)
        <4>0. j + 1 \in 1..(n - 1) /\ j + 1 \in 1..n /\ (j + 1) - 1 = j
          BY <3>1, <3>2, <1>1
        <4>1. front[j + 1] = seqs[j + 1] /\ seqs[j + 1] \in Seq(S)
          BY <4>0, <1>1, <1>6
        <4>2. CASE j = 0
          BY <4>0, <4>1, <4>2, <1>3, <2>2
        <4>3. CASE j # 0
          <5>4. j \in 1..j /\ j <= n - 1
            BY <3>1, <3>2, <4>3, <1>1
          <5>1. g[j] = f[j] /\ g[j] \in Seq(S)
            BY <3>1, <5>4
          <5>0. j + 1 # 1
            BY <4>3, <3>1
          <5>2. g[j + 1] = g[j] \o front[j + 1] /\ f[j + 1] = f[j] \o seqs[j + 1]
            BY <4>0, <5>0, <1>3, <2>2
          <5>3. g[j] \o seqs[j + 1] \in Seq(S)
            BY <5>1, <4>1
          <5>. QED BY <5>1, <5>2, <5>3, <4>1
        <4>. QED BY <4>2, <4>3
      <3>. QED BY <3>1, <3>2
    <2>6. Q \in SUBSET Nat
      OBVIOUS
    <2>7. n - 1 \in Q
      <3>1. \A j \in Nat : j \in Q
        <4>. HIDE DEF Q
        <4>. QED BY <2>4, <2>5, <2>6, SetInduction
      <3>2. n - 1 \in Nat
        BY <1>1
      <3>. HIDE DEF Q
      <3>. QED BY <3>1, <3>2
    <2>8. g[n - 1] = f[n - 1] /\ g[n - 1] \in Seq(S)
      BY <2>7, <1>1, <1>8
    <2>9. f[n] = f[n - 1] \o seqs[n]
      <3>1. n \in 1..n /\ n # 1
        BY <1>1, <1>8
      <3>. QED BY <3>1, <1>3
    <2>. QED BY <1>0, <1>4, <1>5, <2>3, <2>8, <2>9 DEF Last
  <1>. QED BY <1>7, <1>8
-----------------------------------------------------------------------------
(* Lines and the chain they make up.                                         *)

Line == Record \cup {Torn}
Contents == [Index -> Seq(Line)]

\* A file's lines without a torn one at their end.
Clean(l) == IF l # <<>> /\ Last(l) = Torn THEN Front(l) ELSE l

\* The lines of the segments that are sealed.
SealedLines(m, ls) == ChainedLines(Front(m), ls)

HeadOf(s) == IF s = <<>> THEN GENESIS ELSE HashOf(Last(s))

LEMMA TornIsNoRecord == Torn \notin Record
  <1>1. \A r \in Record : "seq" \in DOMAIN r
    BY DEF Record
  <1>2. "seq" \notin DOMAIN Torn
    BY DEF Torn
  <1>. QED BY <1>1, <1>2

LEMMA FrontLast ==
  ASSUME NEW S, NEW s \in Seq(S), s # <<>>
  PROVE  /\ Len(s) \in Nat \ {0} /\ Last(s) \in S /\ Last(s) = s[Len(s)]
         /\ Front(s) \in Seq(S) /\ Len(Front(s)) = Len(s) - 1
         /\ \A i \in 1..(Len(s) - 1) : Front(s)[i] = s[i]
  <1>1. Len(s) \in Nat \ {0} /\ \A i \in 1..Len(s) : s[i] \in S
    OBVIOUS
  <1>2. \A i \in 1..(Len(s) - 1) : s[i] \in S
    BY <1>1
  <1>3. Front(s) = SubSeq(s, 1, Len(s) - 1)
    BY DEF Front
  <1>4. Len(s) - 1 \in Nat
    BY <1>1
  <1>5. /\ Front(s) \in Seq(S) /\ Len(Front(s)) = Len(s) - 1
        /\ \A i \in 1..(Len(s) - 1) : Front(s)[i] = s[i]
    <2>1. PICK k : k = Len(s) - 1
      OBVIOUS
    <2>2. k \in Nat /\ \A i \in 1..k : s[i] \in S
      BY <1>2, <1>4, <2>1
    <2>3. /\ SubSeq(s, 1, k) \in Seq(S) /\ Len(SubSeq(s, 1, k)) = k
          /\ \A i \in 1..k : SubSeq(s, 1, k)[i] = s[i]
      BY <2>2, SubSeqProperties
    <2>. QED BY <1>3, <2>1, <2>3
  <1>. QED BY <1>1, <1>5 DEF Last

\* A file's lines are its records, then possibly a torn line.
LEMMA CleanLines ==
  ASSUME NEW l \in Seq(Line), Clean(l) \in Seq(Record)
  PROVE  /\ Len(l) \in Nat /\ Len(Clean(l)) \in Nat
         /\ \A i \in 1..Len(Clean(l)) : l[i] = Clean(l)[i]
         /\ \/ Clean(l) = l
            \/ Len(l) = Len(Clean(l)) + 1 /\ l # <<>> /\ Last(l) = Torn
  <1>1. CASE l # <<>> /\ Last(l) = Torn
    <2>1. Clean(l) = Front(l)
      BY <1>1 DEF Clean
    <2>. QED BY <1>1, <2>1, FrontLast
  <1>2. CASE ~(l # <<>> /\ Last(l) = Torn)
    <2>1. Clean(l) = l
      BY <1>2 DEF Clean
    <2>. QED BY <2>1
  <1>. QED BY <1>1, <1>2

LEMMA CleanRecords ==
  ASSUME NEW l \in Seq(Record)
  PROVE  l \in Seq(Line) /\ Clean(l) = l
  <1>1. l \in Seq(Line)
    BY DEF Line
  <1>2. l # <<>> => Last(l) \in Record
    BY FrontLast
  <1>. QED BY <1>1, <1>2, TornIsNoRecord DEF Clean

LEMMA CleanTorn ==
  ASSUME NEW l \in Seq(Record)
  PROVE  Append(l, Torn) \in Seq(Line) /\ Append(l, Torn) # <<>> /\ Clean(Append(l, Torn)) = l
  <1>1. l \in Seq(Line) /\ Torn \in Line
    BY DEF Line
  <1>2. PICK t : t = Append(l, Torn)
    OBVIOUS
  <1>3. /\ t \in Seq(Line) /\ t # <<>> /\ Len(t) = Len(l) + 1 /\ t[Len(l) + 1] = Torn
        /\ \A i \in 1..Len(l) : t[i] = l[i]
    BY <1>1, <1>2, AppendProperties
  <1>4. Clean(t) = Front(t)
    BY <1>3 DEF Clean, Last
  <1>5. Front(t) \in Seq(Line) /\ Len(Front(t)) = Len(l) /\ \A i \in 1..Len(l) : Front(t)[i] = l[i]
    BY <1>3, FrontLast
  <1>6. Front(t) = l
    BY <1>1, <1>5, SeqEqual
  <1>. QED BY <1>2, <1>3, <1>4, <1>6

\* A manifest's files, in its order.
Files(m, ls) == [i \in 1..Len(m) |-> ls[m[i].file]]

LEMMA FilesType ==
  ASSUME NEW m \in Seq(SegmentMeta), NEW ls \in Contents
  PROVE  /\ Files(m, ls) \in Seq(Seq(Line)) /\ Len(Files(m, ls)) = Len(m)
         /\ \A i \in 1..Len(m) : /\ Files(m, ls)[i] = ls[m[i].file]
                                 /\ m[i].file \in Index /\ ls[m[i].file] \in Seq(Line)
         /\ ChainedLines(m, ls) = FlattenSeq(Files(m, ls))
  <1>1. \A i \in 1..Len(m) : m[i].file \in Index /\ ls[m[i].file] \in Seq(Line)
    <2>1. \A i \in 1..Len(m) : m[i] \in SegmentMeta
      OBVIOUS
    <2>2. \A i \in 1..Len(m) : m[i].file \in Index
      BY <2>1 DEF SegmentMeta
    <2>. QED BY <2>2 DEF Contents
  <1>2. Len(m) \in Nat
    OBVIOUS
  <1>3. Files(m, ls) \in [1..Len(m) -> Seq(Line)]
    BY <1>1 DEF Files
  <1>4. Files(m, ls) \in Seq(Seq(Line)) /\ Len(Files(m, ls)) = Len(m)
    BY <1>2, <1>3
  <1>5. \A i \in 1..Len(m) : Files(m, ls)[i] = ls[m[i].file]
    BY DEF Files
  <1>6. ChainedLines(m, ls) = FlattenSeq(Files(m, ls))
    BY DEF ChainedLines, Files
  <1>. QED BY <1>1, <1>4, <1>5, <1>6

LEMMA ChainDepends ==
  ASSUME NEW m, NEW n, NEW ls, NEW ks, Len(m) = Len(n),
         \A i \in 1..Len(m) : ls[m[i].file] = ks[n[i].file]
  PROVE  ChainedLines(m, ls) = ChainedLines(n, ks)
  <1>1. Files(m, ls) = Files(n, ks)
    BY DEF Files
  <1>. QED BY <1>1 DEF ChainedLines, Files

\* The chain: the sealed segments' lines, then the active one's.
LEMMA ChainSplit ==
  ASSUME NEW m \in Seq(SegmentMeta), m # <<>>, NEW ls \in Contents
  PROVE  /\ SealedLines(m, ls) \in Seq(Line) /\ ls[Last(m).file] \in Seq(Line)
         /\ ChainedLines(m, ls) = SealedLines(m, ls) \o ls[Last(m).file]
  <1>1. PICK fs : fs = Files(m, ls)
    OBVIOUS
  <1>2. PICK front : front = Front(m)
    OBVIOUS
  <1>3. /\ fs \in Seq(Seq(Line)) /\ Len(fs) = Len(m) /\ Len(m) \in Nat \ {0}
        /\ \A i \in 1..Len(m) : fs[i] = ls[m[i].file] /\ fs[i] \in Seq(Line)
    BY <1>1, FilesType
  <1>4. /\ front \in Seq(SegmentMeta) /\ Len(front) = Len(m) - 1
        /\ \A i \in 1..(Len(m) - 1) : front[i] = m[i]
    BY <1>2, FrontLast
  <1>5. fs # <<>>
    BY <1>3
  <1>6. /\ Front(fs) \in Seq(Seq(Line)) /\ Len(Front(fs)) = Len(m) - 1
        /\ \A i \in 1..(Len(m) - 1) : Front(fs)[i] = fs[i]
    BY <1>3, <1>5, FrontLast
  <1>7. /\ Files(front, ls) \in Seq(Seq(Line)) /\ Len(Files(front, ls)) = Len(m) - 1
        /\ \A i \in 1..(Len(m) - 1) : Files(front, ls)[i] = ls[m[i].file]
    <2>1. Len(front) = Len(m) - 1 /\ front \in Seq(SegmentMeta)
      BY <1>4
    <2>2. /\ Files(front, ls) \in Seq(Seq(Line)) /\ Len(Files(front, ls)) = Len(front)
          /\ \A i \in 1..Len(front) : Files(front, ls)[i] = ls[front[i].file]
      BY <2>1, FilesType
    <2>. QED BY <1>4, <2>2
  <1>8. Front(fs) = Files(front, ls)
    <2>1. \A i \in 1..(Len(m) - 1) : i \in 1..Len(m)
      BY <1>3
    <2>2. \A i \in 1..Len(Front(fs)) : Front(fs)[i] = Files(front, ls)[i]
      BY <1>3, <1>6, <1>7, <2>1
    <2>. QED BY <1>6, <1>7, <2>2, SeqEqual
  <1>9. FlattenSeq(Front(fs)) \in Seq(Line) /\ FlattenSeq(fs) = FlattenSeq(Front(fs)) \o Last(fs)
    BY <1>3, <1>5, FlattenSplit
  <1>10. ChainedLines(m, ls) = FlattenSeq(fs) /\ ChainedLines(front, ls) = FlattenSeq(Files(front, ls))
    BY <1>1, <1>4, FilesType
  <1>11. Last(fs) = ls[Last(m).file] /\ ls[Last(m).file] \in Seq(Line)
    BY <1>3 DEF Last
  <1>. QED BY <1>2, <1>8, <1>9, <1>10, <1>11 DEF SealedLines

\* The sealed segments of one manifest have the lines that the other's have.
SameSealed(m, ls, n, ks) ==
    Len(m) = Len(n) /\ \A i \in 1..(Len(m) - 1) : ls[m[i].file] = ks[n[i].file]

LEMMA SealedDepends ==
  ASSUME NEW m \in Seq(SegmentMeta), m # <<>>, NEW n \in Seq(SegmentMeta), n # <<>>,
         NEW ls, NEW ks, SameSealed(m, ls, n, ks)
  PROVE  SealedLines(m, ls) = SealedLines(n, ks)
  <1>1. PICK p, q : p = Front(m) /\ q = Front(n)
    OBVIOUS
  <1>2. /\ Len(p) = Len(m) - 1 /\ Len(q) = Len(m) - 1
        /\ \A i \in 1..(Len(m) - 1) : p[i] = m[i] /\ q[i] = n[i]
    BY <1>1, FrontLast DEF SameSealed
  <1>3. ChainedLines(p, ls) = ChainedLines(q, ks)
    BY <1>2, ChainDepends DEF SameSealed
  <1>. QED BY <1>1, <1>3 DEF SealedLines

\* What prefix_lines reads of a chain whose sealed segments hold records.
LEMMA PrefixIs ==
  ASSUME NEW m \in Seq(SegmentMeta), m # <<>>, NEW ls \in Contents,
         SealedLines(m, ls) \in Seq(Record), Clean(ls[Last(m).file]) \in Seq(Record)
  PROVE  /\ PrefixLines(m, ls) = SealedLines(m, ls) \o Clean(ls[Last(m).file])
         /\ Len(ChainedLines(m, ls)) = Len(SealedLines(m, ls)) + Len(ls[Last(m).file])
         /\ Len(PrefixLines(m, ls)) = Len(SealedLines(m, ls)) + Len(Clean(ls[Last(m).file]))
         /\ PrefixLines(m, ls) \in Seq(Record)
  <1>1. PICK p, a, all : p = SealedLines(m, ls) /\ a = ls[Last(m).file] /\ all = ChainedLines(m, ls)
    OBVIOUS
  <1>2. p \in Seq(Record) /\ p \in Seq(Line) /\ a \in Seq(Line) /\ all = p \o a
    BY <1>1, ChainSplit
  <1>3. /\ all \in Seq(Line) /\ Len(all) = Len(p) + Len(a)
        /\ \A i \in 1..(Len(p) + Len(a)) : all[i] = IF i <= Len(p) THEN p[i] ELSE a[i - Len(p)]
    BY <1>2, ConcatProperties
  <1>4. Len(p) \in Nat /\ Len(a) \in Nat
    BY <1>2
  <1>5. PICK c : c = Clean(a)
    OBVIOUS
  <1>6. c \in Seq(Record) /\ Len(c) \in Nat
    BY <1>1, <1>5
  <1>7. /\ p \o c \in Seq(Record) /\ Len(p \o c) = Len(p) + Len(c)
        /\ \A i \in 1..(Len(p) + Len(c)) : (p \o c)[i] = IF i <= Len(p) THEN p[i] ELSE c[i - Len(p)]
    BY <1>2, <1>6, ConcatProperties
  <1>8. PrefixLines(m, ls) = p \o c
    <2>1. CASE a # <<>> /\ Last(a) = Torn
      <3>1. c = Front(a) /\ Len(a) \in Nat \ {0} /\ Len(c) = Len(a) - 1 /\ \A i \in 1..(Len(a) - 1) : c[i] = a[i]
        BY <1>2, <1>5, <2>1, FrontLast DEF Clean
      <3>2. all # <<>> /\ Len(all) \in 1..(Len(p) + Len(a)) /\ Len(all) - Len(p) = Len(a) /\ ~(Len(all) <= Len(p))
        BY <1>3, <1>4, <3>1
      <3>3. Last(all) = Torn
        BY <1>3, <2>1, <3>2 DEF Last
      <3>4. /\ Front(all) \in Seq(Line) /\ Len(Front(all)) = Len(all) - 1
            /\ \A i \in 1..(Len(all) - 1) : Front(all)[i] = all[i]
        BY <1>3, <3>2, FrontLast
      <3>5. PICK f : f = Front(all)
        OBVIOUS
      <3>6. PICK pc : pc = p \o c
        OBVIOUS
      <3>7. pc \in Seq(Line)
        <4>1. pc \in Seq(Record)
          BY <1>7, <3>6
        <4>. QED BY <4>1 DEF Line
      <3>8. Len(f) = Len(pc)
        <4>1. Len(f) = (Len(p) + Len(a)) - 1
          BY <1>3, <3>4, <3>5
        <4>2. Len(pc) = Len(p) + (Len(a) - 1)
          BY <1>7, <3>1, <3>6
        <4>. QED BY <4>1, <4>2, <1>4
      <3>9. ASSUME NEW i \in 1..Len(f) PROVE f[i] = pc[i]
        <4>1. i \in 1..(Len(all) - 1) /\ i \in 1..(Len(p) + Len(a)) /\ i \in 1..(Len(p) + Len(c))
          BY <1>3, <1>4, <3>1, <3>4, <3>5
        <4>2. f[i] = IF i <= Len(p) THEN p[i] ELSE a[i - Len(p)]
          BY <4>1, <1>3, <3>4, <3>5
        <4>3. pc[i] = IF i <= Len(p) THEN p[i] ELSE c[i - Len(p)]
          BY <4>1, <1>7, <3>6
        <4>4. ~(i <= Len(p)) => i - Len(p) \in 1..(Len(a) - 1)
          BY <4>1, <1>4, <3>1
        <4>. QED BY <4>2, <4>3, <4>4, <3>1
      <3>10. f = pc
        <4>1. f \in Seq(Line)
          BY <3>4, <3>5
        <4>. QED BY <4>1, <3>7, <3>8, <3>9, SeqEqual
      <3>11. PrefixLines(m, ls) = Front(all)
        BY <1>1, <2>1, <3>2, <3>3 DEF PrefixLines
      <3>. QED BY <3>5, <3>6, <3>10, <3>11
    <2>2. CASE ~(a # <<>> /\ Last(a) = Torn)
      <3>1. c = a
        BY <1>5, <2>2 DEF Clean
      <3>2. ~(all # <<>> /\ Last(all) = Torn /\ Last(a) = Torn)
        <4>1. CASE a # <<>>
          BY <4>1, <2>2
        <4>2. CASE a = <<>> /\ all # <<>>
          <5>1. Len(a) = 0 /\ Len(all) = Len(p) /\ Len(p) # 0
            BY <4>2, <1>3, <1>4
          <5>2. Len(p) \in 1..Len(p) /\ p[Len(p)] \in Record
            BY <5>1, <1>2, <1>4
          <5>3. Last(all) = p[Len(p)]
            BY <5>1, <5>2, <1>3, <1>4 DEF Last
          <5>. QED BY <5>2, <5>3, TornIsNoRecord
        <4>. QED BY <4>1, <4>2
      <3>3. PrefixLines(m, ls) = all
        BY <1>1, <3>2 DEF PrefixLines
      <3>. QED BY <1>2, <3>1, <3>3
    <2>. QED BY <2>1, <2>2
  <1>. QED BY <1>1, <1>3, <1>5, <1>7, <1>8

-----------------------------------------------------------------------------
(* Chains of records.                                                        *)

LEMMA PrefixVerifies ==
  ASSUME NEW s \in Seq(Record), NEW n \in 0..Len(s), VerifyLines(s)
  PROVE  /\ SubSeq(s, 1, n) \in Seq(Record) /\ Len(SubSeq(s, 1, n)) = n
         /\ VerifyLines(SubSeq(s, 1, n))
  <1>1. PICK t : t = SubSeq(s, 1, n)
    OBVIOUS
  <1>2. t \in Seq(Record) /\ Len(t) = n /\ \A i \in 1..n : t[i] = s[i]
    <2>1. \A i \in 1..n : s[i] \in Record
      OBVIOUS
    <2>. QED BY <1>1, <2>1, SubSeqProperties
  <1>3. \A i \in 1..n : i \in 1..Len(s) /\ (i # 1 => i - 1 \in 1..n)
    OBVIOUS
  <1>4. VerifyLines(t)
    BY <1>2, <1>3 DEF VerifyLines
  <1>. QED BY <1>1, <1>2, <1>4

LEMMA AppendVerifies ==
  ASSUME NEW s \in Seq(Record), VerifyLines(s), NEW r \in Record,
         r.seq = Len(s), r.prev = HeadOf(s)
  PROVE  /\ Append(s, r) \in Seq(Record) /\ Len(Append(s, r)) = Len(s) + 1
         /\ SubSeq(Append(s, r), 1, Len(s)) = s
         /\ VerifyLines(Append(s, r)) /\ HeadOf(Append(s, r)) = HashOf(r)
  <1>1. PICK t : t = Append(s, r)
    OBVIOUS
  <1>2. /\ t \in Seq(Record) /\ Len(t) = Len(s) + 1 /\ t # <<>> /\ Len(s) \in Nat
        /\ t[Len(s) + 1] = r /\ \A i \in 1..Len(s) : t[i] = s[i]
    BY <1>1, AppendProperties
  <1>3. HeadOf(t) = HashOf(r)
    BY <1>2 DEF HeadOf, Last
  <1>4. ASSUME NEW i \in 1..Len(t)
        PROVE  /\ t[i] # Torn /\ t[i].seq = i - 1
               /\ t[i].prev = IF i = 1 THEN GENESIS ELSE HashOf(t[i - 1])
    <2>1. t[i] # Torn
      BY <1>2, TornIsNoRecord
    <2>2. CASE i \in 1..Len(s)
      BY <1>2, <2>1, <2>2 DEF VerifyLines
    <2>3. CASE i = Len(s) + 1 /\ Len(s) = 0
      BY <1>2, <2>1, <2>3 DEF HeadOf
    <2>4. CASE i = Len(s) + 1 /\ Len(s) # 0
      <3>1. s # <<>> /\ Len(s) \in 1..Len(s) /\ t[i - 1] = s[Len(s)]
        BY <1>2, <2>4
      <3>2. r.prev = HashOf(s[Len(s)])
        BY <3>1 DEF HeadOf, Last
      <3>. QED BY <1>2, <2>1, <2>4, <3>1, <3>2
    <2>. QED BY <1>2, <2>2, <2>3, <2>4
  <1>5. VerifyLines(t)
    BY <1>4 DEF VerifyLines
  <1>6. SubSeq(t, 1, Len(s)) = s
    <2>1. \A i \in 1..Len(s) : t[i] \in Record
      BY <1>2
    <2>2. /\ SubSeq(t, 1, Len(s)) \in Seq(Record) /\ Len(SubSeq(t, 1, Len(s))) = Len(s)
          /\ \A i \in 1..Len(s) : SubSeq(t, 1, Len(s))[i] = t[i]
      BY <1>2, <2>1, SubSeqProperties
    <2>. QED BY <1>2, <2>2, SeqEqual
  <1>. QED BY <1>1, <1>2, <1>3, <1>5, <1>6

-----------------------------------------------------------------------------
(* The inductive invariant.                                                  *)

\* The hypothesis of the theorems: no loss of power undoes a rename that a reopen
\* has built on.  Kills, failing syncs and losses of power come in any order.
NoUndo == \A f \in Environments : "undo" \notin f

Names(m, i) == \E j \in 1..Len(m) : m[j].file = i

\* A manifest fits the files there are and their lines: the last segment starts
\* where the sealed ones' records end.
Fits(m, files, ls) ==
    /\ m \in Seq(SegmentMeta) /\ ManifestShaped(m) /\ Last(m).end_seq = {}
    /\ \A i \in 1..Len(m) : m[i].file \in files
    /\ \A i, j \in 1..Len(m) : m[i].file = m[j].file => i = j
    /\ SealedLines(m, ls) \in Seq(Record)
    /\ Len(SealedLines(m, ls)) = Last(m).start_seq
    /\ Clean(ls[Last(m).file]) \in Seq(Record)

Typed ==
    /\ dir \in Directory /\ dirs \in SUBSET Directory /\ dir \in dirs
    /\ \A m, n \in dir.manifest : m = n
    /\ lines \in Contents
    /\ kept \in [Index -> Nat] /\ \A i \in Index : kept[i] <= Len(lines[i])
    /\ handle \in Handle /\ call \in Call /\ promised \in Nat /\ faults \in Environments

DiskInv ==
    /\ \A m \in dir.manifest : Fits(m, dir.files, lines)
    /\ \A i \in Index : lines[i] # <<>> => \E m \in dir.manifest : Names(m, i)
    /\ VerifyLines(Stored) /\ Len(Stored) <= MaxRecords
    /\ promised <= Len(Stored)

\* The handle's manifest is the disk's, but for the opened_ms of a rebase whose
\* directory sync failed.
Alike(m, h) ==
    /\ m \in Seq(SegmentMeta) /\ h \in Seq(SegmentMeta) /\ Len(m) = Len(h) /\ h # <<>>
    /\ \A i \in 1..Len(h) : /\ m[i].file = h[i].file /\ m[i].start_seq = h[i].start_seq
                            /\ m[i].end_seq = h[i].end_seq
    /\ "dirsync" \notin faults => m = h

Rolling == {"create", "flush", "commit", "reopen"}
Appending == Rolling \cup {"rebase", "write"}

\* append has written its line and not advanced the head.
Unadvanced == call.pc = "finish" /\ ~call.all /\ handle.sync

HandleInv ==
    handle.open /\ ~handle.failed =>
        \E m : /\ dir.manifest = {m}
               /\ handle.manifest # <<>> /\ handle.active = Last(handle.manifest).file
               /\ IF call.pc = "reopen" THEN m = Rolled ELSE Alike(m, handle.manifest)
               /\ lines[Last(m).file] \in Seq(Record)
               /\ IF Unadvanced THEN Stored # <<>> /\ Last(Stored) = NewRecord /\ Len(Stored) = handle.next_seq + 1
                  ELSE Len(Stored) = handle.next_seq /\ handle.last_hash = HeadOf(Stored)

CallInv ==
    /\ ~handle.open => call.pc \in {"idle", "initialize"}
    /\ call.pc = "initialize" => ~handle.open /\ dir.manifest = {} /\ 1 \in dir.files
    /\ call.pc \in Appending =>
         /\ ~handle.failed /\ call.ts \in Time
         /\ handle.next_seq + call.left + 1 <= MaxRecords /\ (~call.all => call.left = 0)
    /\ call.pc = "next" => handle.next_seq + call.left <= MaxRecords /\ (~call.all => call.left = 1)
    /\ call.pc = "finish" /\ ~call.all => ~handle.failed /\ call.ts \in Time
    /\ call.pc \in Rolling => Last(handle.manifest).start_seq # handle.next_seq
    /\ call.pc \in Rolling \ {"create"} =>
         /\ call.index \in dir.files
         /\ ~Names(handle.manifest, call.index)
         /\ lines[call.index] = <<>>
    /\ call.pc = "commit" => kept[handle.active] = Len(lines[handle.active])
    /\ call.pc = "rebase" => lines[handle.active] = <<>>
    /\ call.pc = "write" =>
         /\ Len(lines[handle.active]) < MaxBytes
         /\ "dirsync" \notin faults =>
              Last(handle.manifest).opened_ms \div Epoch = call.ts \div Epoch
    /\ handle.next_seq <= MaxRecords

\* A segment's records, of which epoch e is if it is the last.
Policed(c, last, e) ==
    /\ c \in Seq(Record) /\ Len(c) <= MaxBytes /\ (~last => c # <<>>)
    /\ "dirsync" \notin faults =>
         /\ \A j, k \in 1..Len(c) : c[j].ts \div Epoch = c[k].ts \div Epoch
         /\ last => \A k \in 1..Len(c) : c[k].ts \div Epoch = e \div Epoch

PolicyInv ==
    \A m \in dir.manifest : \A i \in 1..Len(m) :
        Policed(Clean(lines[m[i].file]), i = Len(m), m[i].opened_ms)

\* Another manifest of the same segments.
SameSegments(n, m) ==
    /\ Len(n) = Len(m)
    /\ \A i \in 1..Len(m) : /\ n[i].file = m[i].file /\ n[i].start_seq = m[i].start_seq
                            /\ n[i].end_seq = m[i].end_seq

\* The segments of a manifest, with these lines.
AllPoliced(m, ls) == \A i \in 1..Len(m) : Policed(Clean(ls[m[i].file]), i = Len(m), m[i].opened_ms)

\* The records of a manifest, if there is one.
StoredOf(manifests, ls) ==
    IF manifests = {} THEN <<>> ELSE PrefixLines(CHOOSE m \in manifests : TRUE, ls)

\* While a handle writes, a directory that may come back has the segments of the
\* one that is there.
Bound(d) ==
    handle.open /\ ~handle.failed =>
        \A m \in dir.manifest : \E n \in Seq(SegmentMeta) :
            d.manifest = {n} /\ SameSegments(n, m) /\ ("dirsync" \notin faults => n = m)

\* The ledger can go on from such a directory: its manifest gives the records of
\* the one that is there, and keeps as much of them.
Undone(d) ==
    /\ \A m, n \in d.manifest : m = n
    /\ StoredOf(d.manifest, lines) = Stored
    /\ \A i \in Index : lines[i] # <<>> => \E n \in d.manifest : Names(n, i)
    /\ \A n \in d.manifest :
         /\ Fits(n, d.files, lines) /\ AllPoliced(n, lines)
         /\ \A i \in 1..(Len(n) - 1) : kept[n[i].file] = Len(lines[n[i].file])
         /\ promised <= Last(n).start_seq + kept[Last(n).file]
    /\ Bound(d)

\* What a loss of power may take: nothing of a sealed segment, and nothing that
\* is promised, whichever of the renames it undoes.
PowerInv ==
    "power" \in faults =>
        /\ \A d \in dirs : Undone(d)
        /\ \A m \in dir.manifest :
             /\ \A i \in 1..(Len(m) - 1) : kept[m[i].file] = Len(lines[m[i].file])
             /\ promised <= Last(m).start_seq + kept[Last(m).file]

SegmentsInv == Typed /\ DiskInv /\ HandleInv /\ CallInv /\ PolicyInv /\ PowerInv

-----------------------------------------------------------------------------
(* What the ledger holds.                                                    *)

LEMMA StoredOfOne ==
  ASSUME NEW m, NEW ls
  PROVE  StoredOf({m}, ls) = PrefixLines(m, ls)
  <1>1. (CHOOSE x \in {m} : TRUE) = m
    OBVIOUS
  <1>2. {m} # {}
    OBVIOUS
  <1>. QED BY <1>1, <1>2 DEF StoredOf

LEMMA FitsType ==
  ASSUME NEW m, NEW files, NEW ls, Fits(m, files, ls)
  PROVE  /\ m \in Seq(SegmentMeta) /\ m # <<>> /\ Len(m) \in Nat \ {0} /\ Len(m) \in 1..Len(m)
         /\ Last(m) = m[Len(m)] /\ Last(m) \in SegmentMeta
         /\ Last(m).file \in Index /\ Last(m).file \in files /\ Last(m).start_seq \in Nat
         /\ Last(m).opened_ms \in Nat
         /\ \A i \in 1..Len(m) : m[i] \in SegmentMeta /\ m[i].file \in Index
  <1>1. m \in Seq(SegmentMeta) /\ m # <<>>
    BY DEF Fits, ManifestShaped
  <1>2. /\ Len(m) \in Nat \ {0} /\ Len(m) \in 1..Len(m)
        /\ \A i \in 1..Len(m) : m[i] \in SegmentMeta
    BY <1>1
  <1>3. Last(m) = m[Len(m)] /\ Last(m) \in SegmentMeta
    BY <1>2 DEF Last
  <1>4. Last(m).file \in files
    BY <1>2, <1>3 DEF Fits
  <1>. QED BY <1>1, <1>2, <1>3, <1>4 DEF SegmentMeta

\* The records a manifest that fits gives: the sealed segments', then the active
\* one's.
LEMMA FitsStored ==
  ASSUME NEW m, NEW files, NEW ls \in Contents, Fits(m, files, ls)
  PROVE  /\ StoredOf({m}, ls) = SealedLines(m, ls) \o Clean(ls[Last(m).file])
         /\ StoredOf({m}, ls) \in Seq(Record) /\ PrefixLines(m, ls) = StoredOf({m}, ls)
         /\ Len(StoredOf({m}, ls)) = Last(m).start_seq + Len(Clean(ls[Last(m).file]))
         /\ Len(ChainedLines(m, ls)) = Last(m).start_seq + Len(ls[Last(m).file])
  <1>1. m \in Seq(SegmentMeta) /\ m # <<>>
    BY FitsType
  <1>2. SealedLines(m, ls) \in Seq(Record) /\ Clean(ls[Last(m).file]) \in Seq(Record)
    BY DEF Fits
  <1>3. Len(SealedLines(m, ls)) = Last(m).start_seq
    BY DEF Fits
  <1>. QED BY <1>1, <1>2, <1>3, PrefixIs, StoredOfOne

\* Other lines of the active segment, and other files: what is sealed stays.
LEMMA ActiveChanged ==
  ASSUME NEW m, NEW files, NEW ls \in Contents, Fits(m, files, ls),
         NEW ks \in Contents, NEW fs,
         \A i \in 1..(Len(m) - 1) : ks[m[i].file] = ls[m[i].file],
         Clean(ks[Last(m).file]) \in Seq(Record),
         \A i \in 1..Len(m) : m[i].file \in fs
  PROVE  Fits(m, fs, ks) /\ SealedLines(m, ks) = SealedLines(m, ls)
  <1>1. m \in Seq(SegmentMeta) /\ m # <<>>
    BY FitsType
  <1>2. SealedLines(m, ks) = SealedLines(m, ls)
    <2>1. SameSealed(m, ks, m, ls)
      BY DEF SameSealed
    <2>. QED BY <1>1, <2>1, SealedDepends
  <1>. QED BY <1>2 DEF Fits

LEMMA LikeFits ==
  ASSUME NEW m, NEW files, NEW ls \in Contents, Fits(m, files, ls),
         NEW n \in Seq(SegmentMeta), SameSegments(n, m)
  PROVE  /\ Fits(n, files, ls) /\ StoredOf({n}, ls) = StoredOf({m}, ls)
         /\ Last(n).file = Last(m).file /\ Last(n).start_seq = Last(m).start_seq
  <1>1. m \in Seq(SegmentMeta) /\ m # <<>> /\ Len(m) \in Nat \ {0}
    BY FitsType
  <1>0. /\ Len(n) = Len(m)
        /\ \A i \in 1..Len(m) : /\ n[i].file = m[i].file /\ n[i].start_seq = m[i].start_seq
                                /\ n[i].end_seq = m[i].end_seq
    BY DEF SameSegments
  <1>2. n # <<>> /\ 1 \in 1..Len(m) /\ Len(m) \in 1..Len(m)
    BY <1>0, <1>1
  <1>3. \A i \in 1..(Len(n) - 1) : i \in 1..Len(m) /\ i + 1 \in 1..Len(m)
    BY <1>0, <1>1
  <1>4. SealedLines(n, ls) = SealedLines(m, ls)
    <2>1. SameSealed(n, ls, m, ls)
      BY <1>0, <1>3 DEF SameSealed
    <2>. QED BY <1>1, <1>2, <2>1, SealedDepends
  <1>5. /\ Last(n).file = Last(m).file /\ Last(n).start_seq = Last(m).start_seq
        /\ Last(n).end_seq = Last(m).end_seq
    BY <1>0, <1>2 DEF Last
  <1>6. ManifestShaped(m) /\ Last(m).end_seq = {}
    BY DEF Fits
  <1>7. ManifestShaped(n)
    BY <1>0, <1>1, <1>2, <1>3, <1>6 DEF ManifestShaped
  <1>8. Fits(n, files, ls)
    BY <1>0, <1>4, <1>5, <1>6, <1>7 DEF Fits
  <1>9. StoredOf({n}, ls) = StoredOf({m}, ls)
    BY <1>4, <1>5, <1>8, FitsStored
  <1>. QED BY <1>5, <1>8, <1>9

\* A first segment without lines.
LEMMA OneFits ==
  ASSUME NEW ls \in Contents, NEW files, 1 \in files, ls[1] = <<>>
  PROVE  LET m == <<[file |-> 1, start_seq |-> 0, end_seq |-> {}, opened_ms |-> 0]>> IN
         Fits(m, files, ls) /\ StoredOf({m}, ls) = <<>> /\ m \in Seq(SegmentMeta)
           /\ Last(m).file = 1 /\ Last(m).start_seq = 0 /\ Len(m) = 1 /\ m[1].file = 1
  <1>. DEFINE s == [file |-> 1, start_seq |-> 0, end_seq |-> {}, opened_ms |-> 0]
  <1>1. s \in SegmentMeta
    <2>1. 1 \in Index
      BY SegmentsAssumption DEF Index
    <2>2. {} \in SUBSET Nat
      OBVIOUS
    <2>. QED BY <2>1, <2>2 DEF SegmentMeta
  <1>2. PICK m : m = <<s>>
    OBVIOUS
  <1>3. s.file = 1 /\ s.start_seq = 0 /\ s.end_seq = {}
    OBVIOUS
  <1>. HIDE DEF s
  <1>4. m \in Seq(SegmentMeta) /\ Len(m) = 1 /\ m[1] = s /\ m # <<>>
    BY <1>1, <1>2
  <1>5. Last(m) = s
    BY <1>4 DEF Last
  <1>6. PICK front : front = Front(m)
    OBVIOUS
  <1>7. front \in Seq(SegmentMeta) /\ Len(front) = 0
    BY <1>4, <1>6, FrontLast
  <1>8. Files(front, ls) \in Seq(Seq(Line)) /\ Len(Files(front, ls)) = 0
        /\ ChainedLines(front, ls) = FlattenSeq(Files(front, ls))
    BY <1>7, FilesType
  <1>9. Files(front, ls) = <<>>
    BY <1>8
  <1>10. FlattenSeq(Files(front, ls)) = <<>>
    BY <1>8, <1>9 DEF FlattenSeq
  <1>11. SealedLines(m, ls) = <<>>
    BY <1>6, <1>8, <1>10 DEF SealedLines
  <1>12. <<>> \in Seq(Record) /\ Len(<<>>) = 0 /\ Clean(<<>>) = <<>> /\ <<>> \o <<>> = <<>>
    <2>1. <<>> \in Seq(Record) /\ Len(<<>>) = 0
      OBVIOUS
    <2>2. Clean(<<>>) = <<>>
      BY DEF Clean
    <2>3. <<>> \o <<>> = <<>>
      BY <2>1, ConcatEmptySeq
    <2>. QED BY <2>1, <2>2, <2>3
  <1>13. ManifestShaped(m)
    BY <1>3, <1>4 DEF ManifestShaped
  <1>14. Fits(m, files, ls)
    <2>1. /\ \A i \in 1..Len(m) : m[i].file \in files
          /\ \A i, j \in 1..Len(m) : m[i].file = m[j].file => i = j
      <3>1. \A i \in 1..Len(m) : i = 1
        BY <1>4
      <3>. QED BY <1>3, <1>4, <3>1
    <2>2. SealedLines(m, ls) \in Seq(Record) /\ Len(SealedLines(m, ls)) = Last(m).start_seq
      <3>1. Last(m).start_seq = 0
        BY <1>3, <1>5
      <3>. QED BY <3>1, <1>11, <1>12
    <2>3. Last(m).end_seq = {} /\ Clean(ls[Last(m).file]) \in Seq(Record)
      BY <1>3, <1>5, <1>12
    <2>. QED BY <1>4, <1>13, <2>1, <2>2, <2>3 DEF Fits
  <1>15. StoredOf({m}, ls) = <<>>
    BY <1>3, <1>5, <1>11, <1>12, <1>14, FitsStored
  <1>. QED BY <1>2, <1>3, <1>4, <1>5, <1>14, <1>15 DEF s

-----------------------------------------------------------------------------
(* The state's own manifest.                                                 *)

LEMMA DiskFacts ==
  ASSUME SegmentsInv, NEW m, dir.manifest = {m}
  PROVE  /\ Fits(m, dir.files, lines)
         /\ Stored = StoredOf({m}, lines) /\ Stored \in Seq(Record)
         /\ Stored = SealedLines(m, lines) \o Clean(lines[Last(m).file])
         /\ Len(Stored) = Last(m).start_seq + Len(Clean(lines[Last(m).file]))
         /\ lines \in Contents /\ Last(m).file \in Index /\ lines[Last(m).file] \in Seq(Line)
  <1>1. Fits(m, dir.files, lines) /\ lines \in Contents
    BY DEF SegmentsInv, Typed, DiskInv
  <1>2. Stored = StoredOf({m}, lines)
    BY DEF Stored, StoredOf
  <1>3. Last(m).file \in Index /\ lines[Last(m).file] \in Seq(Line)
    BY <1>1, FitsType DEF Contents
  <1>. QED BY <1>1, <1>2, <1>3, FitsStored

LEMMA NoManifest ==
  ASSUME SegmentsInv, dir.manifest = {}
  PROVE  Stored = <<>> /\ Len(Stored) = 0 /\ promised = 0 /\ \A i \in Index : lines[i] = <<>>
  <1>1. Stored = <<>> /\ Len(Stored) = 0
    <2>1. Len(<<>>) = 0
      OBVIOUS
    <2>. QED BY <2>1 DEF Stored
  <1>2. promised = 0
    BY <1>1 DEF SegmentsInv, DiskInv, Typed
  <1>3. \A i \in Index : lines[i] = <<>>
    BY DEF SegmentsInv, DiskInv
  <1>. QED BY <1>1, <1>2, <1>3

LEMMA OneManifest ==
  ASSUME SegmentsInv, dir.manifest # {}
  PROVE  \E m : dir.manifest = {m}
  BY DEF SegmentsInv, Typed

LEMMA StoredType == SegmentsInv => Stored \in Seq(Record) /\ Len(Stored) \in Nat
  <1>. SUFFICES ASSUME SegmentsInv PROVE Stored \in Seq(Record)
    OBVIOUS
  <1>1. CASE dir.manifest = {}
    <2>1. <<>> \in Seq(Record)
      OBVIOUS
    <2>. QED BY <1>1, <2>1, NoManifest
  <1>2. CASE dir.manifest # {}
    BY <1>2, OneManifest, DiskFacts
  <1>. QED BY <1>1, <1>2

\* The types a step starts from.
LEMMA Types ==
  ASSUME SegmentsInv
  PROVE  /\ handle.open \in BOOLEAN /\ handle.sync \in BOOLEAN /\ handle.failed \in BOOLEAN
         /\ handle.active \in Index /\ handle.manifest \in Seq(SegmentMeta)
         /\ handle.next_seq \in Nat /\ handle.last_hash \in Hash
         /\ call.all \in BOOLEAN /\ call.ts \in Nat /\ call.left \in Nat /\ call.index \in Nat
         /\ handle.next_seq <= MaxRecords /\ MaxRecords \in Nat
         /\ Time \subseteq Nat /\ MaxBytes \in Nat \ {0} /\ Epoch \in Nat \ {0}
  BY SegmentsAssumption DEF SegmentsInv, Typed, CallInv, Handle, Call

\* A handle that has not stopped has the disk's segments, and the active one's
\* lines are records.
LEMMA HandleFacts ==
  ASSUME SegmentsInv, handle.open, ~handle.failed, call.pc # "reopen"
  PROVE  \E m : /\ dir.manifest = {m} /\ Alike(m, handle.manifest)
                /\ Fits(m, dir.files, lines)
                /\ Last(m).file = handle.active /\ Last(m).start_seq = Last(handle.manifest).start_seq
                /\ lines[handle.active] \in Seq(Record)
                /\ Len(Stored) = Last(m).start_seq + Len(lines[handle.active])
                /\ (\A i \in 1..Len(handle.manifest) : handle.manifest[i].file \in dir.files)
  <1>1. PICK m : /\ dir.manifest = {m}
                 /\ handle.manifest # <<>> /\ handle.active = Last(handle.manifest).file
                 /\ Alike(m, handle.manifest) /\ lines[Last(m).file] \in Seq(Record)
    BY DEF SegmentsInv, HandleInv
  <1>2. Fits(m, dir.files, lines)
    BY <1>1, DiskFacts
  <1>3. Len(m) = Len(handle.manifest) /\ Len(m) \in 1..Len(m)
    BY <1>1, <1>2, FitsType DEF Alike
  <1>4. Last(m).file = Last(handle.manifest).file /\ Last(m).start_seq = Last(handle.manifest).start_seq
    BY <1>1, <1>3 DEF Alike, Last
  <1>5. Clean(lines[Last(m).file]) = lines[Last(m).file]
    BY <1>1, CleanRecords
  <1>6. Len(Stored) = Last(m).start_seq + Len(lines[Last(m).file])
    BY <1>1, <1>5, DiskFacts
  <1>7. \A i \in 1..Len(handle.manifest) : handle.manifest[i].file \in dir.files
    BY <1>1, <1>2, <1>3 DEF Alike, Fits
  <1>. QED BY <1>1, <1>2, <1>4, <1>6, <1>7

\* The manifest a rollover writes.
RolledOver(h, i, s, ts) ==
    Append([h EXCEPT ![Len(h)].end_seq = {s}],
           [file |-> i, start_seq |-> s, end_seq |-> {}, opened_ms |-> ts])

IsRolledOver(r, h, i, s, ts) ==
    /\ r \in Seq(SegmentMeta) /\ Len(r) = Len(h) + 1 /\ r # <<>>
    /\ \A j \in 1..(Len(h) - 1) : r[j] = h[j]
    /\ \A j \in 1..Len(h) : r[j].file = h[j].file /\ r[j].start_seq = h[j].start_seq
                              /\ r[j].opened_ms = h[j].opened_ms
    /\ r[Len(h)].end_seq = {s}
    /\ Last(r) = r[Len(h) + 1] /\ Last(r).file = i /\ Last(r).start_seq = s
    /\ Last(r).end_seq = {} /\ Last(r).opened_ms = ts

LEMMA RolledShape ==
  ASSUME NEW h \in Seq(SegmentMeta), h # <<>>, NEW i \in Index, NEW s \in Nat, NEW ts \in Nat
  PROVE  IsRolledOver(RolledOver(h, i, s, ts), h, i, s, ts)
  <1>1. PICK n : n = Len(h)
    OBVIOUS
  <1>2. n \in Nat \ {0} /\ n \in 1..Len(h) /\ h[n] \in SegmentMeta
    BY <1>1
  <1>3. PICK e : e = [h[n] EXCEPT !.end_seq = {s}]
    OBVIOUS
  <1>4. /\ e \in SegmentMeta /\ e.end_seq = {s} /\ e.file = h[n].file
        /\ e.start_seq = h[n].start_seq /\ e.opened_ms = h[n].opened_ms
    <2>1. {s} \in SUBSET Nat
      OBVIOUS
    <2>. QED BY <1>2, <1>3, <2>1 DEF SegmentMeta
  <1>5. PICK g : g = [h EXCEPT ![n] = e]
    OBVIOUS
  <1>6. /\ g \in Seq(SegmentMeta) /\ Len(g) = n
        /\ \A j \in 1..n : g[j] = IF j = n THEN e ELSE h[j]
    BY <1>1, <1>2, <1>4, <1>5, ExceptSeq
  <1>7. PICK a : a = [file |-> i, start_seq |-> s, end_seq |-> {}, opened_ms |-> ts]
    OBVIOUS
  <1>8. a \in SegmentMeta /\ a.file = i /\ a.start_seq = s /\ a.end_seq = {} /\ a.opened_ms = ts
    <2>1. {} \in SUBSET Nat
      OBVIOUS
    <2>. QED BY <1>7, <2>1 DEF SegmentMeta
  <1>9. PICK r : r = Append(g, a)
    OBVIOUS
  <1>10. /\ r \in Seq(SegmentMeta) /\ r # <<>> /\ Len(r) = n + 1 /\ r[n + 1] = a
         /\ \A j \in 1..n : r[j] = g[j]
    BY <1>6, <1>8, <1>9, AppendProperties
  <1>11. \A j \in 1..(n - 1) : j \in 1..n /\ j # n
    BY <1>2
  <1>12. \A j \in 1..(n - 1) : r[j] = h[j]
    BY <1>6, <1>10, <1>11
  <1>13. \A j \in 1..n : /\ r[j].file = h[j].file /\ r[j].start_seq = h[j].start_seq
                         /\ r[j].opened_ms = h[j].opened_ms
    BY <1>4, <1>6, <1>10
  <1>14. r[n].end_seq = {s}
    BY <1>1, <1>2, <1>4, <1>6, <1>10
  <1>15. Last(r) = a
    BY <1>10 DEF Last
  <1>16. g = [h EXCEPT ![Len(h)].end_seq = {s}]
    BY <1>1, <1>3, <1>5
  <1>17. r = RolledOver(h, i, s, ts)
    BY <1>7, <1>9, <1>16 DEF RolledOver
  <1>18. /\ Len(r) = Len(h) + 1 /\ r # <<>> /\ r \in Seq(SegmentMeta)
         /\ \A j \in 1..(Len(h) - 1) : r[j] = h[j]
         /\ \A j \in 1..Len(h) : r[j].file = h[j].file /\ r[j].start_seq = h[j].start_seq
                                   /\ r[j].opened_ms = h[j].opened_ms
    BY <1>1, <1>10, <1>12, <1>13
  <1>19. /\ r[Len(h)].end_seq = {s} /\ Last(r) = r[Len(h) + 1]
         /\ Last(r).file = i /\ Last(r).start_seq = s /\ Last(r).end_seq = {} /\ Last(r).opened_ms = ts
    BY <1>1, <1>8, <1>10, <1>14, <1>15
  <1>20. IsRolledOver(r, h, i, s, ts)
    BY <1>18, <1>19 DEF IsRolledOver
  <1>. QED BY <1>17, <1>20

\* It fits what is there, and gives the same records.
LEMMA RolledFits ==
  ASSUME SegmentsInv, call.pc = "commit"
  PROVE  /\ Fits(Rolled, dir.files, lines) /\ StoredOf({Rolled}, lines) = Stored
         /\ Last(Rolled).file = call.index /\ lines[call.index] = <<>>
         /\ Last(Rolled).start_seq = handle.next_seq /\ Len(Stored) = handle.next_seq
         /\ Last(Rolled).opened_ms = call.ts
         /\ Len(Rolled) = Len(handle.manifest) + 1
         /\ \A j \in 1..Len(handle.manifest) : Rolled[j].file = handle.manifest[j].file
         /\ lines[handle.active] # <<>>
  <1>1. handle.open /\ ~handle.failed /\ ~Unadvanced /\ call.pc # "reopen"
    BY DEF SegmentsInv, CallInv, Appending, Rolling, Unadvanced
  <1>2. PICK m : /\ dir.manifest = {m} /\ Alike(m, handle.manifest)
                 /\ Fits(m, dir.files, lines)
                 /\ Last(m).file = handle.active /\ Last(m).start_seq = Last(handle.manifest).start_seq
                 /\ lines[handle.active] \in Seq(Record)
                 /\ Len(Stored) = Last(m).start_seq + Len(lines[handle.active])
    BY <1>1, HandleFacts
  <1>3. /\ call.index \in dir.files /\ call.index \in Index
        /\ ~Names(handle.manifest, call.index) /\ lines[call.index] = <<>>
        /\ Last(handle.manifest).start_seq # handle.next_seq
    BY DEF SegmentsInv, CallInv, Rolling, Typed, Directory
  <1>4. PICK h : h = handle.manifest
    OBVIOUS
  <1>5. h \in Seq(SegmentMeta) /\ h # <<>> /\ Len(h) = Len(m) /\ Len(h) \in Nat \ {0} /\ Len(h) \in 1..Len(h)
    BY <1>2, <1>4, FitsType DEF Alike
  <1>6. PICK r : /\ r = Rolled /\ r \in Seq(SegmentMeta) /\ Len(r) = Len(h) + 1 /\ r # <<>>
                 /\ \A j \in 1..(Len(h) - 1) : r[j] = h[j]
                 /\ \A j \in 1..Len(h) : r[j].file = h[j].file /\ r[j].start_seq = h[j].start_seq
                 /\ r[Len(h)].end_seq = {handle.next_seq}
                 /\ Last(r) = r[Len(h) + 1]
                 /\ Last(r).file = call.index /\ Last(r).start_seq = handle.next_seq
                 /\ Last(r).end_seq = {} /\ Last(r).opened_ms = call.ts
    <2>1. PICK s, ts : s = handle.next_seq /\ ts = call.ts /\ s \in Nat /\ ts \in Nat
      BY Types
    <2>2. PICK i \in Index : i = call.index
      BY <1>3
    <2>3. Rolled = RolledOver(h, i, s, ts)
      BY <1>4, <2>1, <2>2 DEF Rolled, RolledOver
    <2>4. IsRolledOver(Rolled, h, i, s, ts)
      BY <1>5, <2>1, <2>3, RolledShape
    <2>. QED BY <2>1, <2>2, <2>4 DEF IsRolledOver
  <1>7. \A j \in 1..Len(h) : m[j].file = h[j].file /\ m[j].start_seq = h[j].start_seq /\ m[j].end_seq = h[j].end_seq
    BY <1>2, <1>4, <1>5 DEF Alike
  <1>8. Len(Stored) = handle.next_seq
    BY <1>1, <1>2 DEF SegmentsInv, HandleInv
  <1>9. ManifestShaped(r)
    <2>1. ManifestShaped(m)
      BY <1>2 DEF Fits
    <2>2. r[1].start_seq = 0
      BY <1>5, <1>6, <1>7, <2>1 DEF ManifestShaped
    <2>3. \A j \in 1..(Len(r) - 1) : r[j].end_seq = {r[j + 1].start_seq}
      <3>. SUFFICES ASSUME NEW j \in 1..Len(h) PROVE r[j].end_seq = {r[j + 1].start_seq}
        BY <1>5, <1>6
      <3>1. CASE j = Len(h)
        BY <3>1, <1>5, <1>6
      <3>2. CASE j # Len(h)
        <4>1. j \in 1..(Len(h) - 1) /\ j + 1 \in 1..Len(h)
          BY <3>2, <1>5
        <4>2. m[j].end_seq = {m[j + 1].start_seq}
          BY <4>1, <1>5, <2>1 DEF ManifestShaped
        <4>. QED BY <4>1, <4>2, <1>6, <1>7
      <3>. QED BY <3>1, <3>2
    <2>4. \A j \in 1..Len(r) : r[j].end_seq = {} => j = Len(r)
      <3>. SUFFICES ASSUME NEW j \in 1..Len(r), j # Len(r) PROVE r[j].end_seq # {}
        OBVIOUS
      <3>1. j \in 1..(Len(r) - 1)
        BY <1>5, <1>6
      <3>2. r[j].end_seq = {r[j + 1].start_seq}
        BY <3>1, <2>3
      <3>. QED BY <3>2
    <2>. QED BY <1>6, <2>2, <2>3, <2>4 DEF ManifestShaped
  <1>10. \A j \in 1..Len(r) : j \in 1..Len(h) \/ j = Len(h) + 1
    BY <1>5, <1>6
  <1>11. \A j \in 1..Len(r) : r[j].file \in dir.files
    BY <1>2, <1>3, <1>5, <1>6, <1>7, <1>10 DEF Fits
  <1>12. ASSUME NEW i \in 1..Len(r), NEW j \in 1..Len(r), r[i].file = r[j].file
         PROVE  i = j
    <2>1. \A k \in 1..Len(h) : r[k].file # call.index
      BY <1>3, <1>4, <1>6 DEF Names
    <2>2. CASE i \in 1..Len(h) /\ j \in 1..Len(h)
      <3>1. m[i].file = m[j].file
        BY <2>2, <1>6, <1>7, <1>12
      <3>2. i \in 1..Len(m) /\ j \in 1..Len(m)
        BY <2>2, <1>5
      <3>. QED BY <3>1, <3>2, <1>2 DEF Fits
    <2>3. CASE i = Len(h) + 1 /\ j \in 1..Len(h)
      BY <2>1, <2>3, <1>6, <1>12
    <2>4. CASE j = Len(h) + 1 /\ i \in 1..Len(h)
      BY <2>1, <2>4, <1>6, <1>12
    <2>. QED BY <2>2, <2>3, <2>4, <1>10
  <1>13. SealedLines(r, lines) = Stored /\ Stored \in Seq(Record)
    <2>1. PICK f : f = Front(r)
      OBVIOUS
    <2>2. f \in Seq(SegmentMeta) /\ Len(f) = Len(h) /\ \A j \in 1..Len(h) : f[j] = r[j]
      <3>1. Len(r) - 1 = Len(h)
        BY <1>5, <1>6
      <3>. QED BY <3>1, <1>6, <2>1, FrontLast
    <2>3. \A j \in 1..Len(f) : lines[f[j].file] = lines[m[j].file]
      BY <2>2, <1>6, <1>7
    <2>4. ChainedLines(f, lines) = ChainedLines(m, lines)
      BY <2>2, <2>3, <1>5, ChainDepends
    <2>5. ChainedLines(m, lines) = SealedLines(m, lines) \o lines[Last(m).file]
      BY <1>2, DiskFacts, FitsType, ChainSplit
    <2>6. Clean(lines[Last(m).file]) = lines[Last(m).file]
      BY <1>2, CleanRecords
    <2>7. Stored = SealedLines(m, lines) \o lines[Last(m).file] /\ Stored \in Seq(Record)
      BY <1>2, <2>6, DiskFacts
    <2>. QED BY <2>1, <2>4, <2>5, <2>7 DEF SealedLines
  <1>14. Clean(lines[Last(r).file]) = <<>> /\ Clean(lines[Last(r).file]) \in Seq(Record)
    <2>1. <<>> \in Seq(Record)
      OBVIOUS
    <2>2. Clean(<<>>) = <<>>
      BY DEF Clean
    <2>3. lines[Last(r).file] = <<>>
      BY <1>3, <1>6
    <2>4. Clean(lines[Last(r).file]) = <<>>
      BY <2>2, <2>3
    <2>. QED BY <2>1, <2>4
  <1>15. Fits(r, dir.files, lines)
    BY <1>6, <1>8, <1>9, <1>11, <1>12, <1>13, <1>14 DEF Fits
  <1>16. StoredOf({r}, lines) = Stored
    <2>1. StoredOf({r}, lines) = Stored \o <<>>
      <3>1. lines \in Contents
        BY <1>2, DiskFacts
      <3>. QED BY <3>1, <1>13, <1>14, <1>15, FitsStored
    <2>. QED BY <2>1, <1>13, ConcatEmptySeq
  <1>17. lines[handle.active] # <<>>
    <2>1. Len(lines[handle.active]) # 0
      <3>1. Last(m).start_seq # handle.next_seq /\ Last(m).start_seq \in Nat
        BY <1>2, <1>3, FitsType
      <3>. QED BY <3>1, <1>2, <1>8
    <2>. QED BY <2>1, <1>2
  <1>. QED BY <1>3, <1>4, <1>6, <1>8, <1>15, <1>16, <1>17

-----------------------------------------------------------------------------
(* What each kind of step does to the disk.                                  *)

\* Nothing but a new file.
Quiet == lines' = lines /\ dir'.manifest = dir.manifest /\ dir.files \subseteq dir'.files

LEMMA DiskQuiet ==
  ASSUME SegmentsInv, Quiet, promised' <= Len(Stored)
  PROVE  DiskInv' /\ Stored' = Stored
  <1>1. Stored' = Stored
    BY DEF Stored, Quiet
  <1>2. \A m \in dir.manifest : Fits(m, dir'.files, lines)
    BY DEF SegmentsInv, DiskInv, Quiet, Fits
  <1>3. \A m \in dir'.manifest : Fits(m, dir'.files, lines')
    BY <1>2 DEF Quiet
  <1>4. \A i \in Index : lines'[i] # <<>> => \E m \in dir'.manifest : Names(m, i)
    BY DEF SegmentsInv, DiskInv, Quiet
  <1>. QED BY <1>1, <1>3, <1>4 DEF SegmentsInv, DiskInv

\* Another manifest, with the same records.
LEMMA DiskSaved ==
  ASSUME SegmentsInv, NEW n, Fits(n, dir.files, lines), StoredOf({n}, lines) = Stored,
         dir' = [dir EXCEPT !.manifest = {n}], lines' = lines, promised' = promised,
         \A m \in dir.manifest : \A j \in 1..Len(m) : Names(n, m[j].file)
  PROVE  DiskInv' /\ Stored' = Stored /\ dir'.manifest = {n} /\ dir'.files = dir.files
           /\ dir' \in Directory
  <1>1. dir \in Directory /\ n \in Seq(SegmentMeta)
    BY DEF SegmentsInv, Typed, Fits
  <1>2. dir'.manifest = {n} /\ dir'.files = dir.files /\ dir' \in Directory
    BY <1>1 DEF Directory
  <1>3. Stored' = Stored
    BY <1>2 DEF Stored, StoredOf
  <1>4. \A m \in dir'.manifest : Fits(m, dir'.files, lines')
    BY <1>2
  <1>5. ASSUME NEW i \in Index, lines'[i] # <<>>
        PROVE  \E m \in dir'.manifest : Names(m, i)
    <2>1. PICK m \in dir.manifest : Names(m, i)
      BY <1>5 DEF SegmentsInv, DiskInv
    <2>2. PICK j \in 1..Len(m) : m[j].file = i
      BY <2>1 DEF Names
    <2>3. Names(n, i)
      BY <2>2
    <2>. QED BY <1>2, <2>3
  <1>. QED BY <1>2, <1>3, <1>4, <1>5 DEF SegmentsInv, DiskInv

\* Other lines in the active segment.
ActiveBecomes(m, l) == dir' = dir /\ lines' = [lines EXCEPT ![Last(m).file] = l]

LEMMA DiskLines ==
  ASSUME SegmentsInv, NEW m, dir.manifest = {m}, NEW l \in Seq(Line), Clean(l) \in Seq(Record),
         ActiveBecomes(m, l)
  PROVE  /\ lines' \in Contents /\ lines'[Last(m).file] = l
         /\ \A i \in Index : i # Last(m).file => lines'[i] = lines[i]
         /\ Fits(m, dir'.files, lines')
         /\ \A i \in Index : lines'[i] # <<>> => \E x \in dir'.manifest : Names(x, i)
         /\ Stored' = SealedLines(m, lines) \o Clean(l)
         /\ Stored' \in Seq(Record)
         /\ Len(Stored') = Last(m).start_seq + Len(Clean(l))
         /\ \A i \in 1..(Len(m) - 1) : lines'[m[i].file] = lines[m[i].file]
  <1>1. Fits(m, dir.files, lines) /\ lines \in Contents /\ Last(m).file \in Index
    BY DiskFacts
  <1>2. PICK a : a = Last(m).file
    OBVIOUS
  <1>3. lines' \in Contents /\ lines'[a] = l /\ \A i \in Index : i # a => lines'[i] = lines[i]
    BY <1>1, <1>2 DEF Contents, ActiveBecomes
  <1>4. Len(m) \in Nat \ {0} /\ Last(m) = m[Len(m)] /\ \A i \in 1..Len(m) : m[i].file \in Index
    BY <1>1, FitsType
  <1>5. \A i \in 1..(Len(m) - 1) : m[i].file # a
    BY <1>1, <1>2, <1>4 DEF Fits
  <1>6. \A i \in 1..(Len(m) - 1) : lines'[m[i].file] = lines[m[i].file]
    BY <1>3, <1>4, <1>5
  <1>7. \A i \in 1..Len(m) : m[i].file \in dir'.files
    BY <1>1 DEF Fits, ActiveBecomes
  <1>8. PICK ks : ks = lines'
    OBVIOUS
  <1>9. Fits(m, dir'.files, ks) /\ SealedLines(m, ks) = SealedLines(m, lines)
    <2>1. ks \in Contents /\ Clean(ks[Last(m).file]) \in Seq(Record)
      BY <1>2, <1>3, <1>8
    <2>2. \A i \in 1..(Len(m) - 1) : ks[m[i].file] = lines[m[i].file]
      BY <1>6, <1>8
    <2>. QED BY <1>1, <1>7, <2>1, <2>2, ActiveChanged
  <1>10. Stored' = StoredOf({m}, ks)
    <2>1. dir'.manifest = {m}
      BY DEF ActiveBecomes
    <2>2. Stored' = StoredOf(dir'.manifest, lines')
      BY DEF Stored, StoredOf
    <2>. QED BY <1>8, <2>1, <2>2
  <1>11. /\ StoredOf({m}, ks) = SealedLines(m, lines) \o Clean(l)
         /\ StoredOf({m}, ks) \in Seq(Record)
         /\ Len(StoredOf({m}, ks)) = Last(m).start_seq + Len(Clean(l))
    <2>1. ks \in Contents /\ ks[Last(m).file] = l
      BY <1>2, <1>3, <1>8
    <2>2. /\ StoredOf({m}, ks) = SealedLines(m, ks) \o Clean(ks[Last(m).file])
          /\ StoredOf({m}, ks) \in Seq(Record)
          /\ Len(StoredOf({m}, ks)) = Last(m).start_seq + Len(Clean(ks[Last(m).file]))
      BY <1>9, <2>1, FitsStored
    <2>. QED BY <1>9, <2>1, <2>2
  <1>12. ASSUME NEW i \in Index, lines'[i] # <<>>
         PROVE  \E x \in dir'.manifest : Names(x, i)
    <2>0. dir'.manifest = {m}
      BY DEF ActiveBecomes
    <2>1. CASE i = a
      <3>1. Len(m) \in 1..Len(m) /\ m[Len(m)].file = a
        BY <1>2, <1>4
      <3>. QED BY <2>0, <2>1, <3>1 DEF Names
    <2>2. CASE i # a
      BY <1>3, <1>12, <2>0, <2>2 DEF SegmentsInv, DiskInv
    <2>. QED BY <2>1, <2>2
  <1>. QED BY <1>2, <1>3, <1>6, <1>8, <1>9, <1>10, <1>11, <1>12

-----------------------------------------------------------------------------
(* The manifests that initialize, a rollover and a rebase write.             *)

LEMMA FirstFits ==
  ASSUME SegmentsInv, call.pc = "initialize"
  PROVE  /\ Fits(FirstManifest, dir.files, lines) /\ StoredOf({FirstManifest}, lines) = Stored
         /\ Last(FirstManifest).file = 1 /\ Last(FirstManifest).start_seq = 0
         /\ Len(FirstManifest) = 1 /\ FirstManifest[1].file = 1
         /\ dir.manifest = {} /\ ~handle.open /\ promised = 0 /\ \A i \in Index : lines[i] = <<>>
  <1>1. dir.manifest = {} /\ 1 \in dir.files /\ ~handle.open
    BY DEF SegmentsInv, CallInv
  <1>2. Stored = <<>> /\ promised = 0 /\ \A i \in Index : lines[i] = <<>>
    BY <1>1, NoManifest
  <1>3. 1 \in Index /\ lines \in Contents
    BY SegmentsAssumption DEF Index, SegmentsInv, Typed
  <1>4. lines[1] = <<>>
    BY <1>2, <1>3
  <1>. QED BY <1>1, <1>2, <1>3, <1>4, OneFits DEF FirstManifest

LEMMA RebasedFits ==
  ASSUME SegmentsInv, call.pc = "rebase"
  PROVE  /\ handle.open /\ ~handle.failed
         /\ Fits(Rebased, dir.files, lines) /\ StoredOf({Rebased}, lines) = Stored
         /\ Len(Rebased) = Len(handle.manifest)
         /\ \A j \in 1..Len(handle.manifest) :
               /\ Rebased[j].file = handle.manifest[j].file
               /\ Rebased[j].start_seq = handle.manifest[j].start_seq
               /\ Rebased[j].end_seq = handle.manifest[j].end_seq
         /\ \A j \in 1..(Len(handle.manifest) - 1) : Rebased[j] = handle.manifest[j]
         /\ Last(Rebased).file = handle.active /\ Last(Rebased).opened_ms = call.ts
         /\ lines[handle.active] = <<>>
         /\ Rebased \in Seq(SegmentMeta) /\ Rebased # <<>>
  <1>1. handle.open /\ ~handle.failed /\ call.pc # "reopen" /\ lines[handle.active] = <<>>
    BY DEF SegmentsInv, CallInv, Appending
  <1>2. PICK m : /\ dir.manifest = {m} /\ Alike(m, handle.manifest)
                 /\ Fits(m, dir.files, lines) /\ Last(m).file = handle.active
    BY <1>1, HandleFacts
  <1>3. PICK h : h = handle.manifest
    OBVIOUS
  <1>4. h \in Seq(SegmentMeta) /\ h # <<>> /\ Len(h) = Len(m) /\ Len(h) \in Nat \ {0} /\ Len(h) \in 1..Len(h)
    BY <1>2, <1>3, FitsType DEF Alike
  <1>5. PICK n : n = Len(h)
    OBVIOUS
  <1>6. PICK e : e = [h[n] EXCEPT !.opened_ms = call.ts]
    OBVIOUS
  <1>7. /\ e \in SegmentMeta /\ e.opened_ms = call.ts /\ e.file = h[n].file
        /\ e.start_seq = h[n].start_seq /\ e.end_seq = h[n].end_seq
    <2>1. h[n] \in SegmentMeta /\ call.ts \in Nat
      BY <1>4, <1>5, Types
    <2>. QED BY <1>6, <2>1 DEF SegmentMeta
  <1>8. Rebased = [h EXCEPT ![n] = e]
    BY <1>3, <1>5, <1>6 DEF Rebased
  <1>9. PICK r : r = Rebased
    OBVIOUS
  <1>10. r \in Seq(SegmentMeta) /\ Len(r) = n /\ \A j \in 1..n : r[j] = IF j = n THEN e ELSE h[j]
    BY <1>4, <1>5, <1>7, <1>8, <1>9, ExceptSeq
  <1>11. \A j \in 1..n : r[j].file = h[j].file /\ r[j].start_seq = h[j].start_seq /\ r[j].end_seq = h[j].end_seq
    BY <1>7, <1>10
  <1>12. \A j \in 1..(n - 1) : r[j] = h[j]
    BY <1>4, <1>5, <1>10
  <1>13. Last(r).opened_ms = call.ts /\ r # <<>>
    BY <1>4, <1>5, <1>7, <1>10 DEF Last
  <1>14. \A j \in 1..Len(m) : r[j].file = m[j].file /\ r[j].start_seq = m[j].start_seq /\ r[j].end_seq = m[j].end_seq
    BY <1>2, <1>3, <1>4, <1>5, <1>11 DEF Alike
  <1>15. lines \in Contents /\ Stored = StoredOf({m}, lines)
    BY <1>2, DiskFacts
  <1>16. Fits(r, dir.files, lines) /\ StoredOf({r}, lines) = StoredOf({m}, lines) /\ Last(r).file = Last(m).file
    <2>1. SameSegments(r, m)
      BY <1>4, <1>5, <1>10, <1>14 DEF SameSegments
    <2>2. PICK fs, ls : fs = dir.files /\ ls = lines
      OBVIOUS
    <2>3. Fits(m, fs, ls) /\ ls \in Contents /\ r \in Seq(SegmentMeta)
      BY <1>2, <1>10, <1>15, <2>2
    <2>4. /\ Fits(r, fs, ls) /\ StoredOf({r}, ls) = StoredOf({m}, ls)
          /\ Last(r).file = Last(m).file
      BY <2>1, <2>3, LikeFits
    <2>. QED BY <2>2, <2>4
  <1>. QED BY <1>1, <1>2, <1>3, <1>5, <1>9, <1>10, <1>11, <1>12, <1>13, <1>15, <1>16

-----------------------------------------------------------------------------
(* The lines that an append writes and an open cuts off.                     *)

LEMMA NewRecordType ==
  ASSUME SegmentsInv, call.ts \in Time
  PROVE  /\ NewRecord \in Record /\ NewRecord.seq = handle.next_seq /\ NewRecord.ts = call.ts
         /\ NewRecord.prev = handle.last_hash /\ HashOf(NewRecord) \in Hash
  <1>1. handle.next_seq \in Nat /\ handle.last_hash \in Hash
    BY Types
  <1>2. NewRecord \in Record /\ NewRecord.seq = handle.next_seq /\ NewRecord.ts = call.ts
          /\ NewRecord.prev = handle.last_hash
    BY <1>1 DEF NewRecord, Record
  <1>3. Append(handle.last_hash, call.ts) \in Hash
    BY <1>1 DEF Hash
  <1>. QED BY <1>2, <1>3 DEF HashOf

\* A record is the ledger's next.
LEMMA Written ==
  ASSUME SegmentsInv, call.pc = "write", dir' = dir, promised' = promised,
         lines' = [lines EXCEPT ![handle.active] = Append(@, NewRecord)]
  PROVE  /\ DiskInv' /\ lines' \in Contents /\ NewRecord \in Record
         /\ Stored' \in Seq(Record) /\ Len(Stored') = Len(Stored) + 1
         /\ SubSeq(Stored', 1, Len(Stored)) = Stored
         /\ Stored' # <<>> /\ Last(Stored') = NewRecord /\ HeadOf(Stored') = HashOf(NewRecord)
         /\ lines'[handle.active] = Append(lines[handle.active], NewRecord)
         /\ lines'[handle.active] \in Seq(Record) /\ lines[handle.active] \in Seq(Record)
         /\ Len(lines'[handle.active]) = Len(lines[handle.active]) + 1
         /\ \A i \in Index : i # handle.active => lines'[i] = lines[i]
         /\ Len(Stored) = handle.next_seq
  <1>1. /\ handle.open /\ ~handle.failed /\ ~Unadvanced /\ call.pc # "reopen"
        /\ call.ts \in Time /\ handle.next_seq + call.left + 1 <= MaxRecords
    BY DEF SegmentsInv, CallInv, Appending, Rolling, Unadvanced
  <1>2. PICK m : /\ dir.manifest = {m} /\ Alike(m, handle.manifest)
                 /\ Fits(m, dir.files, lines) /\ Last(m).file = handle.active
                 /\ lines[handle.active] \in Seq(Record)
    BY <1>1, HandleFacts
  <1>3. Len(Stored) = handle.next_seq /\ handle.last_hash = HeadOf(Stored)
    BY <1>1 DEF SegmentsInv, HandleInv
  <1>4. PICK r : r = NewRecord
    OBVIOUS
  <1>5. r \in Record /\ r.seq = Len(Stored) /\ r.prev = HeadOf(Stored)
    BY <1>1, <1>3, <1>4, NewRecordType
  <1>6. PICK a : a = lines[handle.active]
    OBVIOUS
  <1>7. PICK l : l = Append(a, r)
    OBVIOUS
  <1>8. a \in Seq(Record) /\ l \in Seq(Record) /\ Len(l) = Len(a) + 1
    BY <1>2, <1>5, <1>6, <1>7, AppendProperties
  <1>9. Clean(a) = a /\ Clean(l) = l /\ l \in Seq(Line)
    BY <1>8, CleanRecords
  <1>10. ActiveBecomes(m, l)
    BY <1>2, <1>4, <1>6, <1>7 DEF ActiveBecomes
  <1>11. /\ lines' \in Contents /\ lines'[Last(m).file] = l
         /\ \A i \in Index : i # Last(m).file => lines'[i] = lines[i]
         /\ Fits(m, dir'.files, lines')
         /\ \A i \in Index : lines'[i] # <<>> => \E x \in dir'.manifest : Names(x, i)
         /\ Stored' = SealedLines(m, lines) \o Clean(l)
    BY <1>2, <1>8, <1>9, <1>10, DiskLines
  <1>12. Stored = SealedLines(m, lines) \o a /\ Stored \in Seq(Record)
    BY <1>2, <1>6, <1>9, DiskFacts
  <1>13. Stored' = Append(Stored, r)
    <2>1. PICK p : p = SealedLines(m, lines)
      OBVIOUS
    <2>2. p \in Seq(Record)
      BY <1>2, <2>1 DEF Fits
    <2>3. <<r>> \in Seq(Record) /\ l = a \o <<r>> /\ Append(p \o a, r) = (p \o a) \o <<r>>
      <3>1. <<r>> \in Seq(Record)
        BY <1>5
      <3>2. p \o a \in Seq(Record)
        BY <2>2, <1>8, ConcatProperties
      <3>. QED BY <3>1, <3>2, <1>5, <1>7, <1>8, AppendIsConcat
    <2>4. p \o (a \o <<r>>) = (p \o a) \o <<r>>
      BY <2>2, <2>3, <1>8, ConcatAssociative
    <2>. QED BY <2>1, <2>3, <2>4, <1>9, <1>11, <1>12
  <1>14. VerifyLines(Stored) /\ promised <= Len(Stored)
    BY DEF SegmentsInv, DiskInv
  <1>15. PICK t : t = Append(Stored, r)
    OBVIOUS
  <1>16. /\ t \in Seq(Record) /\ Len(t) = Len(Stored) + 1 /\ SubSeq(t, 1, Len(Stored)) = Stored
         /\ VerifyLines(t) /\ HeadOf(t) = HashOf(r)
    BY <1>5, <1>12, <1>14, <1>15, AppendVerifies
  <1>17. t # <<>> /\ Last(t) = r
    <2>1. t # <<>> /\ t[Len(Stored) + 1] = r
      BY <1>5, <1>12, <1>15, AppendProperties
    <2>. QED BY <1>16, <2>1 DEF Last
  <1>18. Len(Stored') <= MaxRecords /\ promised' <= Len(Stored')
    <2>1. Stored' = t /\ Len(t) = Len(Stored) + 1
      BY <1>13, <1>15, <1>16
    <2>2. /\ handle.next_seq \in Nat /\ call.left \in Nat /\ MaxRecords \in Nat /\ Len(Stored) \in Nat
          /\ promised \in Nat /\ promised' = promised
      BY Types, StoredType DEF SegmentsInv, Typed
    <2>. QED BY <1>1, <1>3, <1>14, <2>1, <2>2
  <1>19. DiskInv'
    <2>1. \A x \in dir'.manifest : Fits(x, dir'.files, lines')
      BY <1>2, <1>11
    <2>2. VerifyLines(Stored')
      BY <1>13, <1>15, <1>16
    <2>. QED BY <2>1, <2>2, <1>11, <1>18 DEF DiskInv
  <1>20. Stored' = t
    BY <1>13, <1>15
  <1>. QED BY <1>2, <1>3, <1>4, <1>6, <1>7, <1>8, <1>11, <1>16, <1>17, <1>19, <1>20, <1>5

\* Part of a record leaves the records as they are.
LEMMA TornWritten ==
  ASSUME SegmentsInv, call.pc = "write", dir' = dir, promised' = promised,
         lines' = [lines EXCEPT ![handle.active] = Append(@, Torn)]
  PROVE  /\ DiskInv' /\ lines' \in Contents /\ Stored' = Stored
         /\ lines'[handle.active] = Append(lines[handle.active], Torn)
         /\ lines[handle.active] \in Seq(Record)
         /\ \A i \in Index : i # handle.active => lines'[i] = lines[i]
  <1>1. handle.open /\ ~handle.failed /\ call.pc # "reopen"
    BY DEF SegmentsInv, CallInv, Appending
  <1>2. PICK m : /\ dir.manifest = {m} /\ Alike(m, handle.manifest)
                 /\ Fits(m, dir.files, lines) /\ Last(m).file = handle.active
                 /\ lines[handle.active] \in Seq(Record)
    BY <1>1, HandleFacts
  <1>3. PICK a : a = lines[handle.active]
    OBVIOUS
  <1>4. PICK l : l = Append(a, Torn)
    OBVIOUS
  <1>5. a \in Seq(Record) /\ l \in Seq(Line) /\ Clean(l) = a /\ Clean(a) = a
    BY <1>2, <1>3, <1>4, CleanTorn, CleanRecords
  <1>6. ActiveBecomes(m, l)
    BY <1>2, <1>3, <1>4 DEF ActiveBecomes
  <1>7. /\ lines' \in Contents /\ lines'[Last(m).file] = l
        /\ \A i \in Index : i # Last(m).file => lines'[i] = lines[i]
        /\ Fits(m, dir'.files, lines')
        /\ \A i \in Index : lines'[i] # <<>> => \E x \in dir'.manifest : Names(x, i)
        /\ Stored' = SealedLines(m, lines) \o Clean(l)
    BY <1>2, <1>5, <1>6, DiskLines
  <1>8. Stored' = Stored
    BY <1>2, <1>3, <1>5, <1>7, DiskFacts
  <1>9. DiskInv'
    <2>1. \A x \in dir'.manifest : Fits(x, dir'.files, lines')
      BY <1>2, <1>7
    <2>. QED BY <2>1, <1>7, <1>8 DEF SegmentsInv, DiskInv
  <1>. QED BY <1>2, <1>3, <1>4, <1>7, <1>8, <1>9

\* An open cuts off what is torn, and no record.
LEMMA Opened ==
  ASSUME SegmentsInv, NEW sync \in BOOLEAN, Open(sync)
  PROVE  \E m : /\ dir.manifest = {m} /\ dir' = dir
                /\ DiskInv' /\ Stored' = Stored /\ lines' \in Contents
                /\ lines'[Last(m).file] = Clean(lines[Last(m).file])
                /\ Clean(lines[Last(m).file]) \in Seq(Record)
                /\ \A i \in Index : i # Last(m).file => lines'[i] = lines[i] /\ kept'[i] = kept[i]
                /\ kept' \in [Index -> Nat]
                /\ kept'[Last(m).file] <= Len(lines'[Last(m).file])
                /\ kept'[Last(m).file] \in {kept[Last(m).file], Len(lines'[Last(m).file])}
                /\ handle' = [open |-> TRUE, sync |-> sync, failed |-> FALSE,
                              active |-> Last(m).file, manifest |-> m, next_seq |-> Len(Stored),
                              last_hash |-> HeadOf(Stored)]
                /\ Last(m).file \in Index /\ m \in Seq(SegmentMeta) /\ m # <<>>
  <1>1. PICK m \in dir.manifest :
           LET recs == PrefixLines(m, lines)
               active == Last(m)
               torn == Len(recs) < Len(ChainedLines(m, lines))
           IN  /\ handle' = [open |-> TRUE, sync |-> sync, failed |-> FALSE,
                             active |-> active.file, manifest |-> m, next_seq |-> Len(recs),
                             last_hash |-> IF recs = <<>> THEN GENESIS ELSE HashOf(Last(recs))]
               /\ IF torn THEN HealTornTail(active.file) ELSE UNCHANGED <<lines, kept>>
    BY DEF Open
  <1>2. dir.manifest = {m} /\ dir' = dir /\ promised' = promised
    BY <1>1 DEF Open, SegmentsInv, Typed
  <1>3. /\ Fits(m, dir.files, lines) /\ Stored = StoredOf({m}, lines) /\ lines \in Contents
        /\ Last(m).file \in Index /\ lines[Last(m).file] \in Seq(Line)
        /\ Stored = SealedLines(m, lines) \o Clean(lines[Last(m).file])
    BY <1>2, DiskFacts
  <1>4. PICK a : a = Last(m).file
    OBVIOUS
  <1>5. PICK c : c = Clean(lines[a])
    OBVIOUS
  <1>6. c \in Seq(Record) /\ Clean(c) = c /\ c \in Seq(Line)
    BY <1>3, <1>4, <1>5, CleanRecords DEF Fits
  <1>7. /\ PrefixLines(m, lines) = Stored
        /\ Len(Stored) = Last(m).start_seq + Len(c)
        /\ Len(ChainedLines(m, lines)) = Last(m).start_seq + Len(lines[a])
        /\ Last(m).start_seq \in Nat
    BY <1>3, <1>4, <1>5, FitsStored, FitsType
  <1>8. /\ kept \in [Index -> Nat] /\ \A i \in Index : kept[i] <= Len(lines[i])
    BY DEF SegmentsInv, Typed
  <1>9. m \in Seq(SegmentMeta) /\ m # <<>>
    BY <1>3, FitsType
  <1>10. handle' = [open |-> TRUE, sync |-> sync, failed |-> FALSE,
                    active |-> a, manifest |-> m, next_seq |-> Len(Stored),
                    last_hash |-> HeadOf(Stored)]
    BY <1>1, <1>4, <1>7 DEF HeadOf
  <1>11. CASE Len(Stored) < Len(ChainedLines(m, lines))
    <2>1. HealTornTail(a)
      BY <1>1, <1>4, <1>7, <1>11
    <2>2. Len(c) < Len(lines[a])
      BY <1>4, <1>6, <1>7, <1>11
    <2>3. c = Front(lines[a]) /\ Len(c) = Len(lines[a]) - 1
      <3>1. lines[a] # <<>> /\ Last(lines[a]) = Torn
        BY <1>5, <2>2 DEF Clean
      <3>. QED BY <3>1, <1>3, <1>4, <1>5, FrontLast DEF Clean
    <2>4. ActiveBecomes(m, c)
      BY <2>1, <2>3, <1>2, <1>4 DEF HealTornTail, ActiveBecomes
    <2>5. /\ kept' \in [Index -> Nat] /\ kept'[a] = Len(c)
          /\ \A i \in Index : i # a => kept'[i] = kept[i]
      <3>1. kept' = [kept EXCEPT ![a] = Len(c)] /\ Len(c) \in Nat
        BY <2>1, <2>3, <1>6 DEF HealTornTail
      <3>. QED BY <3>1, <1>3, <1>4, <1>8
    <2>6. /\ lines' \in Contents /\ lines'[Last(m).file] = c
          /\ \A i \in Index : i # Last(m).file => lines'[i] = lines[i]
          /\ Fits(m, dir'.files, lines')
          /\ \A i \in Index : lines'[i] # <<>> => \E x \in dir'.manifest : Names(x, i)
          /\ Stored' = SealedLines(m, lines) \o Clean(c)
      BY <1>2, <1>6, <2>4, DiskLines
    <2>7. Stored' = Stored
      BY <1>3, <1>4, <1>5, <1>6, <2>6
    <2>8. DiskInv'
      <3>1. \A x \in dir'.manifest : Fits(x, dir'.files, lines')
        BY <1>2, <2>6
      <3>. QED BY <3>1, <1>2, <2>6, <2>7 DEF SegmentsInv, DiskInv
    <2>9. kept'[a] <= Len(lines'[a]) /\ kept'[a] \in {kept[a], Len(lines'[a])}
      BY <1>4, <1>6, <2>5, <2>6
    <2>. QED BY <1>2, <1>3, <1>4, <1>5, <1>6, <1>9, <1>10, <2>5, <2>6, <2>7, <2>8, <2>9
  <1>12. CASE ~(Len(Stored) < Len(ChainedLines(m, lines)))
    <2>1. lines' = lines /\ kept' = kept
      BY <1>1, <1>7, <1>12
    <2>2. c = lines[a]
      <3>1. ~(Len(c) < Len(lines[a]))
        BY <1>3, <1>4, <1>6, <1>7, <1>12
      <3>2. CASE lines[a] # <<>> /\ Last(lines[a]) = Torn
        <4>1. Len(c) = Len(lines[a]) - 1 /\ Len(lines[a]) \in Nat
          BY <3>2, <1>3, <1>4, <1>5, FrontLast DEF Clean
        <4>. QED BY <3>1, <4>1
      <3>3. CASE ~(lines[a] # <<>> /\ Last(lines[a]) = Torn)
        BY <3>3, <1>5 DEF Clean
      <3>. QED BY <3>2, <3>3
    <2>3. Quiet /\ promised' <= Len(Stored)
      BY <1>2, <2>1 DEF Quiet, SegmentsInv, DiskInv
    <2>4. DiskInv' /\ Stored' = Stored
      BY <2>3, DiskQuiet
    <2>5. kept'[a] <= Len(lines'[a]) /\ kept'[a] \in {kept[a], Len(lines'[a])}
      BY <1>3, <1>4, <1>8, <2>1
    <2>. QED BY <1>2, <1>3, <1>4, <1>5, <1>6, <1>8, <1>9, <1>10, <2>1, <2>2, <2>4, <2>5
  <1>. QED BY <1>11, <1>12

-----------------------------------------------------------------------------
(* A loss of power.                                                          *)

\* What may be left of a file of which k lines are known to survive.
Survivors(l, k) ==
    {SubSeq(l, 1, n) : n \in k..Len(l)} \cup {Append(SubSeq(l, 1, n), Torn) : n \in k..(Len(l) - 1)}

LEMMA FirstLines ==
  ASSUME NEW S, NEW l \in Seq(S), NEW n \in 0..Len(l)
  PROVE  /\ SubSeq(l, 1, n) \in Seq(S) /\ Len(SubSeq(l, 1, n)) = n
         /\ \A i \in 1..n : SubSeq(l, 1, n)[i] = l[i]
  <1>1. n \in Nat /\ \A i \in 1..n : l[i] \in S
    OBVIOUS
  <1>. QED BY <1>1, SubSeqProperties

\* Its records are among the first ones, those known to survive included.
LEMMA SurvivorLines ==
  ASSUME NEW l \in Seq(Line), Clean(l) \in Seq(Record), NEW k \in 0..Len(l), NEW x \in Survivors(l, k)
  PROVE  /\ x \in Seq(Line) /\ Clean(x) \in Seq(Record)
         /\ k = Len(l) => x = l
         /\ \E n \in 0..Len(Clean(l)) : /\ Clean(x) = SubSeq(Clean(l), 1, n)
                                        /\ n >= k \/ n = Len(Clean(l))
                                        /\ n <= Len(x)
  <1>1. PICK c : c = Clean(l)
    OBVIOUS
  <1>2. /\ c \in Seq(Record) /\ Len(c) \in Nat /\ Len(l) \in Nat /\ k \in Nat /\ k <= Len(l)
        /\ \A i \in 1..Len(c) : l[i] = c[i]
        /\ c = l \/ Len(l) = Len(c) + 1
    BY <1>1, CleanLines
  <1>3. ASSUME NEW n \in 0..Len(c)
        PROVE  /\ SubSeq(l, 1, n) = SubSeq(c, 1, n) /\ SubSeq(c, 1, n) \in Seq(Record)
               /\ Len(SubSeq(c, 1, n)) = n
    <2>1. n \in 0..Len(l) /\ n \in Nat
      BY <1>2
    <2>2. PICK y : y = SubSeq(l, 1, n)
      OBVIOUS
    <2>3. PICK z : z = SubSeq(c, 1, n)
      OBVIOUS
    <2>4. y \in Seq(Line) /\ Len(y) = n /\ \A i \in 1..n : y[i] = l[i]
      BY <2>1, <2>2, FirstLines
    <2>5. z \in Seq(Record) /\ Len(z) = n /\ \A i \in 1..n : z[i] = c[i]
      BY <1>2, <2>3, FirstLines
    <2>6. z \in Seq(Line)
      BY <2>5, CleanRecords
    <2>7. \A i \in 1..n : y[i] = z[i]
      BY <1>2, <2>4, <2>5
    <2>8. y = z
      BY <2>4, <2>5, <2>6, <2>7, SeqEqual
    <2>. QED BY <2>2, <2>3, <2>5, <2>8
  <1>4. CASE \E n \in k..Len(l) : x = SubSeq(l, 1, n)
    <2>1. PICK n \in k..Len(l) : x = SubSeq(l, 1, n)
      BY <1>4
    <2>2. k = Len(l) => x = l
      <3>1. SubSeq(l, 1, Len(l)) = l
        BY SubSeqFull
      <3>. QED BY <1>2, <2>1, <3>1
    <2>3. CASE n <= Len(c)
      <3>1. n \in 0..Len(c)
        BY <1>2, <2>3
      <3>2. x = SubSeq(c, 1, n) /\ x \in Seq(Record) /\ Len(x) = n
        BY <1>3, <2>1, <3>1
      <3>3. Clean(x) = x /\ x \in Seq(Line)
        BY <3>2, CleanRecords
      <3>4. n >= k /\ n <= Len(x)
        BY <1>2, <3>2
      <3>. QED BY <1>1, <2>2, <3>1, <3>2, <3>3, <3>4
    <2>4. CASE ~(n <= Len(c))
      <3>1. n = Len(l)
        BY <1>2, <2>4
      <3>2. x = l
        BY <2>1, <3>1, SubSeqFull
      <3>3. SubSeq(c, 1, Len(c)) = c
        BY <1>2, SubSeqFull
      <3>4. Len(c) \in 0..Len(c) /\ Len(c) <= Len(x)
        BY <1>2, <3>2
      <3>. QED BY <1>1, <1>2, <2>2, <3>2, <3>3, <3>4
    <2>. QED BY <2>3, <2>4
  <1>5. CASE \E n \in k..(Len(l) - 1) : x = Append(SubSeq(l, 1, n), Torn)
    <2>1. PICK n \in k..(Len(l) - 1) : x = Append(SubSeq(l, 1, n), Torn)
      BY <1>5
    <2>2. n \in 0..Len(c) /\ k # Len(l) /\ n >= k
      BY <1>2
    <2>3. PICK y : y = SubSeq(c, 1, n)
      OBVIOUS
    <2>4. y \in Seq(Record) /\ Len(y) = n /\ x = Append(y, Torn)
      BY <1>3, <2>1, <2>2, <2>3
    <2>5. x \in Seq(Line) /\ Clean(x) = y
      BY <2>4, CleanTorn
    <2>6. Len(x) = n + 1
      <3>1. y \in Seq(Line) /\ Torn \in Line
        BY <2>4, CleanRecords DEF Line
      <3>. QED BY <2>4, <3>1, AppendProperties
    <2>7. n <= Len(x)
      BY <1>2, <2>6
    <2>. QED BY <1>1, <2>2, <2>3, <2>4, <2>5, <2>7
  <1>6. \/ \E n \in k..Len(l) : x = SubSeq(l, 1, n)
        \/ \E n \in k..(Len(l) - 1) : x = Append(SubSeq(l, 1, n), Torn)
    BY DEF Survivors
  <1>. QED BY <1>4, <1>5, <1>6

\* Every file there is keeps what is known to survive of it.
LEMMA FilesSurvive ==
  ASSUME SegmentsInv, PowerLoss
  PROVE  /\ lines' = [i \in Index |-> lines'[i]]
         /\ \A i \in Index : IF i \in dir'.files THEN lines'[i] \in Survivors(lines[i], kept[i])
                             ELSE lines'[i] = <<>>
         /\ "power" \in faults /\ dir' \in dirs /\ dirs' = {dir'}
         /\ kept' = [i \in Index |-> Len(lines'[i])]
         /\ handle' = Closed /\ call' = NoCall /\ promised' = promised /\ faults' = faults
  <1>1. \A i \in Index : lines'[i] \in (IF i \in dir'.files THEN Survivors(lines[i], kept[i]) ELSE {<<>>})
    BY DEF PowerLoss, Survivors
  <1>2. lines' = [i \in Index |-> lines'[i]]
    BY DEF PowerLoss
  <1>. QED BY <1>1, <1>2 DEF PowerLoss

LEMMA FullyKept ==
  ASSUME NEW l \in Seq(Line), NEW k, k = Len(l), NEW x \in Survivors(l, k)
  PROVE  x = l
  <1>1. Len(l) \in Nat /\ \A n \in k..Len(l) : n = Len(l)
    OBVIOUS
  <1>2. k..(Len(l) - 1) = {}
    BY <1>1
  <1>3. x = SubSeq(l, 1, Len(l))
    BY <1>1, <1>2 DEF Survivors
  <1>. QED BY <1>3, SubSeqFull

\* Only the last records of the active segment go, and none that is promised.
CutAtItsEnd(m) ==
    LET a == Last(m).file IN
    /\ \A j \in 1..(Len(m) - 1) : lines'[m[j].file] = lines[m[j].file]
    /\ Clean(lines[a]) \in Seq(Record) /\ Clean(lines'[a]) \in Seq(Record)
    /\ \E n \in 0..Len(Clean(lines[a])) : Clean(lines'[a]) = SubSeq(Clean(lines[a]), 1, n)
    /\ promised <= Last(m).start_seq + Len(lines'[a])
    /\ \A j \in 1..Len(m) : m[j].file \in dir'.files

LEMMA PowerLost ==
  ASSUME SegmentsInv, PowerLoss
  PROVE  /\ DiskInv' /\ lines' \in Contents
         /\ \E n \in promised..Len(Stored) : Stored' = SubSeq(Stored, 1, n)
         /\ \A m \in dir'.manifest : CutAtItsEnd(m) /\ AllPoliced(m, lines)
  <1>1. /\ lines' = [i \in Index |-> lines'[i]]
        /\ \A i \in Index : IF i \in dir'.files THEN lines'[i] \in Survivors(lines[i], kept[i])
                            ELSE lines'[i] = <<>>
        /\ "power" \in faults /\ dir' \in dirs /\ promised' = promised
    BY FilesSurvive
  <1>2. /\ lines \in Contents /\ kept \in [Index -> Nat] /\ promised \in Nat
        /\ \A i \in Index : kept[i] <= Len(lines[i])
        /\ \A i \in Index : lines[i] \in Seq(Line)
    BY DEF SegmentsInv, Typed, Contents
  <1>3. Undone(dir')
    BY <1>1 DEF SegmentsInv, PowerInv
  <1>4. <<>> \in Seq(Line)
    OBVIOUS
  <1>5. ASSUME NEW i \in Index, lines[i] = <<>>
        PROVE  lines'[i] = <<>>
    <2>1. Len(lines[i]) = 0 /\ kept[i] = Len(lines[i])
      <3>1. Len(<<>>) = 0
        OBVIOUS
      <3>. QED BY <3>1, <1>2, <1>5
    <2>2. CASE i \in dir'.files
      BY <1>1, <1>2, <1>5, <2>1, <2>2, FullyKept
    <2>. QED BY <1>1, <2>2
  <1>6. CASE dir'.manifest = {}
    <2>1. Stored = <<>> /\ Len(Stored) = 0 /\ promised = 0 /\ \A i \in Index : lines[i] = <<>>
      <3>1. Stored = <<>> /\ \A i \in Index : lines[i] = <<>>
        BY <1>3, <1>6 DEF Undone, StoredOf
      <3>2. Len(<<>>) = 0
        OBVIOUS
      <3>. QED BY <1>2, <3>1, <3>2 DEF SegmentsInv, DiskInv
    <2>2. \A i \in Index : lines'[i] = <<>>
      BY <1>5, <2>1
    <2>3. lines' \in Contents
      BY <1>1, <1>4, <2>2 DEF Contents
    <2>4. Stored' = <<>> /\ Stored' = Stored
      BY <1>6, <2>1 DEF Stored
    <2>5. SubSeq(Stored, 1, 0) = Stored /\ 0 \in promised..Len(Stored)
      <3>1. SubSeq(Stored, 1, 0) = <<>>
        BY SubSeqEmpty
      <3>. QED BY <3>1, <2>1
    <2>6. DiskInv'
      BY <1>1, <1>6, <2>1, <2>2, <2>4 DEF SegmentsInv, DiskInv
    <2>. QED BY <1>6, <2>3, <2>4, <2>5, <2>6
  <1>7. CASE dir'.manifest # {}
    <2>1. PICK m : dir'.manifest = {m} /\ AllPoliced(m, lines)
      BY <1>3, <1>7 DEF Undone
    <2>2. /\ Fits(m, dir'.files, lines) /\ Stored \in Seq(Record)
          /\ Stored = SealedLines(m, lines) \o Clean(lines[Last(m).file])
          /\ Len(Stored) = Last(m).start_seq + Len(Clean(lines[Last(m).file]))
      <3>1. Fits(m, dir'.files, lines) /\ Stored = StoredOf({m}, lines)
        BY <1>3, <2>1 DEF Undone
      <3>. QED BY <1>2, <3>1, FitsStored
    <2>3. PICK a : a = Last(m).file
      OBVIOUS
    <2>4. /\ a \in Index /\ Len(m) \in Nat \ {0} /\ Last(m) = m[Len(m)] /\ Last(m).start_seq \in Nat
          /\ \A j \in 1..Len(m) : m[j].file \in Index
      BY <2>2, <2>3, FitsType
    <2>5. /\ \A j \in 1..Len(m) : m[j].file \in dir'.files
          /\ \A j \in 1..(Len(m) - 1) : kept[m[j].file] = Len(lines[m[j].file])
          /\ promised <= Last(m).start_seq + kept[a]
      BY <1>3, <2>1, <2>2, <2>3 DEF Undone, Fits
    <2>6. \A j \in 1..(Len(m) - 1) : lines'[m[j].file] = lines[m[j].file]
      <3>. SUFFICES ASSUME NEW j \in 1..(Len(m) - 1) PROVE lines'[m[j].file] = lines[m[j].file]
        OBVIOUS
      <3>1. PICK i : i = m[j].file
        OBVIOUS
      <3>2. i \in Index /\ i \in dir'.files /\ kept[i] = Len(lines[i])
        BY <2>4, <2>5, <3>1
      <3>3. lines'[i] = lines[i]
        BY <1>1, <1>2, <3>2, FullyKept
      <3>. QED BY <3>1, <3>3
    <2>7. PICK c : c = Clean(lines[a])
      OBVIOUS
    <2>8. c \in Seq(Record) /\ Len(c) \in Nat
      BY <2>2, <2>3, <2>7 DEF Fits
    <2>9. /\ lines'[a] \in Seq(Line) /\ Clean(lines'[a]) \in Seq(Record)
          /\ \E n \in 0..Len(c) : /\ Clean(lines'[a]) = SubSeq(c, 1, n)
                                  /\ n >= kept[a] \/ n = Len(c)
                                  /\ n <= Len(lines'[a])
      <3>1. a \in dir'.files
        BY <2>3, <2>4, <2>5
      <3>2. lines'[a] \in Survivors(lines[a], kept[a]) /\ kept[a] \in 0..Len(lines[a])
        BY <1>1, <1>2, <2>4, <3>1
      <3>. QED BY <1>2, <2>4, <2>7, <2>8, <3>2, SurvivorLines
    <2>10. PICK n \in 0..Len(c) : /\ Clean(lines'[a]) = SubSeq(c, 1, n)
                                  /\ n >= kept[a] \/ n = Len(c)
                                  /\ n <= Len(lines'[a])
      BY <2>9
    <2>11. lines' \in Contents
      <3>. SUFFICES ASSUME NEW i \in Index PROVE lines'[i] \in Seq(Line)
        BY <1>1 DEF Contents
      <3>1. CASE lines[i] = <<>>
        BY <1>4, <1>5, <3>1
      <3>2. CASE lines[i] # <<>>
        <4>1. PICK j \in 1..Len(m) : m[j].file = i
          BY <1>3, <2>1, <3>2 DEF Undone, Names
        <4>2. CASE j = Len(m)
          BY <2>3, <2>4, <2>9, <4>1, <4>2
        <4>3. CASE j # Len(m)
          <5>1. j \in 1..(Len(m) - 1)
            BY <2>4, <4>3
          <5>. QED BY <1>2, <2>6, <4>1, <5>1
        <4>. QED BY <4>2, <4>3
      <3>. QED BY <3>1, <3>2
    <2>12. PICK ks : ks = lines'
      OBVIOUS
    <2>13. Fits(m, dir'.files, ks) /\ SealedLines(m, ks) = SealedLines(m, lines)
      <3>1. ks \in Contents /\ Clean(ks[Last(m).file]) \in Seq(Record)
        BY <2>3, <2>9, <2>11, <2>12
      <3>2. \A j \in 1..(Len(m) - 1) : ks[m[j].file] = lines[m[j].file]
        BY <2>6, <2>12
      <3>. QED BY <1>2, <2>2, <2>5, <3>1, <3>2, ActiveChanged
    <2>14. PICK p : p = SealedLines(m, lines)
      OBVIOUS
    <2>15. p \in Seq(Record) /\ Len(p) = Last(m).start_seq /\ Stored = p \o c
      BY <2>2, <2>3, <2>7, <2>14 DEF Fits
    <2>16. PICK d : d = SubSeq(c, 1, n)
      OBVIOUS
    <2>17. d \in Seq(Record) /\ Len(d) = n /\ \A i \in 1..n : d[i] = c[i]
      BY <2>8, <2>16, FirstLines
    <2>18. Stored' = p \o d
      <3>1. Stored' = StoredOf({m}, ks)
        <4>1. Stored' = StoredOf(dir'.manifest, lines')
          BY DEF Stored, StoredOf
        <4>. QED BY <4>1, <2>1, <2>12
      <3>2. StoredOf({m}, ks) = SealedLines(m, ks) \o Clean(ks[Last(m).file])
        BY <2>11, <2>12, <2>13, FitsStored
      <3>. QED BY <3>1, <3>2, <2>3, <2>10, <2>12, <2>13, <2>14, <2>16
    <2>19. PICK k : k = Len(p) + n
      OBVIOUS
    <2>20. k \in Nat /\ k \in promised..Len(Stored) /\ k \in 0..Len(Stored)
      <3>1. Len(Stored) = Len(p) + Len(c) /\ promised <= Len(Stored)
        BY <2>2, <2>3, <2>7, <2>15 DEF SegmentsInv, DiskInv
      <3>2. n \in Nat /\ n <= Len(c) /\ Len(p) \in Nat /\ kept[a] \in Nat
        BY <1>2, <2>4, <2>8, <2>15
      <3>3. promised <= k
        BY <1>2, <2>5, <2>10, <2>15, <2>19, <3>1, <3>2
      <3>. QED BY <1>2, <2>8, <2>19, <3>1, <3>2, <3>3
    <2>21. p \o d = SubSeq(Stored, 1, k)
      <3>1. PICK x, y : x = p \o d /\ y = SubSeq(Stored, 1, k)
        OBVIOUS
      <3>2. /\ x \in Seq(Record) /\ Len(x) = Len(p) + n
            /\ \A i \in 1..(Len(p) + n) : x[i] = IF i <= Len(p) THEN p[i] ELSE d[i - Len(p)]
        BY <2>15, <2>17, <3>1, ConcatProperties
      <3>3. /\ Len(Stored) = Len(p) + Len(c)
            /\ \A i \in 1..(Len(p) + Len(c)) : Stored[i] = IF i <= Len(p) THEN p[i] ELSE c[i - Len(p)]
        BY <2>8, <2>15, ConcatProperties
      <3>4. y \in Seq(Record) /\ Len(y) = k /\ \A i \in 1..k : y[i] = Stored[i]
        BY <2>2, <2>20, <3>1, FirstLines
      <3>5. ASSUME NEW i \in 1..k PROVE x[i] = y[i]
        <4>1. i \in 1..(Len(p) + n) /\ i \in 1..(Len(p) + Len(c)) /\ Len(p) \in Nat
          BY <2>8, <2>15, <2>19
        <4>2. CASE i <= Len(p)
          BY <3>2, <3>3, <3>4, <4>1, <4>2
        <4>3. CASE ~(i <= Len(p))
          <5>1. i - Len(p) \in 1..n
            BY <4>1, <4>3
          <5>2. x[i] = d[i - Len(p)] /\ Stored[i] = c[i - Len(p)] /\ y[i] = Stored[i]
            BY <3>2, <3>3, <3>4, <4>1, <4>3
          <5>. QED BY <5>1, <5>2, <2>17
        <4>. QED BY <4>2, <4>3
      <3>6. x = y
        BY <2>19, <3>2, <3>4, <3>5, SeqEqual
      <3>. QED BY <3>1, <3>6
    <2>22. VerifyLines(Stored') /\ Len(Stored') = k
      <3>1. VerifyLines(Stored)
        BY DEF SegmentsInv, DiskInv
      <3>2. PICK s : s = Stored
        OBVIOUS
      <3>3. s \in Seq(Record) /\ k \in 0..Len(s) /\ VerifyLines(s)
        BY <2>2, <2>20, <3>1, <3>2
      <3>4. Len(SubSeq(s, 1, k)) = k /\ VerifyLines(SubSeq(s, 1, k))
        BY <3>3, PrefixVerifies
      <3>. QED BY <2>18, <2>21, <3>2, <3>4
    <2>23. Len(Stored') <= MaxRecords /\ promised' <= Len(Stored')
      <3>1. Len(Stored) <= MaxRecords /\ MaxRecords \in Nat /\ Len(Stored) \in Nat
        BY Types, <2>2 DEF SegmentsInv, DiskInv
      <3>. QED BY <1>1, <1>2, <2>20, <2>22, <3>1
    <2>24. \A i \in Index : lines'[i] # <<>> => \E x \in dir'.manifest : Names(x, i)
      BY <1>3, <1>5 DEF Undone
    <2>25. DiskInv'
      <3>1. \A x \in dir'.manifest : Fits(x, dir'.files, lines')
        BY <2>1, <2>12, <2>13
      <3>. QED BY <3>1, <2>22, <2>23, <2>24 DEF DiskInv
    <2>26. promised <= Last(m).start_seq + Len(lines'[a])
      <3>1. promised <= Len(p) + n /\ n <= Len(lines'[a]) /\ Len(lines'[a]) \in Nat
        BY <2>9, <2>10, <2>19, <2>20
      <3>. QED BY <3>1, <1>2, <2>4, <2>8, <2>15
    <2>27. /\ \E i \in 0..Len(c) : Clean(lines'[a]) = SubSeq(c, 1, i)
           /\ Clean(lines'[a]) \in Seq(Record)
      BY <2>9, <2>10
    <2>28. \E i \in promised..Len(Stored) : Stored' = SubSeq(Stored, 1, i)
      BY <2>18, <2>20, <2>21
    <2>29. CutAtItsEnd(m)
      BY <2>3, <2>5, <2>6, <2>7, <2>8, <2>26, <2>27 DEF CutAtItsEnd
    <2>30. \A x \in dir'.manifest : CutAtItsEnd(x) /\ AllPoliced(x, lines)
      BY <2>1, <2>29
    <2>. QED BY <2>11, <2>25, <2>28, <2>30
  <1>. QED BY <1>6, <1>7

-----------------------------------------------------------------------------
(* Every step keeps the disk readable, and is the abstract log's.            *)

SavesAs(n) == dir' = [dir EXCEPT !.manifest = {n}] /\ lines' = lines /\ promised' = promised

Appends(r) ==
    /\ call.pc = "write" /\ dir' = dir /\ promised' = promised
    /\ lines' = [lines EXCEPT ![handle.active] = Append(@, r)]

Grows == Quiet /\ promised' \in promised..Len(Stored)

LEMMA SameGrows ==
  ASSUME SegmentsInv, lines' = lines, dir'.manifest = dir.manifest, dir.files \subseteq dir'.files,
         promised' = promised
  PROVE  Grows
  <1>1. promised \in promised..Len(Stored)
    BY StoredType DEF SegmentsInv, Typed, DiskInv
  <1>. QED BY <1>1 DEF Grows, Quiet

LEMMA CreatedFile ==
  ASSUME SegmentsInv, NEW i \in Index, Created(i)
  PROVE  /\ dir'.manifest = dir.manifest /\ dir'.files = dir.files \cup {i} /\ dir' \in Directory
         /\ dirs' = dirs \cup {dir'} /\ i \notin dir.files
  <1>1. dir \in Directory
    BY DEF SegmentsInv, Typed
  <1>. QED BY <1>1 DEF Created, Directory

\* What the handle has at the end of a call and of a rollover is what is there.
LEMMA FinishHead ==
  ASSUME SegmentsInv, call.pc = "finish", handle.open, ~handle.failed, handle.sync
  PROVE  (IF call.all THEN handle ELSE Advanced).next_seq = Len(Stored)
  <1>1. CASE call.all
    <2>1. ~Unadvanced /\ call.pc # "reopen"
      BY <1>1 DEF Unadvanced
    <2>. QED BY <1>1, <2>1 DEF SegmentsInv, HandleInv
  <1>2. CASE ~call.all
    <2>1. Unadvanced
      BY <1>2 DEF Unadvanced
    <2>2. Len(Stored) = handle.next_seq + 1
      BY <2>1 DEF SegmentsInv, HandleInv
    <2>3. Advanced.next_seq = handle.next_seq + 1
      BY DEF Advanced, SegmentsInv, Typed, Handle
    <2>. QED BY <1>2, <2>2, <2>3
  <1>. QED BY <1>1, <1>2

LEMMA ReopenHead ==
  ASSUME SegmentsInv, call.pc = "reopen"
  PROVE  /\ handle.open /\ ~handle.failed /\ dir.manifest = {Rolled}
         /\ Len(Stored) = handle.next_seq /\ handle.last_hash = HeadOf(Stored)
  <1>1. handle.open /\ ~handle.failed /\ ~Unadvanced
    BY DEF SegmentsInv, CallInv, Appending, Rolling, Unadvanced
  <1>. QED BY <1>1 DEF SegmentsInv, HandleInv

LEMMA DiskEffect ==
  ASSUME SegmentsInv, [Next]_vars
  PROVE  \/ Grows
         \/ call.pc = "initialize" /\ SavesAs(FirstManifest)
         \/ call.pc = "commit" /\ SavesAs(Rolled)
         \/ call.pc = "rebase" /\ SavesAs(Rebased)
         \/ \E sync \in BOOLEAN : Open(sync)
         \/ Appends(NewRecord)
         \/ Appends(Torn)
         \/ PowerLoss
  <1>0. dir \in Directory /\ promised \in Nat /\ promised <= Len(Stored) /\ Len(Stored) \in Nat
    BY StoredType DEF SegmentsInv, Typed, DiskInv
  <1>1. CASE Initialize
    <2>1. 1 \in Index
      BY SegmentsAssumption DEF Index
    <2>. QED BY <1>1, <2>1, CreatedFile, SameGrows DEF Initialize
  <1>2. CASE InitializeManifest
    <2>1. CASE NotLanded
      BY <1>2, <2>1, SameGrows DEF InitializeManifest, NotLanded
    <2>2. CASE Saved(FirstManifest) \/ Landed(FirstManifest)
      BY <1>2, <2>2 DEF InitializeManifest, SavesAs, Saved, Landed, Renamed
    <2>. QED BY <1>2, <2>1, <2>2 DEF InitializeManifest
  <1>3. ASSUME NEW all, NEW n, AppendCall(all, n) PROVE Grows
    BY <1>3, SameGrows DEF AppendCall
  <1>4. ASSUME NEW ts \in Time, NextEntry(ts) PROVE Grows
    BY <1>4, SameGrows DEF NextEntry
  <1>5. CASE CreateNext
    <2>1. CASE NextIndex \in Index /\ Created(NextIndex)
      BY <1>5, <2>1, CreatedFile, SameGrows DEF CreateNext
    <2>2. CASE NotLanded
      BY <1>5, <2>2, SameGrows DEF CreateNext, NotLanded
    <2>. QED BY <1>5, <2>1, <2>2 DEF CreateNext
  <1>6. CASE Flush
    BY <1>6, SameGrows DEF Flush
  <1>7. CASE CommitRoll
    <2>1. CASE NotLanded
      BY <1>7, <2>1, SameGrows DEF CommitRoll, NotLanded
    <2>2. CASE Saved(Rolled) \/ Landed(Rolled)
      BY <1>7, <2>2 DEF CommitRoll, SavesAs, Saved, Landed, Renamed
    <2>. QED BY <1>7, <2>1, <2>2 DEF CommitRoll
  <1>8. CASE OpenNext
    <2>1. lines' = lines /\ dir' = dir /\ promised' \in {promised, handle.next_seq}
      BY <1>8 DEF OpenNext
    <2>2. Len(Stored) = handle.next_seq
      BY <1>8, ReopenHead DEF OpenNext
    <2>. QED BY <1>0, <2>1, <2>2 DEF Grows, Quiet
  <1>9. CASE Rebase
    <2>1. CASE NotLanded
      BY <1>9, <2>1, SameGrows DEF Rebase, NotLanded
    <2>2. CASE Saved(Rebased) \/ Landed(Rebased)
      BY <1>9, <2>2 DEF Rebase, SavesAs, Saved, Landed, Renamed
    <2>. QED BY <1>9, <2>1, <2>2 DEF Rebase
  <1>10. CASE WriteLine
    <2>1. CASE lines' = lines
      BY <1>10, <2>1, SameGrows DEF WriteLine
    <2>2. CASE lines' # lines
      BY <1>10, <2>2 DEF WriteLine, Appends
    <2>. QED BY <2>1, <2>2
  <1>11. CASE Finish
    <2>1. handle.open /\ call.pc = "finish"
      BY <1>11 DEF Finish, SegmentsInv, CallInv
    <2>2. lines' = lines /\ dir' = dir
      BY <1>11 DEF Finish
    <2>3. promised' = promised \/ (handle.sync /\ ~handle.failed /\ promised' = handle'.next_seq
                                     /\ handle' = IF call.all THEN handle ELSE Advanced)
      BY <1>11 DEF Finish
    <2>4. promised' \in {promised, Len(Stored)}
      BY <2>1, <2>3, FinishHead
    <2>. QED BY <1>0, <2>2, <2>4 DEF Grows, Quiet
  <1>12. CASE Kill
    BY <1>12, SameGrows DEF Kill
  <1>13. CASE UNCHANGED vars
    BY <1>13, SameGrows DEF vars
  <1>14. CASE KilledUnsynced
    BY <1>14 DEF KilledUnsynced, SavesAs, Renamed
  <1>. QED BY <1>1, <1>2, <1>3, <1>4, <1>5, <1>6, <1>7, <1>8, <1>9, <1>10, <1>11, <1>12, <1>13, <1>14
           DEF Next

LEMMA DiskStep ==
  ASSUME SegmentsInv, [Next]_vars
  PROVE  DiskInv' /\ [D!Next]_<<Stored, promised>> /\ lines' \in Contents
  <1>0. /\ promised \in Nat /\ promised <= Len(Stored) /\ Stored \in Seq(Record) /\ Len(Stored) \in Nat
        /\ lines \in Contents /\ \A m, n \in dir.manifest : m = n
    BY StoredType DEF SegmentsInv, Typed, DiskInv
  <1>1. CASE Grows
    <2>1. DiskInv' /\ Stored' = Stored
      BY <1>0, <1>1, DiskQuiet DEF Grows
    <2>. QED BY <1>0, <1>1, <2>1 DEF Grows, Quiet, D!Next, D!Promise
  <1>2. ASSUME NEW n, SavesAs(n), Fits(n, dir.files, lines), StoredOf({n}, lines) = Stored,
               \A m \in dir.manifest : \A j \in 1..Len(m) : Names(n, m[j].file)
        PROVE  DiskInv' /\ [D!Next]_<<Stored, promised>> /\ lines' \in Contents
    <2>1. DiskInv' /\ Stored' = Stored
      BY <1>2, DiskSaved DEF SavesAs
    <2>. QED BY <1>0, <1>2, <2>1 DEF SavesAs
  <1>3. CASE call.pc = "initialize" /\ SavesAs(FirstManifest)
    <2>1. /\ Fits(FirstManifest, dir.files, lines) /\ StoredOf({FirstManifest}, lines) = Stored
          /\ dir.manifest = {}
      BY <1>3, FirstFits
    <2>. QED BY <1>2, <1>3, <2>1
  <1>4. CASE call.pc = "commit" /\ SavesAs(Rolled)
    <2>1. /\ Fits(Rolled, dir.files, lines) /\ StoredOf({Rolled}, lines) = Stored
          /\ Len(Rolled) = Len(handle.manifest) + 1
          /\ \A j \in 1..Len(handle.manifest) : Rolled[j].file = handle.manifest[j].file
      BY <1>4, RolledFits
    <2>2. handle.open /\ ~handle.failed /\ call.pc # "reopen"
      BY <1>4 DEF SegmentsInv, CallInv, Appending, Rolling
    <2>3. PICK m : dir.manifest = {m} /\ Alike(m, handle.manifest)
      BY <2>2, HandleFacts
    <2>4. \A x \in dir.manifest : \A j \in 1..Len(x) : Names(Rolled, x[j].file)
      <3>. SUFFICES ASSUME NEW j \in 1..Len(m) PROVE Names(Rolled, m[j].file)
        BY <2>3
      <3>1. j \in 1..Len(handle.manifest) /\ Len(handle.manifest) \in Nat /\ m[j].file = handle.manifest[j].file
        BY <2>3 DEF Alike
      <3>2. j \in 1..Len(Rolled) /\ Rolled[j].file = m[j].file
        BY <2>1, <3>1
      <3>. QED BY <3>2 DEF Names
    <2>. QED BY <1>2, <1>4, <2>1, <2>4
  <1>5. CASE call.pc = "rebase" /\ SavesAs(Rebased)
    <2>1. /\ Fits(Rebased, dir.files, lines) /\ StoredOf({Rebased}, lines) = Stored
          /\ Len(Rebased) = Len(handle.manifest)
          /\ \A j \in 1..Len(handle.manifest) : Rebased[j].file = handle.manifest[j].file
          /\ handle.open /\ ~handle.failed /\ call.pc # "reopen"
      BY <1>5, RebasedFits
    <2>3. PICK m : dir.manifest = {m} /\ Alike(m, handle.manifest)
      BY <2>1, HandleFacts
    <2>4. \A x \in dir.manifest : \A j \in 1..Len(x) : Names(Rebased, x[j].file)
      <3>. SUFFICES ASSUME NEW j \in 1..Len(m) PROVE Names(Rebased, m[j].file)
        BY <2>3
      <3>1. j \in 1..Len(handle.manifest) /\ m[j].file = handle.manifest[j].file
        BY <2>3 DEF Alike
      <3>2. j \in 1..Len(Rebased) /\ Rebased[j].file = m[j].file
        BY <2>1, <3>1
      <3>. QED BY <3>2 DEF Names
    <2>. QED BY <1>2, <1>5, <2>1, <2>4
  <1>6. ASSUME NEW sync \in BOOLEAN, Open(sync)
        PROVE  DiskInv' /\ [D!Next]_<<Stored, promised>> /\ lines' \in Contents
    <2>1. DiskInv' /\ Stored' = Stored /\ lines' \in Contents
      BY <1>6, Opened
    <2>2. promised' = promised
      BY <1>6 DEF Open
    <2>. QED BY <2>1, <2>2
  <1>7. CASE Appends(NewRecord)
    <2>1. /\ DiskInv' /\ lines' \in Contents /\ Stored' \in Seq(Record) /\ Len(Stored') = Len(Stored) + 1
          /\ SubSeq(Stored', 1, Len(Stored)) = Stored /\ promised' = promised
      BY <1>7, Written DEF Appends
    <2>2. D!Write
      BY <2>1 DEF D!Write
    <2>. QED BY <2>1, <2>2 DEF D!Next
  <1>8. CASE Appends(Torn)
    <2>1. DiskInv' /\ lines' \in Contents /\ Stored' = Stored /\ promised' = promised
      BY <1>8, TornWritten DEF Appends
    <2>. QED BY <2>1
  <1>9. CASE PowerLoss
    <2>1. DiskInv' /\ lines' \in Contents /\ \E n \in promised..Len(Stored) : Stored' = SubSeq(Stored, 1, n)
      BY <1>9, PowerLost
    <2>2. promised' = promised
      BY <1>9 DEF PowerLoss
    <2>3. D!Lose
      BY <2>1, <2>2 DEF D!Lose
    <2>. QED BY <2>1, <2>3 DEF D!Next
  <1>. QED BY <1>1, <1>3, <1>4, <1>5, <1>6, <1>7, <1>8, <1>9, DiskEffect

-----------------------------------------------------------------------------
(* Every step keeps the types.                                               *)

LEMMA DirStep ==
  ASSUME SegmentsInv, [Next]_vars
  PROVE  /\ dir' \in Directory /\ dirs' \in SUBSET Directory /\ dir' \in dirs'
         /\ \A m, n \in dir'.manifest : m = n
  <1>0. /\ dir \in Directory /\ dirs \in SUBSET Directory /\ dir \in dirs
        /\ \A m, n \in dir.manifest : m = n
    BY DEF SegmentsInv, Typed
  <1>1. CASE dir' = dir /\ dirs' = dirs
    BY <1>0, <1>1
  <1>2. ASSUME NEW i \in Index, Created(i)
        PROVE  /\ dir' \in Directory /\ dirs' \in SUBSET Directory /\ dir' \in dirs'
               /\ \A m, n \in dir'.manifest : m = n
    BY <1>0, <1>2, CreatedFile
  <1>3. ASSUME NEW m \in Seq(SegmentMeta), Saved(m) \/ Renamed(m)
        PROVE  /\ dir' \in Directory /\ dirs' \in SUBSET Directory /\ dir' \in dirs'
               /\ \A x, y \in dir'.manifest : x = y
    <2>1. dir' = [dir EXCEPT !.manifest = {m}] /\ dirs' \in {{dir'}, dirs \cup {dir'}}
      BY <1>3 DEF Saved, Renamed
    <2>2. dir' \in Directory /\ dir'.manifest = {m}
      BY <1>0, <2>1 DEF Directory
    <2>. QED BY <1>0, <2>1, <2>2
  <1>4. CASE Initialize
    <2>1. 1 \in Index
      BY SegmentsAssumption DEF Index
    <2>. QED BY <1>2, <1>4, <2>1 DEF Initialize
  <1>5. CASE InitializeManifest
    <2>1. FirstManifest \in Seq(SegmentMeta)
      BY <1>5, FirstFits, FitsType DEF InitializeManifest
    <2>2. Saved(FirstManifest) \/ NotLanded \/ Landed(FirstManifest)
      BY <1>5 DEF InitializeManifest
    <2>. QED BY <1>1, <1>3, <2>1, <2>2 DEF NotLanded, Landed
  <1>6. CASE CreateNext
    BY <1>1, <1>2, <1>6 DEF CreateNext, NotLanded
  <1>7. CASE CommitRoll
    <2>1. Rolled \in Seq(SegmentMeta)
      BY <1>7, RolledFits, FitsType DEF CommitRoll
    <2>. QED BY <1>1, <1>3, <1>7, <2>1 DEF CommitRoll, NotLanded, Landed
  <1>8. CASE Rebase
    <2>1. Rebased \in Seq(SegmentMeta)
      BY <1>8, RebasedFits DEF Rebase
    <2>. QED BY <1>1, <1>3, <1>8, <2>1 DEF Rebase, NotLanded, Landed
  <1>9. CASE PowerLoss
    BY <1>0, <1>9, FilesSurvive DEF SegmentsInv, PowerInv, Undone
  <1>10. ASSUME NEW sync \in BOOLEAN, Open(sync)
         PROVE  dir' = dir /\ dirs' \in SUBSET dirs /\ dir' \in dirs'
    BY <1>0, <1>10 DEF Open
  <1>11. CASE KilledUnsynced
    <2>1. call.pc = "initialize" => FirstManifest \in Seq(SegmentMeta)
      BY FirstFits, FitsType
    <2>2. call.pc = "commit" => Rolled \in Seq(SegmentMeta)
      BY RolledFits, FitsType
    <2>3. call.pc = "rebase" => Rebased \in Seq(SegmentMeta)
      BY RebasedFits
    <2>. QED BY <1>3, <1>11, <2>1, <2>2, <2>3 DEF KilledUnsynced
  <1>12. CASE \E sync \in BOOLEAN : Open(sync)
    BY <1>0, <1>10, <1>12
  <1>. QED BY <1>1, <1>4, <1>5, <1>6, <1>7, <1>8, <1>9, <1>11, <1>12
           DEF Next, vars, AppendCall, NextEntry, Flush, OpenNext, WriteLine, Finish, Kill

LEMMA KeptStep ==
  ASSUME SegmentsInv, [Next]_vars
  PROVE  kept' \in [Index -> Nat] /\ \A i \in Index : kept'[i] <= Len(lines'[i])
  <1>0. /\ lines \in Contents /\ lines' \in Contents /\ kept \in [Index -> Nat]
        /\ \A i \in Index : kept[i] <= Len(lines[i])
        /\ handle.active \in Index
    BY DiskStep, Types DEF SegmentsInv, Typed
  <1>1. \A i \in Index : Len(lines[i]) \in Nat /\ Len(lines'[i]) \in Nat
    BY <1>0 DEF Contents
  <1>2. CASE kept' = kept /\ lines' = lines
    BY <1>0, <1>2
  <1>3. CASE kept' = [kept EXCEPT ![handle.active] = Len(lines[handle.active])] /\ lines' = lines
    BY <1>0, <1>1, <1>3
  <1>4. ASSUME NEW sync \in BOOLEAN, Open(sync)
        PROVE  kept' \in [Index -> Nat] /\ \A i \in Index : kept'[i] <= Len(lines'[i])
    <2>1. PICK m : /\ \A i \in Index : i # Last(m).file => lines'[i] = lines[i] /\ kept'[i] = kept[i]
                   /\ kept' \in [Index -> Nat]
                   /\ kept'[Last(m).file] <= Len(lines'[Last(m).file])
      BY <1>4, Opened
    <2>. QED BY <1>0, <2>1
  <1>5. CASE WriteLine
    <2>0. kept' = kept
      BY <1>5 DEF WriteLine
    <2>1. CASE lines' = lines
      BY <1>2, <2>0, <2>1
    <2>2. CASE Appends(NewRecord) \/ Appends(Torn)
      <3>1. PICK r \in Line : lines' = [lines EXCEPT ![handle.active] = Append(@, r)]
        <4>1. Torn \in Line
          BY DEF Line
        <4>2. Appends(NewRecord) => NewRecord \in Line
          BY Written DEF Appends, Line
        <4>. QED BY <2>2, <4>1, <4>2 DEF Appends
      <3>2. PICK l : l = lines[handle.active]
        OBVIOUS
      <3>3. Len(Append(l, r)) = Len(l) + 1
        BY <1>0, <3>1, <3>2, AppendProperties DEF Contents
      <3>4. /\ lines'[handle.active] = Append(l, r)
            /\ \A i \in Index : i # handle.active => lines'[i] = lines[i]
        BY <1>0, <3>1, <3>2 DEF Contents
      <3>. QED BY <1>0, <1>1, <2>0, <3>2, <3>3, <3>4
    <2>. QED BY <1>5, <2>1, <2>2 DEF WriteLine, Appends
  <1>6. CASE PowerLoss
    <2>1. kept' = [i \in Index |-> Len(lines'[i])]
      BY <1>6, FilesSurvive
    <2>. QED BY <1>1, <2>1
  <1>. QED BY <1>2, <1>3, <1>4, <1>5, <1>6
           DEF Next, vars, Initialize, InitializeManifest, AppendCall, NextEntry, CreateNext, Flush,
               CommitRoll, OpenNext, Rebase, Finish, Kill, KilledUnsynced

LEMMA AdvancedType ==
  ASSUME SegmentsInv, call.ts \in Time
  PROVE  /\ Advanced \in Handle /\ Advanced.next_seq = handle.next_seq + 1
         /\ Advanced.last_hash = HashOf(NewRecord) /\ Advanced.open = handle.open
         /\ Advanced.sync = handle.sync /\ Advanced.failed = handle.failed
         /\ Advanced.active = handle.active /\ Advanced.manifest = handle.manifest
  <1>1. HashOf(NewRecord) \in Hash /\ handle.next_seq + 1 \in Nat
    BY NewRecordType, Types
  <1>2. handle \in Handle
    BY DEF SegmentsInv, Typed
  <1>. QED BY <1>1, <1>2 DEF Advanced, Handle

LEMMA HandleTypeStep ==
  ASSUME SegmentsInv, [Next]_vars
  PROVE  handle' \in Handle
  <1>0. handle \in Handle
    BY DEF SegmentsInv, Typed
  <1>1. Closed \in Handle
    <2>1. 1 \in Index /\ <<>> \in Seq(SegmentMeta) /\ <<>> \in Seq(Time)
      BY SegmentsAssumption DEF Index
    <2>. QED BY <2>1 DEF Closed, Handle, GENESIS, Hash
  <1>2. [handle EXCEPT !.failed = TRUE] \in Handle
    BY <1>0 DEF Handle
  <1>3. ASSUME NEW sync \in BOOLEAN, Open(sync) PROVE handle' \in Handle
    <2>1. PICK m : /\ handle' = [open |-> TRUE, sync |-> sync, failed |-> FALSE,
                              active |-> Last(m).file, manifest |-> m, next_seq |-> Len(Stored),
                              last_hash |-> HeadOf(Stored)]
                   /\ Last(m).file \in Index /\ m \in Seq(SegmentMeta)
      BY <1>3, Opened
    <2>2. HeadOf(Stored) \in Hash
      <3>1. Stored \in Seq(Record)
        BY StoredType
      <3>2. CASE Stored = <<>>
        <4>1. <<>> \in Seq(Time)
          OBVIOUS
        <4>. QED BY <3>2, <4>1 DEF HeadOf, GENESIS, Hash
      <3>3. CASE Stored # <<>>
        <4>1. PICK r : r = Last(Stored) /\ r \in Record
          BY <3>1, <3>3, FrontLast
        <4>2. Append(r.prev, r.ts) \in Hash
          BY <4>1 DEF Record, Hash
        <4>. QED BY <3>3, <4>1, <4>2 DEF HeadOf, HashOf
      <3>. QED BY <3>2, <3>3
    <2>3. Len(Stored) \in Nat
      BY StoredType
    <2>. QED BY <2>1, <2>2, <2>3 DEF Handle
  <1>4. CASE OpenNext
    <2>1. handle.open /\ ~handle.failed /\ dir.manifest = {Rolled} /\ call.index \in dir.files
      BY <1>4, ReopenHead DEF OpenNext, SegmentsInv, CallInv, Rolling
    <2>2. Rolled \in Seq(SegmentMeta) /\ call.index \in Index
      <3>1. dir \in Directory
        BY DEF SegmentsInv, Typed
      <3>2. Rolled \in Seq(SegmentMeta)
        BY <2>1, DiskFacts, FitsType
      <3>. QED BY <2>1, <3>1, <3>2 DEF Directory
    <2>3. [handle EXCEPT !.active = call.index, !.manifest = Rolled] \in Handle
      BY <1>0, <2>2 DEF Handle
    <2>. QED BY <1>2, <1>4, <2>3 DEF OpenNext
  <1>5. CASE Rebase
    <2>1. Rebased \in Seq(SegmentMeta)
      BY <1>5, RebasedFits DEF Rebase
    <2>2. [handle EXCEPT !.manifest = Rebased] \in Handle
      BY <1>0, <2>1 DEF Handle
    <2>. QED BY <1>0, <1>5, <2>2 DEF Rebase
  <1>6. CASE WriteLine
    <2>1. call.ts \in Time
      BY <1>6 DEF WriteLine, SegmentsInv, CallInv, Appending
    <2>. QED BY <1>0, <1>2, <1>6, <2>1, AdvancedType DEF WriteLine
  <1>7. CASE Finish
    <2>1. ~call.all => call.ts \in Time
      BY <1>7 DEF Finish, SegmentsInv, CallInv
    <2>. QED BY <1>0, <1>2, <1>7, <2>1, AdvancedType DEF Finish
  <1>. QED BY <1>0, <1>1, <1>2, <1>3, <1>4, <1>5, <1>6, <1>7
           DEF Next, vars, Initialize, InitializeManifest, AppendCall, NextEntry, CreateNext, Flush,
               CommitRoll, Kill, KilledUnsynced, PowerLoss

LEMMA CallTypeStep ==
  ASSUME SegmentsInv, [Next]_vars
  PROVE  call' \in Call
  <1>0. call \in Call /\ NoCall \in Call
    BY DEF SegmentsInv, Typed, Call, NoCall
  <1>1. ASSUME Refused PROVE call' \in Call
    BY <1>0, <1>1 DEF Refused, Call
  <1>2. ASSUME NEW p \in {"flush", "commit", "reopen", "write", "next", "finish", "initialize"},
               call' = [call EXCEPT !.pc = p] \/ call' = [NoCall EXCEPT !.pc = p]
        PROVE  call' \in Call
    BY <1>0, <1>2 DEF Call
  <1>3. ASSUME NEW all \in BOOLEAN, NEW n \in Nat, AppendCall(all, n) PROVE call' \in Call
    BY <1>0, <1>3 DEF AppendCall, Call
  <1>4. ASSUME NEW ts \in Time, NextEntry(ts) PROVE call' \in Call
    <2>1. CASE Refused
      BY <1>1, <2>1
    <2>2. CASE call' = [call EXCEPT !.ts = ts, !.left = @ - 1,
                                    !.pc = IF ShouldRollOver(ts) THEN "create"
                                           ELSE AfterRoll(handle, ts)]
      <3>1. ts \in Nat /\ call.left - 1 \in Nat
        BY <1>4, Types DEF NextEntry
      <3>2. AfterRoll(handle, ts) \in {"rebase", "write"}
        BY DEF AfterRoll
      <3>. QED BY <1>0, <2>2, <3>1, <3>2 DEF Call
    <2>. QED BY <1>4, <2>1, <2>2 DEF NextEntry
  <1>5. CASE CreateNext
    <2>1. CASE NextIndex \in Index /\ call' = [call EXCEPT !.pc = "flush", !.index = NextIndex]
      <3>1. NextIndex \in Nat
        BY <2>1, SegmentsAssumption DEF Index
      <3>. QED BY <1>0, <2>1, <3>1 DEF Call
    <2>. QED BY <1>1, <1>5, <2>1 DEF CreateNext
  <1>6. CASE OpenNext
    <2>1. CASE Refused
      BY <1>1, <2>1
    <2>2. ASSUME NEW p \in {"rebase", "write"}, call' = [call EXCEPT !.pc = p, !.index = 0]
          PROVE  call' \in Call
      BY <1>0, <2>2 DEF Call
    <2>. QED BY <1>6, <2>1, <2>2 DEF OpenNext, AfterRoll
  <1>7. CASE WriteLine
    BY <1>1, <1>2, <1>7 DEF WriteLine
  <1>8. 1 \in Nat /\ \A n \in 1..MaxBatch : n \in Nat
    BY SegmentsAssumption
  <1>9. CASE Initialize \/ Flush \/ CommitRoll \/ Rebase
    BY <1>1, <1>2, <1>9 DEF Initialize, Flush, CommitRoll, Rebase
  <1>. QED BY <1>0, <1>3, <1>4, <1>5, <1>6, <1>7, <1>8, <1>9
           DEF Next, vars, Initialize, InitializeManifest, Open, Finish, Kill, KilledUnsynced, PowerLoss

LEMMA FaultsStep == SegmentsInv /\ [Next]_vars => faults' = faults
  BY DEF Next, vars, Initialize, InitializeManifest, Open, AppendCall, NextEntry, CreateNext, Flush,
         CommitRoll, OpenNext, Rebase, WriteLine, Finish, Kill, KilledUnsynced, PowerLoss

LEMMA TypedStep ==
  ASSUME SegmentsInv, [Next]_vars
  PROVE  Typed'
  <1>1. promised' \in Nat
    <2>1. CASE Grows
      BY <2>1, StoredType DEF Grows, SegmentsInv, Typed
    <2>2. CASE promised' = promised
      BY <2>2 DEF SegmentsInv, Typed
    <2>. QED BY <2>1, <2>2, DiskEffect DEF SavesAs, Appends, Open, PowerLoss
  <1>2. faults' \in Environments
    BY FaultsStep DEF SegmentsInv, Typed
  <1>. QED BY <1>1, <1>2, DiskStep, DirStep, KeptStep, HandleTypeStep, CallTypeStep DEF Typed

-----------------------------------------------------------------------------
(* The call in progress.                                                     *)

LEMMA CallIdle ==
  ASSUME call'.pc = "idle", handle'.next_seq <= MaxRecords
  PROVE  CallInv'
  BY DEF CallInv, Appending, Rolling

LEMMA CallRefused ==
  ASSUME SegmentsInv, Refused, call.pc \notin {"idle", "initialize"},
         handle'.open = handle.open, handle'.next_seq = handle.next_seq
  PROVE  CallInv' /\ ~Unadvanced' /\ call'.pc # "reopen"
  <1>1. handle.open /\ handle.next_seq <= MaxRecords
    BY DEF SegmentsInv, CallInv
  <1>2. CASE call.all
    <2>1. call' = [call EXCEPT !.pc = "finish", !.left = 0, !.index = 0]
      BY <1>2 DEF Refused
    <2>2. call'.pc = "finish" /\ call'.all
      BY <1>2, <2>1 DEF SegmentsInv, Typed, Call
    <2>. QED BY <1>1, <2>2 DEF CallInv, Appending, Rolling, Unadvanced
  <1>3. CASE ~call.all
    <2>1. call'.pc = "idle"
      BY <1>3 DEF Refused, NoCall
    <2>. QED BY <1>1, <2>1 DEF CallInv, Appending, Rolling, Unadvanced
  <1>. QED BY <1>2, <1>3

\* What a rollover's manifest is when the new segment is opened.
LEMMA ReopenFacts ==
  ASSUME SegmentsInv, call.pc = "reopen"
  PROVE  /\ IsRolledOver(Rolled, handle.manifest, call.index, handle.next_seq, call.ts)
         /\ call.index \in Index /\ lines[call.index] = <<>>
  <1>1. handle.open /\ ~handle.failed /\ call.index \in dir.files /\ lines[call.index] = <<>>
    BY DEF SegmentsInv, CallInv, Appending, Rolling
  <1>2. handle.manifest # <<>>
    BY <1>1 DEF SegmentsInv, HandleInv
  <1>3. call.index \in Index
    BY <1>1 DEF SegmentsInv, Typed, Directory
  <1>4. Rolled = RolledOver(handle.manifest, call.index, handle.next_seq, call.ts)
    BY DEF Rolled, RolledOver
  <1>. QED BY <1>1, <1>2, <1>3, <1>4, RolledShape, Types

LEMMA NextEntryCall ==
  ASSUME SegmentsInv, NEW ts \in Time, NextEntry(ts)
  PROVE  CallInv'
  <1>0. /\ call.pc = "next" /\ call.left > 0 /\ UNCHANGED <<dir, lines, dirs, kept, handle, promised, faults>>
        /\ handle.open /\ handle.next_seq + call.left <= MaxRecords /\ (~call.all => call.left = 1)
        /\ handle.next_seq <= MaxRecords
    BY DEF NextEntry, SegmentsInv, CallInv
  <1>1. CASE Refused
    BY <1>0, <1>1, CallRefused
  <1>2. CASE ~handle.failed /\ call' = [call EXCEPT !.ts = ts, !.left = @ - 1,
                                                    !.pc = IF ShouldRollOver(ts) THEN "create"
                                                           ELSE AfterRoll(handle, ts)]
    <2>1. /\ call'.ts = ts /\ call'.left = call.left - 1 /\ call'.all = call.all
          /\ call'.pc = IF ShouldRollOver(ts) THEN "create" ELSE AfterRoll(handle, ts)
      BY <1>2 DEF SegmentsInv, Typed, Call
    <2>2. handle.next_seq + call'.left + 1 <= MaxRecords /\ (~call'.all => call'.left = 0)
      BY <1>0, <2>1, Types
    <2>3. PICK m : /\ dir.manifest = {m} /\ Last(m).start_seq = Last(handle.manifest).start_seq
                   /\ Fits(m, dir.files, lines)
                   /\ lines[handle.active] \in Seq(Record)
                   /\ Len(Stored) = Last(m).start_seq + Len(lines[handle.active])
      BY <1>0, <1>2, HandleFacts
    <2>4. Len(Stored) = handle.next_seq
      BY <1>0, <1>2 DEF SegmentsInv, HandleInv, Unadvanced
    <2>5. PICK start : start = Last(handle.manifest).start_seq
      OBVIOUS
    <2>6. start \in Nat /\ Len(lines[handle.active]) \in Nat
          /\ handle.next_seq = start + Len(lines[handle.active])
      BY <2>3, <2>4, <2>5, FitsType
    <2>7. start = handle.next_seq => lines[handle.active] = <<>> /\ Len(lines[handle.active]) = 0
      BY <2>3, <2>6
    <2>8. CASE ShouldRollOver(ts)
      <3>1. call'.pc = "create" /\ start # handle.next_seq
        BY <2>1, <2>5, <2>8 DEF ShouldRollOver
      <3>. QED BY <1>0, <1>2, <2>1, <2>2, <2>5, <3>1 DEF CallInv, Appending, Rolling
    <2>9. CASE ~ShouldRollOver(ts) /\ AfterRoll(handle, ts) = "rebase"
      <3>1. start = handle.next_seq /\ call'.pc = "rebase"
        BY <2>1, <2>5, <2>9 DEF AfterRoll
      <3>. QED BY <1>0, <1>2, <2>1, <2>2, <2>7, <3>1 DEF CallInv, Appending, Rolling
    <2>10. CASE ~ShouldRollOver(ts) /\ AfterRoll(handle, ts) = "write"
      <3>1. call'.pc = "write"
        BY <2>1, <2>10
      <3>2. Len(lines[handle.active]) < MaxBytes
        <4>1. CASE start = handle.next_seq
          BY <2>7, <4>1, Types
        <4>2. CASE start # handle.next_seq
          BY <2>5, <2>6, <2>10, <4>2, Types DEF ShouldRollOver
        <4>. QED BY <4>1, <4>2
      <3>3. Last(handle.manifest).opened_ms \div Epoch = ts \div Epoch
        <4>1. CASE start = handle.next_seq
          BY <2>5, <2>10, <4>1 DEF AfterRoll
        <4>2. CASE start # handle.next_seq
          BY <2>5, <2>10, <4>2 DEF ShouldRollOver
        <4>. QED BY <4>1, <4>2
      <3>. QED BY <1>0, <1>2, <2>1, <2>2, <3>1, <3>2, <3>3 DEF CallInv, Appending, Rolling
    <2>11. AfterRoll(handle, ts) \in {"rebase", "write"}
      BY DEF AfterRoll
    <2>. QED BY <2>8, <2>9, <2>10, <2>11
  <1>. QED BY <1>1, <1>2 DEF NextEntry

LEMMA CreateNextCall ==
  ASSUME SegmentsInv, CreateNext
  PROVE  CallInv'
  <1>0. /\ call.pc = "create" /\ handle' = handle /\ lines' = lines /\ kept' = kept /\ faults' = faults
        /\ handle.open /\ ~handle.failed /\ call.ts \in Time
        /\ handle.next_seq + call.left + 1 <= MaxRecords /\ (~call.all => call.left = 0)
        /\ handle.next_seq <= MaxRecords /\ Last(handle.manifest).start_seq # handle.next_seq
    BY DEF CreateNext, SegmentsInv, CallInv, Appending, Rolling
  <1>1. CASE Refused
    BY <1>0, <1>1, CallRefused
  <1>2. CASE NextIndex \in Index /\ Created(NextIndex)
               /\ call' = [call EXCEPT !.pc = "flush", !.index = NextIndex]
    <2>1. PICK i \in Index : i = NextIndex
      BY <1>2
    <2>2. /\ call'.pc = "flush" /\ call'.index = i /\ call'.ts = call.ts /\ call'.left = call.left
          /\ call'.all = call.all
      BY <1>2, <2>1 DEF SegmentsInv, Typed, Call
    <2>3. i \notin dir.files /\ i \in dir'.files
      BY <1>2, <2>1, CreatedFile
    <2>4. PICK m : /\ dir.manifest = {m} /\ Fits(m, dir.files, lines)
                   /\ \A j \in 1..Len(handle.manifest) : handle.manifest[j].file \in dir.files
      BY <1>0, HandleFacts
    <2>5. ~Names(handle.manifest, i)
      BY <2>3, <2>4 DEF Names
    <2>6. lines[i] = <<>>
      <3>1. ~Names(m, i)
        BY <2>3, <2>4 DEF Names, Fits
      <3>. QED BY <2>1, <2>4, <3>1 DEF SegmentsInv, DiskInv
    <2>. QED BY <1>0, <2>2, <2>3, <2>5, <2>6 DEF CallInv, Appending, Rolling
  <1>. QED BY <1>1, <1>2 DEF CreateNext

LEMMA RollCall ==
  ASSUME SegmentsInv, Flush \/ CommitRoll
  PROVE  CallInv'
  <1>0. /\ call.pc \in {"flush", "commit"} /\ lines' = lines /\ faults' = faults
        /\ handle'.open = handle.open /\ handle'.next_seq = handle.next_seq
        /\ handle.open /\ ~handle.failed /\ call.ts \in Time
        /\ handle.next_seq + call.left + 1 <= MaxRecords /\ (~call.all => call.left = 0)
        /\ handle.next_seq <= MaxRecords /\ Last(handle.manifest).start_seq # handle.next_seq
        /\ call.index \in dir.files /\ ~Names(handle.manifest, call.index) /\ lines[call.index] = <<>>
    BY DEF Flush, CommitRoll, SegmentsInv, CallInv, Appending, Rolling, Typed, Handle
  <1>1. CASE Refused
    BY <1>0, <1>1, CallRefused
  <1>2. ASSUME NEW p \in {"commit", "reopen"}, call' = [call EXCEPT !.pc = p], handle' = handle,
               dir.files \subseteq dir'.files,
               p = "commit" => kept'[handle.active] = Len(lines[handle.active])
        PROVE  CallInv'
    <2>1. /\ call'.pc = p /\ call'.index = call.index /\ call'.ts = call.ts /\ call'.left = call.left
          /\ call'.all = call.all
      BY <1>2 DEF SegmentsInv, Typed, Call
    <2>. QED BY <1>0, <1>2, <2>1 DEF CallInv, Appending, Rolling
  <1>3. CASE Flush
    <2>1. CASE ~Refused
      <3>1. /\ kept' = [kept EXCEPT ![handle.active] = Len(lines[handle.active])]
            /\ call' = [call EXCEPT !.pc = "commit"] /\ handle' = handle /\ dir' = dir
        BY <1>3, <2>1 DEF Flush
      <3>2. kept'[handle.active] = Len(lines[handle.active])
        BY <3>1, Types DEF SegmentsInv, Typed
      <3>. QED BY <1>2, <3>1, <3>2
    <2>. QED BY <1>1, <2>1
  <1>4. CASE CommitRoll
    <2>1. CASE ~Refused
      <3>1. Saved(Rolled) /\ call' = [call EXCEPT !.pc = "reopen"] /\ handle' = handle
        BY <1>4, <2>1 DEF CommitRoll
      <3>2. dir'.files = dir.files
        BY <3>1 DEF Saved, SegmentsInv, Typed, Directory
      <3>. QED BY <1>2, <3>1, <3>2
    <2>. QED BY <1>1, <2>1
  <1>. QED BY <1>3, <1>4

LEMMA OpenNextCall ==
  ASSUME SegmentsInv, OpenNext
  PROVE  CallInv'
  <1>0. /\ call.pc = "reopen" /\ lines' = lines /\ faults' = faults /\ dir' = dir
        /\ handle.open /\ ~handle.failed /\ call.ts \in Time
        /\ handle.next_seq + call.left + 1 <= MaxRecords /\ (~call.all => call.left = 0)
        /\ handle.next_seq <= MaxRecords
    BY DEF OpenNext, SegmentsInv, CallInv, Appending, Rolling
  <1>1. CASE Refused /\ handle' = [handle EXCEPT !.failed = TRUE]
    <2>1. handle'.open = handle.open /\ handle'.next_seq = handle.next_seq
      BY <1>1 DEF SegmentsInv, Typed, Handle
    <2>. QED BY <1>0, <1>1, <2>1, CallRefused
  <1>2. CASE ~(Refused /\ handle' = [handle EXCEPT !.failed = TRUE])
    <2>. DEFINE h == [handle EXCEPT !.active = call.index, !.manifest = Rolled]
    <2>1. handle' = h /\ call' = [call EXCEPT !.pc = AfterRoll(h, call.ts), !.index = 0]
      BY <1>2 DEF OpenNext
    <2>2. /\ h.open = handle.open /\ h.failed = handle.failed /\ h.active = call.index
          /\ h.manifest = Rolled /\ h.next_seq = handle.next_seq
      BY DEF SegmentsInv, Typed, Handle
    <2>3. /\ call'.ts = call.ts /\ call'.left = call.left /\ call'.all = call.all
          /\ call'.pc = AfterRoll(h, call.ts)
      BY <2>1 DEF SegmentsInv, Typed, Call
    <2>4. /\ Last(Rolled).start_seq = handle.next_seq /\ Last(Rolled).opened_ms = call.ts
          /\ lines[call.index] = <<>>
      BY <1>0, ReopenFacts DEF IsRolledOver
    <2>5. call'.pc = "write"
      BY <2>2, <2>3, <2>4 DEF AfterRoll
    <2>6. Len(lines[call.index]) < MaxBytes
      <3>1. Len(<<>>) = 0
        OBVIOUS
      <3>. QED BY <2>4, <3>1, Types
    <2>. HIDE DEF h
    <2>. QED BY <1>0, <2>1, <2>2, <2>3, <2>4, <2>5, <2>6 DEF CallInv, Appending, Rolling
  <1>. QED BY <1>1, <1>2

LEMMA RebaseCall ==
  ASSUME SegmentsInv, Rebase
  PROVE  CallInv'
  <1>0. /\ call.pc = "rebase" /\ lines' = lines /\ faults' = faults
        /\ handle.open /\ ~handle.failed /\ call.ts \in Time
        /\ handle.next_seq + call.left + 1 <= MaxRecords /\ (~call.all => call.left = 0)
        /\ handle.next_seq <= MaxRecords /\ lines[handle.active] = <<>>
    BY DEF Rebase, SegmentsInv, CallInv, Appending, Rolling
  <1>1. CASE Refused /\ handle' = handle
    BY <1>0, <1>1, CallRefused
  <1>2. CASE ~(Refused /\ handle' = handle)
    <2>1. handle' = [handle EXCEPT !.manifest = Rebased] /\ call' = [call EXCEPT !.pc = "write"]
      BY <1>2 DEF Rebase
    <2>2. /\ handle'.open = handle.open /\ handle'.failed = handle.failed /\ handle'.active = handle.active
          /\ handle'.manifest = Rebased /\ handle'.next_seq = handle.next_seq
      BY <2>1 DEF SegmentsInv, Typed, Handle
    <2>3. /\ call'.ts = call.ts /\ call'.left = call.left /\ call'.all = call.all /\ call'.pc = "write"
      BY <2>1 DEF SegmentsInv, Typed, Call
    <2>4. Last(Rebased).opened_ms = call.ts
      BY <1>0, RebasedFits
    <2>5. Len(lines[handle.active]) < MaxBytes
      <3>1. Len(<<>>) = 0
        OBVIOUS
      <3>. QED BY <1>0, <3>1, Types
    <2>. QED BY <1>0, <2>2, <2>3, <2>4, <2>5 DEF CallInv, Appending, Rolling
  <1>. QED BY <1>1, <1>2

LEMMA WriteCall ==
  ASSUME SegmentsInv, WriteLine
  PROVE  CallInv'
  <1>0. /\ call.pc = "write" /\ handle.open /\ ~handle.failed /\ call.ts \in Time
        /\ handle.next_seq + call.left + 1 <= MaxRecords /\ (~call.all => call.left = 0)
        /\ handle.next_seq <= MaxRecords
    BY DEF WriteLine, SegmentsInv, CallInv, Appending, Rolling
  <1>1. CASE Refused /\ handle' = [handle EXCEPT !.failed = TRUE]
    <2>1. handle'.open = handle.open /\ handle'.next_seq = handle.next_seq
      BY <1>1 DEF SegmentsInv, Typed, Handle
    <2>. QED BY <1>0, <1>1, <2>1, CallRefused
  <1>2. CASE ~(Refused /\ handle' = [handle EXCEPT !.failed = TRUE])
    <2>1. /\ handle' = IF call.all \/ ~handle.sync THEN Advanced ELSE handle
          /\ call' = [call EXCEPT !.pc = IF call.left > 0 THEN "next" ELSE "finish"]
      BY <1>2 DEF WriteLine
    <2>2. /\ call'.ts = call.ts /\ call'.left = call.left /\ call'.all = call.all
          /\ call'.pc = IF call.left > 0 THEN "next" ELSE "finish"
      BY <2>1 DEF SegmentsInv, Typed, Call
    <2>3. /\ Advanced.next_seq = handle.next_seq + 1 /\ Advanced.open = handle.open
          /\ Advanced.failed = handle.failed
      BY <1>0, AdvancedType
    <2>4. handle'.open /\ ~handle'.failed
      BY <1>0, <2>1, <2>3
    <2>5. handle'.next_seq <= MaxRecords
      BY <1>0, <2>1, <2>3, Types
    <2>6. call.left > 0 => call.all /\ handle'.next_seq + call.left <= MaxRecords
      BY <1>0, <2>1, <2>3, Types
    <2>. QED BY <1>0, <2>2, <2>4, <2>5, <2>6 DEF CallInv, Appending, Rolling
  <1>. QED BY <1>1, <1>2

LEMMA FinishCall ==
  ASSUME SegmentsInv, Finish
  PROVE  CallInv'
  <1>1. call'.pc = "idle" /\ call.pc = "finish" /\ handle.open
    BY DEF Finish, NoCall, SegmentsInv, CallInv
  <1>2. handle'.next_seq <= MaxRecords
    <2>1. CASE handle' = handle \/ handle' = [handle EXCEPT !.failed = TRUE]
      BY <2>1 DEF SegmentsInv, CallInv, Typed, Handle
    <2>2. CASE handle' = Advanced /\ handle.sync /\ ~call.all
      <3>1. ~handle.failed
        BY <1>1, <2>2 DEF SegmentsInv, CallInv
      <3>2. Advanced.next_seq = Len(Stored)
        BY <1>1, <2>2, <3>1, FinishHead
      <3>. QED BY <2>2, <3>2 DEF SegmentsInv, DiskInv
    <2>. QED BY <2>1, <2>2 DEF Finish
  <1>. QED BY <1>1, <1>2, CallIdle

LEMMA CallStep ==
  ASSUME SegmentsInv, [Next]_vars
  PROVE  CallInv'
  <1>0. handle.next_seq <= MaxRecords /\ NoCall.pc = "idle" /\ 0 <= MaxRecords
    BY Types DEF NoCall
  <1>1. CASE Initialize
    <2>1. /\ call'.pc = "initialize" /\ ~handle'.open /\ handle'.next_seq <= MaxRecords
          /\ dir'.manifest = {} /\ 1 \in dir'.files
      <3>1. 1 \in Index
        BY SegmentsAssumption DEF Index
      <3>2. dir'.manifest = {} /\ 1 \in dir'.files
        BY <1>1, <3>1, CreatedFile DEF Initialize
      <3>. QED BY <1>0, <1>1, <3>2 DEF Initialize, NoCall
    <2>. QED BY <2>1 DEF CallInv, Appending, Rolling
  <1>2. CASE InitializeManifest
    BY <1>0, <1>2, CallIdle DEF InitializeManifest
  <1>3. ASSUME NEW sync \in BOOLEAN, Open(sync) PROVE CallInv'
    <2>1. handle'.next_seq = Len(Stored)
      BY <1>3, Opened
    <2>2. Len(Stored) <= MaxRecords /\ call'.pc = "idle"
      BY <1>3 DEF SegmentsInv, DiskInv, Open
    <2>. QED BY <2>1, <2>2, CallIdle
  <1>4. ASSUME NEW all \in BOOLEAN, NEW n \in Nat, AppendCall(all, n), ~all => n = 1 PROVE CallInv'
    <2>1. call'.pc = "next" /\ call'.all = all /\ call'.left = n /\ handle' = handle
      BY <1>4 DEF AppendCall, NoCall
    <2>. QED BY <1>0, <1>4, <2>1 DEF AppendCall, CallInv, Appending, Rolling
  <1>5. ASSUME Kill \/ KilledUnsynced \/ PowerLoss PROVE CallInv'
    <2>1. call' = NoCall /\ handle' = Closed
      BY <1>5 DEF Kill, KilledUnsynced, PowerLoss
    <2>2. handle'.next_seq = 0
      BY <2>1 DEF Closed
    <2>. QED BY <1>0, <2>1, <2>2, CallIdle
  <1>6. CASE UNCHANGED vars
    BY <1>6 DEF vars, SegmentsInv, CallInv, Names, Appending, Rolling
  <1>7. 1 \in Nat /\ \A n \in 1..MaxBatch : n \in Nat
    BY SegmentsAssumption
  <1>. QED BY <1>1, <1>2, <1>3, <1>4, <1>5, <1>6, <1>7, NextEntryCall, CreateNextCall, RollCall,
              OpenNextCall, RebaseCall, WriteCall, FinishCall
           DEF Next

-----------------------------------------------------------------------------
(* The handle that has not stopped agrees with the disk.                     *)

LEMMA HandleStopped ==
  ASSUME ~handle'.open \/ handle'.failed
  PROVE  HandleInv'
  BY DEF HandleInv

LEMMA HandleSame ==
  ASSUME SegmentsInv, handle' = handle, lines' = lines, dir'.manifest = dir.manifest, faults' = faults,
         call.pc # "reopen", call'.pc # "reopen", ~Unadvanced, ~Unadvanced'
  PROVE  HandleInv'
  <1>1. CASE handle.open /\ ~handle.failed
    <2>1. PICK m : /\ dir.manifest = {m}
                   /\ handle.manifest # <<>> /\ handle.active = Last(handle.manifest).file
                   /\ Alike(m, handle.manifest) /\ lines[Last(m).file] \in Seq(Record)
                   /\ Len(Stored) = handle.next_seq /\ handle.last_hash = HeadOf(Stored)
      BY <1>1 DEF SegmentsInv, HandleInv
    <2>2. Stored' = Stored /\ Alike(m, handle.manifest)'
      BY <2>1 DEF Stored, Alike
    <2>. QED BY <2>1, <2>2 DEF HandleInv
  <1>2. CASE ~(handle.open /\ ~handle.failed)
    BY <1>2 DEF HandleInv
  <1>. QED BY <1>1, <1>2

\* An error before anything is written.
LEMMA HandleRefused ==
  ASSUME SegmentsInv, Refused, call.pc \in {"next"} \cup (Appending \ {"reopen"}), handle' = handle,
         lines' = lines, dir'.manifest = dir.manifest, faults' = faults
  PROVE  HandleInv'
  <1>1. ~Unadvanced' /\ call'.pc # "reopen"
    BY CallRefused DEF Appending, Rolling
  <1>2. ~Unadvanced /\ call.pc # "reopen"
    BY DEF Unadvanced, Appending, Rolling
  <1>. QED BY <1>1, <1>2, HandleSame

LEMMA HandleRoll ==
  ASSUME SegmentsInv, CommitRoll
  PROVE  HandleInv'
  <1>0. /\ call.pc = "commit" /\ lines' = lines /\ faults' = faults /\ promised' = promised
        /\ handle.open /\ ~handle.failed
    BY DEF CommitRoll, SegmentsInv, CallInv, Appending, Rolling
  <1>1. CASE NotLanded /\ Refused /\ handle' = handle
    BY <1>0, <1>1, HandleRefused DEF NotLanded, Appending, Rolling
  <1>2. CASE handle' = [handle EXCEPT !.failed = TRUE]
    <2>1. handle'.failed
      BY <1>2 DEF SegmentsInv, Typed, Handle
    <2>. QED BY <2>1, HandleStopped
  <1>3. CASE Saved(Rolled) /\ call' = [call EXCEPT !.pc = "reopen"] /\ handle' = handle
    <2>1. /\ call'.pc = "reopen" /\ call'.index = call.index /\ call'.ts = call.ts
      BY <1>3 DEF SegmentsInv, Typed, Call
    <2>2. Rolled' = Rolled /\ ~Unadvanced'
      BY <1>3, <2>1 DEF Rolled, Unadvanced
    <2>3. /\ StoredOf({Rolled}, lines) = Stored /\ Last(Rolled).file = call.index
          /\ lines[call.index] = <<>> /\ Len(Stored) = handle.next_seq
      BY <1>0, RolledFits
    <2>4. dir'.manifest = {Rolled}
      BY <1>3 DEF Saved, SegmentsInv, Typed, Directory
    <2>5. Stored' = Stored
      BY <1>0, <2>3, <2>4 DEF Stored, StoredOf
    <2>6. /\ handle.manifest # <<>> /\ handle.active = Last(handle.manifest).file
          /\ handle.last_hash = HeadOf(Stored)
      BY <1>0 DEF SegmentsInv, HandleInv, Unadvanced
    <2>7. lines'[Last(Rolled).file] \in Seq(Record)
      <3>1. <<>> \in Seq(Record)
        OBVIOUS
      <3>. QED BY <1>0, <2>3, <3>1
    <2>. QED BY <1>0, <1>3, <2>1, <2>2, <2>3, <2>4, <2>5, <2>6, <2>7 DEF HandleInv
  <1>. QED BY <1>1, <1>2, <1>3 DEF CommitRoll

LEMMA AlikeItself ==
  ASSUME NEW m \in Seq(SegmentMeta), m # <<>>
  PROVE  Alike(m, m)
  BY DEF Alike

LEMMA HandleOpenNext ==
  ASSUME SegmentsInv, OpenNext
  PROVE  HandleInv'
  <1>0. /\ call.pc = "reopen" /\ lines' = lines /\ faults' = faults /\ dir' = dir
        /\ dir.manifest = {Rolled} /\ Len(Stored) = handle.next_seq
        /\ handle.last_hash = HeadOf(Stored)
    BY ReopenHead DEF OpenNext
  <1>1. CASE handle' = [handle EXCEPT !.failed = TRUE]
    <2>1. handle'.failed
      BY <1>1 DEF SegmentsInv, Typed, Handle
    <2>. QED BY <2>1, HandleStopped
  <1>2. CASE handle' = [handle EXCEPT !.active = call.index, !.manifest = Rolled]
               /\ call' = [call EXCEPT !.pc = AfterRoll(handle', call.ts), !.index = 0]
    <2>1. /\ handle'.active = call.index /\ handle'.manifest = Rolled
          /\ handle'.next_seq = handle.next_seq /\ handle'.last_hash = handle.last_hash
      BY <1>2 DEF SegmentsInv, Typed, Handle
    <2>2. call'.pc \in {"rebase", "write"}
      BY <1>2 DEF SegmentsInv, Typed, Call, AfterRoll
    <2>3. ~Unadvanced' /\ call'.pc # "reopen"
      BY <2>2 DEF Unadvanced
    <2>4. /\ Rolled \in Seq(SegmentMeta) /\ Rolled # <<>> /\ Last(Rolled).file = call.index
          /\ lines[call.index] = <<>>
      BY <1>0, ReopenFacts DEF IsRolledOver
    <2>5. Stored' = Stored /\ Alike(Rolled, Rolled)
      BY <1>0, <2>4, AlikeItself DEF Stored
    <2>6. PICK m : m = Rolled
      OBVIOUS
    <2>7. Alike(m, m)'
      BY <1>0, <2>5, <2>6 DEF Alike
    <2>8. lines[call.index] \in Seq(Record)
      <3>1. <<>> \in Seq(Record)
        OBVIOUS
      <3>. QED BY <2>4, <3>1
    <2>. QED BY <1>0, <2>1, <2>3, <2>4, <2>5, <2>6, <2>7, <2>8 DEF HandleInv
  <1>. QED BY <1>1, <1>2 DEF OpenNext

LEMMA HandleRebase ==
  ASSUME SegmentsInv, Rebase
  PROVE  HandleInv'
  <1>0. /\ call.pc = "rebase" /\ lines' = lines /\ faults' = faults
        /\ handle.open /\ ~handle.failed /\ call.pc # "reopen" /\ ~Unadvanced
    BY DEF Rebase, SegmentsInv, CallInv, Appending, Rolling, Unadvanced
  <1>1. /\ Fits(Rebased, dir.files, lines) /\ StoredOf({Rebased}, lines) = Stored
        /\ Len(Rebased) = Len(handle.manifest)
        /\ \A j \in 1..Len(handle.manifest) :
              /\ Rebased[j].file = handle.manifest[j].file
              /\ Rebased[j].start_seq = handle.manifest[j].start_seq
              /\ Rebased[j].end_seq = handle.manifest[j].end_seq
        /\ Last(Rebased).file = handle.active
        /\ lines[handle.active] = <<>>
        /\ Rebased \in Seq(SegmentMeta) /\ Rebased # <<>>
    BY <1>0, RebasedFits
  <1>2. /\ Len(Stored) = handle.next_seq /\ handle.last_hash = HeadOf(Stored)
        /\ handle.manifest # <<>> /\ handle.active = Last(handle.manifest).file
        /\ handle.manifest \in Seq(SegmentMeta)
    BY <1>0, Types DEF SegmentsInv, HandleInv
  <1>3. lines'[Last(Rebased).file] \in Seq(Record)
    <2>1. <<>> \in Seq(Record)
      OBVIOUS
    <2>. QED BY <1>0, <1>1, <2>1
  <1>4. CASE NotLanded /\ Refused /\ handle' = handle
    BY <1>0, <1>4, HandleRefused DEF NotLanded, Appending, Rolling
  <1>5. ASSUME Saved(Rebased) \/ Landed(Rebased)
        PROVE  dir'.manifest = {Rebased} /\ Stored' = Stored
    <2>1. dir'.manifest = {Rebased}
      BY <1>5 DEF Saved, Landed, Renamed, SegmentsInv, Typed, Directory
    <2>. QED BY <1>0, <1>1, <2>1 DEF Stored, StoredOf
  <1>6. CASE Landed(Rebased) /\ Refused /\ handle' = handle
    <2>1. "dirsync" \in faults'
      BY <1>0, <1>6 DEF Landed
    <2>2. PICK m : m = Rebased
      OBVIOUS
    <2>3. Alike(m, handle.manifest)'
      BY <1>1, <1>2, <1>6, <2>1, <2>2 DEF Alike
    <2>4. ~Unadvanced' /\ call'.pc # "reopen"
      BY <1>0, <1>6, CallRefused
    <2>. QED BY <1>1, <1>2, <1>3, <1>5, <1>6, <2>2, <2>3, <2>4 DEF HandleInv
  <1>7. CASE Saved(Rebased) /\ handle' = [handle EXCEPT !.manifest = Rebased]
               /\ call' = [call EXCEPT !.pc = "write"]
    <2>1. /\ handle'.active = handle.active /\ handle'.manifest = Rebased
          /\ handle'.next_seq = handle.next_seq /\ handle'.last_hash = handle.last_hash
      BY <1>7 DEF SegmentsInv, Typed, Handle
    <2>2. call'.pc = "write"
      BY <1>7 DEF SegmentsInv, Typed, Call
    <2>3. ~Unadvanced' /\ call'.pc # "reopen"
      BY <2>2 DEF Unadvanced
    <2>4. PICK m : m = Rebased
      OBVIOUS
    <2>5. Alike(m, m)'
      BY <1>1, <2>4 DEF Alike
    <2>. QED BY <1>1, <1>2, <1>3, <1>5, <1>7, <2>1, <2>3, <2>4, <2>5 DEF HandleInv
  <1>. QED BY <1>4, <1>6, <1>7 DEF Rebase

LEMMA HandleWrite ==
  ASSUME SegmentsInv, WriteLine
  PROVE  HandleInv'
  <1>0. /\ call.pc = "write" /\ dir' = dir /\ faults' = faults /\ promised' = promised
        /\ handle.open /\ ~handle.failed /\ call.ts \in Time /\ call.pc # "reopen"
        /\ ~call.all => call.left = 0
    BY DEF WriteLine, SegmentsInv, CallInv, Appending, Rolling
  <1>1. CASE handle' = [handle EXCEPT !.failed = TRUE]
    <2>1. handle'.failed
      BY <1>1 DEF SegmentsInv, Typed, Handle
    <2>. QED BY <2>1, HandleStopped
  <1>2. CASE /\ lines' = [lines EXCEPT ![handle.active] = Append(@, NewRecord)]
             /\ handle' = IF call.all \/ ~handle.sync THEN Advanced ELSE handle
             /\ call' = [call EXCEPT !.pc = IF call.left > 0 THEN "next" ELSE "finish"]
    <2>1. /\ Stored' \in Seq(Record) /\ Len(Stored') = Len(Stored) + 1
          /\ Stored' # <<>> /\ Last(Stored') = NewRecord /\ HeadOf(Stored') = HashOf(NewRecord)
          /\ lines'[handle.active] \in Seq(Record) /\ Len(Stored) = handle.next_seq
      BY <1>0, <1>2, Written
    <2>2. PICK m : /\ dir.manifest = {m} /\ Alike(m, handle.manifest) /\ Last(m).file = handle.active
      BY <1>0, HandleFacts
    <2>3. handle.manifest # <<>> /\ handle.active = Last(handle.manifest).file
      BY <1>0 DEF SegmentsInv, HandleInv
    <2>4. /\ call'.all = call.all /\ call'.ts = call.ts
          /\ call'.pc = IF call.left > 0 THEN "next" ELSE "finish"
      BY <1>2 DEF SegmentsInv, Typed, Call
    <2>5. /\ Advanced.next_seq = handle.next_seq + 1 /\ Advanced.last_hash = HashOf(NewRecord)
          /\ Advanced.sync = handle.sync /\ Advanced.active = handle.active
          /\ Advanced.manifest = handle.manifest
      BY <1>0, AdvancedType
    <2>6. handle'.active = handle.active /\ handle'.manifest = handle.manifest /\ handle'.sync = handle.sync
      BY <1>2, <2>5
    <2>7. PICK h : h = handle.manifest
      OBVIOUS
    <2>8. Alike(m, h)'
      BY <1>0, <2>2, <2>7 DEF Alike
    <2>9. CASE call.all \/ ~handle.sync
      <3>1. ~Unadvanced'
        BY <2>4, <2>6, <2>9 DEF Unadvanced
      <3>2. Len(Stored') = handle'.next_seq /\ handle'.last_hash = HeadOf(Stored)'
        BY <1>2, <2>1, <2>5, <2>9 DEF HeadOf
      <3>. QED BY <1>0, <2>1, <2>2, <2>3, <2>4, <2>6, <2>7, <2>8, <3>1, <3>2 DEF HandleInv
    <2>10. CASE ~(call.all \/ ~handle.sync)
      <3>1. handle' = handle /\ call'.pc = "finish"
        BY <1>0, <1>2, <2>4, <2>10
      <3>2. NewRecord' = NewRecord /\ Unadvanced'
        BY <2>4, <2>6, <2>10, <3>1 DEF NewRecord, Unadvanced
      <3>. QED BY <1>0, <2>1, <2>2, <2>3, <2>4, <2>7, <2>8, <3>1, <3>2 DEF HandleInv
    <2>. QED BY <2>9, <2>10
  <1>. QED BY <1>1, <1>2 DEF WriteLine

LEMMA HandleFinish ==
  ASSUME SegmentsInv, Finish
  PROVE  HandleInv'
  <1>0. /\ call.pc = "finish" /\ dir' = dir /\ lines' = lines /\ faults' = faults /\ call'.pc = "idle"
        /\ handle.open
    BY DEF Finish, NoCall, SegmentsInv, CallInv
  <1>1. ~Unadvanced' /\ call.pc # "reopen" /\ call'.pc # "reopen"
    BY <1>0 DEF Unadvanced
  <1>2. CASE handle' = [handle EXCEPT !.failed = TRUE]
    <2>1. handle'.failed
      BY <1>2 DEF SegmentsInv, Typed, Handle
    <2>. QED BY <2>1, HandleStopped
  <1>3. CASE handle' = handle /\ (call.all \/ ~handle.sync)
    <2>1. ~Unadvanced
      BY <1>3 DEF Unadvanced
    <2>. QED BY <1>0, <1>1, <1>3, <2>1, HandleSame
  <1>4. CASE handle' = Advanced /\ ~call.all /\ handle.sync
    <2>1. Unadvanced /\ ~handle.failed /\ call.ts \in Time
      BY <1>0, <1>4 DEF Unadvanced, SegmentsInv, CallInv
    <2>2. PICK m : /\ dir.manifest = {m}
                   /\ handle.manifest # <<>> /\ handle.active = Last(handle.manifest).file
                   /\ Alike(m, handle.manifest) /\ lines[Last(m).file] \in Seq(Record)
                   /\ Stored # <<>> /\ Last(Stored) = NewRecord /\ Len(Stored) = handle.next_seq + 1
      BY <1>0, <2>1 DEF SegmentsInv, HandleInv
    <2>3. /\ Advanced.next_seq = handle.next_seq + 1 /\ Advanced.last_hash = HashOf(NewRecord)
          /\ Advanced.active = handle.active /\ Advanced.manifest = handle.manifest
      BY <2>1, AdvancedType
    <2>4. Stored' = Stored /\ HeadOf(Stored) = HashOf(NewRecord)
      BY <1>0, <2>2 DEF Stored, HeadOf
    <2>5. PICK h : h = handle.manifest
      OBVIOUS
    <2>6. Alike(m, h)'
      BY <1>0, <2>2, <2>5 DEF Alike
    <2>7. PICK s : s = Stored
      OBVIOUS
    <2>8. HeadOf(Stored)' = HashOf(NewRecord)
      BY <2>4, <2>7 DEF HeadOf
    <2>. QED BY <1>0, <1>1, <1>4, <2>2, <2>3, <2>4, <2>5, <2>6, <2>8 DEF HandleInv
  <1>. QED BY <1>2, <1>3, <1>4 DEF Finish

LEMMA HandleOpen ==
  ASSUME SegmentsInv, NEW sync \in BOOLEAN, Open(sync)
  PROVE  HandleInv'
  <1>1. PICK m : /\ dir.manifest = {m} /\ dir' = dir /\ Stored' = Stored
                 /\ lines'[Last(m).file] = Clean(lines[Last(m).file])
                 /\ Clean(lines[Last(m).file]) \in Seq(Record)
                 /\ handle' = [open |-> TRUE, sync |-> sync, failed |-> FALSE,
                               active |-> Last(m).file, manifest |-> m, next_seq |-> Len(Stored),
                               last_hash |-> HeadOf(Stored)]
    BY Opened
  <1>2. call' = call /\ call.pc = "idle" /\ faults' = faults
    BY DEF Open
  <1>3. /\ handle'.active = Last(m).file /\ handle'.manifest = m /\ handle'.next_seq = Len(Stored)
        /\ handle'.last_hash = HeadOf(Stored)
    BY <1>1
  <1>4. ~Unadvanced' /\ call'.pc # "reopen"
    BY <1>2 DEF Unadvanced
  <1>5. m \in Seq(SegmentMeta) /\ m # <<>>
    BY <1>1, DiskFacts, FitsType
  <1>6. Alike(m, m)'
    BY <1>5 DEF Alike
  <1>7. HeadOf(Stored)' = HeadOf(Stored)
    BY <1>1 DEF HeadOf
  <1>. QED BY <1>1, <1>3, <1>4, <1>5, <1>6, <1>7 DEF HandleInv

LEMMA HandleStep ==
  ASSUME SegmentsInv, [Next]_vars
  PROVE  HandleInv'
  <1>1. CASE Initialize \/ InitializeManifest
    <2>1. ~handle'.open
      BY <1>1 DEF Initialize, InitializeManifest, SegmentsInv, CallInv
    <2>. QED BY <2>1, HandleStopped
  <1>2. ASSUME Kill \/ KilledUnsynced \/ PowerLoss PROVE HandleInv'
    <2>1. ~handle'.open
      BY <1>2 DEF Kill, KilledUnsynced, PowerLoss, Closed
    <2>. QED BY <2>1, HandleStopped
  <1>3. ASSUME NEW all \in BOOLEAN, NEW n \in Nat, AppendCall(all, n) PROVE HandleInv'
    <2>1. call'.pc = "next" /\ call.pc = "idle"
      BY <1>3 DEF AppendCall, NoCall
    <2>2. ~Unadvanced /\ ~Unadvanced' /\ call.pc # "reopen" /\ call'.pc # "reopen"
      BY <2>1 DEF Unadvanced
    <2>. QED BY <1>3, <2>2, HandleSame DEF AppendCall
  <1>4. ASSUME NEW ts \in Time, NextEntry(ts) PROVE HandleInv'
    <2>0. call.pc = "next" /\ handle' = handle /\ lines' = lines /\ dir' = dir /\ faults' = faults
      BY <1>4 DEF NextEntry
    <2>1. CASE Refused
      BY <2>0, <2>1, HandleRefused
    <2>2. CASE ~Refused
      <3>1. call'.pc \in {"create", "rebase", "write"}
        BY <1>4, <2>2 DEF NextEntry, AfterRoll, SegmentsInv, Typed, Call
      <3>2. ~Unadvanced /\ ~Unadvanced' /\ call.pc # "reopen" /\ call'.pc # "reopen"
        BY <2>0, <3>1 DEF Unadvanced
      <3>. QED BY <2>0, <3>2, HandleSame
    <2>. QED BY <2>1, <2>2
  <1>5. CASE CreateNext \/ Flush
    <2>0. /\ call.pc \in {"create", "flush"} /\ handle' = handle /\ lines' = lines /\ faults' = faults
      BY <1>5 DEF CreateNext, Flush
    <2>1. dir'.manifest = dir.manifest
      BY <1>5, CreatedFile DEF CreateNext, Flush, NotLanded
    <2>2. CASE Refused
      BY <2>0, <2>1, <2>2, HandleRefused DEF Appending, Rolling
    <2>3. CASE ~Refused
      <3>1. call'.pc \in {"flush", "commit"}
        BY <1>5, <2>3 DEF CreateNext, Flush, SegmentsInv, Typed, Call
      <3>2. ~Unadvanced /\ ~Unadvanced' /\ call.pc # "reopen" /\ call'.pc # "reopen"
        BY <2>0, <3>1 DEF Unadvanced
      <3>. QED BY <2>0, <2>1, <3>2, HandleSame
    <2>. QED BY <2>2, <2>3
  <1>6. CASE UNCHANGED vars
    <2>1. CASE call.pc = "reopen" \/ Unadvanced
      BY <1>6, <2>1 DEF vars, SegmentsInv, HandleInv, Alike, Stored, NewRecord, Rolled, Unadvanced, HeadOf
    <2>2. CASE ~(call.pc = "reopen" \/ Unadvanced)
      <3>1. ~Unadvanced' /\ call'.pc # "reopen"
        BY <1>6, <2>2 DEF vars, Unadvanced
      <3>. QED BY <1>6, <2>2, <3>1, HandleSame DEF vars
    <2>. QED BY <2>1, <2>2
  <1>7. 1 \in Nat /\ \A n \in 1..MaxBatch : n \in Nat
    BY SegmentsAssumption
  <1>. QED BY <1>1, <1>2, <1>3, <1>4, <1>5, <1>6, <1>7, HandleOpen, HandleRoll, HandleOpenNext, HandleRebase,
              HandleWrite, HandleFinish
           DEF Next

-----------------------------------------------------------------------------
(* The rollover policy.                                                      *)

LEMMA PolicedEmpty ==
  ASSUME SegmentsInv, NEW e
  PROVE  Policed(<<>>, TRUE, e) /\ Clean(<<>>) = <<>>
  <1>1. <<>> \in Seq(Record) /\ Len(<<>>) = 0 /\ 0 <= MaxBytes
    BY Types
  <1>2. 1..0 = {}
    OBVIOUS
  <1>. QED BY <1>1, <1>2 DEF Policed, Clean

LEMMA PolicedSealed ==
  ASSUME NEW c, NEW last, NEW e, NEW e2, Policed(c, last, e), c # <<>> \/ ~last
  PROVE  Policed(c, FALSE, e2)
  BY DEF Policed

LEMMA PolicedFewer ==
  ASSUME NEW c, NEW e, Policed(c, TRUE, e), NEW n \in 0..Len(c)
  PROVE  Policed(SubSeq(c, 1, n), TRUE, e)
  <1>1. c \in Seq(Record) /\ Len(c) \in Nat /\ Len(c) <= MaxBytes /\ MaxBytes \in Nat
    BY SegmentsAssumption DEF Policed
  <1>2. PICK x : x = SubSeq(c, 1, n)
    OBVIOUS
  <1>3. x \in Seq(Record) /\ Len(x) = n /\ \A i \in 1..n : x[i] = c[i]
    BY <1>1, <1>2, FirstLines
  <1>4. Len(x) <= MaxBytes /\ \A i \in 1..n : i \in 1..Len(c)
    BY <1>1, <1>3
  <1>5. Policed(x, TRUE, e)
    BY <1>3, <1>4 DEF Policed
  <1>. QED BY <1>2, <1>5

LEMMA PolicedMore ==
  ASSUME NEW c, NEW e, Policed(c, TRUE, e), NEW r \in Record, Len(c) < MaxBytes,
         "dirsync" \notin faults => r.ts \div Epoch = e \div Epoch
  PROVE  Policed(Append(c, r), TRUE, e)
  <1>1. c \in Seq(Record) /\ Len(c) \in Nat /\ MaxBytes \in Nat
    BY SegmentsAssumption DEF Policed
  <1>2. PICK x : x = Append(c, r)
    OBVIOUS
  <1>3. /\ x \in Seq(Record) /\ Len(x) = Len(c) + 1 /\ x[Len(c) + 1] = r
        /\ \A i \in 1..Len(c) : x[i] = c[i]
    BY <1>1, <1>2, AppendProperties
  <1>4. Len(x) <= MaxBytes /\ \A i \in 1..Len(x) : i \in 1..Len(c) \/ i = Len(c) + 1
    BY <1>1, <1>3
  <1>5. ASSUME "dirsync" \notin faults, NEW k \in 1..Len(x) PROVE x[k].ts \div Epoch = e \div Epoch
    <2>1. \A i \in 1..Len(c) : c[i].ts \div Epoch = e \div Epoch
      BY <1>5 DEF Policed
    <2>2. r.ts \div Epoch = e \div Epoch
      BY <1>5
    <2>. QED BY <1>3, <1>4, <2>1, <2>2
  <1>6. Policed(x, TRUE, e)
    <2>1. "dirsync" \notin faults =>
            \A j, k \in 1..Len(x) : x[j].ts \div Epoch = x[k].ts \div Epoch
      BY <1>5
    <2>. QED BY <1>3, <1>4, <1>5, <2>1 DEF Policed
  <1>. QED BY <1>2, <1>6

LEMMA PolicyHolds ==
  ASSUME faults' = faults, \A m \in dir'.manifest : AllPoliced(m, lines')
  PROVE  PolicyInv'
  BY DEF PolicyInv, AllPoliced, Policed

\* Only the active segment's lines change.
LEMMA PolicyCut ==
  ASSUME NEW m \in Seq(SegmentMeta), m # <<>>, AllPoliced(m, lines), dir'.manifest = {m},
         faults' = faults,
         \A j \in 1..(Len(m) - 1) : lines'[m[j].file] = lines[m[j].file],
         Policed(Clean(lines'[Last(m).file]), TRUE, Last(m).opened_ms)
  PROVE  PolicyInv'
  <1>1. Len(m) \in Nat /\ Last(m) = m[Len(m)]
    BY DEF Last
  <1>2. ASSUME NEW i \in 1..Len(m)
        PROVE  Policed(Clean(lines'[m[i].file]), i = Len(m), m[i].opened_ms)
    <2>1. CASE i = Len(m)
      BY <1>1, <2>1
    <2>2. CASE i # Len(m)
      <3>1. i \in 1..(Len(m) - 1)
        BY <1>1, <2>2
      <3>2. Policed(Clean(lines[m[i].file]), i = Len(m), m[i].opened_ms)
        BY DEF AllPoliced
      <3>. QED BY <3>1, <3>2
    <2>. QED BY <2>1, <2>2
  <1>3. AllPoliced(m, lines')
    BY <1>2 DEF AllPoliced
  <1>. QED BY <1>3, PolicyHolds

LEMMA PolicyActive ==
  ASSUME SegmentsInv, NEW m, dir.manifest = {m}, dir'.manifest = {m}, faults' = faults,
         \A j \in 1..(Len(m) - 1) : lines'[m[j].file] = lines[m[j].file],
         Policed(Clean(lines'[Last(m).file]), TRUE, Last(m).opened_ms)
  PROVE  PolicyInv'
  <1>1. m \in Seq(SegmentMeta) /\ m # <<>>
    BY DiskFacts, FitsType
  <1>2. AllPoliced(m, lines)
    BY DEF SegmentsInv, PolicyInv, AllPoliced
  <1>. QED BY <1>1, <1>2, PolicyCut

\* What the policy says of the active segment.
LEMMA ActivePoliced ==
  ASSUME SegmentsInv, NEW m, dir.manifest = {m}
  PROVE  Policed(Clean(lines[Last(m).file]), TRUE, Last(m).opened_ms)
  <1>1. Len(m) \in 1..Len(m) /\ Last(m) = m[Len(m)]
    BY DiskFacts, FitsType
  <1>2. Policed(Clean(lines[m[Len(m)].file]), Len(m) = Len(m), m[Len(m)].opened_ms)
    BY <1>1 DEF SegmentsInv, PolicyInv
  <1>. QED BY <1>1, <1>2

\* Another manifest: what it does not start it has from the handle's.
LEMMA PolicySaved ==
  ASSUME SegmentsInv, call.pc \in {"commit", "rebase"}, NEW n, SavesAs(n), faults' = faults,
         call.pc = "commit" => n = Rolled, call.pc = "rebase" => n = Rebased
  PROVE  PolicyInv'
  <1>0. handle.open /\ ~handle.failed /\ call.pc # "reopen"
    BY DEF SegmentsInv, CallInv, Appending, Rolling
  <1>1. PICK m : /\ dir.manifest = {m} /\ Alike(m, handle.manifest)
                 /\ Fits(m, dir.files, lines)
                 /\ Last(m).file = handle.active
                 /\ lines[handle.active] \in Seq(Record)
    BY <1>0, HandleFacts
  <1>2. PICK k : k = Len(m)
    OBVIOUS
  <1>3. /\ k \in Nat \ {0} /\ Len(handle.manifest) = k /\ Last(m) = m[k]
        /\ \A j \in 1..k : m[j].file = handle.manifest[j].file
    BY <1>1, <1>2, FitsType DEF Alike
  <1>4. \A j \in 1..k : Policed(Clean(lines[m[j].file]), j = k, m[j].opened_ms)
    BY <1>1, <1>2 DEF SegmentsInv, PolicyInv
  <1>5. dir'.manifest = {n} /\ lines' = lines
    BY DEF SavesAs, SegmentsInv, Typed, Directory
  <1>6. Clean(lines[handle.active]) = lines[handle.active]
    BY <1>1, CleanRecords
  <1>7. ASSUME NEW j \in 1..k, j # k, NEW e
        PROVE  Policed(Clean(lines[m[j].file]), FALSE, e)
    BY <1>4, <1>7, PolicedSealed
  <1>8. CASE call.pc = "commit"
    <2>1. /\ n = Rolled /\ Len(n) = k + 1 /\ \A j \in 1..k : n[j].file = m[j].file
          /\ Last(n).file = call.index /\ lines[call.index] = <<>> /\ lines[handle.active] # <<>>
      BY <1>3, <1>8, RolledFits
    <2>2. Last(n) = n[k + 1]
      BY <2>1 DEF Last
    <2>3. ASSUME NEW i \in 1..Len(n)
          PROVE  Policed(Clean(lines[n[i].file]), i = Len(n), n[i].opened_ms)
      <3>1. CASE i = k + 1
        <4>1. (i = Len(n)) = TRUE /\ lines[n[i].file] = <<>>
          BY <2>1, <2>2, <3>1
        <4>. QED BY <4>1, PolicedEmpty
      <3>2. CASE i \in 1..k /\ i = k
        <4>1. Clean(lines[n[i].file]) = lines[handle.active] /\ Clean(lines[m[i].file]) = lines[handle.active]
          BY <1>1, <1>3, <1>6, <2>1, <3>2
        <4>2. Policed(lines[handle.active], TRUE, m[i].opened_ms)
          BY <1>4, <3>2, <4>1
        <4>3. Policed(lines[handle.active], FALSE, n[i].opened_ms)
          BY <2>1, <4>2, PolicedSealed
        <4>4. (i = Len(n)) = FALSE
          BY <1>3, <2>1, <3>2
        <4>. QED BY <4>1, <4>3, <4>4
      <3>3. CASE i \in 1..k /\ i # k
        <4>1. (i = Len(n)) = FALSE
          BY <1>3, <2>1, <3>3
        <4>. QED BY <1>7, <2>1, <3>3, <4>1
      <3>. QED BY <1>3, <2>1, <3>1, <3>2, <3>3
    <2>. QED BY <1>5, <2>3, PolicyHolds DEF AllPoliced
  <1>9. CASE call.pc = "rebase"
    <2>1. /\ n = Rebased /\ Len(n) = k /\ \A j \in 1..k : n[j].file = m[j].file
          /\ lines[handle.active] = <<>>
      BY <1>3, <1>9, RebasedFits
    <2>3. ASSUME NEW i \in 1..Len(n)
          PROVE  Policed(Clean(lines[n[i].file]), i = Len(n), n[i].opened_ms)
      <3>1. CASE i = k
        <4>1. lines[n[i].file] = <<>> /\ (i = Len(n)) = TRUE
          BY <1>1, <1>3, <2>1, <3>1
        <4>. QED BY <4>1, PolicedEmpty
      <3>2. CASE i # k
        <4>1. (i = Len(n)) = FALSE
          BY <1>3, <2>1, <3>2
        <4>. QED BY <1>7, <2>1, <3>2, <4>1
      <3>. QED BY <3>1, <3>2
    <2>. QED BY <1>5, <2>3, PolicyHolds DEF AllPoliced
  <1>. QED BY <1>8, <1>9

LEMMA PolicyStep ==
  ASSUME SegmentsInv, [Next]_vars
  PROVE  PolicyInv'
  <1>0. faults' = faults
    BY FaultsStep
  <1>1. CASE Grows
    BY <1>0, <1>1 DEF Grows, Quiet, SegmentsInv, PolicyInv, Policed
  <1>2. CASE call.pc = "initialize" /\ SavesAs(FirstManifest)
    <2>1. /\ \A i \in Index : lines[i] = <<>>
          /\ Len(FirstManifest) = 1 /\ FirstManifest[1].file = 1
      BY <1>2, FirstFits
    <2>2. 1 \in Index /\ dir'.manifest = {FirstManifest} /\ lines' = lines
      BY <1>2, SegmentsAssumption DEF Index, SavesAs, SegmentsInv, Typed, Directory
    <2>3. ASSUME NEW i \in 1..Len(FirstManifest)
          PROVE  Policed(Clean(lines[FirstManifest[i].file]), i = Len(FirstManifest), FirstManifest[i].opened_ms)
      <3>1. i = 1 /\ (i = Len(FirstManifest)) = TRUE /\ lines[FirstManifest[i].file] = <<>>
        BY <2>1, <2>2
      <3>. QED BY <3>1, PolicedEmpty
    <2>. QED BY <1>0, <2>2, <2>3, PolicyHolds DEF AllPoliced
  <1>3. ASSUME NEW sync \in BOOLEAN, Open(sync) PROVE PolicyInv'
    <2>1. PICK m : /\ dir.manifest = {m} /\ dir' = dir
                   /\ lines'[Last(m).file] = Clean(lines[Last(m).file])
                   /\ Clean(lines[Last(m).file]) \in Seq(Record)
                   /\ \A i \in Index : i # Last(m).file => lines'[i] = lines[i]
      BY <1>3, Opened
    <2>2. /\ Fits(m, dir.files, lines) /\ Last(m) = m[Len(m)] /\ Len(m) \in Nat
          /\ \A i \in 1..Len(m) : m[i].file \in Index
      BY <2>1, DiskFacts, FitsType
    <2>3. \A j \in 1..(Len(m) - 1) : j \in 1..Len(m) /\ m[j].file # Last(m).file
      BY <2>2 DEF Fits
    <2>4. \A j \in 1..(Len(m) - 1) : lines'[m[j].file] = lines[m[j].file]
      BY <2>1, <2>2, <2>3
    <2>5. Clean(lines'[Last(m).file]) = Clean(lines[Last(m).file])
      BY <2>1, CleanRecords
    <2>6. Policed(Clean(lines'[Last(m).file]), TRUE, Last(m).opened_ms)
      BY <2>1, <2>5, ActivePoliced
    <2>7. dir'.manifest = {m}
      BY <2>1
    <2>. QED BY <1>0, <2>1, <2>4, <2>6, <2>7, PolicyActive
  <1>4. CASE Appends(NewRecord) \/ Appends(Torn)
    <2>1. /\ call.pc = "write" /\ handle.open /\ ~handle.failed /\ call.pc # "reopen"
          /\ dir' = dir /\ promised' = promised /\ call.ts \in Time
          /\ Len(lines[handle.active]) < MaxBytes
          /\ "dirsync" \notin faults =>
               Last(handle.manifest).opened_ms \div Epoch = call.ts \div Epoch
      BY <1>4 DEF Appends, SegmentsInv, CallInv, Appending, Rolling
    <2>2. PICK m : /\ dir.manifest = {m} /\ Alike(m, handle.manifest)
                   /\ Fits(m, dir.files, lines)
                   /\ Last(m).file = handle.active
                   /\ lines[handle.active] \in Seq(Record)
      BY <2>1, HandleFacts
    <2>3. /\ Last(m) = m[Len(m)] /\ Len(m) \in Nat
          /\ \A i \in 1..Len(m) : m[i].file \in Index
      BY <2>2, FitsType
    <2>4. \A j \in 1..(Len(m) - 1) : j \in 1..Len(m) /\ m[j].file # handle.active
      BY <2>2, <2>3 DEF Fits
    <2>5. PICK a : a = lines[handle.active]
      OBVIOUS
    <2>6. a \in Seq(Record) /\ Clean(a) = a /\ Policed(a, TRUE, Last(m).opened_ms)
      BY <2>2, <2>5, CleanRecords, ActivePoliced
    <2>7. \A i \in Index : i # handle.active => lines'[i] = lines[i]
      BY <1>4, <2>1, Written, TornWritten DEF Appends
    <2>8. \A j \in 1..(Len(m) - 1) : lines'[m[j].file] = lines[m[j].file]
      BY <2>3, <2>4, <2>7
    <2>9. Policed(Clean(lines'[handle.active]), TRUE, Last(m).opened_ms)
      <3>1. CASE Appends(NewRecord)
        <4>1. /\ NewRecord \in Record /\ lines'[handle.active] = Append(a, NewRecord)
              /\ lines'[handle.active] \in Seq(Record)
          BY <2>1, <2>5, <3>1, Written DEF Appends
        <4>2. NewRecord.ts = call.ts
          BY <2>1, NewRecordType
        <4>3. "dirsync" \notin faults => NewRecord.ts \div Epoch = Last(m).opened_ms \div Epoch
          BY <2>1, <2>2, <4>2 DEF Alike
        <4>4. PICK r \in Record : r = NewRecord
          BY <4>1
        <4>5. "dirsync" \notin faults => r.ts \div Epoch = Last(m).opened_ms \div Epoch
          BY <4>3, <4>4
        <4>6. Policed(Append(a, r), TRUE, Last(m).opened_ms)
          BY <2>1, <2>5, <2>6, <4>5, PolicedMore
        <4>7. Clean(lines'[handle.active]) = lines'[handle.active]
          BY <4>1, CleanRecords
        <4>. QED BY <4>1, <4>4, <4>6, <4>7
      <3>2. CASE Appends(Torn)
        <4>1. lines'[handle.active] = Append(a, Torn)
          BY <2>1, <2>5, <3>2, TornWritten DEF Appends
        <4>2. Clean(lines'[handle.active]) = a
          BY <2>6, <4>1, CleanTorn
        <4>. QED BY <2>6, <4>2
      <3>. QED BY <1>4, <3>1, <3>2
    <2>10. dir'.manifest = {m}
      BY <2>1, <2>2
    <2>. QED BY <1>0, <2>2, <2>8, <2>9, <2>10, PolicyActive
  <1>5. CASE PowerLoss
    <2>1. /\ \A m \in dir'.manifest : CutAtItsEnd(m) /\ AllPoliced(m, lines)
          /\ \A m \in dir'.manifest : Fits(m, dir'.files, lines')
          /\ \A m, n \in dir'.manifest : m = n
      BY <1>5, PowerLost, DirStep DEF DiskInv, Next
    <2>2. CASE dir'.manifest = {}
      BY <1>0, <2>2, PolicyHolds
    <2>3. CASE dir'.manifest # {}
      <3>1. PICK m : dir'.manifest = {m}
        BY <2>1, <2>3
      <3>2. PICK c : c = Clean(lines[Last(m).file])
        OBVIOUS
      <3>3. PICK n \in 0..Len(c) : Clean(lines'[Last(m).file]) = SubSeq(c, 1, n)
        BY <2>1, <3>1, <3>2 DEF CutAtItsEnd
      <3>4. PICK ls, fs : ls = lines' /\ fs = dir'.files
        OBVIOUS
      <3>5. Fits(m, fs, ls)
        BY <2>1, <3>1, <3>4
      <3>6. m \in Seq(SegmentMeta) /\ m # <<>> /\ Len(m) \in 1..Len(m) /\ Last(m) = m[Len(m)]
        BY <3>5, FitsType
      <3>7. AllPoliced(m, lines)
        BY <2>1, <3>1
      <3>8. Policed(c, TRUE, Last(m).opened_ms)
        <4>1. Policed(Clean(lines[m[Len(m)].file]), Len(m) = Len(m), m[Len(m)].opened_ms)
          BY <3>6, <3>7 DEF AllPoliced
        <4>. QED BY <3>2, <3>6, <4>1
      <3>9. Policed(Clean(lines'[Last(m).file]), TRUE, Last(m).opened_ms)
        BY <3>3, <3>8, PolicedFewer
      <3>10. \A k \in 1..(Len(m) - 1) : lines'[m[k].file] = lines[m[k].file]
        BY <2>1, <3>1 DEF CutAtItsEnd
      <3>. QED BY <1>0, <3>1, <3>6, <3>7, <3>9, <3>10, PolicyCut
    <2>. QED BY <2>2, <2>3
  <1>. QED BY <1>0, <1>1, <1>2, <1>3, <1>4, <1>5, DiskEffect, PolicySaved

-----------------------------------------------------------------------------
(* What a loss of power may take.                                            *)

KeptInv ==
    \A m \in dir.manifest :
        /\ \A i \in 1..(Len(m) - 1) : kept[m[i].file] = Len(lines[m[i].file])
        /\ promised <= Last(m).start_seq + kept[Last(m).file]

\* Nothing but more of the files known to survive.
LEMMA KeptMore ==
  ASSUME SegmentsInv, "power" \in faults, lines' = lines, dir'.manifest = dir.manifest,
         promised' = promised,
         kept' = kept \/ kept' = [kept EXCEPT ![handle.active] = Len(lines[handle.active])]
  PROVE  KeptInv'
  <1>1. /\ kept \in [Index -> Nat] /\ lines \in Contents /\ promised \in Nat
        /\ \A i \in Index : kept[i] <= Len(lines[i]) /\ Len(lines[i]) \in Nat
        /\ handle.active \in Index /\ KeptInv
    BY Types DEF SegmentsInv, Typed, PowerInv, KeptInv, Contents
  <1>2. \A i \in Index : /\ kept'[i] \in Nat /\ kept[i] \in Nat /\ kept'[i] >= kept[i]
                         /\ kept'[i] = kept[i] \/ kept'[i] = Len(lines[i])
    BY <1>1
  <1>3. ASSUME NEW m \in dir'.manifest
        PROVE  /\ \A i \in 1..(Len(m) - 1) : kept'[m[i].file] = Len(lines'[m[i].file])
               /\ promised' <= Last(m).start_seq + kept'[Last(m).file]
    <2>1. dir.manifest = {m}
      BY <1>3 DEF SegmentsInv, Typed
    <2>2. /\ Len(m) \in Nat \ {0} /\ Last(m).file \in Index /\ Last(m).start_seq \in Nat
          /\ \A i \in 1..Len(m) : m[i].file \in Index
      BY <2>1, DiskFacts, FitsType
    <2>3. /\ \A i \in 1..(Len(m) - 1) : i \in 1..Len(m) /\ kept[m[i].file] = Len(lines[m[i].file])
          /\ promised <= Last(m).start_seq + kept[Last(m).file]
      BY <1>1, <2>1, <2>2 DEF KeptInv
    <2>4. \A i \in 1..(Len(m) - 1) : kept'[m[i].file] = Len(lines'[m[i].file])
      BY <1>2, <2>2, <2>3
    <2>5. promised' <= Last(m).start_seq + kept'[Last(m).file]
      BY <1>1, <1>2, <2>2, <2>3
    <2>. QED BY <2>4, <2>5
  <1>. QED BY <1>3 DEF KeptInv

\* The manifest that is there after a step, and what survives of its files.
LEMMA KeptBecomes ==
  ASSUME NEW m, dir'.manifest = {m},
         \A i \in 1..(Len(m) - 1) : kept'[m[i].file] = Len(lines'[m[i].file]),
         promised' <= Last(m).start_seq + kept'[Last(m).file]
  PROVE  KeptInv'
  BY DEF KeptInv

\* What a rollover and a rebase write, and where they may fail or be killed.
CommitRolls ==
    /\ call.pc = "commit" /\ UNCHANGED <<lines, kept, promised>>
    /\ Saved(Rolled) \/ Renamed(Rolled) \/ NotLanded

Rebases ==
    /\ call.pc = "rebase" /\ UNCHANGED <<lines, kept, promised>>
    /\ Saved(Rebased) \/ Renamed(Rebased) \/ NotLanded

LEMMA KeptRoll ==
  ASSUME SegmentsInv, "power" \in faults, CommitRolls
  PROVE  KeptInv'
  <1>0. /\ call.pc = "commit" /\ lines' = lines /\ kept' = kept /\ promised' = promised
        /\ handle.open /\ ~handle.failed /\ call.pc # "reopen"
        /\ kept[handle.active] = Len(lines[handle.active])
    BY DEF CommitRolls, SegmentsInv, CallInv, Appending, Rolling
  <1>1. CASE NotLanded
    BY <1>0, <1>1, KeptMore DEF NotLanded
  <1>2. CASE Saved(Rolled) \/ Renamed(Rolled)
    <2>1. PICK m : /\ dir.manifest = {m} /\ Alike(m, handle.manifest)
                   /\ Fits(m, dir.files, lines) /\ Last(m).file = handle.active
      BY <1>0, HandleFacts
    <2>2. PICK k : k = Len(m)
      OBVIOUS
    <2>3. /\ k \in Nat \ {0} /\ Len(handle.manifest) = k /\ Last(m) = m[k]
          /\ \A j \in 1..k : m[j].file = handle.manifest[j].file
      BY <2>1, <2>2, FitsType DEF Alike
    <2>4. PICK n : n = Rolled
      OBVIOUS
    <2>5. /\ Len(n) = k + 1 /\ \A j \in 1..k : n[j].file = m[j].file
          /\ Last(n).file = call.index /\ Last(n).start_seq = handle.next_seq
          /\ Len(Stored) = handle.next_seq
      BY <1>0, <2>3, <2>4, RolledFits
    <2>6. \A j \in 1..(k - 1) : kept[m[j].file] = Len(lines[m[j].file])
      BY <2>1, <2>2 DEF SegmentsInv, PowerInv
    <2>7. \A j \in 1..k : kept[n[j].file] = Len(lines[n[j].file])
      <3>1. \A j \in 1..k : j = k \/ j \in 1..(k - 1)
        BY <2>3
      <3>. QED BY <1>0, <2>1, <2>3, <2>5, <2>6, <3>1
    <2>8. promised <= Last(n).start_seq + kept[Last(n).file]
      <3>1. kept[call.index] \in Nat
        <4>1. call.index \in Index
          BY <1>0 DEF SegmentsInv, CallInv, Rolling, Typed, Directory
        <4>. QED BY <4>1 DEF SegmentsInv, Typed
      <3>2. promised <= handle.next_seq /\ handle.next_seq \in Nat /\ promised \in Nat
        BY <2>5, Types DEF SegmentsInv, DiskInv, Typed
      <3>. QED BY <2>5, <3>1, <3>2
    <2>9. dir'.manifest = {n}
      BY <1>2, <2>4 DEF Saved, Renamed, SegmentsInv, Typed, Directory
    <2>10. (Len(n) - 1) = k
      BY <2>3, <2>5
    <2>11. \A i \in 1..(Len(n) - 1) : kept'[n[i].file] = Len(lines'[n[i].file])
      BY <1>0, <2>7, <2>10
    <2>12. promised' <= Last(n).start_seq + kept'[Last(n).file]
      BY <1>0, <2>8
    <2>. QED BY <2>9, <2>11, <2>12, KeptBecomes
  <1>. QED BY <1>1, <1>2 DEF CommitRolls

LEMMA KeptRebase ==
  ASSUME SegmentsInv, "power" \in faults, Rebases
  PROVE  KeptInv'
  <1>0. /\ call.pc = "rebase" /\ lines' = lines /\ kept' = kept /\ promised' = promised
        /\ handle.open /\ ~handle.failed /\ call.pc # "reopen"
    BY DEF Rebases, SegmentsInv, CallInv, Appending, Rolling
  <1>1. CASE NotLanded
    BY <1>0, <1>1, KeptMore DEF NotLanded
  <1>2. CASE Saved(Rebased) \/ Renamed(Rebased)
    <2>1. PICK m : /\ dir.manifest = {m} /\ Alike(m, handle.manifest)
                   /\ Fits(m, dir.files, lines) /\ Last(m).file = handle.active
      BY <1>0, HandleFacts
    <2>2. PICK n : n = Rebased
      OBVIOUS
    <2>3. /\ Len(n) = Len(m) /\ Len(m) \in Nat \ {0} /\ Last(m) = m[Len(m)] /\ Last(n) = n[Len(m)]
          /\ \A j \in 1..Len(m) : n[j].file = m[j].file /\ n[j].start_seq = m[j].start_seq
      BY <1>0, <2>1, <2>2, RebasedFits, FitsType DEF Alike, Last
    <2>4. /\ \A i \in 1..(Len(m) - 1) : i \in 1..Len(m) /\ kept[m[i].file] = Len(lines[m[i].file])
          /\ promised <= Last(m).start_seq + kept[Last(m).file]
      BY <2>1, <2>3 DEF SegmentsInv, PowerInv
    <2>5. Len(m) \in 1..Len(m)
      BY <2>3
    <2>6. promised <= Last(n).start_seq + kept[Last(n).file]
      BY <2>3, <2>4, <2>5
    <2>7. \A i \in 1..(Len(n) - 1) : kept[n[i].file] = Len(lines[n[i].file])
      BY <2>3, <2>4
    <2>8. dir'.manifest = {n}
      BY <1>2, <2>2 DEF Saved, Renamed, SegmentsInv, Typed, Directory
    <2>. QED BY <1>0, <2>6, <2>7, <2>8 DEF KeptInv
  <1>. QED BY <1>1, <1>2 DEF Rebases

LEMMA KeptOpen ==
  ASSUME SegmentsInv, "power" \in faults, NEW sync \in BOOLEAN, Open(sync)
  PROVE  KeptInv'
  <1>1. PICK m : /\ dir.manifest = {m} /\ dir' = dir
                 /\ lines'[Last(m).file] = Clean(lines[Last(m).file])
                 /\ Clean(lines[Last(m).file]) \in Seq(Record)
                 /\ \A i \in Index : i # Last(m).file => lines'[i] = lines[i] /\ kept'[i] = kept[i]
                 /\ kept'[Last(m).file] \in {kept[Last(m).file], Len(lines'[Last(m).file])}
    BY Opened
  <1>2. /\ Fits(m, dir.files, lines) /\ Last(m) = m[Len(m)] /\ Len(m) \in Nat
        /\ \A i \in 1..Len(m) : m[i].file \in Index
        /\ Len(Stored) = Last(m).start_seq + Len(Clean(lines[Last(m).file]))
    BY <1>1, DiskFacts, FitsType
  <1>3. \A j \in 1..(Len(m) - 1) : j \in 1..Len(m) /\ m[j].file # Last(m).file
    BY <1>2 DEF Fits
  <1>4. /\ \A i \in 1..(Len(m) - 1) : kept[m[i].file] = Len(lines[m[i].file])
        /\ promised <= Last(m).start_seq + kept[Last(m).file] /\ promised <= Len(Stored)
    BY <1>1 DEF SegmentsInv, PowerInv, DiskInv
  <1>5. \A i \in 1..(Len(m) - 1) : kept'[m[i].file] = Len(lines'[m[i].file])
    BY <1>1, <1>2, <1>3, <1>4
  <1>6. promised <= Last(m).start_seq + kept'[Last(m).file]
    BY <1>1, <1>2, <1>4
  <1>7. promised' = promised
    BY DEF Open
  <1>. QED BY <1>1, <1>5, <1>6, <1>7 DEF KeptInv

LEMMA KeptOpenNext ==
  ASSUME SegmentsInv, "power" \in faults, OpenNext
  PROVE  KeptInv'
  <1>0. /\ call.pc = "reopen" /\ lines' = lines /\ kept' = kept /\ dir' = dir
        /\ promised' \in {promised, handle.next_seq}
    BY DEF OpenNext
  <1>1. dir.manifest = {Rolled}
    BY <1>0, ReopenHead
  <1>2. PICK n : n = Rolled
    OBVIOUS
  <1>3. /\ Last(n).file = call.index /\ Last(n).start_seq = handle.next_seq /\ call.index \in Index
    BY <1>0, <1>2, ReopenFacts DEF IsRolledOver
  <1>4. /\ \A i \in 1..(Len(n) - 1) : kept[n[i].file] = Len(lines[n[i].file])
        /\ promised <= Last(n).start_seq + kept[Last(n).file]
        /\ kept[call.index] \in Nat
    BY <1>1, <1>2, <1>3 DEF SegmentsInv, PowerInv, Typed
  <1>5. promised' <= Last(n).start_seq + kept[Last(n).file]
    BY <1>0, <1>3, <1>4, Types
  <1>. QED BY <1>0, <1>1, <1>2, <1>4, <1>5 DEF KeptInv

LEMMA KeptFinish ==
  ASSUME SegmentsInv, "power" \in faults, Finish
  PROVE  KeptInv'
  <1>0. /\ call.pc = "finish" /\ lines' = lines /\ dir' = dir /\ handle.open /\ call.pc # "reopen"
        /\ kept' = kept \/ kept' = [kept EXCEPT ![handle.active] = Len(lines[handle.active])]
    BY DEF Finish, SegmentsInv, CallInv
  <1>1. CASE promised' = promised
    BY <1>0, <1>1, KeptMore
  <1>2. CASE promised' # promised
    <2>1. /\ handle.sync /\ ~handle.failed /\ promised' = handle'.next_seq
          /\ handle' = IF call.all THEN handle ELSE Advanced
          /\ kept' = [kept EXCEPT ![handle.active] = Len(lines[handle.active])]
      BY <1>2 DEF Finish
    <2>2. promised' = Len(Stored)
      BY <1>0, <2>1, FinishHead
    <2>3. PICK m : /\ dir.manifest = {m} /\ Fits(m, dir.files, lines)
                   /\ Last(m).file = handle.active
                   /\ Len(Stored) = Last(m).start_seq + Len(lines[handle.active])
      BY <1>0, <2>1, HandleFacts
    <2>4. /\ Len(m) \in Nat /\ Last(m) = m[Len(m)] /\ \A i \in 1..Len(m) : m[i].file \in Index
      BY <2>3, FitsType
    <2>5. \A j \in 1..(Len(m) - 1) : j \in 1..Len(m) /\ m[j].file # handle.active
      BY <2>3, <2>4 DEF Fits
    <2>6. /\ kept'[handle.active] = Len(lines[handle.active])
          /\ \A i \in Index : i # handle.active => kept'[i] = kept[i]
      BY <2>1, Types DEF SegmentsInv, Typed
    <2>7. \A i \in 1..(Len(m) - 1) : kept[m[i].file] = Len(lines[m[i].file])
      BY <2>3 DEF SegmentsInv, PowerInv
    <2>8. \A i \in 1..(Len(m) - 1) : kept'[m[i].file] = Len(lines'[m[i].file])
      BY <1>0, <2>4, <2>5, <2>6, <2>7
    <2>9. promised' <= Last(m).start_seq + kept'[Last(m).file]
      <3>1. promised' \in Nat
        BY <2>2, StoredType
      <3>. QED BY <2>2, <2>3, <2>6, <3>1
    <2>10. dir'.manifest = {m}
      BY <1>0, <2>3
    <2>. QED BY <2>8, <2>9, <2>10, KeptBecomes
  <1>. QED BY <1>1, <1>2

LEMMA KeptWrite ==
  ASSUME SegmentsInv, "power" \in faults, WriteLine
  PROVE  KeptInv'
  <1>0. /\ call.pc = "write" /\ kept' = kept /\ promised' = promised /\ dir' = dir
        /\ handle.open /\ ~handle.failed /\ call.pc # "reopen"
    BY DEF WriteLine, SegmentsInv, CallInv, Appending, Rolling
  <1>1. CASE lines' = lines
    BY <1>0, <1>1, KeptMore
  <1>2. CASE Appends(NewRecord) \/ Appends(Torn)
    <2>1. \A i \in Index : i # handle.active => lines'[i] = lines[i]
      BY <1>2, Written, TornWritten DEF Appends
    <2>2. PICK m : /\ dir.manifest = {m} /\ Fits(m, dir.files, lines)
                   /\ Last(m).file = handle.active
      BY <1>0, HandleFacts
    <2>3. /\ Len(m) \in Nat /\ Last(m) = m[Len(m)] /\ \A i \in 1..Len(m) : m[i].file \in Index
      BY <2>2, FitsType
    <2>4. \A j \in 1..(Len(m) - 1) : j \in 1..Len(m) /\ m[j].file # handle.active
      BY <2>2, <2>3 DEF Fits
    <2>5. /\ \A i \in 1..(Len(m) - 1) : kept[m[i].file] = Len(lines[m[i].file])
          /\ promised <= Last(m).start_seq + kept[Last(m).file]
      BY <2>2 DEF SegmentsInv, PowerInv
    <2>6. \A i \in 1..(Len(m) - 1) : kept[m[i].file] = Len(lines'[m[i].file])
      BY <2>1, <2>3, <2>4, <2>5
    <2>7. dir'.manifest = {m}
      BY <1>0, <2>2
    <2>. QED BY <1>0, <2>5, <2>6, <2>7 DEF KeptInv
  <1>. QED BY <1>0, <1>1, <1>2 DEF WriteLine, Appends

LEMMA KeptPowerLoss ==
  ASSUME SegmentsInv, PowerLoss
  PROVE  KeptInv'
  <1>1. /\ \A m \in dir'.manifest : CutAtItsEnd(m)
        /\ \A m \in dir'.manifest : Fits(m, dir'.files, lines')
    BY PowerLost DEF DiskInv
  <1>2. kept' = [i \in Index |-> Len(lines'[i])] /\ promised' = promised
    BY FilesSurvive
  <1>3. ASSUME NEW m \in dir'.manifest
        PROVE  /\ \A i \in 1..(Len(m) - 1) : kept'[m[i].file] = Len(lines'[m[i].file])
               /\ promised' <= Last(m).start_seq + kept'[Last(m).file]
    <2>1. PICK ls, fs : ls = lines' /\ fs = dir'.files
      OBVIOUS
    <2>2. Fits(m, fs, ls)
      BY <1>1, <2>1
    <2>3. /\ Len(m) \in Nat /\ Last(m).file \in Index /\ \A i \in 1..Len(m) : m[i].file \in Index
      BY <2>2, FitsType
    <2>4. promised <= Last(m).start_seq + Len(lines'[Last(m).file])
      BY <1>1 DEF CutAtItsEnd
    <2>5. \A i \in Index : kept'[i] = Len(lines'[i])
      BY <1>2
    <2>6. \A i \in 1..(Len(m) - 1) : i \in 1..Len(m)
      BY <2>3
    <2>. QED BY <1>2, <2>3, <2>4, <2>5, <2>6
  <1>. QED BY <1>3 DEF KeptInv

LEMMA KeptFirst ==
  ASSUME SegmentsInv, "power" \in faults, call.pc = "initialize",
         Saved(FirstManifest) \/ Renamed(FirstManifest), kept' = kept, promised' = promised
  PROVE  KeptInv'
  <1>1. PICK m : m = FirstManifest
    OBVIOUS
  <1>2. /\ Last(m).file = 1 /\ Last(m).start_seq = 0 /\ Len(m) = 1 /\ promised = 0
        /\ 1 \in Index /\ kept[1] \in Nat
    BY <1>1, FirstFits, SegmentsAssumption DEF Index, SegmentsInv, Typed
  <1>3. dir'.manifest = {m}
    BY <1>1 DEF Saved, Renamed, SegmentsInv, Typed, Directory
  <1>4. \A i \in 1..(Len(m) - 1) : kept'[m[i].file] = Len(lines'[m[i].file])
    BY <1>2
  <1>5. promised' <= Last(m).start_seq + kept'[Last(m).file]
    BY <1>2
  <1>. QED BY <1>3, <1>4, <1>5, KeptBecomes

LEMMA KeptStays ==
  ASSUME SegmentsInv, [Next]_vars, "power" \in faults
  PROVE  KeptInv'
  <1>1. CASE Initialize
    <2>1. 1 \in Index
      BY SegmentsAssumption DEF Index
    <2>. QED BY <1>1, <2>1, CreatedFile, KeptMore DEF Initialize
  <1>2. CASE InitializeManifest
    <2>1. CASE NotLanded
      BY <1>2, <2>1, KeptMore DEF InitializeManifest, NotLanded
    <2>. QED BY <1>2, <2>1, KeptFirst DEF InitializeManifest, Landed
  <1>3. CASE CreateNext
    BY <1>3, CreatedFile, KeptMore DEF CreateNext, NotLanded
  <1>4. CASE Flush
    BY <1>4, KeptMore DEF Flush
  <1>5. ASSUME NEW all, NEW n, AppendCall(all, n) PROVE KeptInv'
    BY <1>5, KeptMore DEF AppendCall
  <1>6. ASSUME NEW ts \in Time, NextEntry(ts) PROVE KeptInv'
    BY <1>6, KeptMore DEF NextEntry
  <1>7. CASE Kill
    BY <1>7, KeptMore DEF Kill
  <1>8. CASE UNCHANGED vars
    BY <1>8, KeptMore DEF vars
  <1>9. CASE CommitRoll
    BY <1>9, KeptRoll DEF CommitRoll, CommitRolls, Landed
  <1>10. CASE Rebase
    BY <1>10, KeptRebase DEF Rebase, Rebases, Landed
  <1>11. CASE KilledUnsynced
    BY <1>11, KeptFirst, KeptRoll, KeptRebase DEF KilledUnsynced, CommitRolls, Rebases
  <1>. QED BY <1>1, <1>2, <1>3, <1>4, <1>5, <1>6, <1>7, <1>8, <1>9, <1>10, <1>11, KeptOpen, KeptOpenNext,
              KeptWrite, KeptFinish, KeptPowerLoss
           DEF Next

-----------------------------------------------------------------------------
(* The directories that a loss of power may bring back.                      *)

\* A directory whose manifest names the segments of the one that is there.
LEMMA AlikeUndone ==
  ASSUME DiskInv', PolicyInv', KeptInv', lines' \in Contents, faults' = faults,
         NEW m, dir'.manifest = {m}, NEW d, NEW n \in Seq(SegmentMeta), d.manifest = {n},
         SameSegments(n, m), "dirsync" \notin faults => n = m,
         \A i \in 1..Len(n) : n[i].file \in d.files
  PROVE  Undone(d)'
  <1>1. PICK ls, fs : ls = lines' /\ fs = dir'.files
    OBVIOUS
  <1>2. Fits(m, fs, ls) /\ ls \in Contents
    BY <1>1 DEF DiskInv
  <1>3. /\ Fits(n, fs, ls) /\ StoredOf({n}, ls) = StoredOf({m}, ls)
        /\ Last(n).file = Last(m).file /\ Last(n).start_seq = Last(m).start_seq
    BY <1>2, LikeFits
  <1>4. Fits(n, d.files, lines')
    BY <1>1, <1>3 DEF Fits
  <1>5. StoredOf(d.manifest, lines') = Stored'
    <2>1. Stored' = StoredOf(dir'.manifest, lines')
      BY DEF Stored, StoredOf
    <2>. QED BY <1>1, <1>3, <2>1
  <1>6. /\ Len(n) = Len(m) /\ \A i \in 1..Len(m) : n[i].file = m[i].file
    BY DEF SameSegments
  <1>7. ASSUME NEW i \in Index, lines'[i] # <<>>
        PROVE  \E x \in d.manifest : Names(x, i)
    <2>1. Names(m, i)
      BY <1>7 DEF DiskInv
    <2>2. Names(n, i)
      BY <1>6, <2>1 DEF Names
    <2>. QED BY <2>2
  <1>8. AllPoliced(n, lines)'
    <2>1. \A i \in 1..Len(m) : Policed(Clean(lines[m[i].file]), i = Len(m), m[i].opened_ms)'
      BY DEF PolicyInv
    <2>2. CASE n = m
      BY <2>1, <2>2 DEF AllPoliced
    <2>3. CASE "dirsync" \in faults
      BY <1>6, <2>1, <2>3 DEF AllPoliced, Policed
    <2>. QED BY <2>2, <2>3
  <1>9. /\ \A i \in 1..(Len(n) - 1) : kept'[n[i].file] = Len(lines'[n[i].file])
        /\ promised' <= Last(n).start_seq + kept'[Last(n).file]
    <2>1. /\ \A i \in 1..(Len(m) - 1) : kept'[m[i].file] = Len(lines'[m[i].file])
          /\ promised' <= Last(m).start_seq + kept'[Last(m).file]
      BY DEF KeptInv
    <2>2. \A i \in 1..(Len(m) - 1) : i \in 1..Len(m)
      BY <1>2, FitsType
    <2>. QED BY <1>3, <1>6, <2>1, <2>2
  <1>10. Bound(d)'
    BY DEF Bound
  <1>. QED BY <1>4, <1>5, <1>7, <1>8, <1>9, <1>10 DEF Undone

\* The directory that is there.
LEMMA SelfUndone ==
  ASSUME DiskInv', PolicyInv', KeptInv', lines' \in Contents, faults' = faults,
         \A m, n \in dir'.manifest : m = n, NEW d, d = dir'
  PROVE  Undone(d)'
  <1>1. CASE dir'.manifest = {}
    <2>1. d.manifest = {} /\ Stored' = <<>> /\ StoredOf(d.manifest, lines') = <<>>
      BY <1>1 DEF Stored, StoredOf
    <2>2. \A i \in Index : lines'[i] # <<>> => \E n \in d.manifest : Names(n, i)
      BY DEF DiskInv
    <2>3. Bound(d)'
      BY <1>1 DEF Bound
    <2>. QED BY <2>1, <2>2, <2>3 DEF Undone
  <1>2. CASE dir'.manifest # {}
    <2>1. PICK m : dir'.manifest = {m}
      BY <1>2
    <2>2. Fits(m, dir'.files, lines')
      BY <2>1 DEF DiskInv
    <2>3. /\ m \in Seq(SegmentMeta) /\ d.manifest = {m} /\ SameSegments(m, m)
          /\ \A i \in 1..Len(m) : m[i].file \in d.files
      BY <2>1, <2>2 DEF Fits, SameSegments
    <2>. QED BY <2>1, <2>3, AlikeUndone
  <1>. QED BY <1>1, <1>2

\* A step that keeps the lines.
LEMMA StaysUndone ==
  ASSUME SegmentsInv, "power" \in faults, NEW d \in dirs, lines' = lines, Stored' = Stored,
         promised' = promised, faults' = faults, kept' \in [Index -> Nat],
         \A i \in Index : kept[i] <= kept'[i] /\ kept'[i] <= Len(lines[i]),
         Bound(d)'
  PROVE  Undone(d)'
  <1>1. Undone(d) /\ lines \in Contents /\ kept \in [Index -> Nat] /\ promised \in Nat
    BY DEF SegmentsInv, PowerInv, Typed
  <1>2. ASSUME NEW n \in d.manifest
        PROVE  /\ Fits(n, d.files, lines) /\ AllPoliced(n, lines)'
               /\ \A i \in 1..(Len(n) - 1) : kept'[n[i].file] = Len(lines[n[i].file])
               /\ promised <= Last(n).start_seq + kept'[Last(n).file]
    <2>1. /\ Fits(n, d.files, lines) /\ AllPoliced(n, lines)
          /\ \A i \in 1..(Len(n) - 1) : kept[n[i].file] = Len(lines[n[i].file])
          /\ promised <= Last(n).start_seq + kept[Last(n).file]
      BY <1>1 DEF Undone
    <2>2. AllPoliced(n, lines)'
      BY <2>1 DEF AllPoliced, Policed
    <2>3. /\ Len(n) \in Nat /\ Last(n).file \in Index /\ Last(n).start_seq \in Nat
          /\ \A i \in 1..Len(n) : n[i].file \in Index
      BY <2>1, FitsType
    <2>4. \A i \in 1..(Len(n) - 1) : n[i].file \in Index
      BY <2>3
    <2>5. \A i \in Index : Len(lines[i]) \in Nat
      BY <1>1 DEF Contents
    <2>6. \A i \in 1..(Len(n) - 1) : kept'[n[i].file] = Len(lines[n[i].file])
      BY <1>1, <2>1, <2>4, <2>5
    <2>7. promised <= Last(n).start_seq + kept'[Last(n).file]
      BY <1>1, <2>1, <2>3
    <2>. QED BY <2>1, <2>2, <2>6, <2>7
  <1>. QED BY <1>1, <1>2 DEF Undone

\* The handle and the manifest stay, or the handle is gone or has stopped.
LEMMA BoundStays ==
  ASSUME SegmentsInv, "power" \in faults, NEW d \in dirs, faults' = faults,
         \/ handle' = handle /\ dir'.manifest = dir.manifest
         \/ ~handle'.open \/ handle'.failed
  PROVE  Bound(d)'
  <1>1. Bound(d)
    BY DEF SegmentsInv, PowerInv, Undone
  <1>. QED BY <1>1 DEF Bound

\* A handle that writes: every directory that may be there has its segments.
LEMMA WritesUndone ==
  ASSUME SegmentsInv, [Next]_vars, "power" \in faults, NEW d \in dirs,
         handle.open, ~handle.failed, dir' = dir
  PROVE  Undone(d)'
  <1>1. PICK m : dir.manifest = {m}
    BY DEF SegmentsInv, HandleInv
  <1>2. Undone(d)
    BY DEF SegmentsInv, PowerInv
  <1>3. PICK n \in Seq(SegmentMeta) :
           d.manifest = {n} /\ SameSegments(n, m) /\ ("dirsync" \notin faults => n = m)
    BY <1>1, <1>2 DEF Undone, Bound
  <1>4. \A i \in 1..Len(n) : n[i].file \in d.files
    BY <1>2, <1>3 DEF Undone, Fits
  <1>5. DiskInv' /\ PolicyInv' /\ KeptInv' /\ lines' \in Contents /\ faults' = faults
    BY DiskStep, PolicyStep, KeptStays, FaultsStep
  <1>6. dir'.manifest = {m}
    BY <1>1
  <1>. QED BY <1>3, <1>4, <1>5, <1>6, AlikeUndone

\* A manifest that was renamed gives the same records.
LEMMA RenamedStored ==
  ASSUME SegmentsInv, lines' = lines,
         \/ call.pc = "initialize" /\ Renamed(FirstManifest)
         \/ call.pc = "commit" /\ Renamed(Rolled)
         \/ call.pc = "rebase" /\ Renamed(Rebased)
  PROVE  Stored' = Stored /\ dirs' = dirs \cup {dir'}
  <1>1. PICK n : Renamed(n) /\ StoredOf({n}, lines) = Stored
    BY FirstFits, RolledFits, RebasedFits
  <1>2. dir'.manifest = {n} /\ dirs' = dirs \cup {dir'}
    BY <1>1 DEF Renamed, SegmentsInv, Typed, Directory
  <1>3. Stored' = StoredOf({n}, lines)
    BY <1>2 DEF Stored, StoredOf
  <1>. QED BY <1>1, <1>2, <1>3

\* A rebase whose directory sync failed: the handle goes on.
LEMMA RebaseBound ==
  ASSUME SegmentsInv, "power" \in faults, NEW d \in dirs, call.pc = "rebase", Landed(Rebased),
         faults' = faults
  PROVE  Bound(d)'
  <1>1. PICK r : r = Rebased
    OBVIOUS
  <1>2. /\ handle.open /\ ~handle.failed /\ call.pc # "reopen" /\ Len(r) = Len(handle.manifest)
        /\ \A j \in 1..Len(handle.manifest) :
              /\ r[j].file = handle.manifest[j].file
              /\ r[j].start_seq = handle.manifest[j].start_seq
              /\ r[j].end_seq = handle.manifest[j].end_seq
    BY <1>1, RebasedFits
  <1>3. PICK m : dir.manifest = {m} /\ Alike(m, handle.manifest)
    BY <1>2, HandleFacts
  <1>4. PICK n \in Seq(SegmentMeta) : d.manifest = {n} /\ SameSegments(n, m)
    BY <1>2, <1>3 DEF SegmentsInv, PowerInv, Undone, Bound
  <1>5. SameSegments(n, r)
    BY <1>2, <1>3, <1>4 DEF SameSegments, Alike
  <1>6. dir'.manifest = {r} /\ "dirsync" \in faults
    BY <1>1 DEF Landed, Renamed, SegmentsInv, Typed, Directory
  <1>. QED BY <1>4, <1>5, <1>6 DEF Bound

LEMMA OthersUndone ==
  ASSUME NoUndo, SegmentsInv, [Next]_vars, "power" \in faults, NEW d \in dirs', d # dir'
  PROVE  Undone(d)'
  <1>0. /\ faults' = faults /\ kept \in [Index -> Nat] /\ lines \in Contents
        /\ \A i \in Index : kept[i] <= Len(lines[i]) /\ Len(lines[i]) \in Nat
        /\ handle.active \in Index /\ handle \in Handle
    BY FaultsStep, Types DEF SegmentsInv, Typed, Contents
  <1>1. ASSUME d \in dirs, lines' = lines, Stored' = Stored, promised' = promised,
               kept' = kept \/ kept' = [kept EXCEPT ![handle.active] = Len(lines[handle.active])],
               Bound(d)'
        PROVE  Undone(d)'
    <2>1. kept' \in [Index -> Nat] /\ \A i \in Index : kept[i] <= kept'[i] /\ kept'[i] <= Len(lines[i])
      BY <1>0, <1>1
    <2>. QED BY <1>0, <1>1, <2>1, StaysUndone
  <1>2. ASSUME lines' = lines, dir'.manifest = dir.manifest, dirs' \in {dirs, dirs \cup {dir'}},
               promised' = promised, handle' = handle \/ ~handle'.open \/ handle'.failed,
               kept' = kept \/ kept' = [kept EXCEPT ![handle.active] = Len(lines[handle.active])]
        PROVE  Undone(d)'
    <2>1. d \in dirs /\ Stored' = Stored
      BY <1>2 DEF Stored
    <2>2. Bound(d)'
      BY <1>0, <1>2, <2>1, BoundStays
    <2>. QED BY <1>1, <1>2, <2>1, <2>2
  <1>3. CASE Initialize
    <2>1. 1 \in Index
      BY SegmentsAssumption DEF Index
    <2>. QED BY <1>2, <1>3, <2>1, CreatedFile DEF Initialize
  <1>4. CASE InitializeManifest
    <2>1. CASE NotLanded
      BY <1>2, <1>4, <2>1 DEF InitializeManifest, NotLanded
    <2>2. CASE Saved(FirstManifest)
      BY <2>2 DEF Saved
    <2>3. CASE Renamed(FirstManifest)
      <3>1. d \in dirs /\ Stored' = Stored /\ ~handle'.open
        BY <1>4, <2>3, RenamedStored DEF InitializeManifest, SegmentsInv, CallInv
      <3>2. Bound(d)'
        BY <1>0, <3>1, BoundStays
      <3>. QED BY <1>1, <1>4, <3>1, <3>2 DEF InitializeManifest
    <2>. QED BY <1>4, <2>1, <2>2, <2>3 DEF InitializeManifest, Landed
  <1>5. ASSUME NEW all, NEW n, AppendCall(all, n) PROVE Undone(d)'
    BY <1>2, <1>5 DEF AppendCall
  <1>6. ASSUME NEW ts \in Time, NextEntry(ts) PROVE Undone(d)'
    BY <1>2, <1>6 DEF NextEntry
  <1>7. CASE CreateNext
    BY <1>2, <1>7, CreatedFile DEF CreateNext, NotLanded
  <1>8. CASE Flush
    BY <1>2, <1>8 DEF Flush
  <1>9. CASE CommitRoll
    <2>1. CASE NotLanded /\ handle' = handle
      BY <1>2, <1>9, <2>1 DEF CommitRoll, NotLanded
    <2>2. CASE Saved(Rolled)
      BY <2>2 DEF Saved
    <2>3. CASE Renamed(Rolled) /\ handle' = [handle EXCEPT !.failed = TRUE]
      <3>1. d \in dirs /\ Stored' = Stored
        BY <1>9, <2>3, RenamedStored DEF CommitRoll
      <3>2. handle'.failed
        BY <1>0, <2>3 DEF Handle
      <3>3. Bound(d)'
        BY <1>0, <3>1, <3>2, BoundStays
      <3>. QED BY <1>1, <1>9, <3>1, <3>3 DEF CommitRoll
    <2>. QED BY <1>9, <2>1, <2>2, <2>3 DEF CommitRoll, Landed
  <1>10. CASE OpenNext
    <2>1. dir' = dir /\ dirs' = dirs /\ call.pc = "reopen"
      BY <1>10 DEF OpenNext
    <2>2. handle.open /\ ~handle.failed
      BY <2>1, ReopenHead
    <2>. QED BY <2>1, <2>2, WritesUndone
  <1>11. CASE Rebase
    <2>1. CASE NotLanded /\ handle' = handle
      BY <1>2, <1>11, <2>1 DEF Rebase, NotLanded
    <2>2. CASE Saved(Rebased)
      BY <2>2 DEF Saved
    <2>3. CASE Landed(Rebased)
      <3>1. d \in dirs /\ Stored' = Stored
        BY <1>11, <2>3, RenamedStored DEF Rebase, Landed
      <3>2. Bound(d)'
        BY <1>0, <1>11, <2>3, <3>1, RebaseBound DEF Rebase
      <3>. QED BY <1>1, <1>11, <3>1, <3>2 DEF Rebase
    <2>. QED BY <1>11, <2>1, <2>2, <2>3 DEF Rebase
  <1>12. CASE WriteLine
    <2>1. dir' = dir /\ dirs' = dirs /\ handle.open /\ ~handle.failed
      BY <1>12 DEF WriteLine, SegmentsInv, CallInv, Appending
    <2>. QED BY <2>1, WritesUndone
  <1>13. CASE Finish
    <2>1. dir' = dir /\ dirs' = dirs /\ lines' = lines /\ handle.open /\ (~call.all => ~handle.failed)
      BY <1>13 DEF Finish, SegmentsInv, CallInv
    <2>2. CASE ~handle.failed
      BY <2>1, <2>2, WritesUndone
    <2>3. CASE handle.failed
      <3>1. /\ promised' = promised
            /\ handle' = handle \/ handle' = [handle EXCEPT !.failed = TRUE]
            /\ kept' = kept \/ kept' = [kept EXCEPT ![handle.active] = Len(lines[handle.active])]
        BY <1>13, <2>1, <2>3 DEF Finish
      <3>2. handle'.failed
        BY <1>0, <2>3, <3>1 DEF Handle
      <3>. QED BY <1>2, <2>1, <3>1, <3>2
    <2>. QED BY <2>2, <2>3
  <1>14. CASE Kill
    BY <1>2, <1>14 DEF Kill, Closed
  <1>15. CASE KilledUnsynced
    <2>1. d \in dirs /\ Stored' = Stored /\ ~handle'.open
      BY <1>15, RenamedStored DEF KilledUnsynced, Closed
    <2>2. Bound(d)'
      BY <1>0, <2>1, BoundStays
    <2>. QED BY <1>1, <1>15, <2>1, <2>2 DEF KilledUnsynced
  <1>16. CASE PowerLoss
    BY <1>16 DEF PowerLoss
  <1>17. ASSUME NEW sync \in BOOLEAN, Open(sync) PROVE Undone(d)'
    <2>1. PICK m : /\ dir.manifest = {m} /\ dir' = dir /\ m \in Seq(SegmentMeta)
      BY <1>17, Opened
    <2>2. d \in dirs /\ d.manifest = {m}
      BY <1>17, <2>1 DEF Open, NoUndo, SegmentsInv, Typed
    <2>3. Fits(m, d.files, lines)
      BY <2>2 DEF SegmentsInv, PowerInv, Undone
    <2>4. SameSegments(m, m) /\ \A i \in 1..Len(m) : m[i].file \in d.files
      BY <2>3 DEF SameSegments, Fits
    <2>5. DiskInv' /\ PolicyInv' /\ KeptInv' /\ lines' \in Contents
      BY DiskStep, PolicyStep, KeptStays
    <2>6. dir'.manifest = {m}
      BY <2>1
    <2>. QED BY <1>0, <2>1, <2>2, <2>4, <2>5, <2>6, AlikeUndone
  <1>18. CASE UNCHANGED vars
    BY <1>2, <1>18 DEF vars
  <1>. QED BY <1>3, <1>4, <1>5, <1>6, <1>7, <1>8, <1>9, <1>10, <1>11, <1>12, <1>13, <1>14, <1>15, <1>16,
              <1>17, <1>18
           DEF Next

LEMMA PowerStep ==
  ASSUME NoUndo, SegmentsInv, [Next]_vars
  PROVE  PowerInv'
  <1>. SUFFICES ASSUME "power" \in faults PROVE PowerInv'
    BY FaultsStep DEF PowerInv
  <1>1. /\ DiskInv' /\ PolicyInv' /\ KeptInv' /\ lines' \in Contents /\ faults' = faults
        /\ \A m, n \in dir'.manifest : m = n
    BY DiskStep, PolicyStep, KeptStays, FaultsStep, DirStep
  <1>2. ASSUME NEW d \in dirs' PROVE Undone(d)'
    BY <1>1, OthersUndone, SelfUndone
  <1>. QED BY <1>1, <1>2 DEF PowerInv, KeptInv

-----------------------------------------------------------------------------
(* The theorems.                                                             *)

LEMMA SegmentsInit ==
  ASSUME Init
  PROVE  SegmentsInv
  <1>1. /\ dir.manifest = {} /\ dir.files = {} /\ dirs = {dir} /\ lines = [i \in Index |-> <<>>]
        /\ kept = [i \in Index |-> 0] /\ handle = Closed /\ call = NoCall /\ promised = 0
        /\ faults \in Environments /\ dir \in Directory
    BY DEF Init, Directory
  <1>2. <<>> \in Seq(Line) /\ Len(<<>>) = 0 /\ 1 \in Index /\ <<>> \in Seq(SegmentMeta) /\ <<>> \in Seq(Time)
    BY SegmentsAssumption DEF Index
  <1>3. handle \in Handle /\ call \in Call /\ ~handle.open /\ call.pc = "idle" /\ handle.next_seq = 0
    BY <1>1, <1>2 DEF Closed, NoCall, Handle, Call, GENESIS, Hash
  <1>4. Typed
    <2>1. lines \in Contents /\ kept \in [Index -> Nat] /\ \A i \in Index : kept[i] <= Len(lines[i])
      BY <1>1, <1>2 DEF Contents
    <2>. QED BY <1>1, <1>3, <2>1 DEF Typed
  <1>5. DiskInv
    <2>1. Stored = <<>>
      BY <1>1 DEF Stored
    <2>2. VerifyLines(Stored) /\ Len(Stored) = 0
      BY <1>2, <2>1 DEF VerifyLines
    <2>3. 0 <= MaxRecords
      BY SegmentsAssumption
    <2>. QED BY <1>1, <2>2, <2>3 DEF DiskInv
  <1>6. HandleInv
    BY <1>3 DEF HandleInv
  <1>7. CallInv
    BY <1>3, SegmentsAssumption DEF CallInv, Appending, Rolling
  <1>8. PolicyInv /\ PowerInv
    <2>1. StoredOf(dir.manifest, lines) = Stored
      BY <1>1 DEF StoredOf, Stored
    <2>2. \A i \in Index : lines[i] = <<>>
      BY <1>1
    <2>3. Undone(dir)
      BY <1>1, <1>3, <2>1, <2>2 DEF Undone, Bound
    <2>. QED BY <1>1, <2>3 DEF PolicyInv, PowerInv
  <1>. QED BY <1>4, <1>5, <1>6, <1>7, <1>8 DEF SegmentsInv

LEMMA SegmentsStep ==
  ASSUME NoUndo, SegmentsInv, [Next]_vars
  PROVE  SegmentsInv'
  BY TypedStep, DiskStep, HandleStep, CallStep, PolicyStep, PowerStep DEF SegmentsInv

LEMMA SegmentsInvariant ==
  ASSUME NoUndo
  PROVE  Spec => []SegmentsInv
  <1>1. Init => SegmentsInv
    BY SegmentsInit
  <1>2. SegmentsInv /\ [Next]_vars => SegmentsInv'
    BY SegmentsStep
  <1>. QED BY <1>1, <1>2, PTL DEF Spec

LEMMA InvReopens == SegmentsInv => Reopens
  <1>. SUFFICES ASSUME SegmentsInv PROVE Reopens
    OBVIOUS
  <1>1. \A m \in dir.manifest : Fits(m, dir.files, lines)
    BY DEF SegmentsInv, DiskInv
  <1>2. \A m \in dir.manifest : Listed(dir, m) /\ VerifyLines(Stored) /\ Last(m).end_seq = {}
    BY <1>1 DEF Fits, Listed, SegmentsInv, DiskInv
  <1>3. \A i \in Index :
          lines[i] # <<>> => \E m \in dir.manifest : \E j \in 1..Len(m) : m[j].file = i
    BY DEF SegmentsInv, DiskInv, Names
  <1>. QED BY <1>2, <1>3 DEF Reopens

LEMMA InvHandleAgrees == SegmentsInv => HandleAgrees
  <1>. SUFFICES ASSUME SegmentsInv, handle.open, ~handle.failed, call.pc = "idle"
                PROVE  /\ handle.next_seq = Len(Stored)
                       /\ \A m \in dir.manifest : /\ Len(m) = Len(handle.manifest)
                                                  /\ Last(m).file = handle.active
    BY DEF HandleAgrees
  <1>1. handle.next_seq = Len(Stored)
    BY DEF SegmentsInv, HandleInv, Unadvanced
  <1>2. PICK m : dir.manifest = {m} /\ Alike(m, handle.manifest) /\ Last(m).file = handle.active
    BY HandleFacts
  <1>. QED BY <1>1, <1>2 DEF Alike

LEMMA InvTypeOK == SegmentsInv => TypeOK
  <1>. SUFFICES ASSUME SegmentsInv PROVE TypeOK
    OBVIOUS
  <1>1. dir \in [manifest : {{}} \cup {{m} : m \in dir.manifest}, files : SUBSET Index]
    <2>1. dir \in Directory
      BY DEF SegmentsInv, Typed
    <2>2. dir.manifest \in {{}} \cup {{m} : m \in dir.manifest}
      BY OneManifest
    <2>. QED BY <2>1, <2>2 DEF Directory
  <1>2. \A m \in dir.manifest, i \in Index : i \in 1..Len(m) => m[i] \in SegmentMeta
    BY DEF SegmentsInv, DiskInv, Fits
  <1>3. \A i \in Index : kept[i] \in 0..Len(lines[i])
    <2>1. \A i \in Index : Len(lines[i]) \in Nat
      BY DEF SegmentsInv, Typed, Contents
    <2>. QED BY <2>1 DEF SegmentsInv, Typed
  <1>4. handle.open \in BOOLEAN /\ handle.next_seq \in 0..MaxRecords
    BY Types
  <1>5. call.pc \in {"initialize", "idle"} \/ handle.open
    BY DEF SegmentsInv, CallInv
  <1>6. dir \in dirs
    BY DEF SegmentsInv, Typed
  <1>. QED BY <1>1, <1>2, <1>3, <1>4, <1>5, <1>6 DEF TypeOK

\* The positions of a file's whole lines are those of its records.
LEMMA WholeLines ==
  ASSUME NEW l \in Seq(Line), Clean(l) \in Seq(Record)
  PROVE  {k \in 1..Len(l) : l[k] # Torn} = 1..Len(Clean(l))
  <1>1. PICK c : c = Clean(l)
    OBVIOUS
  <1>2. /\ c \in Seq(Record) /\ Len(l) \in Nat /\ Len(c) \in Nat
        /\ \A i \in 1..Len(c) : l[i] = c[i]
        /\ \/ c = l
           \/ Len(l) = Len(c) + 1 /\ l[Len(l)] = Torn
    BY <1>1, CleanLines DEF Last
  <1>3. \A i \in 1..Len(c) : i \in 1..Len(l) /\ l[i] # Torn
    BY <1>2, TornIsNoRecord
  <1>4. \A i \in 1..Len(l) : l[i] # Torn => i \in 1..Len(c)
    BY <1>2
  <1>. QED BY <1>1, <1>3, <1>4

LEMMA InvRolledByPolicy == SegmentsInv => RolledByPolicy
  <1>. SUFFICES ASSUME SegmentsInv, NEW m \in dir.manifest, NEW i \in 1..Len(m)
                PROVE  LET l == lines[m[i].file]
                           whole == {k \in 1..Len(l) : l[k] # Torn}
                       IN  /\ i < Len(m) => whole # {}
                           /\ Cardinality(whole) <= MaxBytes
                           /\ "dirsync" \in faults \/
                              \A j, k \in whole : l[j].ts \div Epoch = l[k].ts \div Epoch
    BY DEF RolledByPolicy
  <1>1. PICK l, c : l = lines[m[i].file] /\ c = Clean(l)
    OBVIOUS
  <1>2. l \in Seq(Line) /\ Len(m) \in Nat
    <2>1. m \in Seq(SegmentMeta) /\ lines \in Contents
      BY DEF SegmentsInv, Typed, DiskInv, Fits
    <2>. QED BY <1>1, <2>1, FilesType
  <1>3. Policed(c, i = Len(m), m[i].opened_ms)
    BY <1>1 DEF SegmentsInv, PolicyInv
  <1>4. /\ c \in Seq(Record) /\ Len(c) \in Nat /\ Len(c) <= MaxBytes
        /\ i # Len(m) => c # <<>>
        /\ "dirsync" \notin faults =>
             \A j, k \in 1..Len(c) : c[j].ts \div Epoch = c[k].ts \div Epoch
    BY <1>3 DEF Policed
  <1>5. {k \in 1..Len(l) : l[k] # Torn} = 1..Len(c)
    BY <1>1, <1>2, <1>4, WholeLines
  <1>6. \A k \in 1..Len(c) : l[k] = c[k]
    BY <1>1, <1>2, <1>4, CleanLines
  <1>7. Cardinality(1..Len(c)) <= MaxBytes
    <2>1. PICK a, b \in Int : a = 1 /\ b = Len(c)
      BY <1>4
    <2>2. Cardinality(a..b) = IF a > b THEN 0 ELSE b - a + 1
      BY FS_Interval
    <2>. QED BY <1>4, <2>1, <2>2, SegmentsAssumption
  <1>8. i < Len(m) => 1..Len(c) # {}
    <2>1. i < Len(m) => Len(c) # 0
      BY <1>2, <1>4
    <2>2. Len(c) # 0 => 1 \in 1..Len(c)
      BY <1>4
    <2>. QED BY <2>1, <2>2
  <1>9. "dirsync" \in faults \/
           \A j, k \in 1..Len(c) : l[j].ts \div Epoch = l[k].ts \div Epoch
    BY <1>4, <1>6
  <1>. QED BY <1>1, <1>5, <1>7, <1>8, <1>9

\* Whichever step of initialize, roll_over, a rebase or an append fails or is cut
\* off, a directory sync or a kill right after a rename included, and whatever of
\* the unsynced a loss of power takes, open_segmented finds every file the
\* manifest names and one chain in them, no record is outside them, and an
\* unfailed handle writes where the disk's chain ends.  open_segmented does not
\* sync the directory, so this needs NoUndo: a rename that a reopen has built on
\* is not undone by a later loss of power.
THEOREM SegmentsAlwaysSound ==
  ASSUME NoUndo
  PROVE  Spec => []SegmentsSound
  <1>1. SegmentsInv => SegmentsSound
    BY InvTypeOK, InvReopens, InvHandleAgrees DEF SegmentsSound
  <1>. QED BY <1>1, SegmentsInvariant, PTL

\* should_roll_over and the rebase of opened_ms keep to the policy through failed
\* rollovers, reopens and lost tails: no sealed segment is empty, none exceeds
\* max_bytes, and none mixes epochs where no directory sync fails after a rename.
\* NoUndo, as above: undone behind a reopen, a rebase leaves an older opened_ms.
THEOREM RolledAlwaysByPolicy ==
  ASSUME NoUndo
  PROVE  Spec => []RolledByPolicy
  BY InvRolledByPolicy, SegmentsInvariant, PTL

\* open, append, append_all, roll_over, kills and a loss of power are steps of the
\* abstract log: rollovers are invisible in it, and it never loses what a synced
\* append acknowledged or a rollover sealed, whichever of the renames since the
\* last reopen a loss of power undoes (NoUndo: none from before it).
THEOREM SegmentsAreADurableLog ==
  ASSUME NoUndo
  PROVE  Spec => ImplementsDurableLog
  <1>1. Init => D!Init
    BY DEF Init, Stored, D!Init
  <1>2. SegmentsInv /\ [Next]_vars => [D!Next]_<<Stored, promised>>
    BY DiskStep
  <1>. QED BY <1>1, <1>2, SegmentsInvariant, PTL DEF Spec, ImplementsDurableLog

-----------------------------------------------------------------------------
(* Sharded.                                                                  *)


LastHash == IF records = <<>> THEN SHARD_GENESIS ELSE ShardHashOf(records[Len(records)])

ShardTyped ==
    /\ records \in Seq(ShardRecord)
    /\ cursor \in HeadCursor /\ cursor.next_seq = Len(records) /\ cursor.last_hash = LastHash
    /\ booted \in [Replica -> Boots]
    /\ calls \in [Replica -> ShardCall]
    /\ answered \in Seq(Answer)

\* A record's label is its signer's, or it has none and every keyring has the key.
Labelled(r) == r.kid = r.signer \/ (r.kid = NoKid /\ r.signer \in Unlabelled)

Chained ==
    \A i \in 1..Len(records) :
        /\ records[i].seq = i - 1
        /\ records[i].prev = IF i = 1 THEN SHARD_GENESIS ELSE ShardHashOf(records[i - 1])
        /\ Labelled(records[i])

\* A key never signs again after its successor.
InTurn ==
    \A i, j, k \in 1..Len(records) :
        i < j /\ j < k /\ records[i].signer = records[k].signer
            => records[j].signer = records[i].signer

\* The spans name the signers of the first n records, the last signer last.
Faithful(spans, recs, n) ==
    /\ spans \in Seq(KeySpan)
    /\ spans = <<>> <=> n = 0
    /\ n > 0 => spans[Len(spans)].kid = recs[n].signer
    /\ \A i \in 1..Len(spans) : \E j \in 1..n : recs[j].signer = spans[i].kid
    /\ \A j \in 1..n : \E i \in 1..Len(spans) : spans[i].kid = recs[j].signer

SpansFaithful ==
    \A s \in cursor.signers :
        /\ s.through <= Len(records)
        /\ s.through = Len(records) => Faithful(s.spans, records, Len(records))

SignersInv == ShardTyped /\ Chained /\ InTurn /\ SpansFaithful

\* Which entries are in the shard: each once, as its append was answered, and not
\* one whose append is still between its two sections.
Entered(e) == \E i \in 1..Len(records) : records[i].entry = e

Single ==
    /\ \A i \in 1..Len(records) : records[i].entry \in 1..Len(answered)
    /\ \A i, j \in 1..Len(records) : records[i].entry = records[j].entry => i = j

AsAnswered ==
    \A e \in 1..Len(answered) : /\ answered[e] = "recorded" => Entered(e)
                                /\ answered[e] \in {"asked", "refused"} => ~Entered(e)

AskedOnce ==
    \A p \in Replica : calls[p].pc = "history" =>
        /\ calls[p].entry \in 1..Len(answered) /\ answered[calls[p].entry] = "asked"
        /\ \A q \in Replica : q # p /\ calls[q].pc = "history" => calls[q].entry # calls[p].entry

EntriesInv == Single /\ AsAnswered /\ AskedOnce

-----------------------------------------------------------------------------
(* What the spans of a history are.                                          *)

\* One more record's span.
Spanned(spans, recs, verifiers, i) == Extended(spans, SignerOf(recs[i], verifiers), i - 1)

\* f gives the spans of the first i records, for i up to n.
Spans(f, recs, verifiers, n) ==
  f = [i \in 0..n |-> IF i = 0 THEN <<>> ELSE Spanned(f[i - 1], recs, verifiers, i)]

LEMMA SpansExist ==
  ASSUME NEW recs, NEW verifiers
  PROVE  \A n \in Nat : \E f : Spans(f, recs, verifiers, n)
  <1>. DEFINE S == {n \in Nat : \E f : Spans(f, recs, verifiers, n)}
  <1>1. 0 \in S
    <2>. DEFINE f == [i \in 0..0 |-> IF i = 0 THEN <<>> ELSE Spanned(<<>>, recs, verifiers, i)]
    <2>1. Spans(f, recs, verifiers, 0)
      BY DEF Spans
    <2>. QED BY <2>1
  <1>2. ASSUME NEW n \in S PROVE n + 1 \in S
    <2>1. PICK f : Spans(f, recs, verifiers, n)
      OBVIOUS
    <2>. DEFINE g == [i \in 0..(n + 1) |-> IF i <= n THEN f[i]
                                           ELSE Spanned(f[n], recs, verifiers, n + 1)]
    <2>2. n \in Nat
      OBVIOUS
    <2>3. \A i \in 0..n : f[i] = IF i = 0 THEN <<>> ELSE Spanned(f[i - 1], recs, verifiers, i)
      BY <2>1 DEF Spans
    <2>4. \A i \in 0..(n + 1) :
             g[i] = IF i = 0 THEN <<>> ELSE Spanned(g[i - 1], recs, verifiers, i)
      <3>. SUFFICES ASSUME NEW i \in 0..(n + 1)
                    PROVE  g[i] = IF i = 0 THEN <<>> ELSE Spanned(g[i - 1], recs, verifiers, i)
        OBVIOUS
      <3>1. CASE i = 0
        BY <3>1, <2>2, <2>3
      <3>2. CASE i \in 1..n
        <4>1. g[i] = f[i] /\ g[i - 1] = f[i - 1]
          BY <3>2, <2>2
        <4>. QED BY <4>1, <3>2, <2>2, <2>3
      <3>3. CASE i = n + 1
        <4>1. g[i] = Spanned(f[n], recs, verifiers, n + 1) /\ g[i - 1] = f[n]
          BY <3>3, <2>2
        <4>. QED BY <4>1, <3>3, <2>2
      <3>. QED BY <3>1, <3>2, <3>3, <2>2
    <2>5. Spans(g, recs, verifiers, n + 1)
      BY <2>4 DEF Spans
    <2>. QED BY <2>2, <2>5
  <1>3. S \in SUBSET Nat
    OBVIOUS
  <1>4. \A n \in Nat : n \in S
    <2>. HIDE DEF S
    <2>. QED BY <1>1, <1>2, <1>3, SetInduction
  <1>. QED BY <1>4

\* One more record keeps spans faithful: its signer's is the last, or a new one.
LEMMA ExtendedFaithful ==
  ASSUME NEW recs \in Seq(ShardRecord), NEW n \in Nat, n < Len(recs),
         NEW spans, Faithful(spans, recs, n), NEW seq \in Nat
  PROVE  Faithful(Extended(spans, recs[n + 1].signer, seq), recs, n + 1)
  <1>. DEFINE k == recs[n + 1].signer
  <1>0. n + 1 \in 1..Len(recs) /\ recs[n + 1] \in ShardRecord
    OBVIOUS
  <1>1. k \in Keys /\ spans \in Seq(KeySpan) /\ Len(spans) \in Nat
    BY <1>0 DEF ShardRecord, Faithful
  <1>5. /\ \A i \in 1..Len(spans) : \E j \in 1..n : recs[j].signer = spans[i].kid
        /\ \A j \in 1..n : \E i \in 1..Len(spans) : spans[i].kid = recs[j].signer
    BY DEF Faithful
  <1>6. ASSUME NEW all \in Seq(KeySpan), all # <<>>, all[Len(all)].kid = k,
               \A i \in 1..Len(all) : \E j \in 1..(n + 1) : recs[j].signer = all[i].kid,
               \A j \in 1..(n + 1) : \E i \in 1..Len(all) : all[i].kid = recs[j].signer
        PROVE  Faithful(all, recs, n + 1)
    BY <1>6 DEF Faithful
  <1>2. CASE spans # <<>> /\ spans[Len(spans)].kid = k
    <2>1. Extended(spans, k, seq) = spans /\ Len(spans) \in 1..Len(spans)
      BY <1>1, <1>2 DEF Extended
    <2>2. \A i \in 1..Len(spans) : \E j \in 1..(n + 1) : recs[j].signer = spans[i].kid
      <3>1. 1..n \subseteq 1..(n + 1)
        OBVIOUS
      <3>. QED BY <3>1, <1>5
    <2>3. \A j \in 1..(n + 1) : \E i \in 1..Len(spans) : spans[i].kid = recs[j].signer
      <3>1. \A j \in 1..(n + 1) : j \in 1..n \/ j = n + 1
        OBVIOUS
      <3>. QED BY <3>1, <2>1, <1>2, <1>5
    <2>. QED BY <2>1, <2>2, <2>3, <1>1, <1>2, <1>6
  <1>3. CASE ~(spans # <<>> /\ spans[Len(spans)].kid = k)
    <2>. DEFINE new == [kid |-> k, first_seq |-> seq]
    <2>1. new \in KeySpan /\ new.kid = k /\ Extended(spans, k, seq) = Append(spans, new)
      BY <1>1, <1>3 DEF KeySpan, Extended
    <2>. HIDE DEF new
    <2>2. PICK all : all = Append(spans, new)
      OBVIOUS
    <2>3. /\ all \in Seq(KeySpan) /\ Len(all) = Len(spans) + 1 /\ all # <<>>
          /\ all[Len(all)].kid = k
          /\ \A i \in 1..Len(spans) : all[i] = spans[i]
      <3>1. all \in Seq(KeySpan) /\ Len(all) = Len(spans) + 1 /\ all # <<>>
        BY <1>1, <2>1, <2>2
      <3>2. all[Len(spans) + 1] = new /\ \A i \in 1..Len(spans) : all[i] = spans[i]
        BY <1>1, <2>1, <2>2
      <3>. QED BY <3>1, <3>2, <2>1
    <2>4. \A i \in 1..Len(all) : \E j \in 1..(n + 1) : recs[j].signer = all[i].kid
      <3>. SUFFICES ASSUME NEW i \in 1..Len(all)
                    PROVE  \E j \in 1..(n + 1) : recs[j].signer = all[i].kid
        OBVIOUS
      <3>1. CASE i = Len(all)
        BY <3>1, <2>3
      <3>2. CASE i \in 1..Len(spans)
        <4>1. PICK j \in 1..n : recs[j].signer = spans[i].kid
          BY <3>2, <1>5
        <4>2. j \in 1..(n + 1) /\ all[i].kid = recs[j].signer
          BY <4>1, <3>2, <2>3
        <4>. QED BY <4>2
      <3>. QED BY <3>1, <3>2, <2>3, <1>1
    <2>5. \A j \in 1..(n + 1) : \E i \in 1..Len(all) : all[i].kid = recs[j].signer
      <3>. SUFFICES ASSUME NEW j \in 1..(n + 1)
                    PROVE  \E i \in 1..Len(all) : all[i].kid = recs[j].signer
        OBVIOUS
      <3>1. CASE j = n + 1
        BY <3>1, <2>3, <1>1
      <3>2. CASE j \in 1..n
        <4>1. PICK i \in 1..Len(spans) : spans[i].kid = recs[j].signer
          BY <3>2, <1>5
        <4>2. i \in 1..Len(all) /\ all[i].kid = recs[j].signer
          BY <4>1, <2>3, <1>1
        <4>. QED BY <4>2
      <3>. QED BY <3>1, <3>2
    <2>. QED BY <2>1, <2>2, <2>3, <2>4, <2>5, <1>6
  <1>. QED BY <1>2, <1>3

\* spans_of, by a keyring that has the keys of the records without a label.
LEMMA SpansOfFaithful ==
  ASSUME NEW recs \in Seq(ShardRecord), NEW verifiers, Unlabelled \subseteq verifiers,
         \A i \in 1..Len(recs) : Labelled(recs[i])
  PROVE  Faithful(SpansOf(recs, verifiers), recs, Len(recs))
  <1>1. Len(recs) \in Nat
    OBVIOUS
  <1>2. PICK f : Spans(f, recs, verifiers, Len(recs)) /\ SpansOf(recs, verifiers) = f[Len(recs)]
    <2>. DEFINE f == CHOOSE g : Spans(g, recs, verifiers, Len(recs))
    <2>1. Spans(f, recs, verifiers, Len(recs))
      BY <1>1, SpansExist
    <2>2. SpansOf(recs, verifiers) = f[Len(recs)]
      BY DEF SpansOf, Spans, Spanned
    <2>. QED BY <2>1, <2>2
  <1>3. f[0] = <<>> /\ \A i \in 1..Len(recs) : f[i] = Spanned(f[i - 1], recs, verifiers, i)
    BY <1>1, <1>2 DEF Spans
  <1>4. \A i \in 1..Len(recs) : SignerOf(recs[i], verifiers) = recs[i].signer
    BY DEF SignerOf, Labelled
  <1>. DEFINE S == {n \in Nat : n <= Len(recs) => Faithful(f[n], recs, n)}
  <1>5. 0 \in S
    <2>1. f[0] \in Seq(KeySpan) /\ Len(f[0]) = 0
      BY <1>3
    <2>2. Faithful(f[0], recs, 0)
      BY <1>3, <2>1 DEF Faithful
    <2>. QED BY <2>2
  <1>6. ASSUME NEW n \in S PROVE n + 1 \in S
    <2>. SUFFICES ASSUME n < Len(recs) PROVE Faithful(f[n + 1], recs, n + 1)
      OBVIOUS
    <2>1. n \in Nat /\ Faithful(f[n], recs, n)
      BY <1>1
    <2>2. f[n + 1] = Extended(f[n], recs[n + 1].signer, n)
      BY <2>1, <1>1, <1>3, <1>4 DEF Spanned
    <2>. QED BY <2>1, <2>2, ExtendedFaithful
  <1>7. S \in SUBSET Nat
    OBVIOUS
  <1>8. \A n \in Nat : n \in S
    <2>. HIDE DEF S
    <2>. QED BY <1>5, <1>6, <1>7, SetInduction
  <1>. QED BY <1>1, <1>2, <1>8

-----------------------------------------------------------------------------
(* The guard.                                                                *)

LEMMA Constants ==
  /\ NoKid = 0 /\ NoKid \notin Keys /\ Keys \subseteq Nat /\ Earlier \subseteq Keys
  /\ \A b \in Boots : /\ b.key \in Keys /\ b.verifiers \subseteq Keys /\ b.key \in b.verifiers
                      /\ Unlabelled \subseteq b.verifiers
  BY BootsAssumption, KeysAssumption, UnlabelledAssumption DEF NoKid

\* Key k signed last, or has not signed.
Turn(k) ==
  records # <<>> => \/ records[Len(records)].signer = k
                    \/ \A i \in 1..Len(records) : records[i].signer # k

LEMMA CurrentFaithful ==
  ASSUME SignersInv, NEW spans \in CurrentSpans
  PROVE  Faithful(spans, records, Len(records))
  <1>1. records \in Seq(ShardRecord) /\ cursor.next_seq = Len(records)
    BY DEF SignersInv, ShardTyped
  <1>2. CASE cursor = NoCursor
    <2>1. spans = <<>> /\ Len(records) = 0
      BY <1>1, <1>2 DEF CurrentSpans, NoCursor
    <2>2. spans \in Seq(KeySpan) /\ Len(spans) = 0
      BY <2>1
    <2>. QED BY <2>1, <2>2 DEF Faithful
  <1>3. CASE cursor # NoCursor
    <2>1. PICK s \in cursor.signers : s.through = Len(records) /\ spans = s.spans
      BY <1>1, <1>3 DEF CurrentSpans
    <2>. QED BY <2>1 DEF SignersInv, SpansFaithful
  <1>. QED BY <1>2, <1>3

LEMMA HistoryFaithful ==
  ASSUME SignersInv, NEW b \in Boots
  PROVE  Faithful(SpansOf(records, b.verifiers), records, Len(records))
  <1>1. records \in Seq(ShardRecord) /\ \A i \in 1..Len(records) : Labelled(records[i])
    BY DEF SignersInv, ShardTyped, Chained
  <1>2. PICK v : v = b.verifiers
    OBVIOUS
  <1>. QED BY <1>1, <1>2, SpansOfFaithful, Constants

LEMMA GuardedTurn ==
  ASSUME NEW spans, Faithful(spans, records, Len(records)), records \in Seq(ShardRecord),
         NEW b \in Boots, MayExtend(spans, b)
  PROVE  Turn(b.key)
  <1>. SUFFICES ASSUME records # <<>>
                PROVE  \/ records[Len(records)].signer = b.key
                       \/ \A i \in 1..Len(records) : records[i].signer # b.key
    BY DEF Turn
  <1>1. Len(records) > 0 /\ spans # <<>> /\ spans[Len(spans)].kid = records[Len(records)].signer
    BY DEF Faithful
  <1>2. CASE spans[Len(spans)].kid = b.key
    BY <1>1, <1>2
  <1>3. CASE \A i \in 1..Len(spans) : spans[i].kid # b.key
    BY <1>3 DEF Faithful
  <1>. QED BY <1>1, <1>2, <1>3 DEF MayExtend

\* A holder of every signer's key, whose own signed last or never, is not refused.
LEMMA HolderExtends ==
  ASSUME NEW spans, Faithful(spans, records, Len(records)), records \in Seq(ShardRecord),
         NEW b \in Boots, \A i \in 1..Len(records) : records[i].signer \in b.verifiers,
         Turn(b.key)
  PROVE  MayExtend(spans, b)
  <1>. SUFFICES ASSUME spans # <<>>
                PROVE  \/ spans[Len(spans)].kid = b.key
                       \/ /\ spans[Len(spans)].kid \in b.verifiers
                          /\ \A i \in 1..Len(spans) : spans[i].kid # b.key
    BY DEF MayExtend
  <1>1. Len(records) > 0 /\ records # <<>> /\ spans[Len(spans)].kid = records[Len(records)].signer
    BY DEF Faithful
  <1>2. CASE records[Len(records)].signer = b.key
    BY <1>1, <1>2
  <1>3. CASE \A i \in 1..Len(records) : records[i].signer # b.key
    <2>1. \A i \in 1..Len(spans) : spans[i].kid # b.key
      BY <1>3 DEF Faithful
    <2>. QED BY <2>1, <1>1
  <1>. QED BY <1>1, <1>2, <1>3 DEF Turn

-----------------------------------------------------------------------------
(* One more record.                                                          *)

Follows(r) == /\ r \in ShardRecord /\ r.seq = Len(records) /\ r.prev = LastHash
              /\ Labelled(r) /\ Turn(r.signer)

LEMMA Appended ==
  ASSUME records \in Seq(ShardRecord), NEW r \in ShardRecord, records' = Append(records, r)
  PROVE  /\ records' \in Seq(ShardRecord) /\ Len(records') = Len(records) + 1
         /\ records'[Len(records) + 1] = r
         /\ \A i \in 1..Len(records) : records'[i] = records[i]
         /\ LastHash' = ShardHashOf(r) /\ Len(records) \in Nat
  <1>1. /\ records' \in Seq(ShardRecord) /\ Len(records') = Len(records) + 1
        /\ records' # <<>> /\ Len(records) \in Nat
    BY AppendProperties
  <1>2. records'[Len(records) + 1] = r /\ \A i \in 1..Len(records) : records'[i] = records[i]
    BY AppendProperties
  <1>. QED BY <1>1, <1>2 DEF LastHash

LEMMA ChainGrows ==
  ASSUME SignersInv, NEW r, Follows(r), records' = Append(records, r)
  PROVE  Chained' /\ InTurn'
  <1>0. /\ records \in Seq(ShardRecord) /\ r \in ShardRecord
        /\ Len(records') = Len(records) + 1 /\ records'[Len(records) + 1] = r
        /\ \A i \in 1..Len(records) : records'[i] = records[i]
        /\ Len(records) \in Nat
    BY Appended DEF SignersInv, ShardTyped, Follows
  <1>1. \A i \in 1..Len(records') : i \in 1..Len(records) \/ i = Len(records) + 1
    BY <1>0
  <1>2. Chained'
    <2>. SUFFICES ASSUME NEW i \in 1..Len(records')
                  PROVE  /\ records'[i].seq = i - 1
                         /\ records'[i].prev = IF i = 1 THEN SHARD_GENESIS
                                               ELSE ShardHashOf(records'[i - 1])
                         /\ Labelled(records'[i])
      BY DEF Chained
    <2>1. CASE i \in 1..Len(records)
      <3>1. i # 1 => records'[i - 1] = records[i - 1]
        BY <2>1, <1>0
      <3>. QED BY <2>1, <3>1, <1>0 DEF SignersInv, Chained
    <2>2. CASE i = Len(records) + 1
      <3>1. records'[i] = r /\ r.seq = i - 1 /\ Labelled(r) /\ r.prev = LastHash
        BY <2>2, <1>0 DEF Follows
      <3>2. CASE i = 1
        BY <3>1, <3>2, <2>2, <1>0 DEF LastHash
      <3>3. CASE i # 1
        <4>1. records'[i - 1] = records[Len(records)] /\ records # <<>>
          BY <3>3, <2>2, <1>0
        <4>. QED BY <4>1, <3>1, <3>3 DEF LastHash
      <3>. QED BY <3>2, <3>3
    <2>. QED BY <2>1, <2>2, <1>1
  <1>3. InTurn'
    <2>. SUFFICES ASSUME NEW i \in 1..Len(records'), NEW j \in 1..Len(records'),
                         NEW k \in 1..Len(records'),
                         i < j, j < k, records'[i].signer = records'[k].signer
                  PROVE  records'[j].signer = records'[i].signer
      BY DEF InTurn
    <2>1. /\ i \in 1..Len(records) /\ j \in 1..Len(records)
          /\ records'[i] = records[i] /\ records'[j] = records[j]
      BY <1>0
    <2>2. CASE k \in 1..Len(records)
      BY <2>1, <2>2, <1>0 DEF SignersInv, InTurn
    <2>3. CASE k = Len(records) + 1
      <3>1. records[i].signer = r.signer /\ records # <<>>
        BY <2>1, <2>3, <1>0
      <3>2. records[Len(records)].signer = r.signer
        BY <2>1, <3>1 DEF Follows, Turn
      <3>3. CASE j = Len(records)
        BY <3>1, <3>2, <3>3, <2>1
      <3>4. CASE j < Len(records)
        <4>1. Len(records) \in 1..Len(records)
          BY <2>1, <1>0
        <4>. QED BY <3>1, <3>2, <3>4, <4>1, <2>1 DEF SignersInv, InTurn
      <3>. QED BY <3>3, <3>4, <2>1, <1>0
    <2>. QED BY <2>2, <2>3, <1>1
  <1>. QED BY <1>2, <1>3

\* What the shard holds, apart from who is asking.
ShardHolds ==
  /\ records \in Seq(ShardRecord)
  /\ cursor \in HeadCursor /\ cursor.next_seq = Len(records) /\ cursor.last_hash = LastHash
  /\ Chained /\ InTurn /\ SpansFaithful

LEMMA CursorFollows ==
  ASSUME SignersInv, NEW r, Follows(r), records' = Append(records, r), NEW signers,
         signers \subseteq ShardSigners,
         cursor' = [next_seq |-> r.seq + 1, last_hash |-> ShardHashOf(r), signers |-> signers],
         \A s \in signers : /\ s.through <= Len(records) + 1
                            /\ s.through = Len(records) + 1 =>
                                 Faithful(s.spans, records', Len(records) + 1)
  PROVE  ShardHolds'
  <1>0. /\ records \in Seq(ShardRecord) /\ r \in ShardRecord /\ r.seq = Len(records)
        /\ records' \in Seq(ShardRecord)
        /\ Len(records') = Len(records) + 1 /\ LastHash' = ShardHashOf(r) /\ Len(records) \in Nat
    BY Appended DEF SignersInv, ShardTyped, Follows
  <1>1. ShardHashOf(r) \in ShardHash
    BY <1>0 DEF ShardHashOf, ShardRecord, ShardHash
  <1>2. /\ cursor'.next_seq = Len(records') /\ cursor'.last_hash = LastHash'
        /\ cursor'.signers = signers /\ cursor' \in HeadCursor
    BY <1>0, <1>1 DEF HeadCursor
  <1>3. SpansFaithful'
    BY <1>0, <1>2 DEF SpansFaithful
  <1>. QED BY <1>0, <1>2, <1>3, ChainGrows DEF ShardHolds

LEMMA FaithfulSame ==
  ASSUME NEW spans, NEW recs, NEW more, NEW n \in Nat, Faithful(spans, recs, n),
         \A i \in 1..n : more[i] = recs[i]
  PROVE  Faithful(spans, more, n)
  <1>1. n > 0 => n \in 1..n
    OBVIOUS
  <1>2. n > 0 => spans[Len(spans)].kid = more[n].signer
    BY <1>1 DEF Faithful
  <1>3. \A i \in 1..Len(spans) : \E j \in 1..n : more[j].signer = spans[i].kid
    BY DEF Faithful
  <1>4. \A j \in 1..n : \E i \in 1..Len(spans) : spans[i].kid = more[j].signer
    BY DEF Faithful
  <1>. QED BY <1>2, <1>3, <1>4 DEF Faithful

\* The section commits.
LEMMA Committed ==
  ASSUME SignersInv, NEW b \in Boots, NEW e \in Nat, NEW spans,
         Faithful(spans, records, Len(records)), MayExtend(spans, b), Commit(Sealed(e, b), spans)
  PROVE  /\ ShardHolds'
         /\ \E r \in ShardRecord : r.entry = e /\ records' = Append(records, r)
  <1>1. PICK r : r = Sealed(e, b)
    OBVIOUS
  <1>2. /\ cursor.next_seq = Len(records) /\ cursor.last_hash = LastHash
        /\ cursor.last_hash \in ShardHash /\ records \in Seq(ShardRecord) /\ Len(records) \in Nat
    BY DEF SignersInv, ShardTyped, HeadCursor
  <1>3. /\ r \in ShardRecord /\ r.seq = Len(records) /\ r.prev = LastHash /\ r.entry = e
        /\ r.signer = b.key /\ r.kid = b.key
    BY <1>1, <1>2, Constants DEF Sealed, ShardRecord
  <1>4. Follows(r)
    BY <1>2, <1>3, GuardedTurn DEF Follows, Labelled
  <1>5. records' = Append(records, r) /\ cursor' = CursorAfter(r, spans)
    BY <1>1 DEF Commit
  <1>6. /\ records' \in Seq(ShardRecord) /\ Len(records') = Len(records) + 1
        /\ records'[Len(records) + 1] = r
        /\ \A i \in 1..Len(records) : records'[i] = records[i]
    BY <1>2, <1>3, <1>5, Appended
  <1>7. Faithful(spans, records', Len(records))
    <2>1. PICK recs : recs = records'
      OBVIOUS
    <2>. QED BY <2>1, <1>2, <1>6, FaithfulSame
  <1>. DEFINE all == Extended(spans, r.kid, r.seq)
  <1>8. Faithful(all, records', Len(records) + 1)
    BY <1>2, <1>3, <1>6, <1>7, ExtendedFaithful
  <1>9. all \in Seq(KeySpan)
    BY <1>8 DEF Faithful
  <1>. HIDE DEF all
  <1>10. PICK signers : signers = {[through |-> r.seq + 1, spans |-> all]}
    OBVIOUS
  <1>11. signers \subseteq ShardSigners
    BY <1>2, <1>3, <1>9, <1>10 DEF ShardSigners
  <1>12. cursor' = [next_seq |-> r.seq + 1, last_hash |-> ShardHashOf(r), signers |-> signers]
    BY <1>5, <1>10 DEF CursorAfter, all
  <1>13. \A s \in signers : s.through = Len(records) + 1 /\ s.spans = all
    BY <1>3, <1>10
  <1>14. ShardHolds'
    BY <1>2, <1>4, <1>5, <1>8, <1>11, <1>12, <1>13, CursorFollows
  <1>. QED BY <1>3, <1>5, <1>14

\* A writer of an earlier release: what spans it leaves are no longer current.
LEMMA EarlierHolds ==
  ASSUME SignersInv, NEW k \in Earlier, EarlierAppend(k)
  PROVE  /\ ShardHolds'
         /\ \E r \in ShardRecord : r.entry = Len(answered) + 1 /\ records' = Append(records, r)
  <1>1. PICK kid \in {k} \cup (IF k \in Unlabelled THEN {NoKid} ELSE {}), spans \in {cursor.signers, {}} :
          LET r == [seq |-> cursor.next_seq, entry |-> Len(answered) + 1,
                    prev |-> cursor.last_hash, signer |-> k, kid |-> kid]
          IN  /\ records' = Append(records, r)
              /\ cursor' = [next_seq |-> r.seq + 1, last_hash |-> ShardHashOf(r), signers |-> spans]
    BY DEF EarlierAppend
  <1>2. PICK r : r = [seq |-> cursor.next_seq, entry |-> Len(answered) + 1,
                      prev |-> cursor.last_hash, signer |-> k, kid |-> kid]
    OBVIOUS
  <1>3. /\ records' = Append(records, r)
        /\ cursor' = [next_seq |-> r.seq + 1, last_hash |-> ShardHashOf(r), signers |-> spans]
    BY <1>1, <1>2
  <1>4. /\ cursor.next_seq = Len(records) /\ cursor.last_hash = LastHash
        /\ cursor.last_hash \in ShardHash /\ records \in Seq(ShardRecord) /\ Len(records) \in Nat
        /\ Len(answered) \in Nat /\ cursor.signers \subseteq ShardSigners
    BY DEF SignersInv, ShardTyped, HeadCursor
  <1>5. k \in Keys /\ kid \in Keys \cup {NoKid} /\ (kid = k \/ (kid = NoKid /\ k \in Unlabelled))
    BY Constants
  <1>6. /\ r \in ShardRecord /\ r.seq = Len(records) /\ r.prev = LastHash
        /\ r.entry = Len(answered) + 1 /\ r.signer = k /\ Labelled(r)
    BY <1>2, <1>4, <1>5 DEF ShardRecord, Labelled
  <1>7. Turn(k)
    <2>1. \A i \in 1..Len(records) : records[i].signer < k \/ records[Len(records)].signer = k
      BY DEF EarlierAppend
    <2>2. k \in Nat
      BY <1>5, Constants
    <2>. QED BY <2>1, <2>2 DEF Turn
  <1>8. \A s \in spans : s.through <= Len(records) /\ s \in ShardSigners
    BY <1>4 DEF SignersInv, SpansFaithful
  <1>9. \A s \in spans : s.through \in Nat
    BY <1>8 DEF ShardSigners
  <1>10. \A s \in spans : /\ s.through <= Len(records) + 1
                         /\ s.through # Len(records) + 1
    BY <1>4, <1>8, <1>9
  <1>11. spans \subseteq ShardSigners /\ Follows(r)
    BY <1>6, <1>7, <1>8 DEF Follows
  <1>12. ShardHolds'
    BY <1>3, <1>10, <1>11, CursorFollows
  <1>. QED BY <1>3, <1>6, <1>12

-----------------------------------------------------------------------------
(* The steps.                                                                *)

\* Each step: the shard stays, or takes one record whose guard let it through.
Extends(e) == \E r \in ShardRecord : r.entry = e /\ records' = Append(records, r)

LEMMA SealSteps ==
  ASSUME SignersInv, NEW p \in Replica, NEW e \in Nat, NEW spans,
         Faithful(spans, records, Len(records)), SealInto(p, spans, e)
  PROVE  /\ ShardHolds'
         /\ \/ Answered(p, e, "refused") /\ UNCHANGED <<records, cursor>>
            \/ Answered(p, e, "recorded") /\ Extends(e)
            \/ Answered(p, e, "unknown") /\ Extends(e)
            \/ Answered(p, e, "unknown") /\ UNCHANGED <<records, cursor>>
  <1>0. booted[p] \in Boots
    BY DEF SignersInv, ShardTyped
  <1>1. CASE UNCHANGED <<records, cursor>>
    <2>1. ShardHolds'
      BY <1>1 DEF SignersInv, ShardTyped, ShardHolds, Chained, InTurn, SpansFaithful, LastHash
    <2>2. \/ Answered(p, e, "refused")
          \/ Answered(p, e, "unknown")
          \/ Answered(p, e, "recorded") /\ Commit(Sealed(e, booted[p]), spans)
      BY DEF SealInto
    <2>3. ~Commit(Sealed(e, booted[p]), spans)
      <3>1. Commit(Sealed(e, booted[p]), spans) => records' = Append(records, Sealed(e, booted[p]))
        BY DEF Commit
      <3>2. records \in Seq(ShardRecord)
        BY DEF SignersInv, ShardTyped
      <3>3. PICK r : r = Sealed(e, booted[p])
        OBVIOUS
      <3>4. r \in ShardRecord
        BY <3>3, <1>0, Constants DEF Sealed, ShardRecord, SignersInv, ShardTyped, HeadCursor
      <3>5. Append(records, r) # records
        BY <3>2, <3>4, AppendProperties
      <3>. QED BY <1>1, <3>1, <3>3, <3>5
    <2>. QED BY <2>1, <2>2, <2>3, <1>1
  <1>2. CASE MayExtend(spans, booted[p]) /\ Commit(Sealed(e, booted[p]), spans)
    <2>1. ShardHolds' /\ Extends(e)
      BY <1>0, <1>2, Committed DEF Extends
    <2>2. Answered(p, e, "recorded") \/ Answered(p, e, "unknown") \/ ~MayExtend(spans, booted[p])
      BY DEF SealInto
    <2>. QED BY <2>1, <2>2, <1>2
  <1>. QED BY <1>1, <1>2 DEF SealInto

\* The append p is in, or the one it starts.
Asks(p, e) == \/ calls[p].pc = "idle" /\ e = Len(answered) + 1
              \/ calls[p].pc = "history" /\ e = calls[p].entry

\* Append e ends, with what became of its entry.
Ends(p, e, a) ==
  /\ Asks(p, e) /\ Answered(p, e, a) /\ a \in {"recorded", "refused", "unknown"}
  /\ UNCHANGED <<booted, issued>>
  /\ \/ records' = records /\ a # "recorded"
     \/ Extends(e) /\ a # "refused"

Begins(p) ==
  /\ calls[p].pc = "idle" /\ UNCHANGED <<records, booted, issued>>
  /\ answered' = Append(answered, "asked")
  /\ calls' = [calls EXCEPT ![p] = [pc |-> "history", entry |-> Len(answered) + 1]]

Restarts(p) ==
  /\ UNCHANGED <<records, answered, issued>> /\ calls' = [calls EXCEPT ![p] = Idle]
  /\ \E b \in Boots : booted' = [booted EXCEPT ![p] = b]

Signs ==
  /\ UNCHANGED <<records, booted, calls, answered>>
  /\ issued' = issued \cup {[root |-> cursor.last_hash, count |-> cursor.next_seq,
                             leaves |-> [i \in 1..Len(records) |-> ShardHashOf(records[i])]]}

Earlies ==
  /\ Extends(Len(answered) + 1) /\ answered' = Append(answered, "recorded")
  /\ UNCHANGED <<booted, calls, issued>>

LEMMA HoldsSame ==
  ASSUME SignersInv, UNCHANGED <<records, cursor>>
  PROVE  ShardHolds'
  BY DEF SignersInv, ShardTyped, ShardHolds, Chained, InTurn, SpansFaithful, LastHash

LEMMA Steps ==
  ASSUME SignersInv, [ShardNext]_shardVars
  PROVE  /\ ShardHolds'
         /\ \/ \E p \in Replica, e \in Nat, a \in Answer : Ends(p, e, a)
            \/ \E p \in Replica : Begins(p) \/ Restarts(p)
            \/ Signs
            \/ Earlies
            \/ UNCHANGED shardVars
  <1>0. /\ calls \in [Replica -> ShardCall] /\ Len(answered) + 1 \in Nat
        /\ booted \in [Replica -> Boots]
    BY DEF SignersInv, ShardTyped
  <1>1. ASSUME NEW p \in Replica, NEW e \in Nat, NEW spans, Faithful(spans, records, Len(records)),
               SealInto(p, spans, e), UNCHANGED <<booted, issued>>, Asks(p, e)
        PROVE  ShardHolds' /\ \E a \in Answer : Ends(p, e, a)
    <2>1. /\ ShardHolds'
          /\ \E a \in Answer :
               /\ Answered(p, e, a) /\ a \in {"recorded", "refused", "unknown"}
               /\ \/ records' = records /\ a # "recorded"
                  \/ Extends(e) /\ a # "refused"
      BY <1>1, SealSteps DEF Answer
    <2>. QED BY <2>1, <1>1 DEF Ends
  <1>2. ASSUME NEW p \in Replica, AppendHead(p)
        PROVE  ShardHolds' /\ (Begins(p) \/ \E e \in Nat, a \in Answer : Ends(p, e, a))
    <2>1. CASE \E spans \in CurrentSpans : SealInto(p, spans, Len(answered) + 1)
      <3>1. PICK spans \in CurrentSpans : SealInto(p, spans, Len(answered) + 1)
        BY <2>1
      <3>2. PICK e \in Nat : e = Len(answered) + 1
        BY <1>0
      <3>3. Asks(p, e) /\ UNCHANGED <<booted, issued>>
        BY <1>2, <3>2 DEF AppendHead, Asks
      <3>. QED BY <3>1, <3>2, <3>3, <1>1, CurrentFaithful
    <2>2. CASE /\ answered' = Append(answered, "asked")
               /\ calls' = [calls EXCEPT ![p] = [pc |-> "history", entry |-> Len(answered) + 1]]
               /\ UNCHANGED <<records, cursor>>
      BY <2>2, <1>2, HoldsSame DEF Begins, AppendHead
    <2>. QED BY <2>1, <2>2, <1>2 DEF AppendHead
  <1>3. ASSUME NEW p \in Replica, AppendHistory(p)
        PROVE  ShardHolds' /\ \E e \in Nat, a \in Answer : Ends(p, e, a)
    <2>1. PICK e \in Nat : e = calls[p].entry
      BY <1>0 DEF ShardCall
    <2>2. PICK spans : spans = SpansOf(records, booted[p].verifiers)
      OBVIOUS
    <2>3. Asks(p, e) /\ SealInto(p, spans, e) /\ UNCHANGED <<booted, issued>>
      BY <1>3, <2>1, <2>2 DEF AppendHistory, Asks
    <2>4. Faithful(spans, records, Len(records))
      BY <1>0, <2>2, HistoryFaithful
    <2>. QED BY <2>3, <2>4, <1>1
  <1>4. ASSUME NEW p \in Replica, Revised(p)
        PROVE  ShardHolds' /\ \E e \in Nat, a \in Answer : Ends(p, e, a)
    <2>1. PICK e \in Nat : Asks(p, e) /\ Answered(p, e, "refused")
      <3>1. CASE calls[p].pc = "history" /\ Answered(p, calls[p].entry, "refused")
        BY <3>1, <1>0 DEF ShardCall, Asks
      <3>2. CASE calls[p].pc = "idle" /\ Answered(p, Len(answered) + 1, "refused")
        BY <3>2, <1>0 DEF Asks
      <3>. QED BY <3>1, <3>2, <1>4 DEF Revised
    <2>2. UNCHANGED <<records, cursor, booted, issued>>
      BY <1>4 DEF Revised
    <2>. QED BY <2>1, <2>2, HoldsSame DEF Ends, Answer
  <1>5. ASSUME NEW p \in Replica, Sign(p) PROVE ShardHolds' /\ Signs
    BY <1>5, HoldsSame DEF Sign, Signs
  <1>6. ASSUME NEW p \in Replica, NEW b \in Boots, Boot(p, b) PROVE ShardHolds' /\ Restarts(p)
    BY <1>6, HoldsSame DEF Boot, Restarts
  <1>7. ASSUME NEW k \in Earlier, EarlierAppend(k) PROVE ShardHolds' /\ Earlies
    <2>1. answered' = Append(answered, "recorded") /\ UNCHANGED <<booted, calls, issued>>
      BY <1>7 DEF EarlierAppend
    <2>. QED BY <1>7, <2>1, EarlierHolds DEF Earlies, Extends
  <1>8. CASE UNCHANGED shardVars
    BY <1>8, HoldsSame DEF shardVars
  <1>. QED BY <1>2, <1>3, <1>4, <1>5, <1>6, <1>7, <1>8 DEF ShardNext

-----------------------------------------------------------------------------
(* What the callers were told.                                               *)

LEMMA AnsweredFacts ==
  ASSUME answered \in Seq(Answer), calls \in [Replica -> ShardCall],
         NEW p \in Replica, NEW e \in Nat, NEW a \in Answer, Answered(p, e, a),
         e \in 1..Len(answered) \/ e = Len(answered) + 1
  PROVE  /\ answered' \in Seq(Answer) /\ answered'[e] = a
         /\ \A x \in 1..Len(answered) : x # e => answered'[x] = answered[x]
         /\ 1..Len(answered') = 1..Len(answered) \cup {e}
         /\ calls' \in [Replica -> ShardCall] /\ calls'[p] = Idle
         /\ \A q \in Replica : q # p => calls'[q] = calls[q]
  <1>1. /\ calls' \in [Replica -> ShardCall] /\ calls'[p] = Idle
        /\ \A q \in Replica : q # p => calls'[q] = calls[q]
    <2>1. Idle \in ShardCall
      BY DEF Idle, ShardCall
    <2>. HIDE DEF Idle
    <2>. QED BY <2>1 DEF Answered
  <1>2. CASE e = Len(answered) + 1
    <2>1. answered' = Append(answered, a) /\ Len(answered) \in Nat
      BY <1>2 DEF Answered
    <2>2. /\ answered' \in Seq(Answer) /\ Len(answered') = Len(answered) + 1
          /\ answered'[e] = a /\ \A x \in 1..Len(answered) : answered'[x] = answered[x]
      BY <2>1, <1>2, AppendProperties
    <2>. QED BY <1>1, <1>2, <2>1, <2>2
  <1>3. CASE e \in 1..Len(answered)
    <2>1. answered' = [answered EXCEPT ![e] = a]
      BY <1>3 DEF Answered
    <2>2. answered' \in Seq(Answer) /\ Len(answered') = Len(answered)
      BY <2>1, <1>3, ExceptSeq
    <2>3. answered'[e] = a /\ \A x \in 1..Len(answered) : x # e => answered'[x] = answered[x]
      BY <2>1, <1>3
    <2>. QED BY <1>1, <1>3, <2>2, <2>3
  <1>. QED BY <1>2, <1>3

LEMMA BeganFacts ==
  ASSUME answered \in Seq(Answer), calls \in [Replica -> ShardCall],
         NEW p \in Replica, Begins(p)
  PROVE  /\ answered' \in Seq(Answer) /\ answered'[Len(answered) + 1] = "asked"
         /\ \A x \in 1..Len(answered) : answered'[x] = answered[x]
         /\ Len(answered') = Len(answered) + 1 /\ Len(answered) \in Nat
         /\ calls' \in [Replica -> ShardCall]
         /\ calls'[p].pc = "history" /\ calls'[p].entry = Len(answered) + 1
         /\ \A q \in Replica : q # p => calls'[q] = calls[q]
  <1>1. "asked" \in Answer /\ Len(answered) \in Nat
    BY DEF Answer
  <1>2. /\ answered' \in Seq(Answer) /\ answered'[Len(answered) + 1] = "asked"
        /\ \A x \in 1..Len(answered) : answered'[x] = answered[x]
        /\ Len(answered') = Len(answered) + 1
    BY <1>1, AppendProperties DEF Begins
  <1>3. PICK c : c = [pc |-> "history", entry |-> Len(answered) + 1]
    OBVIOUS
  <1>4. c \in ShardCall /\ c.pc = "history" /\ c.entry = Len(answered) + 1
    BY <1>1, <1>3 DEF ShardCall
  <1>5. calls' = [calls EXCEPT ![p] = c]
    BY <1>3 DEF Begins
  <1>. QED BY <1>1, <1>2, <1>4, <1>5

LEMMA AskedEntry ==
  ASSUME SignersInv, EntriesInv, NEW p \in Replica, NEW e, Asks(p, e)
  PROVE  /\ e \in Nat /\ (e \in 1..Len(answered) \/ e = Len(answered) + 1)
         /\ ~Entered(e)
  <1>1. Len(answered) \in Nat
    BY DEF SignersInv, ShardTyped
  <1>2. CASE e = Len(answered) + 1
    BY <1>1, <1>2 DEF EntriesInv, Single, Entered
  <1>3. CASE calls[p].pc = "history" /\ e = calls[p].entry
    BY <1>1, <1>3 DEF EntriesInv, AskedOnce, AsAnswered
  <1>. QED BY <1>2, <1>3 DEF Asks

\* Who is asking, and the answers' types.
LEMMA SignersStep ==
  ASSUME SignersInv, EntriesInv, [ShardNext]_shardVars
  PROVE  SignersInv'
  <1>0. /\ answered \in Seq(Answer) /\ calls \in [Replica -> ShardCall]
        /\ booted \in [Replica -> Boots]
    BY DEF SignersInv, ShardTyped
  <1>1. SUFFICES /\ answered' \in Seq(Answer) /\ calls' \in [Replica -> ShardCall]
                 /\ booted' \in [Replica -> Boots]
    BY Steps DEF SignersInv, ShardTyped, ShardHolds
  <1>2. ASSUME NEW p \in Replica, NEW e \in Nat, NEW a \in Answer, Ends(p, e, a)
        PROVE  /\ answered' \in Seq(Answer) /\ calls' \in [Replica -> ShardCall]
               /\ booted' = booted
    BY <1>0, <1>2, AskedEntry, AnsweredFacts DEF Ends
  <1>3. ASSUME NEW p \in Replica, Begins(p)
        PROVE  /\ answered' \in Seq(Answer) /\ calls' \in [Replica -> ShardCall]
               /\ booted' = booted
    BY <1>0, <1>3, BeganFacts DEF Begins
  <1>4. ASSUME NEW p \in Replica, Restarts(p)
        PROVE  /\ answered' = answered /\ calls' \in [Replica -> ShardCall]
               /\ booted' \in [Replica -> Boots]
    <2>1. Idle \in ShardCall
      BY DEF Idle, ShardCall
    <2>2. calls' \in [Replica -> ShardCall]
      BY <1>0, <1>4, <2>1 DEF Restarts
    <2>3. booted' \in [Replica -> Boots]
      BY <1>0, <1>4 DEF Restarts
    <2>. QED BY <2>2, <2>3, <1>4 DEF Restarts
  <1>5. CASE Signs \/ UNCHANGED shardVars
    BY <1>0, <1>5 DEF Signs, shardVars
  <1>6. CASE Earlies
    <2>1. answered' \in Seq(Answer)
      BY <1>0, <1>6, AppendProperties DEF Earlies, Answer
    <2>. QED BY <1>0, <1>6, <2>1 DEF Earlies
  <1>. QED BY <1>0, <1>2, <1>3, <1>4, <1>5, <1>6, Steps

\* Entries, when the shard takes one more or none.
LEMMA EntersSame ==
  ASSUME records' = records
  PROVE  \A e : Entered(e)' <=> Entered(e)
  BY DEF Entered

LEMMA EntersOne ==
  ASSUME SignersInv, NEW e, Extends(e)
  PROVE  /\ \A x : Entered(x)' <=> Entered(x) \/ x = e
         /\ Len(records') = Len(records) + 1 /\ Len(records) \in Nat
         /\ records'[Len(records) + 1].entry = e
         /\ \A i \in 1..Len(records) : records'[i] = records[i]
  <1>1. PICK r \in ShardRecord : r.entry = e /\ records' = Append(records, r)
    BY DEF Extends
  <1>2. /\ Len(records') = Len(records) + 1 /\ records'[Len(records) + 1] = r
        /\ \A i \in 1..Len(records) : records'[i] = records[i]
        /\ Len(records) \in Nat
    BY <1>1, Appended DEF SignersInv, ShardTyped
  <1>3. ASSUME NEW x PROVE Entered(x)' <=> Entered(x) \/ x = e
    <2>1. ASSUME Entered(x)' PROVE Entered(x) \/ x = e
      <3>1. PICK i \in 1..Len(records') : records'[i].entry = x
        BY <2>1 DEF Entered
      <3>2. i \in 1..Len(records) \/ i = Len(records) + 1
        BY <1>2
      <3>. QED BY <1>1, <1>2, <3>1, <3>2 DEF Entered
    <2>2. ASSUME Entered(x) PROVE Entered(x)'
      <3>1. PICK i \in 1..Len(records) : records[i].entry = x
        BY <2>2 DEF Entered
      <3>2. i \in 1..Len(records') /\ records'[i].entry = x
        BY <1>2, <3>1
      <3>. QED BY <3>2 DEF Entered
    <2>3. ASSUME x = e PROVE Entered(x)'
      <3>1. Len(records) + 1 \in 1..Len(records') /\ records'[Len(records) + 1].entry = x
        BY <1>1, <1>2, <2>3
      <3>. QED BY <3>1 DEF Entered
    <2>. QED BY <2>1, <2>2, <2>3
  <1>. QED BY <1>1, <1>2, <1>3

LEMMA SingleKept ==
  ASSUME SignersInv, Single, 1..Len(answered) \subseteq 1..Len(answered'),
         \/ records' = records
         \/ \E e \in 1..Len(answered') : Extends(e) /\ ~Entered(e)
  PROVE  Single'
  <1>1. CASE records' = records
    BY <1>1 DEF Single
  <1>2. ASSUME NEW e \in 1..Len(answered'), Extends(e), ~Entered(e) PROVE Single'
    <2>1. /\ Len(records') = Len(records) + 1 /\ Len(records) \in Nat
          /\ records'[Len(records) + 1].entry = e
          /\ \A i \in 1..Len(records) : records'[i] = records[i]
      BY <1>2, EntersOne
    <2>2. \A i \in 1..Len(records) : records[i].entry # e
      BY <1>2 DEF Entered
    <2>3. \A i \in 1..Len(records') : i \in 1..Len(records) \/ i = Len(records) + 1
      BY <2>1
    <2>4. \A i \in 1..Len(records') : records'[i].entry \in 1..Len(answered')
      BY <2>1, <2>3, <1>2 DEF Single
    <2>5. ASSUME NEW i \in 1..Len(records'), NEW j \in 1..Len(records'),
                 records'[i].entry = records'[j].entry
          PROVE  i = j
      BY <2>1, <2>2, <2>3, <2>5 DEF Single
    <2>. QED BY <2>4, <2>5 DEF Single
  <1>. QED BY <1>1, <1>2

LEMMA EndsEntries ==
  ASSUME SignersInv, EntriesInv, NEW p \in Replica, NEW e \in Nat, NEW a \in Answer, Ends(p, e, a)
  PROVE  EntriesInv'
  <1>0. /\ answered \in Seq(Answer) /\ calls \in [Replica -> ShardCall] /\ Len(answered) \in Nat
        /\ Single /\ AsAnswered /\ AskedOnce
    BY DEF SignersInv, ShardTyped, EntriesInv
  <1>1. /\ e \in 1..Len(answered) \/ e = Len(answered) + 1
        /\ ~Entered(e) /\ Answered(p, e, a) /\ a \in {"recorded", "refused", "unknown"}
    BY AskedEntry DEF Ends
  <1>2. /\ answered'[e] = a
        /\ \A x \in 1..Len(answered) : x # e => answered'[x] = answered[x]
        /\ 1..Len(answered') = 1..Len(answered) \cup {e}
        /\ calls'[p] = Idle
        /\ \A q \in Replica : q # p => calls'[q] = calls[q]
    BY <1>0, <1>1, AnsweredFacts
  <1>3. (records' = records /\ a # "recorded") \/ (Extends(e) /\ a # "refused")
    BY DEF Ends
  <1>4. Single'
    BY <1>0, <1>1, <1>2, <1>3, SingleKept
  <1>5. \A x \in 1..Len(answered') : x # e => x \in 1..Len(answered) /\ (Entered(x)' <=> Entered(x))
    BY <1>2, <1>3, EntersOne, EntersSame
  <1>6. (a = "recorded" => Entered(e)') /\ (a = "refused" => ~Entered(e)')
    BY <1>1, <1>3, EntersOne, EntersSame
  <1>7. AsAnswered'
    BY <1>0, <1>1, <1>2, <1>5, <1>6 DEF AsAnswered
  <1>8. AskedOnce'
    <2>1. \A q \in Replica : calls'[q].pc = "history" => q # p /\ calls'[q] = calls[q]
      BY <1>2 DEF Idle
    <2>2. \A q \in Replica : q # p /\ calls[q].pc = "history" => calls[q].entry # e
      BY <1>0 DEF Ends, Asks, AskedOnce
    <2>. QED BY <1>0, <1>2, <2>1, <2>2 DEF AskedOnce
  <1>. QED BY <1>4, <1>7, <1>8 DEF EntriesInv

LEMMA EntriesStep ==
  ASSUME SignersInv, EntriesInv, [ShardNext]_shardVars
  PROVE  EntriesInv'
  <1>0. /\ answered \in Seq(Answer) /\ calls \in [Replica -> ShardCall] /\ Len(answered) \in Nat
        /\ Single /\ AsAnswered /\ AskedOnce
    BY DEF SignersInv, ShardTyped, EntriesInv
  <1>1. ASSUME NEW p \in Replica, Begins(p) PROVE EntriesInv'
    <2>1. /\ answered'[Len(answered) + 1] = "asked"
          /\ \A x \in 1..Len(answered) : answered'[x] = answered[x]
          /\ Len(answered') = Len(answered) + 1
          /\ calls'[p].pc = "history" /\ calls'[p].entry = Len(answered) + 1
          /\ \A q \in Replica : q # p => calls'[q] = calls[q]
          /\ records' = records
      BY <1>0, <1>1, BeganFacts DEF Begins
    <2>2. \A x \in 1..Len(answered') : x \in 1..Len(answered) \/ x = Len(answered) + 1
      BY <2>1, <1>0
    <2>3. 1..Len(answered) \subseteq 1..Len(answered') /\ Len(answered) + 1 \in 1..Len(answered')
      BY <2>1, <1>0
    <2>4. Single'
      BY <1>0, <2>1, <2>3, SingleKept
    <2>5. (\A x : Entered(x)' <=> Entered(x)) /\ ~Entered(Len(answered) + 1)
      BY <1>0, <2>1, EntersSame DEF Single, Entered
    <2>6. AsAnswered'
      BY <1>0, <2>1, <2>2, <2>5 DEF AsAnswered
    <2>7. \A q \in Replica : q # p /\ calls[q].pc = "history" => calls[q].entry # Len(answered) + 1
      BY <1>0 DEF AskedOnce
    <2>8. AskedOnce'
      <3>. SUFFICES ASSUME NEW q \in Replica, calls'[q].pc = "history"
                    PROVE  /\ calls'[q].entry \in 1..Len(answered')
                           /\ answered'[calls'[q].entry] = "asked"
                           /\ \A x \in Replica : x # q /\ calls'[x].pc = "history" =>
                                                  calls'[x].entry # calls'[q].entry
        BY DEF AskedOnce
      <3>1. CASE q = p
        BY <3>1, <2>1, <2>3, <2>7
      <3>2. CASE q # p
        <4>1. /\ calls'[q] = calls[q] /\ calls[q].entry \in 1..Len(answered)
              /\ answered[calls[q].entry] = "asked" /\ calls[q].entry # Len(answered) + 1
              /\ \A x \in Replica : x # q /\ calls[x].pc = "history" =>
                                     calls[x].entry # calls[q].entry
          BY <3>2, <1>0, <2>1, <2>7 DEF AskedOnce
        <4>2. \A x \in Replica : x # q /\ calls'[x].pc = "history" =>
                                 calls'[x].entry # calls'[q].entry
          BY <4>1, <2>1
        <4>. QED BY <4>1, <4>2, <2>1, <2>3
      <3>. QED BY <3>1, <3>2
    <2>. QED BY <2>4, <2>6, <2>8 DEF EntriesInv
  <1>2. ASSUME NEW p \in Replica, Restarts(p) PROVE EntriesInv'
    <2>1. /\ calls'[p].pc = "idle" /\ \A q \in Replica : q # p => calls'[q] = calls[q]
          /\ UNCHANGED <<records, answered>>
      BY <1>0, <1>2 DEF Restarts, Idle
    <2>2. Single' /\ AsAnswered'
      BY <1>0, <2>1 DEF Single, AsAnswered, Entered
    <2>3. AskedOnce'
      BY <1>0, <2>1 DEF AskedOnce
    <2>. QED BY <2>2, <2>3 DEF EntriesInv
  <1>3. CASE Signs \/ UNCHANGED shardVars
    BY <1>0, <1>3 DEF Signs, shardVars, EntriesInv, Single, AsAnswered, AskedOnce, Entered
  <1>4. CASE Earlies
    <2>1. "recorded" \in Answer
      BY DEF Answer
    <2>2. /\ answered'[Len(answered) + 1] = "recorded"
          /\ \A x \in 1..Len(answered) : answered'[x] = answered[x]
          /\ Len(answered') = Len(answered) + 1
          /\ calls' = calls /\ Extends(Len(answered) + 1)
      BY <1>0, <1>4, <2>1, AppendProperties DEF Earlies
    <2>3. \A x \in 1..Len(answered') : x \in 1..Len(answered) \/ x = Len(answered) + 1
      BY <2>2, <1>0
    <2>4. 1..Len(answered) \subseteq 1..Len(answered') /\ Len(answered) + 1 \in 1..Len(answered')
      BY <2>2, <1>0
    <2>5. ~Entered(Len(answered) + 1)
      BY <1>0 DEF Single, Entered
    <2>6. Single'
      BY <1>0, <2>2, <2>4, <2>5, SingleKept
    <2>7. \A x : Entered(x)' <=> Entered(x) \/ x = Len(answered) + 1
      BY <2>2, EntersOne
    <2>8. \A x \in 1..Len(answered) : x # Len(answered) + 1
      BY <1>0
    <2>9. AsAnswered'
      BY <1>0, <2>2, <2>3, <2>7, <2>8 DEF AsAnswered
    <2>10. AskedOnce'
      BY <1>0, <2>2, <2>4 DEF AskedOnce
    <2>. QED BY <2>6, <2>9, <2>10 DEF EntriesInv
  <1>. QED BY <1>1, <1>2, <1>3, <1>4, EndsEntries, Steps

\* What was signed of a prefix stays signed of it.
LEMMA IssuedStep ==
  ASSUME SignersInv, ExtendsIssued, [ShardNext]_shardVars
  PROVE  ExtendsIssued'
  <1>0. /\ records \in Seq(ShardRecord) /\ Len(records) \in Nat
        /\ cursor.next_seq = Len(records) /\ cursor.last_hash = LastHash
    BY DEF SignersInv, ShardTyped
  <1>1. ASSUME NEW c \in issued, Len(records') \in Nat, Len(records) <= Len(records'),
               \A i \in 1..Len(records) : records'[i] = records[i]
        PROVE  /\ c.count = Len(c.leaves) /\ c.count <= Len(records')
               /\ c.root = IF c.count = 0 THEN SHARD_GENESIS ELSE c.leaves[c.count]
               /\ \A i \in 1..c.count : c.leaves[i] = ShardHashOf(records'[i])
    BY <1>0, <1>1 DEF ExtendsIssued
  <1>2. ASSUME issued' = issued, records' = records \/ \E e : Extends(e)
        PROVE  ExtendsIssued'
    <2>1. /\ Len(records') \in Nat /\ Len(records) <= Len(records')
          /\ \A i \in 1..Len(records) : records'[i] = records[i]
      BY <1>0, <1>2, EntersOne
    <2>. QED BY <1>1, <1>2, <2>1 DEF ExtendsIssued
  <1>3. CASE Signs
    <2>. DEFINE leaves == [i \in 1..Len(records) |-> ShardHashOf(records[i])]
                new == [root |-> cursor.last_hash, count |-> cursor.next_seq, leaves |-> leaves]
    <2>1. /\ new.count = Len(records) /\ new.root = LastHash /\ new.leaves = leaves
          /\ issued' = issued \cup {new} /\ records' = records
      BY <1>0, <1>3 DEF Signs
    <2>2. Len(leaves) = Len(records) /\ \A i \in 1..Len(records) : leaves[i] = ShardHashOf(records[i])
      BY <1>0
    <2>3. LastHash = IF Len(records) = 0 THEN SHARD_GENESIS ELSE leaves[Len(records)]
      BY <1>0, <2>2 DEF LastHash
    <2>. HIDE DEF leaves, new
    <2>. QED BY <1>0, <2>1, <2>2, <2>3 DEF ExtendsIssued
  <1>. QED BY <1>2, <1>3, Steps DEF Ends, Begins, Restarts, Earlies, shardVars
-----------------------------------------------------------------------------
ShardInv == SignersInv /\ EntriesInv /\ ExtendsIssued

LEMMA ShardStarts == ShardInit => ShardInv
  <1>. SUFFICES ASSUME ShardInit PROVE ShardInv
    OBVIOUS
  <1>1. /\ records = <<>> /\ answered = <<>> /\ issued = {} /\ cursor = NoCursor
        /\ booted \in [Replica -> Boots] /\ calls = [p \in Replica |-> Idle]
    BY DEF ShardInit
  <1>2. /\ records \in Seq(ShardRecord) /\ answered \in Seq(Answer)
        /\ Len(records) = 0 /\ Len(answered) = 0
    BY <1>1
  <1>3. /\ cursor \in HeadCursor /\ cursor.next_seq = 0 /\ cursor.last_hash = SHARD_GENESIS
        /\ cursor.signers = {}
    BY <1>1 DEF NoCursor, HeadCursor, SHARD_GENESIS, ShardHash
  <1>4. calls \in [Replica -> ShardCall] /\ \A p \in Replica : calls[p].pc = "idle"
    BY <1>1 DEF Idle, ShardCall
  <1>5. SignersInv
    BY <1>1, <1>2, <1>3, <1>4 DEF SignersInv, ShardTyped, LastHash, Chained, InTurn, SpansFaithful
  <1>6. EntriesInv
    BY <1>2, <1>4 DEF EntriesInv, Single, AsAnswered, AskedOnce
  <1>. QED BY <1>1, <1>5, <1>6 DEF ShardInv, ExtendsIssued

\* The invariant of the shard, its callers and what was signed of it
\* (append_revised, critical_section, checkpoint).
THEOREM ShardInvariant == ShardSpec => []ShardInv
  <1>1. ShardInv /\ [ShardNext]_shardVars => ShardInv'
    BY SignersStep, EntriesStep, IssuedStep DEF ShardInv
  <1>. QED BY <1>1, ShardStarts, PTL DEF ShardSpec

\* Whichever replicas append, with whichever keys and in whichever order their
\* sections and an earlier release's interleave, the records are one chain that
\* verifies under the keys together, and a replica that holds every signer's key
\* and whose own signed last or never is not refused (append_revised, may_extend,
\* spans_of, verify_stored_records).
THEOREM ShardAlwaysSound == ShardSpec => []ShardSound
  <1>1. ShardInv => ShardSound
    <2>. SUFFICES ASSUME SignersInv PROVE ShardSound
      BY DEF ShardInv
    <2>0. records \in Seq(ShardRecord) /\ booted \in [Replica -> Boots]
      BY DEF SignersInv, ShardTyped
    <2>1. ShardTypeOK
      <3>1. cursor \in [next_seq : {Len(records)}, last_hash : {LastHash}, signers : SUBSET ShardSigners]
        BY DEF SignersInv, ShardTyped, HeadCursor
      <3>2. \A i \in 1..Len(records) : records[i] \in ShardRecord
        BY <2>0
      <3>3. \A e \in 1..Len(answered) : answered[e] \in Answer
        BY DEF SignersInv, ShardTyped
      <3>. QED BY <3>1, <3>2, <3>3 DEF ShardTypeOK, SignersInv, ShardTyped, LastHash
    <2>2. ShardVerifies
      <3>1. \A i \in 1..Len(records) : records[i].signer \in VerifiedSigner(records[i], Keys)
        <4>. SUFFICES ASSUME NEW i \in 1..Len(records)
                      PROVE  records[i].signer \in VerifiedSigner(records[i], Keys)
          OBVIOUS
        <4>1. records[i] \in ShardRecord /\ Labelled(records[i])
          BY <2>0 DEF SignersInv, Chained
        <4>. QED BY <4>1 DEF Labelled, VerifiedSigner, ShardRecord
      <3>. QED BY <3>1 DEF ShardVerifies, VerifyStored, SignersInv, Chained, InTurn
    <2>3. HolderMayExtend
      <3>. SUFFICES ASSUME NEW p \in Replica,
                           {records[i].signer : i \in 1..Len(records)} \subseteq booted[p].verifiers,
                           booted[p].key \in {records[i].signer : i \in 1..Len(records)} =>
                             records[Len(records)].signer = booted[p].key,
                           NEW s \in IF CurrentSpans = {} THEN {SpansOf(records, booted[p].verifiers)}
                                     ELSE CurrentSpans
                    PROVE  MayExtend(s, booted[p])
        BY DEF HolderMayExtend
      <3>1. booted[p] \in Boots /\ Faithful(s, records, Len(records))
        BY <2>0, CurrentFaithful, HistoryFaithful
      <3>2. /\ \A i \in 1..Len(records) : records[i].signer \in booted[p].verifiers
            /\ Turn(booted[p].key)
        BY DEF Turn
      <3>3. PICK b \in Boots : b = booted[p]
        BY <3>1
      <3>. QED BY <2>0, <3>1, <3>2, <3>3, HolderExtends
    <2>. QED BY <2>1, <2>2, <2>3 DEF ShardSound
  <1>. QED BY <1>1, ShardInvariant, PTL

\* An append's entry is in the shard once when it was answered as recorded, never
\* when it was refused, and at most once whatever it was answered (append_revised,
\* seal_into).
THEOREM AlwaysRecordedAsAnswered == ShardSpec => []RecordedAsAnswered
  <1>1. ShardInv => RecordedAsAnswered
    <2>. SUFFICES ASSUME EntriesInv, NEW e \in 1..Len(answered)
                  PROVE  LET n == Cardinality({i \in 1..Len(records) : records[i].entry = e}) IN
                         /\ n <= 1
                         /\ answered[e] = "recorded" => n = 1
                         /\ answered[e] = "refused" => n = 0
      BY DEF ShardInv, RecordedAsAnswered
    <2>. DEFINE places == {i \in 1..Len(records) : records[i].entry = e}
    <2>1. CASE Entered(e)
      <3>1. PICK i \in 1..Len(records) : records[i].entry = e
        BY <2>1 DEF Entered
      <3>2. places = {i}
        BY <3>1 DEF EntriesInv, Single
      <3>3. Cardinality(places) = 1
        BY <3>2, FS_Singleton
      <3>. QED BY <2>1, <3>3 DEF EntriesInv, AsAnswered
    <2>2. CASE ~Entered(e)
      <3>1. places = {}
        BY <2>2 DEF Entered
      <3>2. Cardinality(places) = 0
        BY <3>1, FS_EmptySet
      <3>. QED BY <2>2, <3>2 DEF EntriesInv, AsAnswered
    <2>. QED BY <2>1, <2>2
  <1>. QED BY <1>1, ShardInvariant, PTL

\* Every checkpoint and tree head a replica signed is of a prefix of the shard,
\* then and ever after, and the two agree (checkpoint, tree_head,
\* evidence_snapshot).
THEOREM AlwaysExtendsIssued == ShardSpec => []ExtendsIssued
  <1>1. ShardInv => ExtendsIssued
    BY DEF ShardInv
  <1>. QED BY <1>1, ShardInvariant, PTL

=============================================================================
