------------------------- MODULE FileHeadStoreProofs -------------------------
(***************************************************************************)
(* Proofs about FileHeadStore, for every set of payloads, whichever releases *)
(* append to the shard and whichever faults it meets.                        *)
(*                                                                          *)
(* The argument is about every directory and every log content a power loss  *)
(* may leave, not only those that are there: directories only move forward   *)
(* (no head, then longer ones; an earlier layout, then the marker), and all  *)
(* the logs agree on what the latest head commits.  A directory that is not  *)
(* marked yet holds in its .shard file all that was acknowledged, one that   *)
(* is marked holds it in the log.                                            *)
(***************************************************************************)
EXTENDS FileHeadStore, TLAPS

\* The log contents that may be beside directory d after a power loss.
LogOf(d) == IF d.log THEN logs ELSE {<<>>}

Shape(d) ==
    /\ \A m, n \in d.head : m = n
    /\ ~d.log => d.head \subseteq {0}
    /\ d.beside.records # <<>> <=> d.beside.is = "earlier"
    /\ d.beside.is = "earlier" => 0 \notin d.head
    /\ d.beside.is = "missing" => d.head = {} /\ ~d.log

\* The directory that is there is the latest of those that may be.
Before(d) ==
    /\ d.beside.is = "marker" => dir.beside.is = "marker"
    /\ \A n \in d.head : \E m \in dir.head : n <= m

\* What the head commits is whole, and the same in every log.
Common ==
    \A n \in dir.head : LogReads(n) /\ \A l \in logs : Begins(SubSeq(log, 1, n), l)

\* A marked shard whose head file is gone.
Stuck(d) == d.beside.is = "marker" /\ d.head = {} /\ d.log

Typed ==
    /\ dir \in Directory /\ dirs \in SUBSET Directory
    /\ log \in Seq(Line) /\ logs \in SUBSET Seq(Line)
    /\ section \in Section /\ listing \in Listing
    /\ acked \in Seq(Record)

FilesInv ==
    /\ Typed
    /\ dir \in dirs /\ log \in logs
    /\ ~dir.log => logs = {<<>>}
    /\ \A d \in dirs : Shape(d) /\ Before(d)
    /\ Common
    /\ \A d \in dirs : Stuck(d) => /\ d = dir /\ section.pc = "idle"
                                   /\ \A l \in logs : l # <<>>

\* What was acknowledged is in directory d, or in any log beside it.
Holds(d) ==
    IF d.beside.is = "marker"
    THEN \A l \in LogOf(d) : /\ d.head = {} => Begins(acked, l)
                             /\ \A n \in d.head : Begins(acked, SubSeq(l, 1, n))
    ELSE Begins(acked, d.beside.records)

HoldsInv == \A d \in dirs : Holds(d)

\* One line longer.
Longer(t, s) == Begins(s, t) /\ Len(t) = Len(s) + 1

Whole == \A i \in 1..Len(log) : log[i] # Torn

\* The section's log is written.
Written ==
    /\ dir.log /\ Whole
    /\ section.converting =>
         /\ dir.head = {} /\ dir.beside.is = "earlier"
         /\ Longer(log, dir.beside.records)
    /\ ~section.converting =>
         /\ dir.head = {section.committed} /\ dir.beside.is = "marker"
         /\ Len(log) = section.committed + 1

SectionInv ==
    /\ section.pc = "mark" =>
         /\ ~section.converting /\ dir.beside.is # "marker" /\ Len(section.records) = 1
         /\ dir.head = {} => dir.beside.is = "missing" /\ section.committed = 0
         /\ dir.head # {} => dir.head = {section.committed}
         /\ \A n \in dir.head : Begins(dir.beside.records, SubSeq(log, 1, n))
    /\ section.pc = "empty" =>
         /\ ~section.converting /\ dir.beside.is = "marker" /\ Len(section.records) = 1
         /\ dir.head = {} /\ section.committed = 0
    /\ section.pc = "write" =>
         /\ section.converting =>
              /\ dir.head = {} /\ dir.beside.is = "earlier" /\ section.committed = 0
              /\ Longer(section.records, dir.beside.records)
         /\ ~section.converting =>
              /\ dir.head = {section.committed} /\ dir.beside.is = "marker"
              /\ Len(section.records) = 1
    /\ section.pc = "sync" => Written
    /\ section.pc = "head" => Written /\ logs = {log}
    /\ section.pc = "remark" =>
         /\ dir.head = {Len(log)} /\ dir.beside.is = "earlier"
         /\ Begins(dir.beside.records, log)
    /\ section.pc = "return" => dirs = {dir} /\ dir.beside.is = "marker" /\ dir.head # {}

\* Until somebody meddles, whatever a power loss leaves loads, and shows part
\* of what is shown now.
UnmeddledInv ==
    ~meddled =>
        \A d \in dirs :
            /\ ~Stuck(d)
            /\ \A n \in d.head : Begins(d.beside.records, SubSeq(log, 1, n))
            /\ d.head = {} => Begins(d.beside.records, Shown)

ListingInv ==
    /\ listing.pc = "idle" => listing = NoListing
    /\ listing.had => HeadListed \/ (dir.head = {} /\ dir.beside.is = "earlier")
    /\ "head" \in listing.names => dir.head # {}
    /\ "shard" \in listing.names \/ listing.pc \in {"shard", "beside"}
           => dir.beside.is # "missing"
    /\ "log" \in listing.names \/ listing.pc = "log"
           => dir.log /\ (listing.had \/ dir.beside.is = "marker")
    /\ listing.pc = "next" /\ listing.had => listing.listed \/ listing.names # {}
    /\ listing.pc \in {"head", "again"} /\ listing.had => HeadListed
    /\ listing.pc \in {"orphan", "again", "refuse", "failed"} => listing.had \/ Stuck(dir)
    /\ listing.pc \in {"refuse", "failed"} => ~listing.had
-----------------------------------------------------------------------------
(* Sequences and their beginnings. *)

\* A history is a log without torn lines.
LEMMA RecordsAreLines ==
    /\ Seq(Record) \subseteq Seq(Line)
    /\ Torn \notin Record
    /\ \A s \in Seq(Line) : (\A i \in 1..Len(s) : s[i] # Torn) => s \in Seq(Record)
  <1>1. Record \subseteq Line
    BY DEF Line
  <1>2. Torn \notin Record
    <2>. SUFFICES ASSUME Torn \in Record PROVE FALSE
      OBVIOUS
    <2>1. DOMAIN Torn = {"seq", "payload"}
      BY DEF Record
    <2>2. DOMAIN Torn = {"seq", "torn"}
      BY DEF Torn
    <2>. QED BY <2>1, <2>2
  <1>3. ASSUME NEW s \in Seq(Line), \A i \in 1..Len(s) : s[i] # Torn
        PROVE  s \in Seq(Record)
    <2>1. \A i \in 1..Len(s) : s[i] \in Record
      BY <1>3 DEF Line
    <2>. QED BY <2>1
  <1>. QED BY <1>1, <1>2, <1>3

\* The first n lines of a log.
LEMMA Prefix ==
    ASSUME NEW t \in Seq(Line), NEW n \in Nat, n <= Len(t)
    PROVE  /\ SubSeq(t, 1, n) \in Seq(Line)
           /\ Len(SubSeq(t, 1, n)) = n
           /\ \A i \in 1..n : SubSeq(t, 1, n)[i] = t[i]
  OBVIOUS

\* Sequences that agree are equal.
LEMMA Same ==
    ASSUME NEW s \in Seq(Line), NEW t \in Seq(Line), Len(s) = Len(t),
           \A i \in 1..Len(s) : t[i] = s[i]
    PROVE  s = t
  OBVIOUS

\* One log begins another when they agree as far as the first goes.
LEMMA BeginsAgrees ==
    ASSUME NEW s \in Seq(Line), NEW t \in Seq(Line)
    PROVE  Begins(s, t) <=> Len(s) <= Len(t) /\ \A i \in 1..Len(s) : t[i] = s[i]
  <1>0. Len(s) \in Nat /\ Len(t) \in Nat
    OBVIOUS
  <1>1. CASE Len(s) <= Len(t)
    <2>. PICK u : u = SubSeq(t, 1, Len(s))
      OBVIOUS
    <2>1. u \in Seq(Line) /\ Len(u) = Len(s) /\ \A i \in 1..Len(s) : u[i] = t[i]
      BY <1>0, <1>1, Prefix
    <2>2. u = s <=> \A i \in 1..Len(s) : t[i] = s[i]
      BY <2>1, Same
    <2>. QED BY <1>1, <2>2 DEF Begins
  <1>. QED BY <1>1 DEF Begins

LEMMA BeginsSelf == ASSUME NEW s \in Seq(Line) PROVE Begins(s, s)
  <1>1. Len(s) <= Len(s)
    OBVIOUS
  <1>. QED BY <1>1, BeginsAgrees

LEMMA BeginsTrans ==
    ASSUME NEW s \in Seq(Line), NEW t \in Seq(Line), NEW u \in Seq(Line),
           Begins(s, t), Begins(t, u)
    PROVE  Begins(s, u)
  <1>1. /\ Len(s) <= Len(t) /\ Len(t) <= Len(u)
        /\ \A i \in 1..Len(s) : t[i] = s[i]
        /\ \A i \in 1..Len(t) : u[i] = t[i]
    BY BeginsAgrees
  <1>2. Len(s) <= Len(u) /\ \A i \in 1..Len(s) : u[i] = s[i]
    BY <1>1
  <1>. QED BY <1>2, BeginsAgrees

\* Nothing begins everything, and is begun by nothing else.
LEMMA ShortestBegins ==
    ASSUME NEW e \in Seq(Line), Len(e) = 0, NEW s \in Seq(Line)
    PROVE  Begins(e, s) /\ (Begins(s, e) => s = e)
  <1>1. Len(s) \in Nat
    OBVIOUS
  <1>2. Begins(e, s)
    <2>1. Len(e) <= Len(s) /\ \A i \in 1..Len(e) : s[i] = e[i]
      BY <1>1
    <2>. QED BY <2>1, BeginsAgrees
  <1>3. ASSUME Begins(s, e) PROVE s = e
    <2>1. Len(s) <= 0
      BY <1>3, BeginsAgrees
    <2>. QED BY <1>1, <2>1, Same
  <1>. QED BY <1>2, <1>3

LEMMA BeginsEmpty ==
    /\ <<>> \in Seq(Line)
    /\ \A s \in Seq(Line) : Begins(<<>>, s)
    /\ \A s \in Seq(Line) : Begins(s, <<>>) => s = <<>>
  <1>1. <<>> \in Seq(Line) /\ Len(<<>>) = 0
    OBVIOUS
  <1>. QED BY <1>1, ShortestBegins

\* A part of a log begins it.
LEMMA PrefixBegins ==
    ASSUME NEW t \in Seq(Line), NEW n \in Nat, n <= Len(t)
    PROVE  Begins(SubSeq(t, 1, n), t)
  BY Prefix, BeginsAgrees

\* Logs that agree on the first m lines agree on the first n.
LEMMA PrefixesAgree ==
    ASSUME NEW s \in Seq(Line), NEW t \in Seq(Line), NEW m \in Nat, NEW n \in Nat,
           n <= m, m <= Len(s), Begins(SubSeq(s, 1, m), t)
    PROVE  /\ m <= Len(t) /\ n <= Len(t) /\ n <= Len(s)
           /\ SubSeq(t, 1, n) = SubSeq(s, 1, n)
           /\ Begins(SubSeq(t, 1, n), SubSeq(s, 1, m))
  <1>. PICK u : u = SubSeq(s, 1, m)
    OBVIOUS
  <1>1. u \in Seq(Line) /\ Len(u) = m /\ \A i \in 1..m : u[i] = s[i]
    BY Prefix
  <1>2. m <= Len(t) /\ \A i \in 1..m : t[i] = s[i]
    BY <1>1, BeginsAgrees
  <1>3. n <= Len(t) /\ n <= Len(s)
    BY <1>2
  <1>. PICK v : v = SubSeq(t, 1, n)
    OBVIOUS
  <1>. PICK w : w = SubSeq(s, 1, n)
    OBVIOUS
  <1>4. v \in Seq(Line) /\ Len(v) = n /\ \A i \in 1..n : v[i] = t[i]
    BY <1>3, Prefix
  <1>5. w \in Seq(Line) /\ Len(w) = n /\ \A i \in 1..n : w[i] = s[i]
    BY <1>3, Prefix
  <1>6. v = w
    BY <1>2, <1>4, <1>5, Same
  <1>7. Begins(v, u)
    <2>1. Len(v) <= Len(u) /\ \A i \in 1..Len(v) : u[i] = v[i]
      BY <1>1, <1>2, <1>4
    <2>. QED BY <1>1, <1>4, <2>1, BeginsAgrees
  <1>. QED BY <1>2, <1>3, <1>6, <1>7

\* A log with a line added begins with what it was.
LEMMA AddedBegins ==
    ASSUME NEW s \in Seq(Record), NEW r \in Record
    PROVE  /\ Append(s, r) \in Seq(Record) /\ Append(s, r) # <<>>
           /\ Longer(Append(s, r), s)
  <1>0. /\ Append(s, r) \in Seq(Record)
        /\ Len(Append(s, r)) = Len(s) + 1
        /\ \A i \in 1..Len(s) : Append(s, r)[i] = s[i]
    OBVIOUS
  <1>. PICK t \in Seq(Record) : t = Append(s, r)
    BY <1>0
  <1>1. /\ Len(t) = Len(s) + 1 /\ t # <<>> /\ Len(s) <= Len(t)
        /\ \A i \in 1..Len(s) : t[i] = s[i]
    BY <1>0
  <1>2. Begins(s, t)
    BY <1>1, BeginsAgrees, RecordsAreLines
  <1>. QED BY <1>1, <1>2 DEF Longer

\* All of a log.
LEMMA AllOfIt ==
    ASSUME NEW s \in Seq(Line)
    PROVE  SubSeq(s, 1, Len(s)) = s
  <1>1. Len(s) \in Nat /\ Len(s) <= Len(s)
    OBVIOUS
  <1>. PICK t : t = SubSeq(s, 1, Len(s))
    OBVIOUS
  <1>2. t \in Seq(Line) /\ Len(t) = Len(s) /\ \A i \in 1..Len(s) : t[i] = s[i]
    BY <1>1, Prefix
  <1>3. t = s
    BY <1>2, Same
  <1>. QED BY <1>3

\* None of it.
LEMMA NoneOfIt ==
    ASSUME NEW s \in Seq(Line)
    PROVE  SubSeq(s, 1, 0) = <<>>
  <1>. PICK t : t = SubSeq(s, 1, 0)
    OBVIOUS
  <1>1. 0 \in Nat /\ 0 <= Len(s)
    OBVIOUS
  <1>2. t \in Seq(Line) /\ Len(t) = 0
    BY <1>1, Prefix
  <1>3. t = <<>>
    BY <1>2
  <1>. QED BY <1>3

-----------------------------------------------------------------------------
(* What the invariants say of a directory. *)

\* A marker, a missing file and a shard of an earlier release are told apart.
LEMMA BesideIs ==
    ASSUME NEW d \in Directory, Shape(d)
    PROVE  /\ d.beside.is \in {"missing", "marker", "earlier"}
           /\ d.beside.is = "marker" <=> d.beside = Marker
           /\ d.beside.is = "missing" <=> d.beside = Missing
           /\ d.beside.is # "earlier" => d.beside.records = <<>>
           /\ d.beside.records \in Seq(Record) /\ d.beside.records \in Seq(Line)
           /\ d.head \in SUBSET Nat /\ d.log \in BOOLEAN
  <1>1. PICK b \in Beside : b = d.beside
    BY DEF Directory
  <1>2. b = [is |-> b.is, records |-> b.records]
    BY DEF Beside
  <1>3. b.is # "earlier" => b.records = <<>>
    BY <1>1 DEF Shape
  <1>4. b.is \in {"missing", "marker", "earlier"} /\ b.records \in Seq(Record)
    BY DEF Beside
  <1>5. b.is = "marker" <=> b = Marker
    BY <1>2, <1>3 DEF Marker
  <1>6. b.is = "missing" <=> b = Missing
    BY <1>2, <1>3 DEF Missing
  <1>. QED BY <1>1, <1>3, <1>4, <1>5, <1>6, RecordsAreLines DEF Directory

\* One of the logs that may be beside d holds what d's head commits, and it is
\* part of what the head that is there commits.
LEMMA HeadReads ==
    ASSUME FilesInv, NEW d \in dirs, NEW n \in d.head, NEW l \in LogOf(d)
    PROVE  /\ n \in Nat /\ n <= Len(l) /\ n <= Len(log)
           /\ SubSeq(l, 1, n) = SubSeq(log, 1, n)
           /\ \A m \in dir.head : /\ n <= m /\ LogReads(m)
                                  /\ Begins(SubSeq(log, 1, n), SubSeq(log, 1, m))
  <1>1. /\ d \in Directory /\ dir \in dirs /\ dir \in Directory /\ Shape(d) /\ Shape(dir)
        /\ log \in Seq(Line) /\ logs \in SUBSET Seq(Line)
    BY DEF FilesInv, Typed
  <1>2. PICK m \in dir.head : n <= m
    BY DEF FilesInv, Before
  <1>3. /\ n \in Nat /\ m \in Nat /\ \A k \in dir.head : k = m
        /\ LogReads(m) /\ \A t \in logs : Begins(SubSeq(log, 1, m), t)
    BY <1>1, <1>2 DEF FilesInv, Common, Shape, Directory
  <1>4. m <= Len(log) /\ log \in logs
    BY <1>3 DEF LogReads, FilesInv
  <1>5. n <= Len(log) /\ Begins(SubSeq(log, 1, n), SubSeq(log, 1, m))
    BY <1>1, <1>2, <1>3, <1>4, PrefixesAgree
  <1>6. n <= Len(l) /\ SubSeq(l, 1, n) = SubSeq(log, 1, n)
    <2>1. CASE d.log
      <3>1. l \in logs /\ l \in Seq(Line)
        BY <1>1, <2>1 DEF LogOf
      <3>2. Begins(SubSeq(log, 1, m), l)
        BY <1>3, <3>1
      <3>. QED BY <1>1, <1>2, <1>3, <1>4, <3>1, <3>2, PrefixesAgree
    <2>2. CASE ~d.log
      <3>1. l = <<>> /\ n = 0
        BY <1>1, <2>2 DEF LogOf, Shape
      <3>. QED BY <1>1, <3>1, NoneOfIt
    <2>. QED BY <2>1, <2>2
  <1>. QED BY <1>2, <1>3, <1>5, <1>6

\* The log that is there is one that may be beside the directory that is there.
LEMMA LogIsThere ==
    ASSUME FilesInv
    PROVE  /\ log \in LogOf(dir) /\ LogOf(dir) \subseteq logs
           /\ \A d \in dirs : LogOf(d) \subseteq Seq(Line)
  BY BeginsEmpty DEF FilesInv, Typed, LogOf

\* What is shown.
LEMMA ShownIs ==
    ASSUME FilesInv
    PROVE  /\ Shown \in Seq(Record) /\ Shown \in Seq(Line)
           /\ dir.head = {} => Shown = dir.beside.records
           /\ \A n \in dir.head : Shown = SubSeq(log, 1, n) /\ Len(Shown) = n /\ dir.head = {n}
  <1>1. dir \in dirs /\ dir \in Directory /\ Shape(dir) /\ log \in Seq(Line)
    BY DEF FilesInv, Typed
  <1>2. CASE dir.head = {}
    BY <1>1, <1>2, BesideIs DEF Shown
  <1>3. CASE dir.head # {}
    <2>1. PICK n : n \in dir.head
      BY <1>3
    <2>2. n \in Nat /\ \A m \in dir.head : m = n
      BY <1>1, <2>1 DEF Shape, Directory
    <2>3. dir.head = {n}
      BY <2>1, <2>2
    <2>4. (CHOOSE m \in dir.head : TRUE) = n
      BY <2>1, <2>2
    <2>5. Shown = SubSeq(log, 1, n)
      BY <1>3, <2>4 DEF Shown
    <2>6. LogReads(n)
      BY <2>1 DEF FilesInv, Common
    <2>7. n <= Len(log) /\ \A i \in 1..n : log[i] # Torn
      BY <2>6 DEF LogReads
    <2>8. PICK s : s = SubSeq(log, 1, n)
      OBVIOUS
    <2>9. s \in Seq(Line) /\ Len(s) = n /\ \A i \in 1..n : s[i] = log[i]
      BY <1>1, <2>2, <2>7, <2>8, Prefix
    <2>10. s \in Seq(Record)
      BY <2>7, <2>9, RecordsAreLines
    <2>. QED BY <1>3, <2>2, <2>3, <2>5, <2>8, <2>9, <2>10
  <1>. QED BY <1>2, <1>3

\* What is shown is read from the head and the log.
LEMMA ShownAt == \A n : dir.head = {n} => Shown = SubSeq(log, 1, n)
  <1>. SUFFICES ASSUME NEW n, dir.head = {n} PROVE Shown = SubSeq(log, 1, n)
    OBVIOUS
  <1>1. (CHOOSE m \in {n} : TRUE) = n
    OBVIOUS
  <1>. QED BY <1>1 DEF Shown

LEMMA ShownAtNext == (\A n : dir.head = {n} => Shown = SubSeq(log, 1, n))'
  BY ShownAt, PTL

\* It stays the same where the head and what it commits do.
LEMMA SameShown ==
    ASSUME FilesInv, dir'.head = dir.head,
           dir.head = {} => dir'.beside.records = dir.beside.records,
           \A n \in dir.head : SubSeq(log', 1, n) = SubSeq(log, 1, n)
    PROVE  Shown' = Shown
  <1>1. CASE dir.head = {}
    BY <1>1 DEF Shown
  <1>2. ASSUME NEW n \in dir.head PROVE Shown' = Shown
    <2>1. dir.head = {n} /\ Shown = SubSeq(log, 1, n)
      BY ShownIs
    <2>. QED BY <2>1, ShownAtNext
  <1>. QED BY <1>1, <1>2

LEMMA ShownTyped == FilesInv => Shown \in Seq(Record) /\ Shown \in Seq(Line)
  BY ShownIs

LEMMA ShownTypedNext == FilesInv' => (Shown \in Seq(Record) /\ Shown \in Seq(Line))'
  BY ShownTyped, PTL

\* No head commits more than the log then holds.
LEMMA FilesTyped == ASSUME FilesInv PROVE TypeOK
  <1>1. ASSUME NEW d \in dirs, NEW l \in logs, NEW n \in d.head
        PROVE  n <= Len(l)
    <2>1. CASE d.log
      BY <2>1, HeadReads DEF LogOf
    <2>2. CASE ~d.log
      BY <2>2 DEF FilesInv, Typed, Shape
    <2>. QED BY <2>1, <2>2
  <1>. QED BY <1>1 DEF FilesInv, Typed, TypeOK

\* A shard nobody can append to is the only one there may be.
LEMMA NotStuck ==
    ASSUME FilesInv, section.pc # "idle" \/ dir.beside.is # "marker"
    PROVE  \A d \in dirs : ~Stuck(d)
  BY DEF FilesInv, Before, Stuck

-----------------------------------------------------------------------------
(* Steps that write a small file of the directory. *)

\* Where directory d goes further than the one there is.
Further(d) ==
    /\ Shape(d) /\ ~Stuck(d) /\ d.log = dir.log
    /\ dir.beside.is = "marker" => d.beside.is = "marker"
    /\ dir.beside.is # "missing" => d.beside.is # "missing"
    /\ \A n \in dir.head : \E m \in d.head : n <= m
    /\ \A n \in d.head : LogReads(n) /\ \A l \in logs : Begins(SubSeq(log, 1, n), l)

\* Moving to d, or failing to, keeps the files in order.
LEMMA MovesFiles ==
    ASSUME FilesInv, Typed', NEW d, Further(d), Renamed(d) \/ RenameFailed(d),
           UNCHANGED <<log, logs>>, \A e \in dirs : ~Stuck(e)
    PROVE  FilesInv'
  <1>1. \/ dir' = d /\ dirs' = {d}
        \/ dir' = dir /\ dirs' = dirs
        \/ dir' = d /\ dirs' = dirs \cup {d}
    BY DEF Renamed, RenameFailed
  <1>2. dir' \in dirs' /\ log' \in logs' /\ (~dir'.log => logs' = {<<>>})
    BY <1>1 DEF FilesInv, Further
  <1>3. d \in dirs' \/ (dir' = dir /\ dirs' = dirs)
    BY <1>1
  <1>4. ASSUME NEW e \in dirs' PROVE Shape(e) /\ ~Stuck(e)
    BY <1>1 DEF FilesInv, Further
  <1>5. ASSUME NEW e \in dirs' PROVE Before(e)'
    <2>1. dir \in Directory /\ (d \in dirs' => d \in Directory)
      BY DEF FilesInv, Typed
    <2>2. CASE dir' = dir /\ dirs' = dirs
      BY <2>2 DEF FilesInv, Before
    <2>3. CASE dir' = d /\ e = d
      <3>1. d.head \subseteq Nat
        BY <2>1, <2>3 DEF Directory
      <3>2. \A n \in d.head : n <= n
        BY <3>1
      <3>. QED BY <2>3, <3>2 DEF Before
    <2>4. CASE dir' = d /\ e \in dirs
      <3>1. e \in Directory /\ d \in Directory /\ Before(e)
        BY <1>1, <2>1, <2>4, <1>3 DEF FilesInv, Typed
      <3>2. e.head \subseteq Nat /\ d.head \subseteq Nat /\ dir.head \subseteq Nat
        BY <2>1, <3>1 DEF Directory
      <3>3. \A n \in e.head : \E m \in d.head : n <= m
        BY <3>1, <3>2 DEF Before, Further
      <3>. QED BY <2>4, <3>1, <3>3 DEF Before, Further
    <2>. QED BY <1>1, <2>2, <2>3, <2>4
  <1>6. Common'
    BY <1>1 DEF Further, FilesInv, Common, LogReads
  <1>. QED BY <1>2, <1>4, <1>5, <1>6 DEF FilesInv, Shape, Stuck

\* What was acknowledged stays where it may be looked for.
LEMMA MovesHolds ==
    ASSUME HoldsInv, NEW d, Holds(d), Renamed(d) \/ RenameFailed(d),
           UNCHANGED <<logs, acked>>
    PROVE  HoldsInv'
  BY DEF HoldsInv, Holds, LogOf, Renamed, RenameFailed

\* A directory that may be left shows no more than before.
LEMMA MovesUnmeddled ==
    ASSUME FilesInv, FilesInv', UnmeddledInv, NEW d, Renamed(d) \/ RenameFailed(d),
           UNCHANGED <<log, logs, meddled>>, \A e \in dirs : ~Stuck(e), ~Stuck(d),
           ~meddled => /\ \A n \in d.head : Begins(d.beside.records, SubSeq(log, 1, n))
                       /\ dir' = d => Begins(Shown, Shown')
                       /\ d.head = {} => Begins(d.beside.records, Shown)
    PROVE  UnmeddledInv'
  <1>. SUFFICES ASSUME ~meddled, NEW e \in dirs'
                PROVE  /\ ~Stuck(e)
                       /\ \A n \in e.head : Begins(e.beside.records, SubSeq(log', 1, n))
                       /\ e.head = {} => Begins(e.beside.records, Shown')
    BY DEF UnmeddledInv, Stuck
  <1>0. dir' = d \/ (dir' = dir /\ dirs' = dirs)
    BY DEF Renamed, RenameFailed
  <1>1. (e = d /\ dir' = d) \/ e \in dirs
    BY DEF Renamed, RenameFailed
  <1>2. Shown \in Seq(Line) /\ Shown' \in Seq(Line) /\ e.beside.records \in Seq(Line)
    <2>1. e \in Directory /\ Shape(e)
      BY DEF FilesInv, Typed, Shape
    <2>. QED BY <2>1, ShownIs, ShownTypedNext, BesideIs
  <1>3. Begins(Shown, Shown')
    <2>1. CASE dir' = dir
      BY <1>2, <2>1, BeginsSelf DEF Shown
    <2>. QED BY <1>0, <2>1
  <1>4. e.head = {} => Begins(e.beside.records, Shown)
    BY <1>1 DEF UnmeddledInv
  <1>. QED BY <1>1, <1>2, <1>3, <1>4, BeginsTrans DEF UnmeddledInv

\* A listing goes on over a directory that only moves forward.
LEMMA MovesListing ==
    ASSUME ListingInv, UNCHANGED listing,
           HeadListed => HeadListed',
           dir.head = {} /\ dir.beside.is = "earlier"
               => HeadListed' \/ (dir'.head = {} /\ dir'.beside.is = "earlier"),
           dir.head # {} => dir'.head # {},
           dir.beside.is # "missing" => dir'.beside.is # "missing",
           dir.beside.is = "marker" => dir'.beside.is = "marker",
           dir.log => dir'.log,
           Stuck(dir) => Stuck(dir')
    PROVE  ListingInv'
  BY DEF ListingInv, Stuck

-----------------------------------------------------------------------------
(* What the actions write. *)

\* One log after another.
LEMMA Joined ==
    ASSUME NEW s \in Seq(Line), NEW t \in Seq(Line)
    PROVE  /\ s \o t \in Seq(Line) /\ Len(s \o t) = Len(s) + Len(t)
           /\ \A i \in 1..Len(s) : (s \o t)[i] = s[i]
           /\ \A i \in 1..Len(t) : (s \o t)[Len(s) + i] = t[i]
  OBVIOUS

\* What a write may leave of one more line.
LEMMA TornType ==
    /\ <<>> \in Seq(Line) /\ Len(<<>>) = 0
    /\ <<Torn>> \in Seq(Line) /\ Len(<<Torn>>) = 1
  <1>. PICK x : x = Torn
    OBVIOUS
  <1>1. x \in Line
    BY DEF Line
  <1>. HIDE DEF Torn
  <1>2. <<x>> \in Seq(Line) /\ Len(<<x>>) = 1
    BY <1>1
  <1>. QED BY <1>2

\* The lines of the log up to what is committed are kept, and all the section's
\* are written after them where nothing interrupts it.
LEMMA WrittenLogIs ==
    ASSUME Typed, LogReads(section.committed),
           NEW n \in 0..Len(section.records), NEW torn \in {<<>>, <<Torn>>}
    PROVE  /\ WrittenLog(n, torn) \in Seq(Line)
           /\ Begins(SubSeq(log, 1, section.committed), WrittenLog(n, torn))
           /\ n = Len(section.records) /\ torn = <<>> =>
                /\ Len(WrittenLog(n, torn)) = section.committed + n
                /\ \A i \in 1..Len(WrittenLog(n, torn)) : WrittenLog(n, torn)[i] # Torn
                /\ section.committed = 0 => WrittenLog(n, torn) = section.records
  <1>1. /\ log \in Seq(Line) /\ section.records \in Seq(Record) /\ section.records \in Seq(Line)
        /\ section.committed \in Nat /\ section.committed <= Len(log)
        /\ \A i \in 1..section.committed : log[i] # Torn
    BY RecordsAreLines DEF Typed, Section, LogReads
  <1>. PICK a : a = SubSeq(log, 1, section.committed)
    OBVIOUS
  <1>. PICK b : b = SubSeq(section.records, 1, n)
    OBVIOUS
  <1>2. /\ a \in Seq(Line) /\ Len(a) = section.committed
        /\ \A i \in 1..Len(a) : a[i] # Torn
    BY <1>1, Prefix
  <1>3. n \in Nat /\ n <= Len(section.records)
    OBVIOUS
  <1>4. b \in Seq(Line) /\ Len(b) = n /\ \A i \in 1..n : b[i] = section.records[i]
    BY <1>1, <1>3, Prefix
  <1>5. torn \in Seq(Line) /\ Len(torn) \in Nat
    BY TornType
  <1>. PICK c : c = a \o b
    OBVIOUS
  <1>6. /\ c \in Seq(Line) /\ Len(c) = Len(a) + n
        /\ \A i \in 1..Len(a) : c[i] = a[i]
        /\ \A i \in 1..n : c[Len(a) + i] = b[i]
    <2>1. /\ a \o b \in Seq(Line) /\ Len(a \o b) = Len(a) + Len(b)
          /\ \A i \in 1..Len(a) : (a \o b)[i] = a[i]
          /\ \A i \in 1..Len(b) : (a \o b)[Len(a) + i] = b[i]
      BY <1>2, <1>4, Joined
    <2>. QED BY <1>4, <2>1
  <1>. PICK w : w = c \o torn
    OBVIOUS
  <1>7. /\ w \in Seq(Line) /\ Len(w) = Len(c) + Len(torn)
        /\ \A i \in 1..Len(c) : w[i] = c[i]
    BY <1>5, <1>6, Joined
  <1>8. w = WrittenLog(n, torn)
    BY DEF WrittenLog
  <1>9. Begins(a, w)
    <2>1. Len(a) <= Len(w) /\ \A i \in 1..Len(a) : w[i] = a[i]
      BY <1>2, <1>4, <1>5, <1>6, <1>7
    <2>. QED BY <1>2, <1>7, <2>1, BeginsAgrees
  <1>10. ASSUME n = Len(section.records), torn = <<>>
         PROVE  /\ Len(w) = section.committed + n
                /\ \A i \in 1..Len(w) : w[i] # Torn
                /\ section.committed = 0 => w = section.records
    <2>1. w = c
      <3>1. Len(torn) = 0
        BY <1>10, TornType
      <3>2. Len(w) = Len(c) /\ \A i \in 1..Len(w) : c[i] = w[i]
        BY <1>2, <1>3, <1>6, <1>7, <3>1
      <3>. QED BY <1>6, <1>7, <3>2, Same
    <2>2. \A i \in 1..n : section.records[i] # Torn /\ section.records[i] = b[i]
      BY <1>1, <1>4, <1>10, RecordsAreLines
    <2>3. ASSUME NEW i \in 1..Len(w), i > Len(a)
          PROVE  i - Len(a) \in 1..n /\ w[i] = b[i - Len(a)]
      <3>1. i - Len(a) \in 1..n /\ Len(a) + (i - Len(a)) = i
        BY <1>2, <1>3, <1>6, <2>1, <2>3
      <3>. QED BY <1>6, <2>1, <3>1
    <2>4. \A i \in 1..Len(w) : i <= Len(a) => i \in 1..Len(a) /\ w[i] = a[i]
      BY <1>2, <1>6, <2>1
    <2>5. ASSUME section.committed = 0 PROVE w = section.records
      <3>1. Len(w) = Len(section.records) /\ \A i \in 1..Len(w) : section.records[i] = w[i]
        BY <1>2, <1>3, <1>6, <1>10, <2>1, <2>2, <2>3, <2>5
      <3>. QED BY <1>1, <1>7, <3>1, Same
    <2>6. Len(w) = section.committed + n
      BY <1>2, <1>6, <2>1
    <2>7. ASSUME NEW i \in 1..Len(w) PROVE w[i] # Torn
      <3>0. i <= Len(a) \/ i > Len(a)
        BY <1>2, <1>7
      <3>1. CASE i <= Len(a)
        BY <1>2, <2>4, <3>1
      <3>2. CASE i > Len(a)
        <4>. PICK j : j = i - Len(a)
          OBVIOUS
        <4>1. j \in 1..n /\ w[i] = b[j]
          BY <2>3, <3>2
        <4>. QED BY <2>2, <4>1
      <3>. QED BY <3>0, <3>1, <3>2
    <2>. QED BY <2>5, <2>6, <2>7
  <1>. QED BY <1>7, <1>8, <1>9, <1>10

\* Where Enter goes to.
LEMMA Entered ==
    ASSUME FilesInv, NEW history \in BOOLEAN, NEW payload \in Payload,
           Enter(history, payload)
    PROVE  LET record == [seq |-> Len(Shown), payload |-> payload] IN
           /\ record \in Record /\ section' \in Section
           /\ section'.converting <=> dir.head = {} /\ dir.beside.is = "earlier"
           /\ section'.converting =>
                /\ section'.pc = "write" /\ section'.committed = 0
                /\ section'.records = Append(dir.beside.records, record)
           /\ ~section'.converting =>
                /\ section'.records = <<record>> /\ section'.committed = Len(Shown)
                /\ dir.beside.is # "marker" => section'.pc = "mark"
                /\ dir.beside.is = "marker" /\ dir.head = {} => section'.pc = "empty"
                /\ dir.beside.is = "marker" /\ dir.head # {} => section'.pc = "write"
  <1>. PICK record : record = [seq |-> Len(Shown), payload |-> payload]
    OBVIOUS
  <1>. PICK converting : converting = (dir.head = {} /\ dir.beside.records # <<>>)
    OBVIOUS
  <1>0. dir \in dirs /\ dir \in Directory /\ Shape(dir)
    BY DEF FilesInv, Typed
  <1>1. Shown \in Seq(Record) /\ Len(Shown) \in Nat /\ (dir.head = {} => Shown = dir.beside.records)
    BY ShownIs
  <1>2. record \in Record
    BY <1>1 DEF Record
  <1>3. /\ converting \in BOOLEAN /\ (converting <=> dir.head = {} /\ dir.beside.is = "earlier")
        /\ dir.beside = Marker <=> dir.beside.is = "marker"
    BY <1>0, BesideIs DEF Shape
  <1>4. section' = [
           pc |-> CASE converting -> "write"
                    [] ~converting /\ dir.beside # Marker -> "mark"
                    [] ~converting /\ dir.beside = Marker /\ dir.head = {} -> "empty"
                    [] OTHER -> "write",
           records    |-> IF converting THEN Append(Shown, record) ELSE <<record>>,
           committed  |-> IF converting THEN 0 ELSE Len(Shown),
           converting |-> converting]
    BY DEF Enter
  <1>5. CASE converting
    <2>1. section' = [pc |-> "write", records |-> Append(Shown, record), committed |-> 0,
                      converting |-> converting]
      BY <1>4, <1>5
    <2>2. Append(Shown, record) \in Seq(Record)
      BY <1>1, <1>2, AddedBegins
    <2>3. section' \in Section
      BY <1>3, <2>1, <2>2 DEF Section
    <2>. QED BY <1>1, <1>2, <1>3, <1>5, <2>1, <2>3
  <1>6. CASE ~converting
    <2>1. PICK pc : /\ pc \in {"mark", "empty", "write"}
                    /\ dir.beside # Marker => pc = "mark"
                    /\ dir.beside = Marker /\ dir.head = {} => pc = "empty"
                    /\ dir.beside = Marker /\ dir.head # {} => pc = "write"
                    /\ section' = [pc |-> pc, records |-> <<record>>, committed |-> Len(Shown),
                                   converting |-> converting]
      <3>1. CASE dir.beside # Marker
        BY <1>4, <1>6, <3>1
      <3>2. CASE dir.beside = Marker /\ dir.head = {}
        BY <1>4, <1>6, <3>2
      <3>3. CASE dir.beside = Marker /\ dir.head # {}
        BY <1>4, <1>6, <3>3
      <3>. QED BY <3>1, <3>2, <3>3
    <2>2. <<record>> \in Seq(Record)
      BY <1>2
    <2>3. section' \in Section
      BY <1>1, <1>3, <2>1, <2>2 DEF Section
    <2>. QED BY <1>2, <1>3, <1>6, <2>1, <2>3
  <1>. QED BY <1>5, <1>6

\* The parts of a directory that a write leaves.
LEMMA WithBeside ==
    ASSUME NEW d \in Directory, NEW b \in Beside
    PROVE  LET e == [d EXCEPT !.beside = b] IN
           e \in Directory /\ e.beside = b /\ e.head = d.head /\ e.log = d.log
  BY DEF Directory

LEMMA WithHead ==
    ASSUME NEW d \in Directory, NEW n \in SUBSET Nat
    PROVE  LET e == [d EXCEPT !.head = n] IN
           e \in Directory /\ e.beside = d.beside /\ e.head = n /\ e.log = d.log
  BY DEF Directory

LEMMA WithLog ==
    ASSUME NEW d \in Directory
    PROVE  LET e == [d EXCEPT !.log = TRUE] IN
           e \in Directory /\ e.beside = d.beside /\ e.head = d.head /\ e.log
  BY DEF Directory

LEMMA MarkerType ==
    /\ Marker \in Beside /\ Marker.is = "marker" /\ Marker.records = <<>>
    /\ NoSection \in Section /\ NoListing \in Listing
  BY DEF Marker, Beside, NoSection, Section, NoListing, Listing

\* A write moves the section on, or ends it.
LEMMA WriteIs ==
    ASSUME Typed, NEW d \in Directory, NEW pc \in {"empty", "write", "remark", "return"},
           Write(d, pc)
    PROVE  /\ Renamed(d) \/ RenameFailed(d)
           /\ \/ /\ dir' = d /\ dirs' = {d} /\ section'.pc = pc
                 /\ section'.records = section.records
                 /\ section'.committed = section.committed
                 /\ section'.converting = section.converting
              \/ section' = NoSection /\ section'.pc = "idle"
           /\ section' \in Section /\ dir' \in Directory /\ dirs' \in SUBSET Directory
  <1>1. CASE Renamed(d) /\ section' = [section EXCEPT !.pc = pc]
    BY <1>1 DEF Renamed, Typed, Section
  <1>2. CASE RenameFailed(d) /\ section' = NoSection
    BY <1>2, MarkerType DEF RenameFailed, Typed, NoSection
  <1>. QED BY <1>1, <1>2 DEF Write

-----------------------------------------------------------------------------
(* The actions, one by one. *)

Inv == FilesInv /\ HoldsInv /\ SectionInv /\ UnmeddledInv /\ ListingInv

\* The directory and the log that are there.
LEMMA Here ==
    ASSUME FilesInv
    PROVE  /\ dir \in dirs /\ dir \in Directory /\ Shape(dir)
           /\ dir.beside.is \in {"missing", "marker", "earlier"}
           /\ dir.beside.is = "marker" <=> dir.beside = Marker
           /\ dir.beside.is = "missing" <=> dir.beside = Missing
           /\ dir.beside.is = "earlier" <=> dir.beside.records # <<>>
           /\ dir.beside.records \in Seq(Record) /\ dir.beside.records \in Seq(Line)
           /\ dir.head \in SUBSET Nat /\ dir.log \in BOOLEAN
           /\ log \in Seq(Line) /\ Len(log) \in Nat /\ logs \in SUBSET Seq(Line) /\ log \in logs
           /\ acked \in Seq(Record) /\ acked \in Seq(Line)
           /\ section \in Section /\ listing \in Listing
           /\ Typed
  <1>1. dir \in dirs /\ dir \in Directory /\ Shape(dir) /\ Typed /\ log \in logs
    BY DEF FilesInv, Typed
  <1>2. /\ log \in Seq(Line) /\ Len(log) \in Nat /\ logs \in SUBSET Seq(Line)
        /\ acked \in Seq(Record) /\ acked \in Seq(Line)
        /\ section \in Section /\ listing \in Listing
    BY <1>1, RecordsAreLines DEF Typed
  <1>3. dir.beside.is = "earlier" <=> dir.beside.records # <<>>
    BY <1>1 DEF Shape
  <1>. QED BY <1>1, <1>2, <1>3, BesideIs

\* A step that leaves the files and what was acknowledged.
LEMMA QuietFiles ==
    ASSUME Inv, UNCHANGED <<files, acked, meddled>>, Typed',
           section'.pc = "idle" \/ \A d \in dirs : ~Stuck(d)
    PROVE  FilesInv' /\ HoldsInv' /\ UnmeddledInv'
  <1>1. FilesInv'
    BY DEF Inv, FilesInv, files, Shape, Before, Common, LogReads, Stuck
  <1>2. HoldsInv' /\ UnmeddledInv'
    BY DEF Inv, HoldsInv, Holds, LogOf, UnmeddledInv, files, Shown, Stuck
  <1>. QED BY <1>1, <1>2

\* Entering is possible only where there is no orphan log.
LEMMA EnterStep ==
    ASSUME Inv, UNCHANGED meddled, NEW history \in BOOLEAN, NEW payload \in Payload,
           Enter(history, payload)
    PROVE  Inv'
  <1>. PICK record : record = [seq |-> Len(Shown), payload |-> payload]
    OBVIOUS
  <1>0. FilesInv
    BY DEF Inv
  <1>1. /\ record \in Record /\ section' \in Section
        /\ section'.converting <=> dir.head = {} /\ dir.beside.is = "earlier"
        /\ section'.converting =>
             /\ section'.pc = "write" /\ section'.committed = 0
             /\ section'.records = Append(dir.beside.records, record)
        /\ ~section'.converting =>
             /\ section'.records = <<record>> /\ section'.committed = Len(Shown)
             /\ dir.beside.is # "marker" => section'.pc = "mark"
             /\ dir.beside.is = "marker" /\ dir.head = {} => section'.pc = "empty"
             /\ dir.beside.is = "marker" /\ dir.head # {} => section'.pc = "write"
    BY <1>0, Entered
  <1>2. UNCHANGED <<files, listing, acked>> /\ Loads(history)
    BY DEF Enter
  <1>3. ~Stuck(dir)
    BY <1>0, <1>2, Here DEF Stuck, Loads, FilesInv
  <1>4. \A d \in dirs : ~Stuck(d)
    BY <1>0, <1>3 DEF FilesInv
  <1>5. Typed'
    BY <1>0, <1>1, <1>2 DEF FilesInv, Typed, files
  <1>6. FilesInv' /\ HoldsInv' /\ UnmeddledInv'
    BY <1>2, <1>4, <1>5, QuietFiles
  <1>7. ListingInv'
    BY <1>2 DEF Inv, ListingInv, HeadListed, Stuck, files
  <1>8. SectionInv'
    <2>1. dir' = dir /\ log' = log
      BY <1>2 DEF files
    <2>2. Shown = <<>> => Len(Shown) = 0
      OBVIOUS
    <2>3. Len(<<record>>) = 1
      OBVIOUS
    <2>4. /\ dir.head = {} => Shown = dir.beside.records
          /\ \A n \in dir.head : Len(Shown) = n /\ dir.head = {n}
      BY <1>0, ShownIs
    <2>5. \A n \in dir.head : Begins(dir.beside.records, SubSeq(log, 1, n))
      BY <1>2 DEF Loads
    <2>6. Longer(Append(dir.beside.records, record), dir.beside.records)
      BY <1>0, <1>1, Here, AddedBegins
    <2>7. CASE section'.converting
      BY <1>1, <2>1, <2>6, <2>7 DEF SectionInv
    <2>8. CASE ~section'.converting
      <3>1. CASE dir.beside.is # "marker"
        BY <1>0, <1>1, <2>1, <2>2, <2>3, <2>4, <2>5, <2>8, <3>1, Here DEF SectionInv
      <3>2. CASE dir.beside.is = "marker" /\ dir.head = {}
        BY <1>0, <1>1, <2>1, <2>2, <2>3, <2>4, <2>8, <3>2, Here DEF SectionInv
      <3>3. CASE dir.beside.is = "marker" /\ dir.head # {}
        BY <1>0, <1>1, <2>1, <2>3, <2>4, <2>8, <3>3, Here DEF SectionInv
      <3>. QED BY <3>1, <3>2, <3>3
    <2>. QED BY <2>7, <2>8
  <1>. QED BY <1>6, <1>7, <1>8 DEF Inv

\* The marker is written where the log holds what the .shard file does.
LEMMA MarkStep ==
    ASSUME Inv, UNCHANGED meddled, Mark
    PROVE  Inv'
  <1>0. FilesInv /\ HoldsInv /\ UnmeddledInv /\ section.pc = "mark"
    BY DEF Inv, Mark
  <1>. PICK d : d = [dir EXCEPT !.beside = Marker]
    OBVIOUS
  <1>. PICK pc \in {"empty", "write"} : pc = IF dir.head = {} THEN "empty" ELSE "write"
    OBVIOUS
  <1>1. d \in Directory /\ d.beside = Marker /\ d.head = dir.head /\ d.log = dir.log
    BY <1>0, Here, WithBeside, MarkerType
  <1>2. Write(d, pc) /\ UNCHANGED <<log, logs, listing, acked>>
    BY DEF Mark
  <1>3. /\ ~section.converting /\ dir.beside.is # "marker" /\ Len(section.records) = 1
        /\ dir.head = {} => dir.beside.is = "missing" /\ section.committed = 0
        /\ dir.head # {} => dir.head = {section.committed}
        /\ \A n \in dir.head : Begins(dir.beside.records, SubSeq(log, 1, n))
    BY <1>0 DEF Inv, SectionInv
  <1>4. /\ Renamed(d) \/ RenameFailed(d)
        /\ \/ /\ dir' = d /\ dirs' = {d} /\ section'.pc = pc
              /\ section'.records = section.records
              /\ section'.committed = section.committed
              /\ section'.converting = section.converting
           \/ section' = NoSection /\ section'.pc = "idle"
        /\ section' \in Section /\ dir' \in Directory /\ dirs' \in SUBSET Directory
    BY <1>0, <1>1, <1>2, Here, WriteIs
  <1>5. Typed'
    BY <1>0, <1>2, <1>4, Here DEF Typed
  <1>6. \A e \in dirs : ~Stuck(e)
    BY <1>0, NotStuck
  <1>7. Further(d)
    <2>1. Shape(d)
      BY <1>0, <1>1, Here, MarkerType DEF Shape
    <2>2. ~Stuck(d)
      BY <1>0, <1>1, <1>3, Here DEF Stuck, Shape
    <2>3. \A n \in dir.head : n <= n
      BY <1>0, Here
    <2>. QED BY <1>0, <1>1, <2>1, <2>2, <2>3, MarkerType DEF Further, FilesInv, Common
  <1>8. FilesInv'
    BY <1>0, <1>2, <1>4, <1>5, <1>6, <1>7, MovesFiles
  <1>9. Holds(d)
    <2>0. Begins(acked, dir.beside.records)
      BY <1>0, <1>3, Here DEF HoldsInv, Holds
    <2>1. ASSUME d.head = {}, NEW l \in LogOf(d)
          PROVE  Begins(acked, l)
      <3>1. dir.beside.records = <<>>
        BY <1>0, <1>1, <1>3, <2>1, Here
      <3>2. acked = <<>>
        BY <1>0, <2>0, <3>1, Here, BeginsEmpty
      <3>3. l \in Seq(Line)
        BY <1>0, Here, BeginsEmpty DEF LogOf
      <3>. QED BY <3>2, <3>3, BeginsEmpty
    <2>2. ASSUME NEW n \in d.head, NEW l \in LogOf(d)
          PROVE  Begins(acked, SubSeq(l, 1, n))
      <3>1. l \in LogOf(dir) /\ n \in dir.head
        BY <1>1 DEF LogOf
      <3>2. SubSeq(l, 1, n) = SubSeq(log, 1, n) /\ n \in Nat /\ n <= Len(log)
        BY <1>0, <3>1, Here, HeadReads
      <3>3. SubSeq(log, 1, n) \in Seq(Line)
        BY <1>0, <3>2, Here, Prefix
      <3>4. Begins(dir.beside.records, SubSeq(log, 1, n))
        BY <1>3, <3>1
      <3>5. Begins(acked, SubSeq(log, 1, n))
        BY <1>0, <2>0, <3>3, <3>4, Here, BeginsTrans
      <3>. QED BY <3>2, <3>5
    <2>. QED BY <1>1, <2>1, <2>2, MarkerType DEF Holds
  <1>10. HoldsInv'
    BY <1>0, <1>2, <1>4, <1>9, MovesHolds
  <1>11. UnmeddledInv'
    <2>1. \A s \in Seq(Line) : Begins(d.beside.records, s)
      BY <1>1, MarkerType, BeginsEmpty
    <2>2. \A n \in d.head : SubSeq(log, 1, n) \in Seq(Line)
      BY <1>0, <1>1, Here, ShownIs
    <2>3. Shown \in Seq(Line)
      BY <1>0, ShownIs
    <2>4. dir' = d => Begins(Shown, Shown')
      <3>1. CASE dir.head = {}
        BY <1>0, <1>3, <2>3, <3>1, Here, ShownIs, BeginsEmpty, <1>8, ShownTypedNext
      <3>2. CASE dir.head # {}
        BY <1>1, <1>2, <2>3, <3>2, BeginsSelf DEF Shown
      <3>. QED BY <3>1, <3>2
    <2>5. ~Stuck(d)
      BY <1>7 DEF Further
    <2>. QED BY <1>0, <1>2, <1>4, <1>6, <1>8, <2>1, <2>2, <2>3, <2>4, <2>5, MovesUnmeddled
  <1>12. ListingInv'
    <2>1. ~(dir.head = {} /\ dir.beside.is = "earlier")
      BY <1>3
    <2>2. dir' = dir \/ dir' = d
      BY <1>4 DEF Renamed, RenameFailed
    <2>3. ~Stuck(dir)
      BY <1>0, <1>6, Here
    <2>. QED BY <1>1, <1>2, <2>1, <2>2, <2>3, MarkerType, MovesListing DEF Inv, HeadListed
  <1>13. SectionInv'
    BY <1>1, <1>3, <1>4, MarkerType DEF SectionInv
  <1>. QED BY <1>8, <1>10, <1>11, <1>12, <1>13 DEF Inv

\* A new head commits nothing, and nothing was acknowledged before it.
LEMMA WriteEmptyHeadStep ==
    ASSUME Inv, UNCHANGED meddled, WriteEmptyHead
    PROVE  Inv'
  <1>0. FilesInv /\ HoldsInv /\ UnmeddledInv /\ section.pc = "empty"
    BY DEF Inv, WriteEmptyHead
  <1>. PICK d : d = [dir EXCEPT !.head = {0}]
    OBVIOUS
  <1>1. d \in Directory /\ d.beside = dir.beside /\ d.head = {0} /\ d.log = dir.log
    <2>1. {0} \in SUBSET Nat
      OBVIOUS
    <2>. QED BY <1>0, <2>1, Here, WithHead
  <1>2. Write(d, "write") /\ UNCHANGED <<log, logs, listing, acked>>
    BY DEF WriteEmptyHead
  <1>3. /\ ~section.converting /\ dir.beside.is = "marker" /\ Len(section.records) = 1
        /\ dir.head = {} /\ section.committed = 0
    BY <1>0 DEF Inv, SectionInv
  <1>4. /\ Renamed(d) \/ RenameFailed(d)
        /\ \/ /\ dir' = d /\ dirs' = {d} /\ section'.pc = "write"
              /\ section'.records = section.records
              /\ section'.committed = section.committed
              /\ section'.converting = section.converting
           \/ section' = NoSection /\ section'.pc = "idle"
        /\ section' \in Section /\ dir' \in Directory /\ dirs' \in SUBSET Directory
    BY <1>0, <1>1, <1>2, Here, WriteIs
  <1>5. Typed'
    BY <1>0, <1>2, <1>4, Here DEF Typed
  <1>6. \A e \in dirs : ~Stuck(e)
    BY <1>0, NotStuck
  <1>7. Further(d)
    <2>1. Shape(d)
      BY <1>0, <1>1, <1>3, Here DEF Shape
    <2>2. LogReads(0)
      BY <1>0, Here DEF LogReads
    <2>3. \A l \in logs : Begins(SubSeq(log, 1, 0), l)
      BY <1>0, Here, NoneOfIt, BeginsEmpty
    <2>. QED BY <1>1, <1>3, <2>1, <2>2, <2>3 DEF Further, Stuck
  <1>8. FilesInv'
    BY <1>0, <1>2, <1>4, <1>5, <1>6, <1>7, MovesFiles
  <1>9. acked = <<>>
    <2>1. <<>> \in LogOf(dir)
      BY <1>0, <1>3, <1>6, Here DEF Stuck, LogOf
    <2>2. Begins(acked, <<>>)
      BY <1>0, <1>3, <2>1, Here DEF HoldsInv, Holds
    <2>. QED BY <1>0, <2>2, Here, BeginsEmpty
  <1>10. Holds(d)
    <2>1. ASSUME NEW l \in LogOf(d)
          PROVE  Begins(acked, SubSeq(l, 1, 0))
      <3>1. l \in Seq(Line)
        BY <1>0, Here, BeginsEmpty DEF LogOf
      <3>. QED BY <1>9, <3>1, NoneOfIt, BeginsEmpty
    <2>. QED BY <1>1, <1>3, <2>1 DEF Holds
  <1>11. HoldsInv'
    BY <1>0, <1>2, <1>4, <1>10, MovesHolds
  <1>12. UnmeddledInv'
    <2>0. dir.beside.records = <<>>
      BY <1>0, <1>3, Here
    <2>1. \A s \in Seq(Line) : Begins(d.beside.records, s)
      BY <1>1, <2>0, BeginsEmpty
    <2>2. SubSeq(log, 1, 0) \in Seq(Line) /\ Shown \in Seq(Line)
      BY <1>0, Here, NoneOfIt, BeginsEmpty, ShownIs
    <2>3. Begins(Shown, Shown')
      BY <1>0, <1>3, <1>8, <2>0, ShownIs, ShownTypedNext, BeginsEmpty
    <2>4. ~Stuck(d)
      BY <1>7 DEF Further
    <2>. QED BY <1>0, <1>1, <1>2, <1>4, <1>6, <1>8, <2>1, <2>2, <2>3, <2>4, MovesUnmeddled
  <1>13. ListingInv'
    <2>1. dir' = dir \/ dir' = d
      BY <1>4 DEF Renamed, RenameFailed
    <2>2. ~HeadListed /\ ~Stuck(dir)
      BY <1>0, <1>3, <1>6, Here DEF HeadListed
    <2>3. ~(dir.head = {} /\ dir.beside.is = "earlier")
      BY <1>3
    <2>. QED BY <1>1, <1>2, <2>1, <2>2, <2>3, MovesListing DEF Inv
  <1>14. SectionInv'
    BY <1>1, <1>3, <1>4 DEF SectionInv
  <1>. QED BY <1>8, <1>11, <1>12, <1>13, <1>14 DEF Inv

\* The head commits what the log, synced, holds.
LEMMA WriteHeadStep ==
    ASSUME Inv, UNCHANGED meddled, WriteHead
    PROVE  Inv'
  <1>0. FilesInv /\ HoldsInv /\ UnmeddledInv /\ section.pc = "head"
    BY DEF Inv, WriteHead
  <1>. PICK d : d = [dir EXCEPT !.head = {Len(log)}]
    OBVIOUS
  <1>. PICK pc \in {"remark", "return"} : pc = IF section.converting THEN "remark" ELSE "return"
    OBVIOUS
  <1>1. d \in Directory /\ d.beside = dir.beside /\ d.head = {Len(log)} /\ d.log = dir.log
    <2>1. {Len(log)} \in SUBSET Nat
      BY <1>0, Here
    <2>. QED BY <1>0, <2>1, Here, WithHead
  <1>2. Write(d, pc) /\ UNCHANGED <<log, logs, listing, acked>>
    BY DEF WriteHead
  <1>3. Written /\ logs = {log}
    BY <1>0 DEF Inv, SectionInv
  <1>4. /\ Renamed(d) \/ RenameFailed(d)
        /\ \/ /\ dir' = d /\ dirs' = {d} /\ section'.pc = pc
              /\ section'.records = section.records
              /\ section'.committed = section.committed
              /\ section'.converting = section.converting
           \/ section' = NoSection /\ section'.pc = "idle"
        /\ section' \in Section /\ dir' \in Directory /\ dirs' \in SUBSET Directory
    BY <1>0, <1>1, <1>2, Here, WriteIs
  <1>5. Typed'
    BY <1>0, <1>2, <1>4, Here DEF Typed
  <1>6. \A e \in dirs : ~Stuck(e)
    BY <1>0, NotStuck
  <1>a. /\ section.converting \in BOOLEAN
        /\ section.converting =>
             /\ dir.head = {} /\ dir.beside.is = "earlier" /\ Len(log) # 0
             /\ Begins(dir.beside.records, log)
        /\ ~section.converting =>
             /\ dir.head = {section.committed} /\ dir.beside.is = "marker"
             /\ section.committed <= Len(log) /\ section.committed \in Nat
    <2>1. section \in Section /\ dir.beside.records \in Seq(Line)
      BY <1>0, Here
    <2>2. section.committed \in Nat /\ section.converting \in BOOLEAN
          /\ Len(dir.beside.records) \in Nat
      BY <2>1 DEF Section
    <2>. QED BY <1>3, <2>2 DEF Written, Longer
  <1>b. SubSeq(log, 1, Len(log)) = log /\ Begins(log, log)
    BY <1>0, Here, AllOfIt, BeginsSelf
  <1>7. Further(d)
    <2>1. Shape(d)
      BY <1>0, <1>1, <1>3, <1>a, Here DEF Shape, Written
    <2>2. LogReads(Len(log))
      BY <1>0, <1>3, Here DEF LogReads, Written, Whole
    <2>3. \A l \in logs : Begins(SubSeq(log, 1, Len(log)), l)
      BY <1>3, <1>b
    <2>4. \A n \in dir.head : n <= Len(log)
      BY <1>a
    <2>. QED BY <1>1, <1>3, <2>1, <2>2, <2>3, <2>4 DEF Further, Stuck
  <1>8. FilesInv'
    BY <1>0, <1>2, <1>4, <1>5, <1>6, <1>7, MovesFiles
  <1>9. Holds(d)
    <2>1. CASE section.converting
      BY <1>0, <1>1, <1>a, <2>1, Here DEF HoldsInv, Holds
    <2>2. CASE ~section.converting
      <3>1. LogOf(d) = {log} /\ log \in LogOf(dir)
        BY <1>1, <1>3 DEF LogOf, Written
      <3>2. Begins(acked, SubSeq(log, 1, section.committed))
        BY <1>0, <1>a, <2>2, <3>1, Here DEF HoldsInv, Holds
      <3>3. SubSeq(log, 1, section.committed) \in Seq(Line)
            /\ Begins(SubSeq(log, 1, section.committed), log)
        BY <1>0, <1>a, <2>2, Here, Prefix, PrefixBegins
      <3>4. Begins(acked, log)
        BY <1>0, <3>2, <3>3, Here, BeginsTrans
      <3>5. d.beside.is = "marker" /\ d.head = {Len(log)}
        BY <1>1, <1>a, <2>2
      <3>. QED BY <1>b, <3>1, <3>4, <3>5 DEF Holds
    <2>. QED BY <1>a, <2>1, <2>2
  <1>10. HoldsInv'
    BY <1>0, <1>2, <1>4, <1>9, MovesHolds
  <1>11. UnmeddledInv'
    <2>1. Begins(d.beside.records, log)
      BY <1>0, <1>1, <1>a, Here, BeginsEmpty
    <2>2. dir' = d => Shown' = log
      BY <1>1, <1>2, <1>b, ShownAtNext
    <2>3. Begins(Shown, log)
      <3>1. CASE dir.head = {}
        BY <1>0, <1>a, <3>1, ShownIs
      <3>2. CASE dir.head # {}
        BY <1>0, <1>a, <3>2, Here, ShownIs, PrefixBegins
      <3>. QED BY <3>1, <3>2
    <2>4. ~Stuck(d)
      BY <1>7 DEF Further
    <2>. QED BY <1>0, <1>1, <1>2, <1>4, <1>6, <1>8, <1>b, <2>1, <2>2, <2>3, <2>4, MovesUnmeddled
  <1>12. ListingInv'
    <2>1. dir' = dir \/ dir' = d
      BY <1>4 DEF Renamed, RenameFailed
    <2>2. ~Stuck(dir)
      BY <1>0, <1>6, Here
    <2>3. HeadListed => Len(log) # 0
      BY <1>0, <1>a, Here DEF HeadListed
    <2>. QED BY <1>1, <1>2, <1>a, <2>1, <2>2, <2>3, MovesListing DEF Inv, HeadListed
  <1>13. SectionInv'
    BY <1>1, <1>2, <1>4, <1>a DEF SectionInv
  <1>. QED BY <1>8, <1>10, <1>11, <1>12, <1>13 DEF Inv

\* A conversion's marker is written where the log holds the whole shard.
LEMMA MarkConvertedStep ==
    ASSUME Inv, UNCHANGED meddled, MarkConverted
    PROVE  Inv'
  <1>0. FilesInv /\ HoldsInv /\ UnmeddledInv /\ section.pc = "remark"
    BY DEF Inv, MarkConverted
  <1>. PICK d : d = [dir EXCEPT !.beside = Marker]
    OBVIOUS
  <1>1. d \in Directory /\ d.beside = Marker /\ d.head = dir.head /\ d.log = dir.log
    BY <1>0, Here, WithBeside, MarkerType
  <1>2. Write(d, "return") /\ UNCHANGED <<log, logs, listing, acked>>
    BY DEF MarkConverted
  <1>3. /\ dir.head = {Len(log)} /\ dir.beside.is = "earlier"
        /\ Begins(dir.beside.records, log)
    BY <1>0 DEF Inv, SectionInv
  <1>4. /\ Renamed(d) \/ RenameFailed(d)
        /\ \/ dir' = d /\ dirs' = {d} /\ section'.pc = "return"
           \/ section' = NoSection /\ section'.pc = "idle"
        /\ section' \in Section /\ dir' \in Directory /\ dirs' \in SUBSET Directory
    BY <1>0, <1>1, <1>2, Here, WriteIs
  <1>5. Typed'
    BY <1>0, <1>2, <1>4, Here DEF Typed
  <1>6. \A e \in dirs : ~Stuck(e)
    BY <1>0, NotStuck
  <1>b. SubSeq(log, 1, Len(log)) = log
    BY <1>0, Here, AllOfIt
  <1>7. Further(d)
    <2>1. Shape(d) /\ ~Stuck(d)
      BY <1>0, <1>1, <1>3, Here, MarkerType DEF Shape, Stuck
    <2>2. \A n \in dir.head : n <= n
      BY <1>0, Here
    <2>. QED BY <1>0, <1>1, <1>3, <2>1, <2>2, MarkerType DEF Further, FilesInv, Common
  <1>8. FilesInv'
    BY <1>0, <1>2, <1>4, <1>5, <1>6, <1>7, MovesFiles
  <1>9. Holds(d)
    <2>0. Begins(acked, dir.beside.records)
      BY <1>0, <1>3, Here DEF HoldsInv, Holds
    <2>1. Begins(acked, log)
      BY <1>0, <1>3, <2>0, Here, BeginsTrans
    <2>2. ASSUME NEW l \in LogOf(d)
          PROVE  Begins(acked, SubSeq(l, 1, Len(log)))
      <3>1. l \in LogOf(dir) /\ Len(log) \in dir.head
        BY <1>1, <1>3 DEF LogOf
      <3>2. SubSeq(l, 1, Len(log)) = log
        BY <1>0, <1>b, <3>1, Here, HeadReads
      <3>. QED BY <2>1, <3>2
    <2>. QED BY <1>1, <1>3, <2>2, MarkerType DEF Holds
  <1>10. HoldsInv'
    BY <1>0, <1>2, <1>4, <1>9, MovesHolds
  <1>11. UnmeddledInv'
    <2>1. Begins(d.beside.records, log)
      BY <1>0, <1>1, Here, MarkerType, BeginsEmpty
    <2>2. dir' = d => Shown' = Shown
      BY <1>0, <1>1, <1>2, <1>3, SameShown
    <2>3. Begins(Shown, Shown)
      BY <1>0, ShownIs, BeginsSelf
    <2>4. ~Stuck(d)
      BY <1>7 DEF Further
    <2>. QED BY <1>0, <1>1, <1>2, <1>3, <1>4, <1>6, <1>8, <1>b, <2>1, <2>2, <2>3, <2>4,
                MovesUnmeddled
  <1>12. ListingInv'
    <2>1. dir' = dir \/ dir' = d
      BY <1>4 DEF Renamed, RenameFailed
    <2>2. ~Stuck(dir)
      BY <1>0, <1>6, Here
    <2>. QED BY <1>1, <1>2, <1>3, <2>1, <2>2, MarkerType, MovesListing DEF Inv, HeadListed
  <1>13. SectionInv'
    BY <1>1, <1>3, <1>4, MarkerType DEF SectionInv
  <1>. QED BY <1>8, <1>10, <1>11, <1>12, <1>13 DEF Inv

\* The log is written after what the head commits, so every head still commits
\* what it did, whatever part of the write a power loss leaves.
LEMMA WriteLogStep ==
    ASSUME Inv, UNCHANGED meddled, WriteLog
    PROVE  Inv'
  <1>0. FilesInv /\ HoldsInv /\ UnmeddledInv /\ ListingInv /\ section.pc = "write"
    BY DEF Inv, WriteLog
  <1>. PICK c : c = section.committed
    OBVIOUS
  <1>. PICK base : base = SubSeq(log, 1, c)
    OBVIOUS
  <1>. PICK d : d = [dir EXCEPT !.log = TRUE]
    OBVIOUS
  <1>1. d \in Directory /\ d.beside = dir.beside /\ d.head = dir.head /\ d.log
    BY <1>0, Here, WithLog
  <1>2. /\ dir' = d /\ dirs' = dirs \cup {d} /\ LogReads(c)
        /\ UNCHANGED <<listing, acked>>
        /\ \E n \in 0..Len(section.records), torn \in {<<>>, <<Torn>>} :
             /\ log' = WrittenLog(n, torn)
             /\ section' = IF n = Len(section.records) /\ torn = <<>>
                           THEN [section EXCEPT !.pc = "sync"] ELSE NoSection
        /\ logs' = logs \cup {WrittenLog(n, torn) :
                       n \in 0..Len(section.records), torn \in {<<>>, <<Torn>>}}
    BY DEF WriteLog
  <1>3. /\ section.converting =>
             /\ dir.head = {} /\ dir.beside.is = "earlier" /\ c = 0
             /\ Longer(section.records, dir.beside.records)
        /\ ~section.converting =>
             /\ dir.head = {c} /\ dir.beside.is = "marker"
             /\ Len(section.records) = 1
    BY <1>0 DEF Inv, SectionInv
  <1>4. /\ c \in Nat /\ c <= Len(log) /\ base \in Seq(Line) /\ Len(base) = c
        /\ section.converting \in BOOLEAN
        /\ \A i \in 1..c : base[i] = log[i] /\ log[i] # Torn
    <2>1. c \in Nat /\ c <= Len(log) /\ \A i \in 1..c : log[i] # Torn
      BY <1>0, <1>2, Here DEF Section, LogReads
    <2>. QED BY <1>0, <2>1, Here, Prefix DEF Section
  <1>5. \A e \in dirs : ~Stuck(e)
    BY <1>0, NotStuck
  <1>6. ASSUME NEW n \in 0..Len(section.records), NEW torn \in {<<>>, <<Torn>>}
        PROVE  WrittenLog(n, torn) \in Seq(Line) /\ Begins(base, WrittenLog(n, torn))
    BY <1>0, <1>2, Here, WrittenLogIs
  <1>7. ASSUME NEW l \in logs'
        PROVE  /\ l \in Seq(Line) /\ (~section.converting => Begins(base, l))
               /\ l \in logs \/ Begins(base, l)
    <2>1. CASE l \in logs
      BY <1>0, <1>3, <2>1, Here DEF FilesInv, Common
    <2>2. CASE l \notin logs
      BY <1>2, <1>6, <2>2
    <2>. QED BY <2>1, <2>2
  <1>8. /\ log' \in logs' /\ log' \in Seq(Line) /\ Begins(base, log')
        /\ logs \subseteq logs'
    <2>1. log' \in logs' /\ logs \subseteq logs'
      BY <1>2
    <2>. QED BY <1>2, <1>6, <2>1
  <1>9. /\ section' \in Section
        /\ section'.pc # "sync" => section'.pc = "idle"
        /\ section'.pc = "sync" =>
             /\ section'.converting = section.converting /\ section'.committed = c
             /\ Len(log') = c + Len(section.records)
             /\ \A i \in 1..Len(log') : log'[i] # Torn
             /\ c = 0 => log' = section.records
    <2>1. PICK n \in 0..Len(section.records), torn \in {<<>>, <<Torn>>} :
             /\ log' = WrittenLog(n, torn)
             /\ section' = IF n = Len(section.records) /\ torn = <<>>
                           THEN [section EXCEPT !.pc = "sync"] ELSE NoSection
      BY <1>2
    <2>2. CASE n = Len(section.records) /\ torn = <<>>
      <3>1. section' = [section EXCEPT !.pc = "sync"] /\ section \in Section
        BY <1>0, <2>1, <2>2, Here
      <3>2. /\ section' \in Section /\ section'.pc = "sync"
            /\ section'.converting = section.converting /\ section'.committed = c
        BY <3>1 DEF Section
      <3>3. /\ Len(WrittenLog(n, torn)) = c + n
            /\ \A i \in 1..Len(WrittenLog(n, torn)) : WrittenLog(n, torn)[i] # Torn
            /\ c = 0 => WrittenLog(n, torn) = section.records
        BY <1>0, <1>2, <2>2, Here, WrittenLogIs
      <3>. QED BY <2>1, <2>2, <3>2, <3>3
    <2>3. CASE ~(n = Len(section.records) /\ torn = <<>>)
      BY <2>1, <2>3, MarkerType DEF NoSection
    <2>. QED BY <2>2, <2>3
  <1>10. Typed'
    <2>1. logs' \subseteq Seq(Line)
      BY <1>7
    <2>. QED BY <1>0, <1>1, <1>2, <1>8, <1>9, <2>1, Here DEF Typed
  <1>11. ASSUME NEW l \in logs', Begins(base, l), NEW n \in Nat, n <= c
         PROVE  /\ n <= Len(l) /\ SubSeq(l, 1, n) = SubSeq(log, 1, n)
    BY <1>0, <1>4, <1>7, <1>11, Here, PrefixesAgree
  <1>12. SubSeq(log', 1, c) = base
    BY <1>4, <1>8, <1>11
  <1>13. FilesInv'
    <2>1. Shape(d)
      BY <1>0, <1>1, <1>3, <1>4, Here DEF Shape
    <2>2. ASSUME NEW e \in dirs' PROVE Shape(e) /\ Before(e)'
      <3>1. CASE e \in dirs
        BY <1>1, <1>2, <3>1 DEF FilesInv, Before, Inv
      <3>2. CASE e = d
        <4>1. \A m \in d.head : m <= m
          BY <1>0, <1>1, Here
        <4>. QED BY <1>2, <2>1, <3>2, <4>1 DEF Before
      <3>. QED BY <1>2, <3>1, <3>2
    <2>3. Common'
      <3>1. ASSUME NEW n \in dir'.head
            PROVE  /\ n = c /\ ~section.converting
        BY <1>1, <1>2, <1>3, <1>4, <3>1
      <3>2. c <= Len(log') /\ \A i \in 1..c : log'[i] # Torn
        <4>1. Len(base) <= Len(log') /\ \A i \in 1..Len(base) : log'[i] = base[i]
          BY <1>4, <1>8, BeginsAgrees
        <4>. QED BY <1>4, <4>1
      <3>. QED BY <1>7, <1>12, <3>1, <3>2 DEF Common, LogReads
    <2>4. ~Stuck(d)
      BY <1>1, <1>3, <1>4 DEF Stuck
    <2>5. \A e \in dirs' : ~Stuck(e)
      BY <1>2, <1>5, <2>4
    <2>. QED BY <1>1, <1>2, <1>8, <1>10, <2>2, <2>3, <2>5 DEF FilesInv, Shape, Stuck
  <1>14. HoldsInv'
    <2>. SUFFICES ASSUME NEW e \in dirs' PROVE Holds(e)'
      BY DEF HoldsInv
    <2>1. PICK f \in dirs : /\ f.beside = e.beside /\ f.head = e.head
                            /\ e.log => logs \subseteq LogOf(f)
                            /\ ~e.log => f = e
      <3>1. CASE e \in dirs
        BY <3>1 DEF LogOf
      <3>2. CASE e = d
        <4>1. logs \subseteq LogOf(dir)
          BY <1>0 DEF FilesInv, LogOf
        <4>. QED BY <1>0, <1>1, <3>2, <4>1, Here
      <3>. QED BY <1>2, <3>1, <3>2
    <2>2. Holds(f) /\ Before(f) /\ f.head \subseteq Nat
      BY <1>0 DEF HoldsInv, FilesInv, Typed, Directory
    <2>3. CASE e.beside.is # "marker"
      BY <1>2, <2>1, <2>2, <2>3 DEF Holds
    <2>4. CASE e.beside.is = "marker"
      <3>1. ~section.converting /\ dir.head = {c}
        BY <1>3, <1>4, <2>1, <2>2, <2>4 DEF Before
      <3>2. CASE ~e.log
        <4>1. LogOf(e)' = LogOf(f)
          BY <2>1, <3>2 DEF LogOf
        <4>. QED BY <1>2, <2>1, <2>2, <2>4, <3>2, <4>1 DEF Holds
      <3>3. CASE e.log
        <4>1. LogOf(e)' = logs' /\ log \in LogOf(f)
          BY <1>0, <2>1, <3>3, Here DEF LogOf
        <4>2. ASSUME NEW l \in logs', e.head = {} PROVE Begins(acked, l)
          <5>1. ~f.log
            BY <1>5, <2>1, <2>4, <4>2 DEF Stuck
          <5>2. Begins(acked, <<>>)
            BY <2>1, <2>2, <2>4, <4>2, <5>1 DEF Holds, LogOf
          <5>3. acked = <<>>
            BY <1>0, <5>2, Here, BeginsEmpty
          <5>. QED BY <1>7, <5>3, BeginsEmpty
        <4>3. ASSUME NEW l \in logs', NEW n \in e.head PROVE Begins(acked, SubSeq(l, 1, n))
          <5>1. n \in Nat /\ n <= c
            BY <2>1, <2>2, <3>1 DEF Before
          <5>2. Begins(acked, SubSeq(log, 1, n))
            BY <2>1, <2>2, <2>4, <4>1 DEF Holds
          <5>3. SubSeq(l, 1, n) = SubSeq(log, 1, n)
            BY <1>7, <1>11, <3>1, <5>1
          <5>. QED BY <5>2, <5>3
        <4>. QED BY <1>2, <2>4, <4>1, <4>2, <4>3 DEF Holds
      <3>. QED BY <3>2, <3>3
    <2>. QED BY <2>3, <2>4
  <1>15. Shown' = Shown
    <2>1. \A n \in dir.head : n = c
      BY <1>3, <1>4
    <2>. QED BY <1>0, <1>1, <1>2, <1>12, <2>1, SameShown
  <1>16. UnmeddledInv'
    <2>. SUFFICES ASSUME ~meddled, NEW e \in dirs'
                  PROVE  /\ ~Stuck(e)
                         /\ \A n \in e.head : Begins(e.beside.records, SubSeq(log', 1, n))
                         /\ e.head = {} => Begins(e.beside.records, Shown')
      BY DEF UnmeddledInv, Stuck
    <2>1. PICK f \in dirs : f.beside = e.beside /\ f.head = e.head
      BY <1>0, <1>1, <1>2, Here
    <2>2. /\ \A n \in f.head : Begins(f.beside.records, SubSeq(log, 1, n))
          /\ f.head = {} => Begins(f.beside.records, Shown)
      BY <1>0 DEF UnmeddledInv
    <2>3. ~Stuck(e)
      BY <1>1, <1>2, <1>3, <1>4, <1>5 DEF Stuck
    <2>4. ASSUME NEW n \in e.head PROVE SubSeq(log', 1, n) = SubSeq(log, 1, n)
      <3>1. PICK m \in dir.head : n <= m
        BY <1>0, <2>1 DEF FilesInv, Before
      <3>2. n \in Nat /\ m = c
        BY <1>0, <1>3, <1>4, <2>1, <3>1 DEF FilesInv, Typed, Directory
      <3>. QED BY <1>8, <1>11, <3>1, <3>2
    <2>. QED BY <1>15, <2>1, <2>2, <2>3, <2>4
  <1>17. ListingInv'
    <2>1. ~Stuck(dir)
      BY <1>0, <1>5, Here
    <2>. QED BY <1>0, <1>1, <1>2, <2>1, MovesListing DEF HeadListed
  <1>18. SectionInv'
    <2>1. ASSUME section'.pc = "sync" PROVE Written'
      <3>1. dir'.log /\ Whole'
        BY <1>1, <1>2, <1>9, <2>1 DEF Whole
      <3>2. CASE section.converting
        BY <1>1, <1>2, <1>3, <1>9, <2>1, <3>1, <3>2 DEF Written
      <3>3. CASE ~section.converting
        BY <1>1, <1>2, <1>3, <1>9, <2>1, <3>1, <3>3 DEF Written
      <3>. QED BY <3>2, <3>3
    <2>. QED BY <1>9, <2>1 DEF SectionInv
  <1>. QED BY <1>13, <1>14, <1>16, <1>17, <1>18 DEF Inv

\* The sync leaves one content the log may have.
LEMMA SyncLogStep ==
    ASSUME Inv, UNCHANGED meddled, SyncLog
    PROVE  Inv'
  <1>0. /\ FilesInv /\ HoldsInv /\ UnmeddledInv /\ ListingInv /\ section.pc = "sync"
        /\ Written /\ section \in Section
    BY DEF Inv, SyncLog, SectionInv, FilesInv, Typed
  <1>1. UNCHANGED <<dir, log, dirs, listing, acked, meddled>>
    BY DEF SyncLog
  <1>2. /\ logs' \subseteq logs /\ log \in logs' /\ section' \in Section
        /\ \/ logs' = {log} /\ section'.pc = "head" /\ section'.converting = section.converting
              /\ section'.committed = section.committed
           \/ section'.pc = "idle"
    <2>1. CASE logs' = {log} /\ section' = [section EXCEPT !.pc = "head"]
      BY <1>0, <2>1, Here DEF Section
    <2>2. CASE UNCHANGED logs /\ section' = NoSection
      BY <1>0, <2>2, Here, MarkerType DEF NoSection
    <2>. QED BY <2>1, <2>2 DEF SyncLog
  <1>3. Typed'
    BY <1>0, <1>1, <1>2, Here DEF Typed
  <1>4. \A d \in dirs : ~Stuck(d)
    BY <1>0, NotStuck
  <1>5. FilesInv'
    BY <1>0, <1>1, <1>2, <1>3, <1>4 DEF FilesInv, Shape, Before, Common, LogReads, Stuck
  <1>6. HoldsInv'
    <2>1. \A d \in dirs : LogOf(d)' \subseteq LogOf(d)
      BY <1>2 DEF LogOf
    <2>. QED BY <1>0, <1>1, <2>1 DEF HoldsInv, Holds
  <1>7. UnmeddledInv' /\ ListingInv'
    BY <1>0, <1>1 DEF UnmeddledInv, ListingInv, Shown, HeadListed, Stuck
  <1>8. SectionInv'
    BY <1>0, <1>1, <1>2 DEF SectionInv, Written, Whole
  <1>. QED BY <1>5, <1>6, <1>7, <1>8 DEF Inv

\* What is acknowledged is what is shown, and nothing else may be left.
LEMMA ReturnStep ==
    ASSUME Inv, UNCHANGED meddled, Return
    PROVE  Inv' /\ Begins(acked, acked')
  <1>0. /\ FilesInv /\ HoldsInv /\ UnmeddledInv /\ ListingInv /\ section.pc = "return"
        /\ dirs = {dir} /\ dir.beside.is = "marker" /\ dir.head # {}
    BY DEF Inv, Return, SectionInv
  <1>1. /\ UNCHANGED <<dir, log, dirs, logs, listing, meddled>>
        /\ acked' = Shown /\ section' = NoSection
    BY DEF Return, files
  <1>2. PICK n : n \in dir.head /\ n \in Nat
    BY <1>0, Here
  <1>3. Shown = SubSeq(log, 1, n) /\ dir.head = {n} /\ Shown \in Seq(Record) /\ Shown \in Seq(Line)
    BY <1>0, <1>2, ShownIs
  <1>4. Typed'
    BY <1>0, <1>1, <1>3, Here, MarkerType DEF Typed
  <1>5. section'.pc = "idle"
    BY <1>1 DEF NoSection
  <1>6. FilesInv'
    BY <1>0, <1>1, <1>4, <1>5 DEF FilesInv, Shape, Before, Common, LogReads, Stuck
  <1>7. HoldsInv'
    <2>1. ASSUME NEW l \in LogOf(dir) PROVE Begins(Shown, SubSeq(l, 1, n))
      <3>1. SubSeq(l, 1, n) = SubSeq(log, 1, n)
        BY <1>0, <1>2, <2>1, Here, HeadReads
      <3>. QED BY <1>3, <3>1, BeginsSelf
    <2>2. LogOf(dir)' = LogOf(dir)
      BY <1>1 DEF LogOf
    <2>. QED BY <1>0, <1>1, <1>3, <2>1, <2>2 DEF HoldsInv, Holds
  <1>8. UnmeddledInv' /\ ListingInv' /\ SectionInv'
    BY <1>0, <1>1, <1>5 DEF UnmeddledInv, ListingInv, SectionInv, Shown, HeadListed, Stuck
  <1>9. Begins(acked, acked')
    BY <1>0, <1>1, <1>2, <1>3, Here, LogIsThere DEF HoldsInv, Holds
  <1>. QED BY <1>6, <1>7, <1>8, <1>9 DEF Inv

\* A section that is killed leaves the files as they are.
LEMMA KillStep ==
    ASSUME Inv, UNCHANGED meddled, Kill
    PROVE  Inv'
  <1>0. FilesInv /\ ListingInv
    BY DEF Inv
  <1>1. /\ UNCHANGED <<files, listing, acked, meddled>> /\ section' \in Section
        /\ section'.pc = "idle"
    BY MarkerType DEF Kill, NoSection
  <1>2. Typed'
    BY <1>0, <1>1, Here DEF Typed, files
  <1>3. FilesInv' /\ HoldsInv' /\ UnmeddledInv'
    BY <1>1, <1>2, QuietFiles
  <1>4. ListingInv' /\ SectionInv'
    BY <1>0, <1>1 DEF ListingInv, SectionInv, HeadListed, Stuck, files
  <1>. QED BY <1>3, <1>4 DEF Inv

-----------------------------------------------------------------------------
(* The listing. *)

\* A step of the listing leaves all but the listing.
LEMMA QuietListing ==
    ASSUME Inv, UNCHANGED <<files, section, acked, meddled>>, listing' \in Listing, ListingInv'
    PROVE  Inv'
  <1>0. FilesInv /\ SectionInv
    BY DEF Inv
  <1>1. Typed'
    BY <1>0, Here DEF Typed, files
  <1>2. FilesInv'
    BY <1>0, <1>1 DEF FilesInv, files, Shape, Before, Common, LogReads, Stuck
  <1>3. HoldsInv' /\ UnmeddledInv'
    BY DEF Inv, HoldsInv, Holds, LogOf, UnmeddledInv, files, Shown, Stuck
  <1>4. SectionInv'
    BY <1>0 DEF SectionInv, Written, Whole, files
  <1>. QED BY <1>2, <1>3, <1>4 DEF Inv

\* A shard with history is found by any of its files.
LEMMA ListBeginStep ==
    ASSUME Inv, UNCHANGED meddled, ListBegin
    PROVE  Inv'
  <1>0. FilesInv
    BY DEF Inv
  <1>1. /\ UNCHANGED <<files, section, acked, meddled>>
        /\ dir' = dir /\ log' = log
    BY DEF ListBegin, files
  <1>2. PICK names \in (SUBSET Names) \ {{}} :
           listing' = [NoListing EXCEPT !.pc = "next", !.names = names,
                                        !.had = Shown # <<>>]
    BY DEF ListBegin
  <1>3. /\ listing'.pc = "next" /\ listing'.names = names /\ listing'.had = (Shown # <<>>)
        /\ listing' \in Listing /\ names # {}
    <2>1. names \subseteq {"head", "shard", "log"}
      BY DEF Names
    <2>. QED BY <1>2, <2>1 DEF NoListing, Listing
  <1>4. /\ "head" \in names => dir.head # {}
        /\ "shard" \in names => dir.beside.is # "missing"
        /\ "log" \in names => dir.log
    BY <1>0, Here DEF Names
  <1>5. Shown # <<>> => HeadListed \/ (dir.head = {} /\ dir.beside.is = "earlier")
    <2>1. CASE dir.head = {}
      BY <1>0, <2>1, Here, ShownIs
    <2>2. ASSUME NEW n \in dir.head PROVE Shown # <<>> => HeadListed
      <3>1. Len(Shown) = n /\ dir.head = {n}
        BY <1>0, ShownIs
      <3>2. Shown \in Seq(Line) /\ (Len(Shown) = 0 => Shown = <<>>)
        BY <1>0, ShownIs
      <3>. QED BY <3>1, <3>2 DEF HeadListed
    <2>. QED BY <2>1, <2>2
  <1>6. dir.log => Shown # <<>> \/ dir.beside.is = "marker"
    BY <1>0, Here, ShownIs DEF Shape
  <1>7. ListingInv'
    <2>1. HeadListed' <=> HeadListed
      BY <1>1 DEF HeadListed
    <2>. QED BY <1>1, <1>3, <1>4, <1>5, <1>6, <2>1 DEF ListingInv
  <1>. QED BY <1>1, <1>3, <1>7, QuietListing

\* What the files say, read by a listing that has reached them.
LEMMA ListingReads ==
    ASSUME Inv
    PROVE  /\ FilesInv /\ ListingInv /\ listing \in Listing /\ Shape(dir)
           /\ dir.beside = Marker <=> dir.beside.is = "marker"
           /\ dir.beside.records = <<>> <=> dir.beside.is # "earlier"
           /\ Stuck(dir) => log # <<>>
           /\ Stuck(dir) => dir.beside.is = "marker" /\ dir.head = {} /\ ~HeadListed
           /\ HeadListed => dir.head # {}
           /\ NoListing \in Listing
  <1>1. FilesInv
    BY DEF Inv
  <1>2. Stuck(dir) => log # <<>>
    BY <1>1, Here DEF FilesInv
  <1>. QED BY <1>1, <1>2, Here, MarkerType DEF Inv, Stuck, HeadListed

\* The files a listing looks at are unchanged while it looks.
LEMMA FilesStay ==
    ASSUME UNCHANGED files
    PROVE  UNCHANGED <<dir, log>> /\ HeadListed' = HeadListed /\ Stuck(dir)' = Stuck(dir)
  BY DEF files, HeadListed, Stuck

LEMMA ListNameStep ==
    ASSUME Inv, UNCHANGED meddled, NEW name \in {"head", "shard", "log"}, ListName(name)
    PROVE  Inv'
  <1>1. /\ listing.pc = "next" /\ name \in listing.names
        /\ listing' = [listing EXCEPT !.pc = name, !.names = @ \ {name}]
        /\ UNCHANGED <<files, section, acked, meddled>>
    BY DEF ListName
  <1>2. /\ listing' \in Listing /\ listing'.pc = name /\ listing'.names \subseteq listing.names
        /\ listing'.had = listing.had
    BY <1>1, ListingReads DEF Listing
  <1>3. ListingInv'
    BY <1>1, <1>2, ListingReads, FilesStay DEF ListingInv
  <1>. QED BY <1>1, <1>2, <1>3, QuietListing

\* A listing that judges the shard by its head lists it where it had history.
LEMMA Judged ==
    ASSUME Inv, NEW listed \in BOOLEAN, Judge(listed), listing.had => listed,
           UNCHANGED <<files, section, acked, meddled>>
    PROVE  Inv'
  <1>1. /\ listing' \in Listing /\ listing'.pc = "next" /\ listing'.names = listing.names
        /\ listing'.had = listing.had /\ (listing.had => listing'.listed)
    BY ListingReads DEF Judge, Listing
  <1>2. ListingInv'
    BY <1>1, ListingReads, FilesStay DEF ListingInv
  <1>. QED BY <1>1, <1>2, QuietListing

LEMMA ListHeadStep ==
    ASSUME Inv, UNCHANGED meddled, ListHead
    PROVE  Inv'
  <1>1. listing.had => HeadListed
    BY ListingReads DEF ListHead, ListingInv
  <1>2. HeadListed \in BOOLEAN
    BY DEF HeadListed
  <1>. QED BY <1>1, <1>2, Judged DEF ListHead

\* A listing that looks elsewhere for what it has not found yet.
LEMMA Looks ==
    ASSUME Inv, UNCHANGED <<files, section, acked, meddled>>,
           NEW pc \in {"next", "head", "beside", "orphan", "again", "refuse", "failed"},
           listing' = [listing EXCEPT !.pc = pc],
           pc = "next" => ~listing.had,
           pc = "beside" => dir.beside.is # "missing",
           pc \in {"head", "again"} /\ listing.had => HeadListed,
           pc \in {"orphan", "again", "refuse", "failed"} => listing.had \/ Stuck(dir),
           pc \in {"refuse", "failed"} => ~listing.had
    PROVE  Inv'
  <1>1. /\ listing' \in Listing /\ listing'.pc = pc /\ listing'.names = listing.names
        /\ listing'.had = listing.had
    BY ListingReads DEF Listing
  <1>2. ListingInv'
    BY <1>1, ListingReads, FilesStay DEF ListingInv
  <1>. QED BY <1>1, <1>2, QuietListing

LEMMA ListShardStep ==
    ASSUME Inv, UNCHANGED meddled, ListShard
    PROVE  Inv'
  <1>1. CASE HeadListed
    BY <1>1, Judged DEF ListShard
  <1>2. CASE ~HeadListed
    <2>1. listing' = [listing EXCEPT !.pc = "beside"] /\ dir.beside.is # "missing"
      BY <1>2, ListingReads DEF ListShard, ListingInv
    <2>. QED BY <2>1, Looks DEF ListShard
  <1>. QED BY <1>1, <1>2

\* A marker beside no head, or a head with no records, is that of a shard with
\* no history, or its head is there by now.
LEMMA ListBesideStep ==
    ASSUME Inv, UNCHANGED meddled, ListBeside
    PROVE  Inv'
  <1>1. CASE dir.beside = Marker
    <2>1. listing' = [listing EXCEPT !.pc = "head"] /\ (listing.had => HeadListed)
      BY <1>1, ListingReads DEF ListBeside, ListingInv
    <2>. QED BY <2>1, Looks DEF ListBeside
  <1>2. CASE dir.beside.is = "earlier"
    <2>1. Judge(TRUE)
      BY <1>2, ListingReads DEF ListBeside, Marker
    <2>. QED BY <2>1, Judged DEF ListBeside
  <1>3. CASE dir.beside.is \notin {"earlier", "marker"}
    BY <1>3, ListingReads, Here DEF ListBeside, ListingInv
  <1>. QED BY <1>1, <1>2, <1>3, ListingReads

LEMMA ListLogStep ==
    ASSUME Inv, UNCHANGED meddled, ListLog
    PROVE  Inv'
  <1>0. /\ listing.had => HeadListed \/ (dir.head = {} /\ dir.beside.is = "earlier")
        /\ dir.log /\ (listing.had \/ dir.beside.is = "marker")
    BY ListingReads DEF ListLog, ListingInv
  <1>1. CASE dir.head # {}
    <2>1. listing' = [listing EXCEPT !.pc = "head"] /\ (listing.had => HeadListed)
      BY <1>0, <1>1 DEF ListLog
    <2>. QED BY <2>1, Looks DEF ListLog
  <1>2. CASE dir.head = {}
    <2>1. listing' = [listing EXCEPT !.pc = "orphan"] /\ (listing.had \/ Stuck(dir))
      BY <1>0, <1>2 DEF ListLog, Stuck
    <2>. QED BY <2>1, Looks DEF ListLog
  <1>. QED BY <1>1, <1>2

\* Where the shard had history and the .shard file holds none, the head is there.
LEMMA ListOrphanStep ==
    ASSUME Inv, UNCHANGED meddled, ListOrphan
    PROVE  Inv'
  <1>0. /\ listing.had => HeadListed \/ (dir.head = {} /\ dir.beside.is = "earlier")
        /\ listing.had \/ Stuck(dir)
    BY ListingReads DEF ListOrphan, ListingInv
  <1>1. CASE dir.beside.records # <<>>
    BY <1>1, Judged DEF ListOrphan
  <1>2. CASE dir.beside.records = <<>> /\ dir.beside = Marker
    <2>1. listing' = [listing EXCEPT !.pc = "again"] /\ (listing.had => HeadListed)
      BY <1>0, <1>2, ListingReads DEF ListOrphan
    <2>. QED BY <1>0, <2>1, Looks DEF ListOrphan
  <1>3. CASE dir.beside.records = <<>> /\ dir.beside # Marker
    BY <1>0, <1>3, ListingReads, Here DEF Shape, HeadListed
  <1>. QED BY <1>1, <1>2, <1>3

LEMMA ListAgainStep ==
    ASSUME Inv, UNCHANGED meddled, ListAgain
    PROVE  Inv'
  <1>0. (listing.had => HeadListed) /\ (listing.had \/ Stuck(dir))
    BY ListingReads DEF ListAgain, ListingInv
  <1>1. CASE dir.head # {}
    <2>1. listing' = [listing EXCEPT !.pc = "head"]
      BY <1>1 DEF ListAgain
    <2>. QED BY <1>0, <2>1, Looks DEF ListAgain
  <1>2. CASE dir.head = {}
    <2>1. listing' = [listing EXCEPT !.pc = "refuse"] /\ ~listing.had
      BY <1>0, <1>2, ListingReads DEF ListAgain
    <2>. QED BY <1>0, <2>1, Looks DEF ListAgain
  <1>. QED BY <1>1, <1>2

LEMMA ListRefuseStep ==
    ASSUME Inv, UNCHANGED meddled, ListRefuse
    PROVE  Inv'
  <1>0. ~listing.had /\ Stuck(dir) /\ log # <<>>
    BY ListingReads DEF ListRefuse, ListingInv
  <1>1. listing' = [listing EXCEPT !.pc = "failed"]
    BY <1>0 DEF ListRefuse
  <1>. QED BY <1>0, <1>1, Looks DEF ListRefuse

LEMMA ListEndStep ==
    ASSUME Inv, UNCHANGED meddled, ListEnd
    PROVE  Inv'
  <1>1. /\ listing' \in Listing /\ listing'.pc = "idle" /\ listing'.names = {} /\ ~listing'.had
        /\ listing' = NoListing /\ UNCHANGED <<files, section, acked, meddled>>
    BY MarkerType DEF ListEnd, NoListing
  <1>2. ListingInv'
    BY <1>1 DEF ListingInv
  <1>. QED BY <1>1, <1>2, QuietListing

-----------------------------------------------------------------------------
(* The earlier release, and faults. *)

\* The earlier release adds to a .shard file that holds all that was
\* acknowledged, or does nothing.
LEMMA EarlierAppendStep ==
    ASSUME Inv, meddled' = TRUE, NEW payload \in Payload, EarlierAppend(payload)
    PROVE  Inv' /\ Begins(acked, acked')
  <1>0. FilesInv /\ HoldsInv /\ ListingInv /\ section.pc = "idle"
    BY DEF Inv, EarlierAppend
  <1>. PICK record : record = [seq |-> Len(dir.beside.records), payload |-> payload]
    OBVIOUS
  <1>. PICK records : records = Append(dir.beside.records, record)
    OBVIOUS
  <1>. PICK d : d = [dir EXCEPT !.beside = Earlier(records)]
    OBVIOUS
  <1>1. record \in Record
    BY <1>0, Here DEF Record
  <1>2. /\ records \in Seq(Record) /\ records \in Seq(Line) /\ records # <<>>
        /\ Begins(dir.beside.records, records)
    <2>1. records \in Seq(Record) /\ records # <<>> /\ Longer(records, dir.beside.records)
      BY <1>0, <1>1, Here, AddedBegins
    <2>. QED BY <2>1, RecordsAreLines DEF Longer
  <1>3. Earlier(records) \in Beside
    BY <1>2 DEF Earlier, Beside
  <1>4. /\ d \in Directory /\ d.head = dir.head /\ d.log = dir.log
        /\ d.beside.is = "earlier" /\ d.beside.records = records
    <2>1. /\ d \in Directory /\ d.beside = Earlier(records) /\ d.head = dir.head
          /\ d.log = dir.log
      BY <1>0, <1>3, Here, WithBeside
    <2>. QED BY <2>1 DEF Earlier
  <1>5. /\ \/ Renamed(d) /\ acked' = records
           \/ RenameFailed(d) /\ UNCHANGED acked
        /\ UNCHANGED <<log, logs, section, listing>> /\ dir.beside.is # "marker"
    <2>1. \/ Renamed(d) /\ acked' = records
          \/ RenameFailed(d) /\ UNCHANGED acked
      BY DEF EarlierAppend
    <2>2. UNCHANGED <<log, logs, section, listing>> /\ dir.beside # Marker
      BY DEF EarlierAppend
    <2>. QED BY <1>0, <2>1, <2>2, Here
  <1>6. \A e \in dirs : ~Stuck(e)
    BY <1>0, <1>5, NotStuck
  <1>7. /\ Renamed(d) \/ RenameFailed(d)
        /\ dir' = d \/ dir' = dir
        /\ dirs' = {d} \/ dirs' = dirs \/ dirs' = dirs \cup {d}
        /\ acked' = records \/ acked' = acked
    BY <1>5 DEF Renamed, RenameFailed
  <1>8. Typed'
    BY <1>0, <1>2, <1>4, <1>5, <1>7, Here DEF Typed
  <1>9. Further(d)
    <2>1. Shape(d)
      BY <1>0, <1>2, <1>4, <1>5, Here DEF Shape
    <2>2. \A n \in dir.head : n <= n
      BY <1>0, Here
    <2>. QED BY <1>0, <1>4, <1>5, <2>1, <2>2 DEF Further, FilesInv, Common, Stuck
  <1>10. FilesInv'
    BY <1>0, <1>5, <1>6, <1>7, <1>8, <1>9, MovesFiles
  <1>11. Begins(acked, dir.beside.records) /\ Begins(acked, records)
    <2>1. Begins(acked, dir.beside.records)
      BY <1>0, <1>5, Here DEF HoldsInv, Holds
    <2>. QED BY <1>0, <1>2, <2>1, Here, BeginsTrans
  <1>12. HoldsInv' /\ Begins(acked, acked')
    <2>1. CASE Renamed(d) /\ acked' = records
      <3>1. Begins(records, records)
        BY <1>2, BeginsSelf
      <3>. QED BY <1>4, <1>11, <2>1, <3>1 DEF Renamed, HoldsInv, Holds
    <2>2. CASE RenameFailed(d) /\ UNCHANGED acked
      <3>1. Holds(d)
        BY <1>4, <1>11 DEF Holds
      <3>2. Begins(acked, acked)
        BY <1>0, Here, BeginsSelf
      <3>. QED BY <1>0, <1>5, <2>2, <3>1, <3>2, MovesHolds
    <2>. QED BY <1>5, <2>1, <2>2
  <1>13. SectionInv' /\ UnmeddledInv'
    BY <1>0, <1>5 DEF SectionInv, UnmeddledInv
  <1>14. ListingInv'
    <2>1. ~Stuck(dir)
      BY <1>0, <1>6, Here
    <2>. QED BY <1>0, <1>4, <1>5, <1>7, <2>1, MovesListing DEF HeadListed
  <1>. QED BY <1>10, <1>12, <1>13, <1>14 DEF Inv

\* What a power loss leaves is one of the directories, with one of its logs.
LEMMA PowerLossStep ==
    ASSUME Inv, UNCHANGED meddled, PowerLoss
    PROVE  Inv'
  <1>0. FilesInv /\ HoldsInv /\ UnmeddledInv
    BY DEF Inv
  <1>. PICK d : d = dir'
    OBVIOUS
  <1>. PICK l : l = log'
    OBVIOUS
  <1>1. /\ d \in dirs /\ dirs' = {d} /\ l \in LogOf(d) /\ logs' = {l}
        /\ section' = NoSection /\ listing' = NoListing /\ UNCHANGED acked
    BY DEF PowerLoss, LogOf
  <1>2. d \in Directory /\ Shape(d) /\ l \in Seq(Line) /\ (~d.log => l = <<>>)
    BY <1>0, <1>1, LogIsThere DEF FilesInv, Typed, LogOf
  <1>3. Typed'
    BY <1>0, <1>1, <1>2, Here, MarkerType DEF Typed
  <1>4. LogOf(d)' = {l} /\ {l} \subseteq LogOf(d)
    BY <1>1, <1>2 DEF LogOf
  <1>5. ASSUME NEW n \in d.head
        PROVE  /\ n \in Nat /\ n <= Len(l) /\ SubSeq(l, 1, n) = SubSeq(log, 1, n)
               /\ \A i \in 1..n : l[i] # Torn
               /\ Begins(SubSeq(l, 1, n), l)
    <2>1. PICK m \in dir.head : n <= m
      BY <1>0, <1>1 DEF FilesInv, Before
    <2>2. /\ n \in Nat /\ n <= Len(l) /\ n <= Len(log)
          /\ SubSeq(l, 1, n) = SubSeq(log, 1, n) /\ LogReads(m) /\ m \in Nat
      BY <1>0, <1>1, <2>1, HeadReads, Here
    <2>. PICK u : u = SubSeq(l, 1, n)
      OBVIOUS
    <2>3. \A i \in 1..n : u[i] = l[i]
      BY <1>2, <2>2, Prefix
    <2>4. \A i \in 1..n : u[i] = log[i]
      BY <1>0, <2>2, Here, Prefix
    <2>5. \A i \in 1..n : log[i] # Torn
      BY <2>1, <2>2 DEF LogReads
    <2>6. Begins(u, l)
      BY <1>2, <2>2, PrefixBegins
    <2>. QED BY <2>2, <2>3, <2>4, <2>5, <2>6
  <1>6. FilesInv'
    <2>1. Common'
      BY <1>1, <1>5 DEF Common, LogReads
    <2>2. Before(d)'
      <3>1. \A n \in d.head : n <= n
        BY <1>2 DEF Directory
      <3>. QED BY <3>1 DEF Before
    <2>3. Stuck(d) => section'.pc = "idle" /\ l # <<>>
      BY <1>0, <1>1 DEF FilesInv, Stuck, NoSection, LogOf
    <2>. QED BY <1>1, <1>2, <1>3, <2>1, <2>2, <2>3 DEF FilesInv, Shape, Stuck
  <1>7. HoldsInv'
    BY <1>0, <1>1, <1>4 DEF HoldsInv, Holds
  <1>8. SectionInv' /\ ListingInv'
    BY <1>1 DEF SectionInv, ListingInv, NoSection, NoListing
  <1>9. UnmeddledInv'
    <2>1. ASSUME d.head = {} PROVE Begins(d.beside.records, Shown')
      <3>1. Shown' = d.beside.records
        BY <2>1 DEF Shown
      <3>. QED BY <1>2, <3>1, BesideIs, BeginsSelf
    <2>. QED BY <1>0, <1>1, <1>5, <2>1 DEF UnmeddledInv, Stuck
  <1>. QED BY <1>6, <1>7, <1>8, <1>9 DEF Inv

\* The log of a shard whose head goes missing has records in it.
LEMMA LoseHeadStep ==
    ASSUME Inv, meddled' = TRUE, LoseHead
    PROVE  Inv'
  <1>0. FilesInv /\ HoldsInv /\ ListingInv /\ section.pc = "idle" /\ listing = NoListing
    BY DEF Inv, LoseHead, ListingInv
  <1>. PICK d : d = [dir EXCEPT !.head = {}]
    OBVIOUS
  <1>1. d \in Directory /\ d.beside = dir.beside /\ d.head = {} /\ d.log = dir.log
    <2>1. {} \in SUBSET Nat
      OBVIOUS
    <2>. QED BY <1>0, <2>1, Here, WithHead
  <1>2. dir' = d /\ dirs' = {d} /\ UNCHANGED <<log, logs, section, listing, acked>>
    BY DEF LoseHead
  <1>3. PICK n \in dir.head : n \in Nat /\ n # 0 /\ dir.log
    <2>1. PICK n : n \in dir.head /\ n \in Nat /\ dir.head = {n}
      <3>1. PICK n : n \in dir.head
        BY DEF LoseHead, HeadListed
      <3>. QED BY <1>0, <3>1, Here, ShownIs
    <2>2. n # 0
      BY <2>1 DEF LoseHead, HeadListed
    <2>. QED BY <1>0, <2>1, <2>2, Here DEF Shape
  <1>4. Typed'
    BY <1>0, <1>1, <1>2, Here DEF Typed
  <1>5. \A l \in logs : l # <<>>
    <2>. SUFFICES ASSUME NEW l \in logs PROVE Len(l) # 0
      OBVIOUS
    <2>1. LogOf(dir) = logs
      BY <1>3 DEF LogOf
    <2>2. n <= Len(l)
      BY <1>0, <1>3, <2>1, Here, HeadReads
    <2>. QED BY <1>0, <1>3, <2>2, Here
  <1>6. FilesInv'
    <2>1. Shape(d)
      BY <1>0, <1>1, <1>3, Here DEF Shape
    <2>. QED BY <1>0, <1>1, <1>2, <1>3, <1>4, <1>5, <2>1, Here
             DEF FilesInv, Common, Before, Shape, Stuck
  <1>7. HoldsInv'
    <2>1. ASSUME dir.beside.is = "marker", NEW l \in logs
          PROVE  Begins(acked, l)
      <3>1. l \in LogOf(dir) /\ l \in Seq(Line)
        BY <1>0, <1>3, <2>1, Here DEF LogOf
      <3>2. Begins(acked, SubSeq(l, 1, n))
        BY <1>0, <1>3, <2>1, <3>1, Here DEF HoldsInv, Holds
      <3>3. n <= Len(l)
        BY <1>0, <1>3, <3>1, Here, HeadReads
      <3>4. SubSeq(l, 1, n) \in Seq(Line) /\ Begins(SubSeq(l, 1, n), l)
        BY <1>3, <3>1, <3>3, Prefix, PrefixBegins
      <3>. QED BY <1>0, <3>1, <3>2, <3>4, Here, BeginsTrans
    <2>2. Holds(d)'
      <3>1. CASE dir.beside.is = "marker"
        <4>1. LogOf(d)' = logs
          BY <1>1, <1>2, <1>3 DEF LogOf
        <4>. QED BY <1>1, <1>2, <2>1, <3>1, <4>1 DEF Holds
      <3>2. CASE dir.beside.is # "marker"
        BY <1>0, <1>1, <1>2, <3>2, Here DEF HoldsInv, Holds
      <3>. QED BY <3>1, <3>2
    <2>. QED BY <1>2, <2>2 DEF HoldsInv
  <1>8. SectionInv' /\ UnmeddledInv' /\ ListingInv'
    BY <1>0, <1>2 DEF SectionInv, UnmeddledInv, ListingInv, NoListing
  <1>. QED BY <1>6, <1>7, <1>8 DEF Inv

-----------------------------------------------------------------------------
(* The theorems. *)

LEMMA InitStep == ASSUME Init PROVE Inv
  <1>1. PICK beside \in {Missing} \cup {Earlier(<<[seq |-> 0, payload |-> p]>>) : p \in Payload} :
           /\ dir = [beside |-> beside, head |-> {}, log |-> FALSE]
           /\ acked = beside.records
    BY DEF Init
  <1>2. /\ log = <<>> /\ dirs = {dir} /\ logs = {<<>>}
        /\ section = NoSection /\ listing = NoListing /\ meddled = FALSE
    BY DEF Init
  <1>3. /\ beside \in Beside /\ beside.is # "marker"
        /\ beside.records # <<>> <=> beside.is = "earlier"
    <2>1. CASE beside = Missing
      BY <2>1 DEF Missing, Beside
    <2>2. ASSUME NEW p \in Payload, beside = Earlier(<<[seq |-> 0, payload |-> p]>>)
          PROVE  beside \in Beside /\ beside.is = "earlier" /\ beside.records # <<>>
      <3>. PICK records : records = <<[seq |-> 0, payload |-> p]>>
        OBVIOUS
      <3>1. [seq |-> 0, payload |-> p] \in Record
        BY DEF Record
      <3>2. records \in Seq(Record) /\ records # <<>>
        BY <3>1
      <3>. QED BY <2>2, <3>2 DEF Earlier, Beside
    <2>. QED BY <1>1, <2>1, <2>2
  <1>4. /\ dir \in Directory /\ dir.head = {} /\ ~dir.log /\ dir.beside = beside
        /\ acked = dir.beside.records /\ acked \in Seq(Record) /\ acked \in Seq(Line)
    BY <1>1, <1>3, RecordsAreLines DEF Directory, Beside
  <1>5. Shape(dir)
    BY <1>3, <1>4 DEF Shape
  <1>6. Typed
    BY <1>2, <1>4, MarkerType, BeginsEmpty DEF Typed
  <1>7. FilesInv
    BY <1>2, <1>3, <1>4, <1>5, <1>6 DEF FilesInv, Before, Common, Stuck
  <1>8. HoldsInv
    BY <1>2, <1>3, <1>4, BeginsSelf DEF HoldsInv, Holds
  <1>9. SectionInv /\ ListingInv
    BY <1>2 DEF SectionInv, ListingInv, NoSection, NoListing
  <1>10. UnmeddledInv
    <2>1. Begins(dir.beside.records, Shown)
      BY <1>4, <1>7, ShownIs, BeginsSelf
    <2>. QED BY <1>2, <1>3, <1>4, <2>1 DEF UnmeddledInv, Stuck
  <1>. QED BY <1>7, <1>8, <1>9, <1>10 DEF Inv

\* Of all the steps, Return and the earlier release's append acknowledge.
LEMMA NextStep ==
    ASSUME Inv, [Next]_vars
    PROVE  Inv' /\ (acked' = acked \/ Begins(acked, acked'))
  <1>1. CASE UNCHANGED vars
    <2>1. UNCHANGED <<files, section, acked, meddled>> /\ listing' = listing
      BY <1>1 DEF vars, files
    <2>2. ListingInv'
      BY <2>1, ListingReads, FilesStay DEF ListingInv
    <2>. QED BY <2>1, <2>2, ListingReads, QuietListing
  <1>2. CASE Step /\ UNCHANGED meddled
    <2>1. ASSUME NEW history \in BOOLEAN, NEW payload \in Payload, Enter(history, payload)
          PROVE  Inv' /\ acked' = acked
      BY <1>2, <2>1, EnterStep DEF Enter
    <2>2. CASE Mark
      BY <1>2, <2>2, MarkStep DEF Mark
    <2>3. CASE WriteEmptyHead
      BY <1>2, <2>3, WriteEmptyHeadStep DEF WriteEmptyHead
    <2>4. CASE WriteLog
      BY <1>2, <2>4, WriteLogStep DEF WriteLog
    <2>5. CASE SyncLog
      BY <1>2, <2>5, SyncLogStep DEF SyncLog
    <2>6. CASE WriteHead
      BY <1>2, <2>6, WriteHeadStep DEF WriteHead
    <2>7. CASE MarkConverted
      BY <1>2, <2>7, MarkConvertedStep DEF MarkConverted
    <2>8. CASE Return
      BY <1>2, <2>8, ReturnStep
    <2>9. CASE ListBegin
      BY <1>2, <2>9, ListBeginStep DEF ListBegin
    <2>10. CASE ListHead
      BY <1>2, <2>10, ListHeadStep DEF ListHead
    <2>11. CASE ListShard
      BY <1>2, <2>11, ListShardStep DEF ListShard
    <2>12. CASE ListBeside
      BY <1>2, <2>12, ListBesideStep DEF ListBeside
    <2>13. CASE ListLog
      BY <1>2, <2>13, ListLogStep DEF ListLog
    <2>14. ASSUME NEW name \in {"head", "shard", "log"}, ListName(name)
           PROVE  Inv' /\ acked' = acked
      BY <1>2, <2>14, ListNameStep DEF ListName
    <2>15. CASE ListOrphan
      BY <1>2, <2>15, ListOrphanStep DEF ListOrphan
    <2>16. CASE ListAgain
      BY <1>2, <2>16, ListAgainStep DEF ListAgain
    <2>17. CASE ListRefuse
      BY <1>2, <2>17, ListRefuseStep DEF ListRefuse
    <2>18. CASE ListEnd
      BY <1>2, <2>18, ListEndStep DEF ListEnd
    <2>19. CASE Kill
      BY <1>2, <2>19, KillStep DEF Kill
    <2>20. CASE PowerLoss
      BY <1>2, <2>20, PowerLossStep DEF PowerLoss
    <2>. QED BY <1>2, <2>1, <2>2, <2>3, <2>4, <2>5, <2>6, <2>7, <2>8, <2>9, <2>10, <2>11, <2>12,
                <2>13, <2>14, <2>15, <2>16, <2>17, <2>18, <2>19, <2>20 DEF Step
  <1>3. CASE Meddle /\ meddled' = TRUE
    <2>1. CASE LoseHead
      BY <1>3, <2>1, LoseHeadStep DEF LoseHead
    <2>2. ASSUME NEW payload \in Payload, EarlierAppend(payload)
          PROVE  Inv' /\ Begins(acked, acked')
      BY <1>3, <2>2, EarlierAppendStep
    <2>. QED BY <1>3, <2>1, <2>2 DEF Meddle
  <1>. QED BY <1>1, <1>2, <1>3 DEF Next

\* The files are in order, whatever a power loss leaves of them.
LEMMA FilesInvariant == Spec => []Inv
  <1>1. Init => Inv
    BY InitStep
  <1>2. Inv /\ [Next]_vars => Inv'
    BY NextStep
  <1>. QED BY <1>1, <1>2, PTL DEF Spec

\* No commit, conversion or release loses what another caller was told is held,
\* and no head commits more than the log then holds, for every number of records
\* and every mix of the two releases and the faults (commit, load).
THEOREM CommitsAlwaysSound == Spec => []CommitsSound
  <1>1. Inv => CommitsSound
    <2>. SUFFICES ASSUME Inv PROVE AckedHeld
      BY FilesTyped DEF Inv, CommitsSound
    <2>1. FilesInv /\ Holds(dir) /\ log \in LogOf(dir)
      BY Here, LogIsThere DEF Inv, HoldsInv
    <2>2. SubSeq(log, 1, Len(log)) = log
      BY <2>1, Here, AllOfIt
    <2>. QED BY <2>1, <2>2 DEF Holds, AckedHeld
  <1>. QED BY <1>1, FilesInvariant, PTL

\* A shard that had history when a listing began is listed, and a listing fails
\* only where a head really went missing, however the listing's reads interleave
\* with the commits, conversions and faults (list_shards, refuse_orphan_log).
THEOREM ListingAlwaysComplete == Spec => []ListingComplete
  <1>1. Inv => ListingComplete
    BY ListingReads DEF ListingInv, ListingComplete
  <1>. QED BY <1>1, FilesInvariant, PTL

\* The two releases never fork the shard: what one acknowledges extends all that
\* either acknowledged before (with_shard, and the earlier release's write).
THEOREM AckedAlwaysGrows == Spec => AckedGrows
  <1>1. Inv /\ [Next]_vars => [Begins(acked, acked')]_acked
    BY NextStep
  <1>. QED BY <1>1, FilesInvariant, PTL DEF Spec, AckedGrows

-----------------------------------------------------------------------------
(* The shard is a durable log. *)

\* Until somebody meddles, the store refuses nobody.
LEMMA AlwaysReads ==
    ASSUME Inv, ~meddled
    PROVE  Readable = Shown
  <1>1. FilesInv /\ UnmeddledInv
    BY DEF Inv
  <1>2. CASE dir.head # {}
    BY <1>1, <1>2, Here DEF UnmeddledInv, FilesInv, Common, Loads, Readable
  <1>3. CASE dir.head = {}
    <2>1. dir.beside.records = <<>> => ~dir.log
      BY <1>1, <1>3, Here DEF UnmeddledInv, Stuck, Shape
    <2>2. ~dir.log => log = <<>>
      BY <1>1 DEF FilesInv
    <2>. QED BY <1>3, <2>1, <2>2 DEF Loads, Readable
  <1>. QED BY <1>2, <1>3

\* What was acknowledged is shown.
LEMMA AckedShown ==
    ASSUME Inv, ~meddled
    PROVE  /\ Shown \in Seq(Record) /\ acked \in Seq(Record)
           /\ Len(acked) \in 0..Len(Shown)
  <1>1. FilesInv /\ UnmeddledInv /\ Holds(dir) /\ log \in LogOf(dir) /\ ~Stuck(dir)
    BY Here, LogIsThere DEF Inv, HoldsInv, UnmeddledInv
  <1>2. /\ Shown \in Seq(Record) /\ Shown \in Seq(Line)
        /\ acked \in Seq(Record) /\ acked \in Seq(Line)
        /\ dir.beside.records \in Seq(Line)
    BY <1>1, Here, ShownIs
  <1>3. Begins(acked, Shown)
    <2>1. ASSUME NEW n \in dir.head PROVE Begins(acked, Shown)
      <3>1. Shown = SubSeq(log, 1, n)
        BY <1>1, ShownIs
      <3>2. Begins(dir.beside.records, Shown)
        BY <1>1, <3>1, Here DEF UnmeddledInv
      <3>. QED BY <1>1, <1>2, <3>1, <3>2, BeginsTrans DEF Holds
    <2>2. CASE dir.head = {} /\ dir.beside.is = "marker"
      <3>1. LogOf(dir) = {<<>>} /\ Begins(acked, <<>>)
        BY <1>1, <2>2 DEF Stuck, LogOf, Holds
      <3>2. acked = <<>>
        BY <1>2, <3>1, BeginsEmpty
      <3>. QED BY <1>2, <3>2, BeginsEmpty
    <2>3. CASE dir.head = {} /\ dir.beside.is # "marker"
      BY <1>1, <2>3, ShownIs DEF Holds
    <2>. QED BY <2>1, <2>2, <2>3
  <1>4. Len(acked) <= Len(Shown)
    BY <1>3 DEF Begins
  <1>. QED BY <1>2, <1>4

\* What a step shows: as before, one record more, or part of what it was.
Extended == /\ Len(Shown') = Len(Shown) + 1
            /\ SubSeq(Shown', 1, Len(Shown)) = Shown
            /\ Len(acked') = Len(acked)

Unmoved == Shown' = Shown /\ Len(acked') = Len(acked)

Promised == Shown' = Shown /\ acked' = Shown

Cut == Begins(Shown', Shown) /\ Len(acked') = Len(acked)

\* Files that are left alone show what they did.
LEMMA QuietShown == ASSUME UNCHANGED <<files, acked>> PROVE Unmoved
  BY DEF files, Unmoved, Shown

\* A step on the way to the commit point, or after it, shows the same.
LEMMA PreparationShows ==
    ASSUME Inv, Mark \/ WriteEmptyHead \/ SyncLog \/ MarkConverted
    PROVE  Unmoved
  <1>0. FilesInv
    BY DEF Inv
  <1>1. CASE Mark
    <2>1. PICK d \in Directory : /\ d.beside = Marker /\ d.head = dir.head
                                 /\ dir' = d \/ dir' = dir
      <3>1. /\ [dir EXCEPT !.beside = Marker] \in Directory
            /\ [dir EXCEPT !.beside = Marker].beside = Marker
            /\ [dir EXCEPT !.beside = Marker].head = dir.head
        BY <1>0, Here, WithBeside, MarkerType
      <3>. QED BY <1>1, <3>1 DEF Mark, Write, Renamed, RenameFailed
    <2>2. dir.head = {} => dir.beside.records = <<>>
      BY <1>0, <1>1, Here DEF Inv, SectionInv, Mark
    <2>. QED BY <1>0, <1>1, <2>1, <2>2, MarkerType, SameShown DEF Mark, Unmoved
  <1>2. CASE WriteEmptyHead
    <2>1. dir.head = {} /\ dir.beside.is = "marker"
      BY <1>2 DEF Inv, SectionInv, WriteEmptyHead
    <2>2. Shown = <<>>
      BY <1>0, <2>1, Here, ShownIs
    <2>3. dir' = dir \/ dir'.head = {0}
      <3>1. {0} \in SUBSET Nat
        OBVIOUS
      <3>2. [dir EXCEPT !.head = {0}].head = {0}
        BY <1>0, <3>1, Here, WithHead
      <3>. QED BY <1>2, <3>2 DEF WriteEmptyHead, Write, Renamed, RenameFailed
    <2>4. UNCHANGED <<log, acked>>
      BY <1>2 DEF WriteEmptyHead
    <2>5. SubSeq(log, 1, 0) = <<>>
      BY <1>0, Here, NoneOfIt
    <2>6. CASE dir' = dir
      BY <2>4, <2>6 DEF Shown, Unmoved
    <2>7. CASE dir'.head = {0}
      <3>1. Shown' = SubSeq(log', 1, 0)
        BY <2>7, ShownAtNext
      <3>. QED BY <2>2, <2>4, <2>5, <3>1 DEF Unmoved
    <2>. QED BY <2>3, <2>6, <2>7
  <1>3. CASE SyncLog
    BY <1>3 DEF SyncLog, Shown, Unmoved
  <1>4. CASE MarkConverted
    <2>1. dir' = dir \/ dir'.head = dir.head
      <3>1. [dir EXCEPT !.beside = Marker].head = dir.head
        BY <1>0, Here, WithBeside, MarkerType
      <3>. QED BY <1>4, <3>1 DEF MarkConverted, Write, Renamed, RenameFailed
    <2>2. dir.head # {}
      BY <1>4 DEF Inv, SectionInv, MarkConverted
    <2>. QED BY <1>0, <1>4, <2>1, <2>2, SameShown DEF MarkConverted, Unmoved
  <1>. QED BY <1>1, <1>2, <1>3, <1>4

\* The log's new lines are not shown until the head commits them.
LEMMA WriteLogShows ==
    ASSUME Inv, WriteLog
    PROVE  Unmoved
  <1>0. FilesInv /\ section.pc = "write"
    BY DEF Inv, WriteLog
  <1>1. [dir EXCEPT !.log = TRUE].beside = dir.beside
        /\ [dir EXCEPT !.log = TRUE].head = dir.head
    BY <1>0, Here, WithLog
  <1>2. dir'.beside = dir.beside /\ dir'.head = dir.head /\ UNCHANGED acked
    BY <1>1 DEF WriteLog
  <1>. PICK c : c = section.committed
    OBVIOUS
  <1>3. LogReads(c) /\ (\A n \in dir.head : n = c)
    BY <1>0 DEF WriteLog, Inv, SectionInv, Section
  <1>4. PICK l : /\ l = log' /\ l \in Seq(Line)
                 /\ Begins(SubSeq(log, 1, c), l)
    BY <1>0, <1>3, Here, WrittenLogIs DEF WriteLog
  <1>5. c \in Nat /\ c <= Len(log)
    BY <1>0, <1>3, Here DEF Section, LogReads
  <1>6. SubSeq(log', 1, c) = SubSeq(log, 1, c)
    <2>1. c <= c
      BY <1>5
    <2>. QED BY <1>0, <1>4, <1>5, <2>1, Here, PrefixesAgree
  <1>. QED BY <1>0, <1>2, <1>3, <1>6, SameShown DEF Unmoved

\* The commit point shows one record more.
LEMMA WriteHeadShows ==
    ASSUME Inv, WriteHead
    PROVE  Unmoved \/ Extended
  <1>0. FilesInv /\ section.pc = "head" /\ Written
    BY DEF Inv, SectionInv, WriteHead
  <1>1. {Len(log)} \in SUBSET Nat
    BY <1>0, Here
  <1>2. [dir EXCEPT !.head = {Len(log)}].head = {Len(log)}
    BY <1>0, <1>1, Here, WithHead
  <1>3. dir' = dir \/ dir'.head = {Len(log)}
    BY <1>2 DEF WriteHead, Write, Renamed, RenameFailed
  <1>4. UNCHANGED <<log, acked>>
    BY DEF WriteHead
  <1>5. CASE dir' = dir
    BY <1>4, <1>5 DEF Shown, Unmoved
  <1>6. CASE dir'.head = {Len(log)}
    <2>1. Shown' = log
      <3>1. Shown' = SubSeq(log', 1, Len(log))
        BY <1>6, ShownAtNext
      <3>. QED BY <1>0, <1>4, <3>1, Here, AllOfIt
    <2>2. Longer(log, Shown)
      <3>1. CASE section.converting
        BY <1>0, <3>1, ShownIs DEF Written
      <3>2. CASE ~section.converting
        <4>1. /\ dir.head = {section.committed} /\ Len(log) = section.committed + 1
              /\ section.committed \in Nat
          BY <1>0, <3>2, Here DEF Written, Section
        <4>2. Shown = SubSeq(log, 1, section.committed) /\ Len(Shown) = section.committed
          BY <1>0, <4>1, ShownIs
        <4>3. Begins(Shown, log)
          BY <1>0, <4>1, <4>2, Here, PrefixBegins
        <4>. QED BY <4>1, <4>2, <4>3 DEF Longer
      <3>. QED BY <3>1, <3>2
    <2>. QED BY <1>4, <2>1, <2>2 DEF Longer, Begins, Extended
  <1>. QED BY <1>3, <1>5, <1>6

\* A power loss shows part of what was shown.
LEMMA PowerLossShows ==
    ASSUME Inv, ~meddled, PowerLoss
    PROVE  Cut
  <1>0. FilesInv /\ UnmeddledInv
    BY DEF Inv
  <1>. PICK d : d = dir'
    OBVIOUS
  <1>. PICK l : l = log'
    OBVIOUS
  <1>1. d \in dirs /\ l \in LogOf(d) /\ UNCHANGED acked
    BY DEF PowerLoss, LogOf
  <1>2. d \in Directory /\ Shape(d)
    BY <1>0, <1>1 DEF FilesInv, Typed
  <1>3. CASE d.head = {}
    <2>1. Shown' = d.beside.records
      BY <1>3 DEF Shown
    <2>. QED BY <1>0, <1>1, <1>3, <2>1 DEF UnmeddledInv, Cut
  <1>4. ASSUME NEW n \in d.head PROVE Cut
    <2>1. d.head = {n}
      BY <1>2 DEF Shape
    <2>2. Shown' = SubSeq(l, 1, n)
      BY <2>1, ShownAtNext
    <2>3. PICK m \in dir.head : n <= m
      BY <1>0, <1>1 DEF FilesInv, Before
    <2>4. /\ SubSeq(l, 1, n) = SubSeq(log, 1, n)
          /\ Begins(SubSeq(log, 1, n), SubSeq(log, 1, m))
      BY <1>0, <1>1, <2>3, HeadReads
    <2>5. Shown = SubSeq(log, 1, m)
      BY <1>0, ShownIs
    <2>. QED BY <1>1, <2>2, <2>4, <2>5 DEF Cut
  <1>. QED BY <1>3, <1>4

\* Every step of a shard nobody meddles with moves what is shown so.
LEMMA StepShows ==
    ASSUME Inv, Step, UNCHANGED meddled, ~meddled
    PROVE  Unmoved \/ Extended \/ Promised \/ Cut
  <1>1. CASE Mark \/ WriteEmptyHead \/ SyncLog \/ MarkConverted
    BY <1>1, PreparationShows
  <1>2. CASE WriteLog
    BY <1>2, WriteLogShows
  <1>3. CASE WriteHead
    BY <1>3, WriteHeadShows
  <1>4. CASE Return
    BY <1>4 DEF Return, files, Shown, Promised
  <1>5. CASE PowerLoss
    BY <1>5, PowerLossShows
  <1>6. ASSUME \/ \E history \in BOOLEAN, payload \in Payload : Enter(history, payload)
               \/ ListBegin \/ ListHead \/ ListShard \/ ListBeside \/ ListLog
               \/ \E name \in {"head", "shard", "log"} : ListName(name)
               \/ ListOrphan \/ ListAgain \/ ListRefuse \/ ListEnd
               \/ Kill
        PROVE  Unmoved
    <2>1. UNCHANGED <<files, acked>>
      BY <1>6 DEF Enter, ListBegin, ListHead, ListShard, ListBeside, ListLog, ListName,
                  ListOrphan, ListAgain, ListRefuse, ListEnd, Kill
    <2>. QED BY <2>1, QuietShown
  <1>. QED BY <1>1, <1>2, <1>3, <1>4, <1>5, <1>6 DEF Step

LEMMA AlwaysReadsNext == (Inv /\ ~meddled)' => (Readable = Shown)'
  <1>1. Inv /\ ~meddled => Readable = Shown
    BY AlwaysReads
  <1>. QED BY <1>1, PTL

LEMMA AckedShownNext ==
    (Inv /\ ~meddled)' => (Shown \in Seq(Record) /\ acked \in Seq(Record)
                           /\ Len(acked) \in 0..Len(Shown))'
  <1>1. Inv /\ ~meddled => /\ Shown \in Seq(Record) /\ acked \in Seq(Record)
                           /\ Len(acked) \in 0..Len(Shown)
    BY AckedShown
  <1>. QED BY <1>1, PTL

\* A shard no other release appended to, and whose head is not lost, is a durable
\* log: whatever step a crash or a power loss cuts, it reads as it did before the
\* append or after it, is never refused, and keeps every record it acknowledged,
\* for every number of records and every interleaving (with_shard, commit, load).
THEOREM ShardIsADurableLog == Spec => ShardIsDurableLog
  <1>1. ASSUME Init PROVE D!Init
    <2>1. Inv /\ ~meddled
      BY <1>1, InitStep DEF Init
    <2>. QED BY <2>1, AlwaysReads, AckedShown DEF D!Init
  <1>2. ASSUME Inv, Inv', [Next]_vars
        PROVE  [~meddled' => D!Next]_<<Readable, Len(acked), meddled>>
    <2>. SUFFICES ASSUME ~meddled'
                  PROVE  D!Next \/ UNCHANGED <<Readable, Len(acked), meddled>>
      OBVIOUS
    <2>1. /\ Step \/ UNCHANGED <<files, acked>>
          /\ UNCHANGED meddled /\ ~meddled
      BY <1>2 DEF Next, vars, files
    <2>2. /\ Readable = Shown /\ Shown \in Seq(Record) /\ acked \in Seq(Record)
          /\ Len(acked) \in 0..Len(Shown)
      BY <1>2, <2>1, AlwaysReads, AckedShown
    <2>3. /\ Readable' = Shown' /\ Shown' \in Seq(Record) /\ acked' \in Seq(Record)
          /\ Len(acked') \in 0..Len(Shown')
      BY <1>2, <2>1, AlwaysReadsNext, AckedShownNext
    <2>4. CASE Unmoved
      BY <2>1, <2>2, <2>3, <2>4 DEF Unmoved
    <2>5. CASE Extended
      BY <2>2, <2>3, <2>5 DEF Extended, D!Next, D!Write
    <2>6. CASE Promised
      <3>1. Len(acked') \in Len(acked)..Len(Shown)
        BY <2>2, <2>3, <2>6 DEF Promised
      <3>. QED BY <2>2, <2>3, <2>6, <3>1 DEF Promised, D!Next, D!Promise
    <2>7. CASE Cut
      <3>1. /\ Shown' = SubSeq(Shown, 1, Len(Shown'))
            /\ Len(Shown') \in Len(acked)..Len(Shown)
        BY <2>2, <2>3, <2>7 DEF Cut, Begins
      <3>. QED BY <2>2, <2>3, <2>7, <3>1 DEF Cut, D!Next, D!Lose
    <2>. QED BY <1>2, <2>1, <2>4, <2>5, <2>6, <2>7, StepShows, QuietShown
  <1>. QED BY <1>1, <1>2, FilesInvariant, PTL DEF Spec, ShardIsDurableLog

=============================================================================
