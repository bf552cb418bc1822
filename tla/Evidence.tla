------------------------------ MODULE Evidence ------------------------------
(***************************************************************************)
(* What a deployment lets others check: the tree heads and subject         *)
(* projections the audit surface signs while records are being appended    *)
(* (audit.rs), and the evidence bundle a third party verifies offline      *)
(* (commitments.rs, bundle.rs).                                            *)
(*                                                                         *)
(* A record's chain hash is the sequence of the records up to it.  The     *)
(* tree over the log is a parameter: what its roots and its proofs are,    *)
(* and when a proof verifies, is in Merkle.                                *)
(***************************************************************************)
EXTENDS Integers, Sequences, FiniteSets, SequencesExt

CONSTANTS
    Entries,         \* the handles records may be about
    Subject,         \* the handle a projection is asked for
    StartLengths,    \* how long the log may already be
    MaxAppends,      \* how many records are appended to it
    MaxAuditTime,
    MaxHeads,        \* how many heads their readers may keep
    TREE_HEAD_REFRESH,
    MAX_PROJECTED_DECISIONS,
    RootOf(_),       \* the root of the tree over some leaves
    PathOf(_, _),    \* the audit path of one of them, counted from 0
    ConsistencyOf(_, _),                    \* the proof that it extends a smaller tree
    ConsistencyVerifies(_, _, _, _, _)      \* whether such a proof verifies

ASSUME EvidenceAssumption == StartLengths \subseteq Nat

VARIABLES
    log,             \* the records: what each is about and when it was made
    clock,
    tasks,           \* the two serialised computations of the audit surface
    cache,           \* the last tree head and when it was signed
    heads,           \* the heads kept by their readers
    answer,          \* the projection this step answered with
    rewritten        \* whether the operator has rewritten the log at rest

auditVars == <<log, clock, tasks, cache, heads, answer, rewritten>>

NoHead == [size |-> -1]
NoAnswer == [head |-> NoHead]
Unasked == [phase |-> "idle"]

---------------------------------------------------------------------------
(***************************************************************************)
(* The tree's leaves, and its head.                                        *)
(***************************************************************************)

\* leaves_from_records, leaves_from_lines: each record's chain hash.
Leaves(lines) == [i \in DOMAIN lines |-> SubSeq(lines, 1, i)]

\* sign_tree_head, over the leaves it was given.
HeadOver(lines, time) ==
    [root |-> RootOf(Leaves(lines)), size |-> Len(lines), ts |-> time, by |-> "ours"]

---------------------------------------------------------------------------
(***************************************************************************)
(* The audit surface.  Each computation counts the records under the       *)
(* ledger's lock, reads and hashes them outside it, and takes the lock     *)
(* again to sign; a head takes its time just before it is signed.          *)
(***************************************************************************)

\* An answer leaves with the step that made it.
Projects(a) == answer' = a

AppendRecord(e) ==
    /\ Cardinality({i \in DOMAIN log : log[i].ts >= 0}) < MaxAppends
    /\ log' = Append(log, [about |-> e, ts |-> clock])
    /\ Projects(NoAnswer)
    /\ UNCHANGED <<clock, tasks, cache, heads, rewritten>>

\* A request reaches tree_head or subject_audit and waits for its turn.
Ask(k) ==
    /\ tasks[k] = Unasked
    /\ tasks' = [tasks EXCEPT ![k] = [phase |-> "waiting", asked |-> clock]]
    /\ Projects(NoAnswer)
    /\ UNCHANGED <<log, clock, cache, heads, rewritten>>

\* The cached head is served while it covers every record or is recent.
CacheServes ==
    cache.head # NoHead /\
        (cache.head.size = Len(log) \/ clock - cache.at < TREE_HEAD_REFRESH)

Count(k) ==
    /\ tasks[k].phase = "waiting"
    /\ tasks' = [tasks EXCEPT ![k] =
                   IF k = "anchor" /\ CacheServes THEN Unasked
                   ELSE [phase |-> "counted", asked |-> @.asked, count |-> Len(log)]]
    /\ Projects(NoAnswer)
    /\ UNCHANGED <<log, clock, cache, heads, rewritten>>

SigningTimeAsked(task) == task.asked  \* mutant: the clock is read before the wait

SigningTime(task) == clock

\* Whoever asked may keep the head it was given.
Published(head) ==
    \/ Cardinality(heads) < MaxHeads /\ heads' = heads \cup {head}
    \/ heads' = heads

\* The prefix read outside the lock, and signed.
Prefix(task) == SubSeq(log, 1, task.count)

SignTreeHead ==
    LET t == tasks["anchor"] IN
    /\ t.phase = "counted"
    /\ LET head == HeadOver(Prefix(t), SigningTime(t)) IN
       /\ cache' = [head |-> head, at |-> clock]
       /\ Published(head)
    /\ tasks' = [tasks EXCEPT !["anchor"] = Unasked]
    /\ Projects(NoAnswer)
    /\ UNCHANGED <<log, clock, rewritten>>

Matching(lines) == {i \in DOMAIN lines : lines[i].about = Subject}

\* The first matches, and whether another follows them.
Projected(lines) ==
    LET page == {i \in Matching(lines) :
                   Cardinality({j \in Matching(lines) : j < i}) < MAX_PROJECTED_DECISIONS}
    IN  [seqs |-> page, truncated |-> page # Matching(lines)]

Project ==
    LET t == tasks["projection"]
        lines == Prefix(t)
        head == HeadOver(lines, SigningTime(t))
        found == Projected(lines)
    IN  /\ t.phase = "counted"
        /\ Projects([head |-> head, truncated |-> found.truncated,
                     decisions |-> [i \in found.seqs |->
                        [record |-> lines[i], leaf |-> Leaves(lines)[i],
                         path |-> PathOf(Leaves(lines), i - 1)]]])
        /\ Published(head)
        /\ tasks' = [tasks EXCEPT !["projection"] = Unasked]
        /\ UNCHANGED <<log, clock, cache, rewritten>>

\* The clock has no time to sign at, or the log cannot be read.
GiveUp(k) ==
    /\ tasks[k].phase = "counted"
    /\ tasks' = [tasks EXCEPT ![k] = Unasked]
    /\ Projects(NoAnswer)
    /\ UNCHANGED <<log, clock, cache, heads, rewritten>>

AuditTick ==
    /\ clock < MaxAuditTime
    /\ clock' = clock + 1
    /\ Projects(NoAnswer)
    /\ UNCHANGED <<log, tasks, cache, heads, rewritten>>

\* The operator stops the service, replaces a record, or drops it and what
\* follows, and seals the rest again under the same key: some reader has kept a
\* head.  The log can grow again from there.
Rewrite(i, keep) ==
    /\ ~rewritten /\ heads # {}
    /\ log' = IF keep THEN [log EXCEPT ![i].about = "nobody"] ELSE SubSeq(log, 1, i - 1)
    /\ tasks' = [k \in DOMAIN tasks |-> [phase |-> "stopped"]]
    /\ cache' = [head |-> NoHead, at |-> 0]
    /\ Projects(NoAnswer)
    /\ rewritten' = TRUE
    /\ UNCHANGED <<clock, heads>>

AuditInit ==
    /\ \E n \in StartLengths : log = [i \in 1..n |-> [about |-> "nobody", ts |-> -1]]
    /\ clock = 0
    /\ tasks = [k \in {"anchor", "projection"} |-> Unasked]
    /\ cache = [head |-> NoHead, at |-> 0]
    /\ heads = {}
    /\ answer = NoAnswer
    /\ rewritten = FALSE

AuditNext ==
    \/ \E e \in Entries : AppendRecord(e)
    \/ \E k \in DOMAIN tasks : Ask(k) \/ Count(k) \/ GiveUp(k)
    \/ SignTreeHead
    \/ Project
    \/ AuditTick
    \/ \E i \in DOMAIN log, keep \in BOOLEAN : Rewrite(i, keep)

AuditSpec == AuditInit /\ [][AuditNext]_auditVars

---------------------------------------------------------------------------
(***************************************************************************)
(* What a bundle holds.                                                    *)
(***************************************************************************)

\* snapshot_for_bundle, evidence_snapshot: records, checkpoint and tree head of
\* one moment, cut to the records after the first from.
Snapshot(from) ==
    [from |-> from,
     records |-> [i \in 1..(Len(log) - from) |->
        [entry |-> log[from + i], prev |-> SubSeq(log, 1, from + i - 1),
         hash |-> SubSeq(log, 1, from + i), by |-> "ours"]],
     checkpoint |-> [root |-> log, count |-> Len(log), by |-> "ours"],
     head |-> HeadOver(log, clock)]

---------------------------------------------------------------------------
(***************************************************************************)
(* verify_evidence_bundle, against the pinned key "ours".                  *)
(***************************************************************************)

ChainOk(b) ==
    \A i \in DOMAIN b.records :
        /\ b.records[i].hash = Append(b.records[i].prev, b.records[i].entry)
        /\ i = 1 /\ b.from = 0 => b.records[i].prev = <<>>
        /\ i > 1 => b.records[i].prev = b.records[i - 1].hash

SignaturesOk(b) ==
    /\ \A i \in DOMAIN b.records : b.records[i].by = "ours"
    /\ b.checkpoint.by = "ours"
    /\ b.head # NoHead /\ b.head.by = "ours"

AnchorOk(b) ==
    /\ IF b.records = <<>> THEN b.from = b.checkpoint.count
       ELSE Last(b.records).hash = b.checkpoint.root
    /\ b.from + Len(b.records) = b.checkpoint.count
    /\ b.head.size = b.checkpoint.count

RecordHashes(b) == [i \in DOMAIN b.records |-> b.records[i].hash]

ConsistentWithSize(b, earlier) ==    \* mutant: the bundle need only be no shorter
    /\ b.from = 0
    /\ earlier.by = "ours"
    /\ earlier.size \in 1..Len(b.records)

ConsistentWith(b, earlier) ==
    /\ b.from = 0
    /\ earlier.by = "ours"
    /\ earlier.size \in 1..Len(b.records)
    /\ ConsistencyVerifies(earlier.size, b.head.size, earlier.root, b.head.root,
                           ConsistencyOf(RecordHashes(b), earlier.size))

VerifyEvidenceBundle(b, against) ==
    /\ ChainOk(b)
    /\ SignaturesOk(b)
    /\ AnchorOk(b)
    /\ b.from = 0 => b.head.root = RootOf(RecordHashes(b))
    /\ against # NoHead => ConsistentWith(b, against)

---------------------------------------------------------------------------
(***************************************************************************)
(* Properties.                                                             *)
(***************************************************************************)

\* However appends interleave with a head's counting and signing, every head
\* published commits to exactly the records of the log at its size.
HeadsCommitToTheLog ==
    ~rewritten => \A h \in heads :
        /\ h.size \in 0..Len(log)
        /\ h.root = RootOf(Leaves(SubSeq(log, 1, h.size)))

\* "a head is never timed earlier than a record it covers" (audit.rs): for any
\* wait for a turn and any append that lands during it.
HeadsAreNotBackdated ==
    ~rewritten => \A h \in heads : \A i \in 1..h.size : log[i].ts <= h.ts

\* What a subject is shown are the records and leaves below the head it came
\* with, each with its own path in that head's tree (which verifies: Merkle),
\* and the list is all there was below that head, or says that it was cut.
ProjectionIsComplete ==
    answer # NoAnswer =>
        LET lines == SubSeq(log, 1, answer.head.size)
            shown == answer.decisions
        IN  /\ answer.head.root = RootOf(Leaves(lines))
            /\ \A i \in DOMAIN shown :
                 /\ shown[i].record = lines[i] /\ shown[i].record.about = Subject
                 /\ shown[i].leaf = SubSeq(log, 1, i)
                 /\ shown[i].path = PathOf(Leaves(lines), i - 1)
            /\ answer.truncated <=> Matching(lines) # DOMAIN shown

\* However appends interleave with the audit surface's two computations, its
\* heads and projections say of the log what was so (tree_head, project).
AuditSound == HeadsCommitToTheLog /\ HeadsAreNotBackdated /\ ProjectionIsComplete

AtRest == heads = {} /\ \A k \in DOMAIN tasks : tasks[k] = Unasked

\* The proof from the log's leaves, for a root published earlier, verifies for
\* the root of the log at that size and for no other.
ConsistencyIsExact ==
    \A h \in heads : h.size \in 1..Len(log) =>
        (ConsistencyVerifies(h.size, Len(log), h.root, RootOf(Leaves(log)),
                             ConsistencyOf(Leaves(log), h.size))
            <=> h.root = RootOf(Leaves(SubSeq(log, 1, h.size))))

\* A bundle is accepted exactly when it is what the log holds: whole or cut at
\* its start, and, against a head published earlier, only if no record below
\* that head was dropped or rewritten since, by whoever holds the key.
BundlesAreExact ==
    LET whole == Snapshot(0)
        short == [whole EXCEPT !.records = SubSeq(@, 1, Len(@) - 1)]
        altered(i, e) == [whole EXCEPT !.records[i].entry.about = e]
    IN  /\ AtRest =>
             /\ \A from \in 0..Len(log) : VerifyEvidenceBundle(Snapshot(from), NoHead)
             /\ log # <<>> => ~VerifyEvidenceBundle(short, NoHead)
             /\ \A i \in DOMAIN log, e \in Entries :
                  e # log[i].about => ~VerifyEvidenceBundle(altered(i, e), NoHead)
        /\ ~VerifyEvidenceBundle([whole EXCEPT !.head = NoHead], NoHead)
        /\ \A h \in heads :
             /\ VerifyEvidenceBundle(whole, h) <=>
                  h.size \in 1..Len(log) /\ h.root = RootOf(Leaves(SubSeq(log, 1, h.size)))
             /\ \A from \in 1..Len(log) : ~VerifyEvidenceBundle(Snapshot(from), h)
=============================================================================
