------------------------------- MODULE Sharded -------------------------------
(***************************************************************************)
(* ShardedLedger of decern-ledger: one shard that several replicas extend,   *)
(* each with its own signing key and keyring, over a head store that runs    *)
(* one section at a time.  An append reads the cursor alone when the cursor  *)
(* carries current key spans; otherwise it gives the lock back and takes it  *)
(* again to read the history, and another replica may append in between.    *)
(*                                                                          *)
(* The store commits a section whole or not at all (FileHeadStore shows it   *)
(* for files), and may report a failure for a commit that landed.           *)
(***************************************************************************)
EXTENDS Integers, Sequences, FiniteSets

CONSTANTS
    Keys,         \* signing keys, numbered in the order the operator rotates to them
    Replica,
    Boots,        \* what a replica may be started with: [key, verifiers]
    Earlier,      \* keys that writers of earlier releases sign with
    Unlabelled,   \* those of them used before records carried a kid
    MaxShardRecords,   \* bound on the records of the shard
    MaxCalls,     \* bound on the appends asked for
    MaxIssued     \* bound on the checkpoints signed

NoKid == 0

ASSUME BootsAssumption ==
    Boots \subseteq {b \in [key : Keys, verifiers : SUBSET Keys] : b.key \in b.verifiers}
ASSUME KeysAssumption == Keys \subseteq Nat \ {NoKid} /\ Earlier \subseteq Keys
\* Every keyring holds the keys of records without a label.  Where one does not,
\* the spans its replica caches leave such a key out, and a replica put back on
\* that key is not refused.
ASSUME UnlabelledAssumption ==
    Unlabelled \subseteq Earlier /\ \A b \in Boots : Unlabelled \subseteq b.verifiers

VARIABLES
    records,      \* the stored records
    cursor,       \* the stored cursor; next_seq 0 stands for no cursor
    booted,       \* what each replica was started with
    calls,         \* the append each replica is in
    answered,     \* history: what each append answered
    issued        \* history: the checkpoints and tree heads signed

shardVars == <<records, cursor, booted, calls, answered, issued>>

-----------------------------------------------------------------------------
\* A chain hash stands for the entries it covers.
ShardHash == Seq(Nat)
SHARD_GENESIS == <<>>

\* signer is the key whose signature is on the record, kid the label beside it.
ShardRecord == [seq : Nat, entry : Nat, prev : ShardHash, signer : Keys, kid : Keys \cup {NoKid}]

ShardHashOf(r) == Append(r.prev, r.entry)

\* kid NoKid stands for the empty key id.
KeySpan == [kid : Keys \cup {NoKid}, first_seq : Nat]
ShardSigners == [through : Nat, spans : Seq(KeySpan)]
HeadCursor == [next_seq : Nat, last_hash : ShardHash, signers : SUBSET ShardSigners]

NoCursor == [next_seq |-> 0, last_hash |-> SHARD_GENESIS, signers |-> {}]

\* idle, or between the section that found no current spans and the one that
\* reads the history.
ShardCall == [pc : {"idle", "history"}, entry : Nat]
Idle == [pc |-> "idle", entry |-> 0]

Answer == {"asked", "recorded", "refused", "unknown"}

-----------------------------------------------------------------------------
(* Verification: verify_stored_records. *)

Extended(spans, kid, seq) ==
    IF spans # <<>> /\ spans[Len(spans)].kid = kid THEN spans
    ELSE Append(spans, [kid |-> kid, first_seq |-> seq])

\* The key a verifier holding keys takes the record to be signed by: the one
\* its label names if it signed, any that verifies when there is no label.
VerifiedSigner(r, keys) == {k \in keys : k = r.signer /\ r.kid \in {k, NoKid}}

\* The hash chain, the signatures, and a key never again after its successor.
VerifyStored(recs, keys) ==
    /\ \A i \in 1..Len(recs) :
          /\ recs[i].seq = i - 1
          /\ recs[i].prev = IF i = 1 THEN SHARD_GENESIS ELSE ShardHashOf(recs[i - 1])
    /\ keys = {} \/ /\ \A i \in 1..Len(recs) : VerifiedSigner(recs[i], keys) # {}
                    /\ \A i, j, k \in 1..Len(recs) :
                          i < j /\ j < k /\ recs[i].signer = recs[k].signer
                            => recs[j].signer = recs[i].signer

-----------------------------------------------------------------------------
(* Key spans, and the guard on extending a shard. *)

\* signer_of: the label as written, else a held key that verifies, else none.
SignerOf(r, verifiers) ==
    IF r.kid # NoKid THEN r.kid ELSE IF r.signer \in verifiers THEN r.signer ELSE NoKid

\* spans_of: a run of records attributed to one key is one span.
SpansOf(recs, verifiers) ==
    LET spans[i \in 0..Len(recs)] ==
            IF i = 0 THEN <<>>
            ELSE Extended(spans[i - 1], SignerOf(recs[i], verifiers), i - 1)
    IN  spans[Len(recs)]

\* current_spans: the cursor's, if they cover every record it counts.
CurrentSpans ==
    IF cursor = NoCursor THEN {<<>>}
    ELSE {s.spans : s \in {t \in cursor.signers : t.through = cursor.next_seq}}

\* Mutant: whoever holds the last signer may follow it.
MayExtendHeld(spans, b) == spans # <<>> => spans[Len(spans)].kid \in b.verifiers

\* may_extend: the last signer is this key, or one it holds that it has not
\* signed before.
MayExtend(spans, b) ==
    spans # <<>> =>
        LET last == spans[Len(spans)].kid IN
        \/ last = b.key
        \/ last \in b.verifiers /\ \A i \in 1..Len(spans) : spans[i].kid # b.key

\* seal: chained and signed onto the cursor, and the cursor after it.
Sealed(entry, b) ==
    [seq |-> cursor.next_seq, entry |-> entry, prev |-> cursor.last_hash,
     signer |-> b.key, kid |-> b.key]

CursorAfter(r, spans) ==
    [next_seq |-> r.seq + 1, last_hash |-> ShardHashOf(r),
     signers |-> {[through |-> r.seq + 1, spans |-> Extended(spans, r.kid, r.seq)]}]

-----------------------------------------------------------------------------
(* Append. *)

ShardInit ==
    /\ records = <<>> /\ cursor = NoCursor
    /\ booted \in [Replica -> Boots]
    /\ calls = [p \in Replica |-> Idle]
    /\ answered = <<>> /\ issued = {}

\* Replica p's append of entry e answers a.
Answered(p, e, a) ==
    /\ answered' = IF e > Len(answered) THEN Append(answered, a)
                   ELSE [answered EXCEPT ![e] = a]
    /\ calls' = [calls EXCEPT ![p] = Idle]

Commit(r, spans) == records' = Append(records, r) /\ cursor' = CursorAfter(r, spans)

\* The section of seal_into, after revise took the entry: a refusal commits
\* nothing, and the store commits and answers, fails without committing, or
\* fails having committed.
SealInto(p, spans, e) ==
    LET r == Sealed(e, booted[p]) IN
    \/ /\ ~MayExtend(spans, booted[p])
       /\ Answered(p, e, "refused") /\ UNCHANGED <<records, cursor>>
    \/ /\ MayExtend(spans, booted[p]) /\ Len(records) < MaxShardRecords
       /\ \/ Answered(p, e, "recorded") /\ Commit(r, spans)
          \/ Answered(p, e, "unknown") /\ Commit(r, spans)
          \/ Answered(p, e, "unknown") /\ UNCHANGED <<records, cursor>>

\* Mutant: the entry is kept for the second section when the store fails in
\* the first.
AppendHeadAgain(p) ==
    LET e == Len(answered) + 1 IN
    /\ calls[p].pc = "idle" /\ e <= MaxCalls /\ Len(records) < MaxShardRecords
    /\ answered' = Append(answered, "asked")
    /\ calls' = [calls EXCEPT ![p] = [pc |-> "history", entry |-> e]]
    /\ \A spans \in CurrentSpans : MayExtend(spans, booted[p])
    /\ \/ UNCHANGED <<records, cursor>>
       \/ \E spans \in CurrentSpans : Commit(Sealed(e, booted[p]), spans)
    /\ UNCHANGED <<booted, issued>>

\* append_revised: the section that reads the cursor alone.
AppendHead(p) ==
    LET e == Len(answered) + 1 IN
    /\ calls[p].pc = "idle" /\ e <= MaxCalls
    /\ \/ /\ CurrentSpans = {}
          /\ answered' = Append(answered, "asked")
          /\ calls' = [calls EXCEPT ![p] = [pc |-> "history", entry |-> e]]
          /\ UNCHANGED <<records, cursor>>
       \/ \E spans \in CurrentSpans : SealInto(p, spans, e)
    /\ UNCHANGED <<booted, issued>>

\* critical_section: the one that reads the history.
AppendHistory(p) ==
    /\ calls[p].pc = "history"
    /\ SealInto(p, SpansOf(records, booted[p].verifiers), calls[p].entry)
    /\ UNCHANGED <<booted, issued>>

\* revise refuses the entry, under the lock of the section that would seal it.
Revised(p) ==
    /\ \/ calls[p].pc = "history" /\ Answered(p, calls[p].entry, "refused")
       \/ /\ calls[p].pc = "idle" /\ CurrentSpans # {} /\ Len(answered) < MaxCalls
          /\ Answered(p, Len(answered) + 1, "refused")
    /\ UNCHANGED <<records, cursor, booted, issued>>

\* Mutant: the head and the records are read in two sections, with an append
\* between them.
SignAcross(p) ==
    /\ calls[p].pc = "idle" /\ Cardinality(issued) < MaxIssued
    /\ Len(records) < MaxShardRecords /\ Len(answered) < MaxCalls
    /\ \E spans \in CurrentSpans :
          /\ MayExtend(spans, booted[p])
          /\ Commit(Sealed(Len(answered) + 1, booted[p]), spans)
    /\ answered' = Append(answered, "recorded")
    /\ issued' = issued \cup {[root |-> cursor.last_hash, count |-> cursor.next_seq,
                               leaves |-> [i \in 1..Len(records') |-> ShardHashOf(records'[i])]]}
    /\ UNCHANGED <<booted, calls>>

\* checkpoint, tree_head and evidence_snapshot: what one section reads of the
\* head and of the records is signed after it.
Sign(p) ==
    /\ calls[p].pc = "idle" /\ Cardinality(issued) < MaxIssued
    /\ issued' = issued \cup {[root |-> cursor.last_hash, count |-> cursor.next_seq,
                               leaves |-> [i \in 1..Len(records) |-> ShardHashOf(records[i])]]}
    /\ UNCHANGED <<records, cursor, booted, calls, answered>>

\* A replica stops and is started again, with other keys or the same.
Boot(p, b) ==
    /\ booted' = [booted EXCEPT ![p] = b]
    /\ calls' = [calls EXCEPT ![p] = Idle]
    /\ UNCHANGED <<records, cursor, answered, issued>>

\* A writer of an earlier release, which keeps no spans: it drops the cursor's
\* or leaves them as they are, and labels its record or not.  It has no guard:
\* it is stopped before a later key is used.
EarlierAppend(k) ==
    /\ Len(records) < MaxShardRecords /\ Len(answered) < MaxCalls
    /\ \A i \in 1..Len(records) : records[i].signer < k \/ records[Len(records)].signer = k
    /\ \E kid \in {k} \cup (IF k \in Unlabelled THEN {NoKid} ELSE {}), kept \in {cursor.signers, {}} :
         LET r == [seq |-> cursor.next_seq, entry |-> Len(answered) + 1,
                   prev |-> cursor.last_hash, signer |-> k, kid |-> kid]
         IN  /\ records' = Append(records, r)
             /\ cursor' = [next_seq |-> r.seq + 1, last_hash |-> ShardHashOf(r), signers |-> kept]
    /\ answered' = Append(answered, "recorded")
    /\ UNCHANGED <<booted, calls, issued>>

ShardNext ==
    \/ \E p \in Replica : AppendHead(p) \/ AppendHistory(p) \/ Revised(p) \/ Sign(p)
    \/ \E p \in Replica, b \in Boots : Boot(p, b)
    \/ \E k \in Earlier : EarlierAppend(k)

ShardSpec == ShardInit /\ [][ShardNext]_shardVars

-----------------------------------------------------------------------------
\* The cursor counts the records and carries their head.
ShardTypeOK ==
    /\ \A i \in 1..Len(records) : records[i] \in ShardRecord
    /\ cursor \in [next_seq : {Len(records)}, last_hash : {IF records = <<>> THEN SHARD_GENESIS
                   ELSE ShardHashOf(records[Len(records)])}, signers : SUBSET ShardSigners]
    /\ booted \in [Replica -> Boots]
    /\ calls \in [Replica -> ShardCall]
    /\ \A e \in 1..Len(answered) : answered[e] \in Answer

\* Whichever replicas append, with whichever keys they were started, and
\* however their sections interleave (append_revised gives the lock back
\* between its two), the shard verifies under the keys together.
ShardVerifies == VerifyStored(records, Keys)

\* An append's entry is in the shard at most once, is there when the append
\* answered so, and is not there when it was refused: append_revised never
\* seals an entry in both of its sections.
RecordedAsAnswered ==
    \A e \in 1..Len(answered) :
        LET n == Cardinality({i \in 1..Len(records) : records[i].entry = e}) IN
        /\ n <= 1
        /\ answered[e] = "recorded" => n = 1
        /\ answered[e] = "refused" => n = 0

\* Every checkpoint and tree head a replica signed is extended by the shard for
\* good, and the two agree with each other (evidence_snapshot).
ExtendsIssued ==
    \A c \in issued :
        /\ c.count = Len(c.leaves) /\ c.count <= Len(records)
        /\ c.root = IF c.count = 0 THEN SHARD_GENESIS ELSE c.leaves[c.count]
        /\ \A i \in 1..c.count : c.leaves[i] = ShardHashOf(records[i])

\* A replica that holds every key that signed, and whose own key signed last or
\* never, is never refused: spans another replica cached do not lock it out.
HolderMayExtend ==
    \A p \in Replica :
        LET b == booted[p]
            spans == IF CurrentSpans = {} THEN {SpansOf(records, b.verifiers)} ELSE CurrentSpans
            signers == {records[i].signer : i \in 1..Len(records)}
        IN  /\ signers \subseteq b.verifiers
            /\ b.key \in signers => records[Len(records)].signer = b.key
            => \A s \in spans : MayExtend(s, b)

\* However replicas, releases and keys take turns in append_revised, the shard
\* verifies and nobody entitled to extend it is locked out.
ShardSound == ShardTypeOK /\ ShardVerifies /\ HolderMayExtend
=============================================================================
