------------------------------- MODULE Ledger -------------------------------
(***************************************************************************)
(* The single-file ledger of decern-ledger: one append-only file of signed, *)
(* hash-chained records, the processes that open it for writing, the anchor *)
(* file beside it, and the ways a process, the disk or an operator can      *)
(* interrupt them.                                                          *)
(*                                                                          *)
(* A record's hash is modelled as the history it commits to: the sequence   *)
(* of entries up to and including it.  Two hashes are equal exactly when    *)
(* the histories are, which is what collision resistance gives the code.    *)
(* A signature is the name of the key that made it.                         *)
(***************************************************************************)
EXTENDS Integers, Sequences, FiniteSets

CONSTANTS
    Proc,       \* processes that may open the ledger for writing
    Key,        \* signing keys
    Payload,    \* what a caller asks to record
    Sync,       \* Ledger::sync, TRUE in decern-serve (boot.rs)
    Faults,     \* which faults the environment has: "power", "truncate"
    Anchoring,  \* the opens a deployment makes: TRUE, anchored, or FALSE
    MaxLen,     \* bound on the records in the file
    MaxBatch,   \* bound on the entries of one append_all
    MaxIssued,  \* bound on the checkpoints signed
    MaxSealed   \* bound on the different checkpoints sealed as anchors

ASSUME KeysAssumption  == Key # {}
ASSUME SyncAssumption  == Sync \in BOOLEAN
ASSUME BoundAssumption ==
    MaxLen \in Nat /\ MaxBatch \in Nat
    /\ MaxIssued \in Nat /\ MaxSealed \in Nat

VARIABLES
    file,       \* the newline-terminated lines, as any process reads them
    frag,       \* what follows the last newline: see Fragment
    synced,     \* how many lines are known to survive a power loss
    anchor,     \* the anchor file: {} when absent, else {checkpoint}
    stable,     \* the contents the anchor file may have after a power loss
    handle,     \* each process's Ledger value
    call,       \* each process's append or append_all in progress
    acked,      \* history: the log as last acknowledged to a caller
    issued,     \* history: every checkpoint and tree head signed
    sealed      \* history: every checkpoint seal_anchor returned Ok for

vars == <<file, frag, synced, anchor, stable, handle, call, acked, issued,
          sealed>>

-----------------------------------------------------------------------------
(* Records, checkpoints and handles. *)

Entry == [seq : Nat, payload : Payload]

Hash == Seq(Entry)

GENESIS == <<>>

ChainHash(entry, prev) == Append(prev, entry)

Record == [parses : BOOLEAN, entry : Entry, prev : Hash, hash : Hash, kid : Key]

Checkpoint == [root : Hash, count : Nat, by : Key]

\* "none": the file is empty or ends in a newline.  "record": it ends in part
\* of one record.  "fused": a second write followed such a part.  "foreign":
\* it ends in something that does not begin a record.
Fragment == {"none", "record", "fused", "foreign"}

\* The keys that signed a log, as the succession rule uses them: the last
\* signer, and every signer another key has followed.
SignerState == [past : SUBSET Key, last : SUBSET Key]

Handle == [open      : BOOLEAN,
           key       : Key,
           verifiers : SUBSET Key,
           last_hash : Hash,
           next_seq  : Nat,
           signers   : SignerState,
           failed    : BOOLEAN]

\* pc: "idle", between calls; "write", about to write the next record;
\* "writing", some of its bytes may have reached the file; "written", all of
\* them have.  ok is FALSE once an entry of an append_all has failed.
Call == [pc : {"idle", "write", "writing", "written"}, todo : Seq(Payload),
         all : BOOLEAN, ok : BOOLEAN]

NoSigners == [past |-> {}, last |-> {}]

Closed == [open |-> FALSE, key |-> CHOOSE k \in Key : TRUE, verifiers |-> {},
           last_hash |-> GENESIS, next_seq |-> 0, signers |-> NoSigners,
           failed |-> FALSE]

Idle == [pc |-> "idle", todo |-> <<>>, all |-> FALSE, ok |-> TRUE]

-----------------------------------------------------------------------------
(* Verification: what every reader of the file checks. *)

HeadHash(f) == IF f = <<>> THEN GENESIS ELSE f[Len(f)].hash

\* The key that signed line i signed no line before another key's.
InSuccession(f, i) ==
    \A j \in 1..i : f[j].kid = f[i].kid =>
        \A m \in j..i : f[m].kid = f[i].kid

Chained(f, i) ==
    /\ f[i].parses
    /\ f[i].entry.seq = i - 1
    /\ f[i].prev = IF i = 1 THEN GENESIS ELSE f[i-1].hash
    /\ f[i].hash = ChainHash(f[i].entry, f[i].prev)

VerifyLines(f, keys) ==
    \A i \in 1..Len(f) : Chained(f, i) /\ f[i].kid \in keys /\ InSuccession(f, i)

SignersOf(f) ==
    LET last == IF f = <<>> THEN {} ELSE {f[Len(f)].kid}
    IN  [past |-> {f[i].kid : i \in 1..Len(f)} \ last, last |-> last]

\* The root over the first cp.count lines is still cp.root.
ExtendsCheckpoint(f, cp) ==
    /\ cp.count <= Len(f)
    /\ cp.root = IF cp.count = 0 THEN GENESIS ELSE f[cp.count].hash

TrustedAnchor(a, keys) == \A cp \in a : cp.by \in keys

-----------------------------------------------------------------------------
Init ==
    /\ file = <<>> /\ synced = 0
    /\ frag \in {"none", "foreign"}
    /\ anchor = {} /\ stable = {{}}
    /\ handle = [p \in Proc |-> Closed]
    /\ call = [p \in Proc |-> Idle]
    /\ acked = <<>> /\ issued = {} /\ sealed = {}

Free(p) == handle[p].open /\ call[p].pc = "idle"

\* flock on the ledger file, held as long as the handle lives.
LockSingleWriter == \A q \in Proc : ~handle[q].open

\* Mutant: an anchor is not consulted when the file ends in a torn record.
ResolveOpenHeadTornFirst(key, keys, anchored) ==
    /\ VerifyLines(file, keys)
    /\ anchored /\ frag = "none" => /\ TrustedAnchor(anchor, keys)
                                    /\ \A cp \in anchor : ExtendsCheckpoint(file, cp)
    /\ key \notin SignersOf(file).past
    /\ frag # "foreign"

\* Mutant: a torn record is refused, as any other fault in the file is.
ResolveOpenHeadUnhealed(key, keys, anchored) ==
    /\ VerifyLines(file, keys)
    /\ anchored => /\ TrustedAnchor(anchor, keys)
                   /\ \A cp \in anchor : ExtendsCheckpoint(file, cp)
    /\ key \notin SignersOf(file).past
    /\ frag = "none"

\* resolve_open_head: the anchor, then the key, are judged before the torn
\* tail is; only a tail that begins a record is ever cut off.
ResolveOpenHead(key, keys, anchored) ==
    /\ VerifyLines(file, keys)
    /\ anchored => /\ TrustedAnchor(anchor, keys)
                   /\ \A cp \in anchor : ExtendsCheckpoint(file, cp)
    /\ key \notin SignersOf(file).past
    /\ frag # "foreign"

\* The fragment is cut off and the file synced; a clean file is not.
HealTornTail ==
    /\ frag' = "none"
    /\ synced' = IF frag = "none" THEN synced ELSE Len(file)

\* open_with_verifiers, or with an anchor open_anchored.
Open(p, key, retired, anchored) ==
    LET keys == retired \cup {key} IN
    /\ LockSingleWriter
    /\ ResolveOpenHead(key, keys, anchored)
    /\ HealTornTail
    /\ handle' = [handle EXCEPT ![p] =
           [open |-> TRUE, key |-> key, verifiers |-> keys,
            last_hash |-> HeadHash(file), next_seq |-> Len(file),
            signers |-> SignersOf(file), failed |-> FALSE]]
    /\ UNCHANGED <<file, anchor, stable, call, acked, issued, sealed>>

\* heal_torn_tail cuts the fragment off and its sync fails, or the process is
\* killed there: the open returns an error and the lock is released.
HealFailed(key, retired, anchored) ==
    /\ LockSingleWriter
    /\ ResolveOpenHead(key, retired \cup {key}, anchored)
    /\ frag # "none"
    /\ frag' = "none"
    /\ UNCHANGED <<file, synced, anchor, stable, handle, call, acked, issued, sealed>>

-----------------------------------------------------------------------------
(* append and append_all, one step per effect on the file. *)

\* An append on a failed handle is refused before it changes anything.
AppendOne(p, e) ==
    /\ Free(p)
    /\ ~handle[p].failed
    /\ Len(file) < MaxLen
    /\ call' = [call EXCEPT ![p] = [pc |-> "write", todo |-> <<e>>,
                                    all |-> FALSE, ok |-> TRUE]]
    /\ UNCHANGED <<file, frag, synced, anchor, stable, handle, acked, issued, sealed>>

\* append_all goes on to its sync even when its first entry is refused.
AppendAll(p, es) ==
    /\ Free(p)
    /\ Len(file) + Len(es) <= MaxLen
    /\ call' = [call EXCEPT ![p] =
           [pc |-> IF handle[p].failed THEN "written" ELSE "write",
            todo |-> es, all |-> TRUE, ok |-> ~handle[p].failed]]
    /\ UNCHANGED <<file, frag, synced, anchor, stable, handle, acked, issued, sealed>>

\* The record the next append writes.
NextRecord(p) ==
    LET entry == [seq |-> handle[p].next_seq, payload |-> Head(call[p].todo)]
    IN  [parses |-> frag = "record",
         entry  |-> entry,
         prev   |-> handle[p].last_hash,
         hash   |-> ChainHash(entry, handle[p].last_hash),
         kid    |-> handle[p].key]

\* The signers once a record of this key follows.
Followed(signers, kid) ==
    IF signers.last = {kid} THEN signers
    ELSE [past |-> signers.past \cup signers.last, last |-> {kid}]

\* The head as append leaves it in memory.
Advance(h, record) ==
    [h EXCEPT !.last_hash = record.hash,
              !.next_seq = h.next_seq + 1,
              !.signers = Followed(h.signers, h.key)]

\* write_all's first bytes reach the file.
WriteStart(p) ==
    /\ call[p].pc = "write"
    /\ frag' = IF frag = "none" THEN "record" ELSE "fused"
    /\ call' = [call EXCEPT ![p].pc = "writing"]
    /\ UNCHANGED <<file, synced, anchor, stable, handle, acked, issued, sealed>>

\* The line and its newline are all in the file.  append returns to append_all
\* without a sync, so there the head advances at once.
WriteLine(p) ==
    /\ call[p].pc = "writing"
    /\ file' = Append(file, NextRecord(p))
    /\ frag' = "none"
    /\ IF call[p].all
       THEN /\ handle' = [handle EXCEPT ![p] = Advance(@, NextRecord(p))]
            /\ call' = [call EXCEPT
                   ![p].todo = Tail(@),
                   ![p].pc = IF Tail(call[p].todo) = <<>> THEN "written" ELSE "write"]
       ELSE /\ UNCHANGED handle
            /\ call' = [call EXCEPT ![p].pc = "written"]
    /\ UNCHANGED <<synced, anchor, stable, acked, issued, sealed>>

\* Mutant: a failed write leaves the handle usable.
WriteFailedUnmarked(p) ==
    /\ call[p].pc = "writing"
    /\ frag' \in {frag, IF frag = "record" THEN "none" ELSE "record"}
    /\ call' = [call EXCEPT ![p] =
           IF @.all THEN [@ EXCEPT !.pc = "written", !.ok = FALSE] ELSE Idle]
    /\ UNCHANGED <<file, synced, anchor, stable, handle, acked, issued, sealed>>

\* A write error: none or part of the line is in the file.
WriteFailed(p) ==
    /\ call[p].pc = "writing"
    /\ frag' \in {frag, IF frag = "record" THEN "none" ELSE "record"}
    /\ handle' = [handle EXCEPT ![p].failed = TRUE]
    /\ call' = [call EXCEPT ![p] =
           IF @.all THEN [@ EXCEPT !.pc = "written", !.ok = FALSE] ELSE Idle]
    /\ UNCHANGED <<file, synced, anchor, stable, acked, issued, sealed>>

\* Mutant: append_all returns with sync still off.
FinishAllUnsynced(p) ==
    /\ call[p].pc = "written"
    /\ synced' = IF Sync /\ ~call[p].all THEN Len(file) ELSE synced
    /\ handle' = IF call[p].all THEN handle
                 ELSE [handle EXCEPT ![p] = Advance(@, file[Len(file)])]
    /\ acked' = IF call[p].ok THEN SubSeq(file, 1, handle'[p].next_seq) ELSE acked
    /\ call' = [call EXCEPT ![p] = Idle]
    /\ UNCHANGED <<file, frag, anchor, stable, issued, sealed>>

\* The sync, when sync is on, and the return to the caller.
Finish(p) ==
    /\ call[p].pc = "written"
    /\ synced' = IF Sync THEN Len(file) ELSE synced
    /\ handle' = IF call[p].all THEN handle
                 ELSE [handle EXCEPT ![p] = Advance(@, file[Len(file)])]
    /\ acked' = IF call[p].ok THEN SubSeq(file, 1, handle'[p].next_seq) ELSE acked
    /\ call' = [call EXCEPT ![p] = Idle]
    /\ UNCHANGED <<file, frag, anchor, stable, issued, sealed>>

\* The sync returns an error: the caller is told nothing landed.
SyncFailed(p) ==
    /\ Sync
    /\ call[p].pc = "written"
    /\ handle' = [handle EXCEPT ![p].failed = TRUE]
    /\ call' = [call EXCEPT ![p] = Idle]
    /\ UNCHANGED <<file, frag, synced, anchor, stable, acked, issued, sealed>>

-----------------------------------------------------------------------------
(* Rotation and commitments. *)

\* Mutant: any key may take over, one that was already followed too.
RotateBack(p, k) ==
    /\ Free(p)
    /\ handle' = [handle EXCEPT ![p].key = k, ![p].verifiers = @ \cup {k}]
    /\ UNCHANGED <<file, frag, synced, anchor, stable, call, acked, issued, sealed>>

\* rotate: refused for a key that another has followed.
Rotate(p, k) ==
    /\ Free(p)
    /\ k \notin handle[p].signers.past
    /\ handle' = [handle EXCEPT ![p].key = k, ![p].verifiers = @ \cup {k}]
    /\ UNCHANGED <<file, frag, synced, anchor, stable, call, acked, issued, sealed>>

CheckpointOf(h) == [root |-> h.last_hash, count |-> h.next_seq, by |-> h.key]

\* checkpoint, snapshot_for_bundle, and the tree head over the same prefix.
SignCheckpoint(p) ==
    /\ Free(p)
    /\ Cardinality(issued) < MaxIssued
    /\ issued' = issued \cup {CheckpointOf(handle[p])}
    /\ UNCHANGED <<file, frag, synced, anchor, stable, handle, call, acked, sealed>>

\* seal_anchor: the rename lands; its directory sync succeeds or does not.
SealAnchor(p) ==
    /\ Free(p)
    /\ TRUE \in Anchoring
    /\ anchor' = {CheckpointOf(handle[p])}
    /\ Cardinality(sealed \cup UNION stable \cup anchor') <= MaxSealed
    /\ \/ stable' = {anchor'} /\ sealed' = sealed \cup anchor'
       \/ stable' = stable \cup {anchor'} /\ UNCHANGED sealed
    /\ UNCHANGED <<file, frag, synced, handle, call, acked, issued>>

-----------------------------------------------------------------------------
(* Faults. *)

\* The process is killed or drops its handle: what it wrote stays in the file.
Stop(p) ==
    /\ handle[p].open
    /\ handle' = [handle EXCEPT ![p] = Closed]
    /\ call' = [call EXCEPT ![p] = Idle]
    /\ UNCHANGED <<file, frag, synced, anchor, stable, acked, issued, sealed>>

\* Every process dies; what was not synced may be lost, the last surviving
\* line in part.
PowerLoss ==
    /\ "power" \in Faults
    /\ \E n \in synced..Len(file) :
         /\ file' = SubSeq(file, 1, n)
         /\ synced' = n
         /\ \/ n = Len(file) /\ frag' = frag
            \/ frag \in {"record", "fused"} /\ frag' \in {"none", "record"}
            \/ n < Len(file) /\ frag' \in {"none", "record"}
    /\ anchor' \in stable
    /\ stable' = {anchor'}
    /\ handle' = [p \in Proc |-> Closed]
    /\ call' = [p \in Proc |-> Idle]
    /\ UNCHANGED <<acked, issued, sealed>>

\* The file, at rest, loses its tail, at a line boundary or raggedly.
Truncate ==
    /\ "truncate" \in Faults
    /\ LockSingleWriter
    /\ \E n \in 0..(Len(file) - 1) :
         /\ file' = SubSeq(file, 1, n)
         /\ synced' = n
    /\ frag' \in {"none", "record"}
    /\ UNCHANGED <<anchor, stable, handle, call, acked, issued, sealed>>

-----------------------------------------------------------------------------
Batch == UNION {[1..n -> Payload] : n \in 1..MaxBatch}

Next ==
    \/ \E p \in Proc :
         \/ \E key \in Key, retired \in SUBSET Key, anchored \in Anchoring :
                \/ Open(p, key, retired, anchored)
                \/ HealFailed(key, retired, anchored)
         \/ \E e \in Payload : AppendOne(p, e)
         \/ \E es \in Batch : AppendAll(p, es)
         \/ WriteStart(p) \/ WriteLine(p) \/ WriteFailed(p)
         \/ Finish(p) \/ SyncFailed(p)
         \/ \E k \in Key : Rotate(p, k)
         \/ SignCheckpoint(p) \/ SealAnchor(p)
         \/ Stop(p)
    \/ PowerLoss
    \/ Truncate

Spec == Init /\ [][Next]_vars

\* A process whose ledger has failed answers its health check 503 and is
\* restarted, and some process keeps trying to open a ledger none holds.
FairSpec ==
    /\ Spec
    /\ \A p \in Proc : WF_vars(handle[p].failed /\ Stop(p))
    /\ WF_vars(\E p \in Proc, key \in Key, retired \in SUBSET Key,
                  anchored \in Anchoring : Open(p, key, retired, anchored))

-----------------------------------------------------------------------------
(* Properties. *)

\* Every variable has its type, and what is durable is part of the file.
TypeOK ==
    /\ file \in Seq(Record)
    /\ frag \in Fragment
    /\ synced \in 0..Len(file)
    /\ anchor \in SUBSET Checkpoint /\ stable \in SUBSET SUBSET Checkpoint
    /\ handle \in [Proc -> Handle]
    /\ call \in [Proc -> Call]
    /\ acked \in Seq(Record)
    /\ issued \in SUBSET Checkpoint /\ sealed \in SUBSET Checkpoint

\* Whatever was interrupted, and whoever wrote, the terminated lines verify
\* under the keyring of every key: no fork, no gap, no record appended behind
\* part of another, and no key that signs again after its successor.
Intact == VerifyLines(file, Key)

Agrees(h, f) ==
    h.last_hash = HeadHash(f) /\ h.next_seq = Len(f) /\ h.signers = SignersOf(f)

\* What holds of one process's handle and call.
WriterAgrees(h, c) ==
    /\ c.pc # "idle" => h.open
    /\ h.key \notin h.signers.past
    /\ c.pc \in {"write", "writing"} => c.todo # <<>> /\ ~h.failed
    /\ c.pc = "written" /\ (c.ok \/ ~c.all) => ~h.failed
    /\ h.open /\ ~h.failed =>
         /\ frag = IF c.pc = "writing" THEN "record" ELSE "none"
         /\ IF c.pc = "written" /\ ~c.all
            THEN /\ file # <<>>
                 /\ file[Len(file)].kid = h.key
                 /\ Agrees(Advance(h, file[Len(file)]), file)
            ELSE Agrees(h, file)

\* At most one process holds the ledger, and until a write of its own fails
\* its head is the file's: a record it has written and not yet synced is the
\* one it is about to adopt, and no failed write lets the next append start
\* from a head, or behind a fragment, that is not the file's.
HeadAgrees ==
    /\ \A p, q \in Proc : handle[p].open /\ handle[q].open => p = q
    /\ \A p \in Proc : WriterAgrees(handle[p], call[p])

StartsWith(f, g) == Len(g) <= Len(f) /\ \A i \in 1..Len(g) : f[i] = g[i]

\* A record an append or append_all returned Ok for is never lost, moved or
\* changed, nor is any record before it: across kills and reopens always,
\* across power losses when sync is on.  Only cutting the file at rest can.
AckedSurvive ==
    "truncate" \notin Faults /\ (Sync \/ "power" \notin Faults)
        => StartsWith(file, acked)

\* The log extends every checkpoint and tree head ever signed over it.
ExtendsPastCheckpoints == \A cp \in issued : ExtendsCheckpoint(file, cp)

\* Where every open is anchored, a ledger open for writing still holds every
\* record below every height seal_anchor reported committed, even if the file
\* was cut, power was lost, or a later anchor write was undone.
AnchorsHold ==
    (\E p \in Proc : handle[p].open) /\ Anchoring = {TRUE}
        => \A cp \in sealed : ExtendsCheckpoint(file, cp)

\* A ledger no process holds can be opened by the key that signs it now: a
\* crash, at whatever step, is healed and never taken for tampering.
Reopenable ==
    LockSingleWriter /\ frag # "foreign"
        => \E key \in Key : ResolveOpenHead(key, Key, FALSE)

\* A ledger stopped by a write error comes back: after a restart some process
\* holds it again and can append.
Recovers ==
    (\E p \in Proc : handle[p].failed)
        ~> (\E p \in Proc : handle[p].open /\ ~handle[p].failed)

\* What the ledger promises its callers, as a log that may lose only what it
\* has not promised.
D == INSTANCE DurableLog WITH Item <- Record, log <- file, promised <- Len(acked)

\* With sync on, and nobody cutting the file at rest, the ledger is such a log.
ImplementsDurableLog == D!Spec

\* The ledger's inductive invariant: under any interleaving of partial writes,
\* failed syncs, kills, power losses, rotations and reopens the file is one
\* verifiable chain and an unfailed writer's head is the file's.  Neither holds
\* by itself across an append.
IInv == TypeOK /\ Intact /\ HeadAgrees
=============================================================================
