---------------------------- MODULE LedgerProofs ----------------------------
(* Proofs about Ledger, for every set of processes, keys and payloads. *)
EXTENDS Ledger, SequenceTheorems, WellFoundedInduction, TLAPS

-----------------------------------------------------------------------------
(* Types of the values the actions build. *)

\* The value of a handle that is not open is a handle.
LEMMA ClosedType == Closed \in Handle
  BY KeysAssumption DEF Closed, Handle, Hash, GENESIS, SignerState, NoSigners

\* The value of a call that is not running is a call.
LEMMA IdleType == Idle \in Call
  BY DEF Idle, Call

\* The last element of a log that has one is a record.
LEMMA LastType ==
    ASSUME NEW f \in Seq(Record), f # <<>>
    PROVE  /\ Len(f) \in 1..Len(f)
           /\ f[Len(f)] \in Record
  OBVIOUS

\* The head an open adopts from a log is a hash.
LEMMA HeadHashType ==
    ASSUME NEW f \in Seq(Record)
    PROVE  HeadHash(f) \in Hash
  <1>1. CASE f = <<>>
    BY <1>1 DEF HeadHash, Hash, GENESIS
  <1>2. CASE f # <<>>
    BY <1>2, LastType DEF HeadHash, Record
  <1>. QED BY <1>1, <1>2

\* The signers an open collects from a log are a signer state.
LEMMA SignersOfType ==
    ASSUME NEW f \in Seq(Record)
    PROVE  SignersOf(f) \in SignerState
  <1>0. \A i \in 1..Len(f) : f[i] \in Record
    OBVIOUS
  <1>1. \A i \in 1..Len(f) : f[i].kid \in Key
    BY <1>0 DEF Record
  <1>2. {f[i].kid : i \in 1..Len(f)} \in SUBSET Key
    BY <1>1
  <1>3. f # <<>> => f[Len(f)].kid \in Key
    BY LastType DEF Record
  <1>. QED BY <1>2, <1>3 DEF SignersOf, SignerState

\* Hashing an entry onto a hash gives a hash.
LEMMA ChainHashType ==
    ASSUME NEW e \in Entry, NEW h \in Hash
    PROVE  ChainHash(e, h) \in Hash
  BY DEF ChainHash, Hash

\* A handle whose head has advanced over a record is a handle.
LEMMA AdvanceType ==
    ASSUME NEW h \in Handle, NEW r \in Record
    PROVE  Advance(h, r) \in Handle
  <1>1. r.hash \in Hash
    BY DEF Record
  <1>2. h.next_seq + 1 \in Nat
    BY DEF Handle
  <1>3. Followed(h.signers, h.key) \in SignerState
    BY DEF Handle, SignerState, Followed
  <1>. QED BY <1>1, <1>2, <1>3 DEF Handle, Advance

\* A prefix of a log is a log.
LEMMA SubSeqType ==
    ASSUME NEW f \in Seq(Record), NEW n \in 0..Len(f)
    PROVE  /\ SubSeq(f, 1, n) \in Seq(Record)
           /\ Len(SubSeq(f, 1, n)) = n
           /\ \A i \in 1..n : SubSeq(f, 1, n)[i] = f[i]
  OBVIOUS

\* A log with a record added is a log, and what it held before stays.
LEMMA AppendType ==
    ASSUME NEW f \in Seq(Record), NEW r \in Record
    PROVE  /\ Append(f, r) \in Seq(Record)
           /\ Append(f, r) # <<>>
           /\ Len(Append(f, r)) = Len(f) + 1
           /\ \A i \in 1..Len(f) : Append(f, r)[i] = f[i]
           /\ Append(f, r)[Len(f) + 1] = r
  OBVIOUS

-----------------------------------------------------------------------------
(* Type correctness. *)

\* A batch is a sequence of payloads that is not empty.
LEMMA BatchType ==
    ASSUME NEW es \in Batch
    PROVE  es \in Seq(Payload) /\ es # <<>>
  <1>1. PICK n \in 1..MaxBatch : es \in [1..n -> Payload]
    BY DEF Batch
  <1>2. n \in Nat /\ n >= 1
    BY BoundAssumption
  <1>. QED BY <1>1, <1>2

\* The record an append in progress writes is a record.
LEMMA NextRecordType ==
    ASSUME TypeOK, NEW p \in Proc, call[p].todo # <<>>
    PROVE  NextRecord(p) \in Record
  <1>1. handle[p] \in Handle /\ call[p].todo \in Seq(Payload)
    BY DEF TypeOK, Call
  <1>2. Head(call[p].todo) \in Payload
    BY <1>1
  <1>. DEFINE e == [seq |-> handle[p].next_seq, payload |-> Head(call[p].todo)]
  <1>3. e \in Entry
    BY <1>1, <1>2 DEF Entry, Handle
  <1>4. handle[p].last_hash \in Hash /\ handle[p].key \in Key
    BY <1>1 DEF Handle
  <1>5. ChainHash(e, handle[p].last_hash) \in Hash
    BY <1>3, <1>4, ChainHashType
  <1>. HIDE DEF e
  <1>6. (frag = "record") \in BOOLEAN
    OBVIOUS
  <1>7. NextRecord(p) = [parses |-> frag = "record", entry |-> e,
                         prev |-> handle[p].last_hash,
                         hash |-> ChainHash(e, handle[p].last_hash),
                         kid |-> handle[p].key]
    BY DEF NextRecord, e
  <1>. QED BY <1>3, <1>4, <1>5, <1>6, <1>7 DEF Record

\* What checkpoint and seal_anchor sign is a checkpoint.
LEMMA CheckpointType ==
    ASSUME NEW h \in Handle
    PROVE  CheckpointOf(h) \in Checkpoint
  BY DEF CheckpointOf, Checkpoint, Handle

\* The handle a successful open returns.
LEMMA OpenedType ==
    ASSUME TypeOK, NEW key \in Key, NEW retired \in SUBSET Key
    PROVE  [open |-> TRUE, key |-> key, verifiers |-> retired \cup {key},
            last_hash |-> HeadHash(file), next_seq |-> Len(file),
            signers |-> SignersOf(file), failed |-> FALSE] \in Handle
  <1>1. HeadHash(file) \in Hash /\ SignersOf(file) \in SignerState
    BY HeadHashType, SignersOfType DEF TypeOK
  <1>2. Len(file) \in Nat
    BY DEF TypeOK
  <1>. QED BY <1>1, <1>2 DEF Handle

\* Where an append or append_all returns Ok, the head it leaves in memory
\* counts every line of the file.
LEMMA FinishHead ==
    ASSUME TypeOK, HeadAgrees, NEW p \in Proc, Finish(p), call[p].ok
    PROVE  handle'[p].next_seq = Len(file)
  <1>0. handle \in [Proc -> Handle] /\ call[p].pc = "written"
    BY DEF TypeOK, Finish
  <1>1. WriterAgrees(handle[p], call[p]) /\ handle[p].open /\ ~handle[p].failed
    BY <1>0 DEF HeadAgrees, WriterAgrees
  <1>2. CASE call[p].all
    BY <1>0, <1>1, <1>2 DEF Finish, WriterAgrees, Agrees
  <1>3. CASE ~call[p].all
    <2>1. Advance(handle[p], file[Len(file)]).next_seq = Len(file)
      BY <1>0, <1>1, <1>3 DEF WriterAgrees, Agrees
    <2>. QED BY <1>0, <1>3, <2>1 DEF Finish
  <1>. QED BY <1>2, <1>3

\* Every action keeps the type of every variable.
LEMMA TypeStep ==
    ASSUME TypeOK, HeadAgrees, [Next]_vars
    PROVE  TypeOK'
  <1>. USE DEF TypeOK
  <1>1. ASSUME NEW p \in Proc, NEW key \in Key, NEW retired \in SUBSET Key,
               NEW anchored \in Anchoring, Open(p, key, retired, anchored)
        PROVE  TypeOK'
    <2>1. handle' \in [Proc -> Handle]
      BY <1>1, OpenedType DEF Open
    <2>2. synced' \in 0..Len(file')
      BY <1>1 DEF Open, HealTornTail
    <2>. QED BY <1>1, <2>1, <2>2 DEF Open, HealTornTail, Fragment
  <1>2. ASSUME NEW key \in Key, NEW retired \in SUBSET Key,
               NEW anchored \in Anchoring, HealFailed(key, retired, anchored)
        PROVE  TypeOK'
    BY <1>2 DEF HealFailed, Fragment
  <1>3. ASSUME NEW p \in Proc, NEW e \in Payload, AppendOne(p, e)
        PROVE  TypeOK'
    <2>1. <<e>> \in Seq(Payload)
      OBVIOUS
    <2>. QED BY <1>3, <2>1 DEF AppendOne, Call
  <1>4. ASSUME NEW p \in Proc, NEW es \in Batch, AppendAll(p, es)
        PROVE  TypeOK'
    <2>1. handle[p].failed \in BOOLEAN
      BY DEF Handle
    <2>2. call' \in [Proc -> Call]
      BY <1>4, <2>1, BatchType DEF AppendAll, Call
    <2>. QED BY <1>4, <2>2 DEF AppendAll
  <1>5. ASSUME NEW p \in Proc, WriteStart(p)
        PROVE  TypeOK'
    BY <1>5 DEF WriteStart, Call, Fragment
  <1>6. ASSUME NEW p \in Proc, WriteLine(p)
        PROVE  TypeOK'
    <2>1. call[p].todo # <<>> /\ call[p] \in Call /\ handle[p] \in Handle
      BY <1>6 DEF HeadAgrees, WriterAgrees, WriteLine
    <2>2. NextRecord(p) \in Record
      BY <2>1, NextRecordType
    <2>3. Tail(call[p].todo) \in Seq(Payload)
      BY <2>1 DEF Call
    <2>4. file' \in Seq(Record) /\ Len(file') = Len(file) + 1
      BY <1>6, <2>2, AppendType DEF WriteLine
    <2>5. Advance(handle[p], NextRecord(p)) \in Handle
      BY <2>1, <2>2, AdvanceType
    <2>6. handle' \in [Proc -> Handle]
      BY <1>6, <2>5 DEF WriteLine
    <2>7. call' \in [Proc -> Call]
      <3>1. CASE call[p].all
        <4>. DEFINE pc == IF Tail(call[p].todo) = <<>> THEN "written" ELSE "write"
        <4>1. pc \in {"idle", "write", "writing", "written"}
          OBVIOUS
        <4>2. call' = [call EXCEPT ![p].todo = Tail(@), ![p].pc = pc]
          BY <1>6, <3>1 DEF WriteLine
        <4>. HIDE DEF pc
        <4>. QED BY <2>1, <2>3, <4>1, <4>2 DEF Call
      <3>2. CASE ~call[p].all
        BY <1>6, <3>2 DEF WriteLine, Call
      <3>. QED BY <3>1, <3>2
    <2>. QED BY <1>6, <2>4, <2>6, <2>7 DEF WriteLine, Fragment
  <1>7. ASSUME NEW p \in Proc, WriteFailed(p)
        PROVE  TypeOK'
    <2>1. handle' \in [Proc -> Handle]
      BY <1>7 DEF WriteFailed, Handle
    <2>2. call' \in [Proc -> Call]
      BY <1>7, IdleType DEF WriteFailed, Call
    <2>. QED BY <1>7, <2>1, <2>2 DEF WriteFailed, Fragment
  <1>8. ASSUME NEW p \in Proc, Finish(p)
        PROVE  TypeOK'
    <2>1. handle' \in [Proc -> Handle]
      <3>1. CASE call[p].all
        BY <1>8, <3>1 DEF Finish
      <3>2. CASE ~call[p].all
        <4>1. file # <<>>
          BY <1>8, <3>2 DEF Finish, HeadAgrees, WriterAgrees
        <4>2. Advance(handle[p], file[Len(file)]) \in Handle
          BY <4>1, LastType, AdvanceType
        <4>. QED BY <1>8, <3>2, <4>2 DEF Finish
      <3>. QED BY <3>1, <3>2
    <2>2. acked' \in Seq(Record)
      <3>1. CASE ~call[p].ok
        BY <1>8, <3>1 DEF Finish
      <3>2. CASE call[p].ok
        <4>1. handle'[p].next_seq = Len(file)
          BY <1>8, <3>2, FinishHead
        <4>. QED BY <1>8, <3>2, <4>1, SubSeqType DEF Finish
      <3>. QED BY <3>1, <3>2
    <2>3. call' \in [Proc -> Call]
      BY <1>8, IdleType DEF Finish
    <2>. QED BY <1>8, <2>1, <2>2, <2>3 DEF Finish
  <1>9. ASSUME NEW p \in Proc, SyncFailed(p)
        PROVE  TypeOK'
    <2>1. handle' \in [Proc -> Handle]
      BY <1>9 DEF SyncFailed, Handle
    <2>. QED BY <1>9, <2>1, IdleType DEF SyncFailed
  <1>10. ASSUME NEW p \in Proc, NEW k \in Key, Rotate(p, k)
         PROVE  TypeOK'
    <2>1. handle' \in [Proc -> Handle]
      BY <1>10 DEF Rotate, Handle
    <2>. QED BY <1>10, <2>1 DEF Rotate
  <1>11. ASSUME NEW p \in Proc, SignCheckpoint(p)
         PROVE  TypeOK'
    BY <1>11, CheckpointType DEF SignCheckpoint
  <1>12. ASSUME NEW p \in Proc, SealAnchor(p)
         PROVE  TypeOK'
    BY <1>12, CheckpointType DEF SealAnchor
  <1>13. ASSUME NEW p \in Proc, Stop(p)
         PROVE  TypeOK'
    BY <1>13, ClosedType, IdleType DEF Stop
  <1>14. CASE PowerLoss
    <2>1. PICK n \in synced..Len(file) :
            /\ file' = SubSeq(file, 1, n)
            /\ synced' = n
            /\ frag' \in {frag, "none", "record"}
      BY <1>14 DEF PowerLoss
    <2>2. n \in 0..Len(file)
      OBVIOUS
    <2>3. file' \in Seq(Record) /\ synced' \in 0..Len(file')
      BY <2>1, <2>2, SubSeqType
    <2>. QED BY <1>14, <2>1, <2>3, ClosedType, IdleType DEF PowerLoss, Fragment
  <1>15. CASE Truncate
    <2>1. PICK n \in 0..(Len(file) - 1) : file' = SubSeq(file, 1, n) /\ synced' = n
      BY <1>15 DEF Truncate
    <2>2. n \in 0..Len(file)
      OBVIOUS
    <2>3. file' \in Seq(Record) /\ synced' \in 0..Len(file')
      BY <2>1, <2>2, SubSeqType
    <2>. QED BY <1>15, <2>3 DEF Truncate, Fragment
  <1>16. CASE UNCHANGED vars
    BY <1>16 DEF vars
  <1>. QED BY <1>1, <1>2, <1>3, <1>4, <1>5, <1>6, <1>7, <1>8, <1>9, <1>10,
              <1>11, <1>12, <1>13, <1>14, <1>15, <1>16 DEF Next

-----------------------------------------------------------------------------
(* What verification makes of a log that grows or is cut. *)

\* A log that verifies still does when its tail is cut off.
LEMMA PrefixVerifies ==
    ASSUME NEW f \in Seq(Record), NEW n \in 0..Len(f), VerifyLines(f, Key)
    PROVE  VerifyLines(SubSeq(f, 1, n), Key)
  <1>. DEFINE g == SubSeq(f, 1, n)
  <1>1. Len(g) = n /\ \A i \in 1..n : g[i] = f[i]
    BY SubSeqType
  <1>. HIDE DEF g
  <1>2. ASSUME NEW i \in 1..n
        PROVE  Chained(g, i) /\ g[i].kid \in Key /\ InSuccession(g, i)
    <2>1. Chained(f, i) /\ f[i].kid \in Key /\ InSuccession(f, i)
      BY DEF VerifyLines
    <2>2. i \in 1..Len(f) /\ g[i] = f[i] /\ (i # 1 => g[i-1] = f[i-1])
      BY <1>1
    <2>3. \A j \in 1..i : g[j] = f[j]
      BY <1>1
    <2>4. InSuccession(g, i)
      <3>. SUFFICES ASSUME NEW j \in 1..i, g[j].kid = g[i].kid,
                           NEW m \in j..i
                    PROVE  g[m].kid = g[i].kid
        BY DEF InSuccession
      <3>1. m \in 1..i
        OBVIOUS
      <3>. QED BY <2>1, <2>2, <2>3, <3>1 DEF InSuccession
    <2>. QED BY <2>1, <2>2, <2>4 DEF Chained
  <1>. QED BY <1>1, <1>2 DEF VerifyLines, g

\* The signers of a log with a record added.
LEMMA SignersOfAppend ==
    ASSUME NEW f \in Seq(Record), NEW r \in Record
    PROVE  /\ r.kid \notin SignersOf(f).past =>
                SignersOf(Append(f, r)) = Followed(SignersOf(f), r.kid)
           /\ r.kid \notin SignersOf(Append(f, r)).past
  <1>. DEFINE g == Append(f, r)
              K(h) == {h[i].kid : i \in 1..Len(h)}
  <1>1. g # <<>> /\ Len(g) = Len(f) + 1 /\ g[Len(f) + 1] = r
        /\ \A i \in 1..Len(f) : g[i] = f[i]
    BY AppendType
  <1>. HIDE DEF g
  <1>2. K(g) = K(f) \cup {r.kid}
    <2>1. \A i \in 1..Len(g) : i \in 1..Len(f) \/ i = Len(f) + 1
      BY <1>1
    <2>2. \A i \in 1..Len(f) : i \in 1..Len(g)
      BY <1>1
    <2>3. Len(f) + 1 \in 1..Len(g)
      BY <1>1
    <2>4. ASSUME NEW x \in K(g) PROVE x \in K(f) \cup {r.kid}
      BY <1>1, <2>1
    <2>5. ASSUME NEW x \in K(f) PROVE x \in K(g)
      BY <1>1, <2>2
    <2>6. r.kid \in K(g)
      BY <1>1, <2>3
    <2>. QED BY <2>4, <2>5, <2>6
  <1>3. SignersOf(g) = [past |-> K(g) \ {r.kid}, last |-> {r.kid}]
    BY <1>1 DEF SignersOf
  <1>. HIDE DEF K
  <1>4. ASSUME r.kid \notin SignersOf(f).past
        PROVE  SignersOf(g) = Followed(SignersOf(f), r.kid)
    <2>1. CASE f = <<>>
      <3>1. 1..Len(f) = {}
        BY <2>1
      <3>2. K(f) = {}
        BY <3>1 DEF K
      <3>3. K(f) \ {} = {}
        BY <3>2
      <3>4. SignersOf(f) = [past |-> K(f) \ {}, last |-> {}]
        BY <2>1 DEF SignersOf, K
      <3>5. SignersOf(f) = [past |-> {}, last |-> {}]
        BY <3>3, <3>4
      <3>. DEFINE s == SignersOf(f)
      <3>6. s.past = {} /\ s.last = {}
        BY <3>5
      <3>. HIDE DEF s
      <3>7. Followed(s, r.kid) = [past |-> s.past \cup s.last, last |-> {r.kid}]
        BY <3>6 DEF Followed
      <3>8. K(g) \ {r.kid} = s.past \cup s.last
        BY <1>2, <3>2, <3>6
      <3>. QED BY <1>3, <3>7, <3>8 DEF s
    <2>2. CASE f # <<>>
      <3>. DEFINE l == f[Len(f)].kid
      <3>1. l \in K(f)
        BY <2>2, LastType DEF K
      <3>2. SignersOf(f) = [past |-> K(f) \ {l}, last |-> {l}]
        BY <2>2 DEF SignersOf, K
      <3>. HIDE DEF l
      <3>3. CASE l = r.kid
        <4>1. K(g) = K(f)
          BY <1>2, <3>1, <3>3
        <4>2. Followed(SignersOf(f), r.kid) = SignersOf(f)
          BY <3>2, <3>3 DEF Followed
        <4>. QED BY <1>3, <3>2, <3>3, <4>1, <4>2
      <3>4. CASE l # r.kid
        <4>1. r.kid \notin K(f)
          BY <1>4, <3>2, <3>4
        <4>2. K(g) \ {r.kid} = (K(f) \ {l}) \cup {l}
          BY <1>2, <3>1, <4>1
        <4>3. {l} # {r.kid}
          BY <3>4
        <4>4. Followed(SignersOf(f), r.kid) =
                [past |-> (K(f) \ {l}) \cup {l}, last |-> {r.kid}]
          BY <3>2, <4>3 DEF Followed
        <4>. QED BY <1>3, <4>2, <4>4
      <3>. QED BY <3>3, <3>4
    <2>. QED BY <2>1, <2>2
  <1>5. r.kid \notin SignersOf(g).past
    BY <1>3
  <1>. QED BY <1>4, <1>5 DEF g

\* A record chained to the head of a log that verifies, and signed by a key no
\* other has followed in it, gives a log that verifies.
LEMMA AppendVerifies ==
    ASSUME NEW f \in Seq(Record), VerifyLines(f, Key),
           NEW r \in Record, r.parses, r.entry.seq = Len(f),
           r.prev = HeadHash(f), r.hash = ChainHash(r.entry, r.prev),
           r.kid \notin SignersOf(f).past
    PROVE  VerifyLines(Append(f, r), Key)
  <1>. DEFINE g == Append(f, r)
  <1>1. g # <<>> /\ Len(g) = Len(f) + 1 /\ g[Len(f) + 1] = r
        /\ \A i \in 1..Len(f) : g[i] = f[i]
    BY AppendType
  <1>0. Len(f) \in Nat
    OBVIOUS
  <1>. HIDE DEF g
  <1>2. ASSUME NEW i \in 1..Len(f)
        PROVE  Chained(g, i) /\ g[i].kid \in Key /\ InSuccession(g, i)
    <2>1. Chained(f, i) /\ f[i].kid \in Key /\ InSuccession(f, i)
      BY DEF VerifyLines
    <2>2. g[i] = f[i] /\ (i # 1 => g[i-1] = f[i-1])
      BY <1>0, <1>1
    <2>3. \A j \in 1..i : g[j] = f[j]
      BY <1>0, <1>1
    <2>4. InSuccession(g, i)
      <3>. SUFFICES ASSUME NEW j \in 1..i, g[j].kid = g[i].kid,
                           NEW m \in j..i
                    PROVE  g[m].kid = g[i].kid
        BY DEF InSuccession
      <3>1. m \in 1..i
        OBVIOUS
      <3>. QED BY <2>1, <2>2, <2>3, <3>1 DEF InSuccession
    <2>. QED BY <2>1, <2>2, <2>4 DEF Chained
  <1>. DEFINE n == Len(f) + 1
  <1>3. Chained(g, n)
    <2>1. CASE Len(f) = 0
      <3>1. f = <<>>
        BY <2>1
      <3>. QED BY <1>1, <2>1, <3>1 DEF Chained, HeadHash
    <2>2. CASE Len(f) # 0
      <3>1. f # <<>> /\ Len(f) \in 1..Len(f) /\ n - 1 = Len(f) /\ n # 1
        BY <1>0, <2>2
      <3>. QED BY <1>0, <1>1, <3>1 DEF Chained, HeadHash
    <2>. QED BY <2>1, <2>2
  <1>4. g[n].kid \in Key
    BY <1>1 DEF Record
  <1>5. InSuccession(g, n)
    <2>. SUFFICES ASSUME NEW j \in 1..n, g[j].kid = r.kid, NEW m \in j..n
                  PROVE  g[m].kid = r.kid
      BY <1>1 DEF InSuccession
    <2>1. CASE m = n
      BY <1>1, <2>1
    <2>2. CASE m # n
      <3>1. j \in 1..Len(f) /\ m \in j..Len(f) /\ m \in 1..Len(f) /\ f # <<>>
        BY <1>0, <2>2
      <3>2. f[j].kid = r.kid
        BY <1>1, <3>1
      <3>3. f[Len(f)].kid = r.kid
        BY <3>1, <3>2 DEF SignersOf
      <3>4. InSuccession(f, Len(f))
        BY <1>0, <3>1 DEF VerifyLines
      <3>5. f[m].kid = f[Len(f)].kid
        BY <3>1, <3>2, <3>3, <3>4 DEF InSuccession
      <3>. QED BY <1>1, <3>1, <3>3, <3>5
    <2>. QED BY <2>1, <2>2
  <1>6. \A i \in 1..Len(g) : i \in 1..Len(f) \/ i = n
    BY <1>0, <1>1
  <1>. HIDE DEF n
  <1>. QED BY <1>2, <1>3, <1>4, <1>5, <1>6 DEF VerifyLines, g

-----------------------------------------------------------------------------
(* The invariant: what every step keeps. *)

\* A step of the process that holds, or takes, the ledger is judged by its own
\* handle alone: no other is open.
LEMMA OneWriterStep ==
    ASSUME TypeOK, HeadAgrees, NEW p \in Proc,
           handle[p].open \/ LockSingleWriter,
           \A q \in Proc \ {p} : handle'[q] = handle[q] /\ call'[q] = call[q],
           WriterAgrees(handle[p], call[p])'
    PROVE  HeadAgrees'
  <1>1. ASSUME NEW q \in Proc, q # p
        PROVE  ~handle[q].open /\ call[q].pc = "idle"
               /\ handle[q].key \notin handle[q].signers.past
    BY <1>1 DEF HeadAgrees, WriterAgrees, LockSingleWriter
  <1>2. ASSUME NEW q \in Proc, q # p
        PROVE  ~handle'[q].open /\ WriterAgrees(handle[q], call[q])'
    BY <1>1, <1>2 DEF WriterAgrees
  <1>. QED BY <1>2 DEF HeadAgrees

\* The step of write_all that puts the last byte of a line into the file: the
\* record continues the chain, and append_all's head moves with it.
LEMMA WriteLineStep ==
    ASSUME TypeOK, HeadAgrees, Intact, NEW p \in Proc, WriteLine(p)
    PROVE  Intact' /\ WriterAgrees(handle[p], call[p])'
  <1>. DEFINE h == handle[p]
              r == NextRecord(p)
  <1>1. /\ h \in Handle /\ call[p] \in Call /\ call[p].pc = "writing"
        /\ file \in Seq(Record)
    BY DEF TypeOK, WriteLine
  <1>2. /\ h.open /\ ~h.failed /\ h.key \notin h.signers.past
        /\ call[p].todo # <<>> /\ frag = "record" /\ Agrees(h, file)
    BY <1>1 DEF HeadAgrees, WriterAgrees
  <1>3. r \in Record
    BY <1>2, NextRecordType
  <1>4. /\ r.parses /\ r.entry.seq = Len(file) /\ r.prev = HeadHash(file)
        /\ r.hash = ChainHash(r.entry, r.prev) /\ r.kid = h.key
    BY <1>2 DEF NextRecord, Agrees
  <1>5. r.kid \notin SignersOf(file).past
    BY <1>2, <1>4 DEF Agrees
  <1>6. file' = Append(file, r) /\ frag' = "none"
    BY DEF WriteLine
  <1>. HIDE DEF r
  <1>7. VerifyLines(file', Key)
    BY <1>1, <1>3, <1>4, <1>5, <1>6, AppendVerifies DEF Intact
  <1>8. /\ file' # <<>> /\ Len(file') = Len(file) + 1
        /\ file'[Len(file')] = r /\ HeadHash(file') = r.hash
    BY <1>1, <1>3, <1>6, AppendType DEF HeadHash
  <1>9. /\ SignersOf(file') = Followed(h.signers, h.key)
        /\ h.key \notin SignersOf(file').past
    BY <1>1, <1>2, <1>3, <1>4, <1>5, <1>6, SignersOfAppend DEF Agrees
  <1>10. /\ Advance(h, r).last_hash = r.hash
         /\ Advance(h, r).next_seq = h.next_seq + 1
         /\ Advance(h, r).signers = Followed(h.signers, h.key)
         /\ Advance(h, r).key = h.key
         /\ Advance(h, r).open /\ ~Advance(h, r).failed
    BY <1>1, <1>2 DEF Advance, Handle
  <1>11. Agrees(Advance(h, r), file')
    BY <1>2, <1>8, <1>9, <1>10 DEF Agrees
  <1>12. CASE call[p].all
    <2>1. handle'[p] = Advance(h, r)
      BY <1>12 DEF WriteLine, TypeOK, r
    <2>. DEFINE pc == IF Tail(call[p].todo) = <<>> THEN "written" ELSE "write"
    <2>2. call' = [call EXCEPT ![p].todo = Tail(@), ![p].pc = pc]
      BY <1>12 DEF WriteLine
    <2>3. pc = "written" \/ (pc = "write" /\ Tail(call[p].todo) # <<>>)
      OBVIOUS
    <2>. HIDE DEF pc
    <2>4. call'[p].pc = pc /\ call'[p].todo = Tail(call[p].todo) /\ call'[p].all
      BY <1>1, <1>12, <2>2 DEF TypeOK, Call
    <2>5. /\ handle'[p].open /\ ~handle'[p].failed
          /\ handle'[p].key \notin handle'[p].signers.past
      BY <1>9, <1>10, <2>1
    <2>6. Agrees(handle'[p], file')
      BY <1>11, <2>1
    <2>. QED BY <1>6, <1>7, <2>3, <2>4, <2>5, <2>6 DEF WriterAgrees, Intact
  <1>13. CASE ~call[p].all
    <2>1. handle'[p] = h /\ call'[p].pc = "written" /\ ~call'[p].all
      BY <1>1, <1>13 DEF WriteLine, TypeOK, Call
    <2>2. /\ handle'[p].open /\ ~handle'[p].failed
          /\ handle'[p].key \notin handle'[p].signers.past
          /\ file'[Len(file')].kid = handle'[p].key
      BY <1>2, <1>4, <1>8, <2>1
    <2>3. Agrees(Advance(handle'[p], file'[Len(file')]), file')
      BY <1>8, <1>11, <2>1
    <2>. QED BY <1>6, <1>7, <1>8, <2>1, <2>2, <2>3 DEF WriterAgrees, Intact
  <1>. QED BY <1>12, <1>13

\* Where an append syncs its record and returns, its head becomes the file's.
LEMMA FinishStep ==
    ASSUME TypeOK, HeadAgrees, NEW p \in Proc, Finish(p)
    PROVE  WriterAgrees(handle[p], call[p])'
  <1>1. /\ handle[p] \in Handle /\ call[p].pc = "written" /\ call'[p] = Idle
        /\ WriterAgrees(handle[p], call[p]) /\ file' = file /\ frag' = frag
    BY DEF TypeOK, Finish, HeadAgrees
  <1>2. CASE call[p].all
    <2>1. handle'[p] = handle[p]
      BY <1>2 DEF Finish
    <2>. QED BY <1>1, <1>2, <2>1 DEF WriterAgrees, Idle, Agrees
  <1>3. CASE ~call[p].all
    <2>. DEFINE h == Advance(handle[p], file[Len(file)])
    <2>1. handle'[p] = h
      BY <1>3 DEF Finish, TypeOK
    <2>2. /\ file # <<>> /\ file[Len(file)].kid = handle[p].key
          /\ Agrees(h, file) /\ frag = "none"
      BY <1>1, <1>3 DEF WriterAgrees
    <2>3. h.key = handle[p].key /\ h.open /\ ~h.failed
      BY <1>1, <1>3 DEF Advance, Handle, WriterAgrees
    <2>. HIDE DEF h
    <2>4. h.key \notin h.signers.past
      BY <2>2, <2>3 DEF Agrees, SignersOf
    <2>. QED BY <1>1, <2>1, <2>2, <2>3, <2>4 DEF WriterAgrees, Idle, Agrees
  <1>. QED BY <1>2, <1>3

\* Every action keeps the log verifiable and the writer's head the file's.
LEMMA InvStep ==
    ASSUME IInv, [Next]_vars
    PROVE  Intact' /\ HeadAgrees'
  <1>. USE DEF IInv
  <1>1. ASSUME NEW p \in Proc, NEW key \in Key, NEW retired \in SUBSET Key,
               NEW anchored \in Anchoring, Open(p, key, retired, anchored)
        PROVE  Intact' /\ HeadAgrees'
    <2>1. LockSingleWriter /\ file' = file /\ frag' = "none" /\ call' = call
      BY <1>1 DEF Open, HealTornTail
    <2>2. call[p].pc = "idle"
      BY <2>1 DEF HeadAgrees, WriterAgrees, LockSingleWriter
    <2>3. /\ handle'[p].key = key /\ handle'[p].last_hash = HeadHash(file)
          /\ handle'[p].next_seq = Len(file)
          /\ handle'[p].signers = SignersOf(file)
          /\ \A q \in Proc \ {p} : handle'[q] = handle[q]
      BY <1>1 DEF Open, TypeOK
    <2>4. key \notin SignersOf(file).past
      BY <1>1 DEF Open, ResolveOpenHead
    <2>5. WriterAgrees(handle[p], call[p])'
      BY <2>1, <2>2, <2>3, <2>4 DEF WriterAgrees, Agrees
    <2>. QED BY <2>1, <2>3, <2>5, OneWriterStep DEF Intact
  <1>2. ASSUME NEW key \in Key, NEW retired \in SUBSET Key,
               NEW anchored \in Anchoring, HealFailed(key, retired, anchored)
        PROVE  Intact' /\ HeadAgrees'
    BY <1>2 DEF HealFailed, LockSingleWriter, HeadAgrees, WriterAgrees, Intact
  <1>3. ASSUME NEW p \in Proc, NEW e \in Payload, AppendOne(p, e)
        PROVE  Intact' /\ HeadAgrees'
    <2>1. /\ handle[p].open /\ ~handle[p].failed /\ call[p].pc = "idle"
          /\ file' = file /\ frag' = frag /\ handle' = handle
          /\ call'[p].pc = "write" /\ call'[p].todo = <<e>>
          /\ \A q \in Proc \ {p} : call'[q] = call[q]
      BY <1>3 DEF AppendOne, Free, TypeOK
    <2>2. <<e>> # <<>>
      OBVIOUS
    <2>3. WriterAgrees(handle[p], call[p])'
      BY <2>1, <2>2 DEF HeadAgrees, WriterAgrees, Agrees
    <2>. QED BY <2>1, <2>3, OneWriterStep DEF Intact
  <1>4. ASSUME NEW p \in Proc, NEW es \in Batch, AppendAll(p, es)
        PROVE  Intact' /\ HeadAgrees'
    <2>1. /\ handle[p].open /\ call[p].pc = "idle"
          /\ file' = file /\ frag' = frag /\ handle' = handle
          /\ call'[p].pc = (IF handle[p].failed THEN "written" ELSE "write")
          /\ call'[p].todo = es /\ call'[p].all /\ call'[p].ok = ~handle[p].failed
          /\ \A q \in Proc \ {p} : call'[q] = call[q]
      BY <1>4 DEF AppendAll, Free, TypeOK
    <2>2. es # <<>>
      BY BatchType
    <2>3. WriterAgrees(handle[p], call[p])'
      BY <2>1, <2>2 DEF HeadAgrees, WriterAgrees, Agrees
    <2>. QED BY <2>1, <2>3, OneWriterStep DEF Intact
  <1>5. ASSUME NEW p \in Proc, WriteStart(p)
        PROVE  Intact' /\ HeadAgrees'
    <2>1. /\ call[p].pc = "write" /\ file' = file /\ handle' = handle
          /\ frag' = (IF frag = "none" THEN "record" ELSE "fused")
          /\ call'[p].pc = "writing" /\ call'[p].todo = call[p].todo
          /\ \A q \in Proc \ {p} : call'[q] = call[q]
      BY <1>5 DEF WriteStart, TypeOK, Call
    <2>2. WriterAgrees(handle[p], call[p])' /\ handle[p].open
      BY <2>1 DEF HeadAgrees, WriterAgrees, Agrees
    <2>. QED BY <2>1, <2>2, OneWriterStep DEF Intact
  <1>6. ASSUME NEW p \in Proc, WriteLine(p)
        PROVE  Intact' /\ HeadAgrees'
    <2>1. handle[p].open
      BY <1>6 DEF WriteLine, HeadAgrees, WriterAgrees
    <2>2. \A q \in Proc \ {p} : handle'[q] = handle[q] /\ call'[q] = call[q]
      BY <1>6 DEF WriteLine, TypeOK
    <2>. QED BY <1>6, <2>1, <2>2, WriteLineStep, OneWriterStep
  <1>7. ASSUME NEW p \in Proc, WriteFailed(p)
        PROVE  Intact' /\ HeadAgrees'
    <2>1. /\ call[p].pc = "writing" /\ file' = file
          /\ handle'[p].failed /\ handle'[p].open = handle[p].open
          /\ handle'[p].key = handle[p].key /\ handle'[p].signers = handle[p].signers
          /\ \A q \in Proc \ {p} : handle'[q] = handle[q] /\ call'[q] = call[q]
      BY <1>7 DEF WriteFailed, TypeOK, Handle
    <2>2. call'[p].pc = "idle" \/ (call'[p].pc = "written" /\ call'[p].all /\ ~call'[p].ok)
      BY <1>7 DEF WriteFailed, TypeOK, Call, Idle
    <2>3. WriterAgrees(handle[p], call[p])' /\ handle[p].open
      BY <2>1, <2>2 DEF HeadAgrees, WriterAgrees
    <2>. QED BY <2>1, <2>3, OneWriterStep DEF Intact
  <1>8. ASSUME NEW p \in Proc, Finish(p)
        PROVE  Intact' /\ HeadAgrees'
    <2>1. handle[p].open /\ file' = file
      BY <1>8 DEF Finish, HeadAgrees, WriterAgrees
    <2>2. \A q \in Proc \ {p} : handle'[q] = handle[q] /\ call'[q] = call[q]
      BY <1>8 DEF Finish, TypeOK
    <2>. QED BY <1>8, <2>1, <2>2, FinishStep, OneWriterStep DEF Intact
  <1>9. ASSUME NEW p \in Proc, SyncFailed(p)
        PROVE  Intact' /\ HeadAgrees'
    <2>1. /\ call[p].pc = "written" /\ file' = file /\ call'[p] = Idle
          /\ handle'[p].failed /\ handle'[p].open = handle[p].open
          /\ handle'[p].key = handle[p].key /\ handle'[p].signers = handle[p].signers
          /\ \A q \in Proc \ {p} : handle'[q] = handle[q] /\ call'[q] = call[q]
      BY <1>9 DEF SyncFailed, TypeOK, Handle
    <2>2. WriterAgrees(handle[p], call[p])' /\ handle[p].open
      BY <2>1 DEF HeadAgrees, WriterAgrees, Idle
    <2>. QED BY <2>1, <2>2, OneWriterStep DEF Intact
  <1>10. ASSUME NEW p \in Proc, NEW k \in Key, Rotate(p, k)
         PROVE  Intact' /\ HeadAgrees'
    <2>1. /\ handle[p].open /\ call[p].pc = "idle" /\ k \notin handle[p].signers.past
          /\ file' = file /\ frag' = frag /\ call' = call
          /\ handle'[p].key = k /\ handle'[p].signers = handle[p].signers
          /\ handle'[p].open /\ handle'[p].failed = handle[p].failed
          /\ handle'[p].last_hash = handle[p].last_hash
          /\ handle'[p].next_seq = handle[p].next_seq
          /\ \A q \in Proc \ {p} : handle'[q] = handle[q]
      BY <1>10 DEF Rotate, Free, TypeOK, Handle
    <2>2. WriterAgrees(handle[p], call[p])'
      BY <2>1 DEF HeadAgrees, WriterAgrees, Agrees
    <2>. QED BY <2>1, <2>2, OneWriterStep DEF Intact
  <1>11. ASSUME NEW p \in Proc, SignCheckpoint(p) \/ SealAnchor(p)
         PROVE  Intact' /\ HeadAgrees'
    <2>1. file' = file /\ frag' = frag /\ handle' = handle /\ call' = call
      BY <1>11 DEF SignCheckpoint, SealAnchor
    <2>. QED BY <2>1 DEF Intact, HeadAgrees, WriterAgrees, Agrees
  <1>12. ASSUME NEW p \in Proc, Stop(p)
         PROVE  Intact' /\ HeadAgrees'
    <2>1. /\ handle[p].open /\ file' = file /\ handle'[p] = Closed /\ call'[p] = Idle
          /\ \A q \in Proc \ {p} : handle'[q] = handle[q] /\ call'[q] = call[q]
      BY <1>12 DEF Stop, TypeOK
    <2>2. WriterAgrees(handle[p], call[p])'
      BY <2>1 DEF WriterAgrees, Closed, Idle, NoSigners
    <2>. QED BY <2>1, <2>2, OneWriterStep DEF Intact
  <1>13. CASE PowerLoss
    <2>1. PICK n \in synced..Len(file) : file' = SubSeq(file, 1, n)
      BY <1>13 DEF PowerLoss
    <2>2. n \in 0..Len(file) /\ file \in Seq(Record)
      BY DEF TypeOK
    <2>3. Intact'
      BY <2>1, <2>2, PrefixVerifies DEF Intact
    <2>4. \A p \in Proc : handle'[p] = Closed /\ call'[p] = Idle
      BY <1>13 DEF PowerLoss
    <2>5. ~Closed.open /\ Closed.key \notin Closed.signers.past /\ Idle.pc = "idle"
      BY DEF Closed, Idle, NoSigners
    <2>6. HeadAgrees'
      BY <2>4, <2>5 DEF HeadAgrees, WriterAgrees
    <2>. QED BY <2>3, <2>6
  <1>14. CASE Truncate
    <2>1. PICK n \in 0..(Len(file) - 1) : file' = SubSeq(file, 1, n)
      BY <1>14 DEF Truncate
    <2>2. n \in 0..Len(file) /\ file \in Seq(Record)
      BY DEF TypeOK
    <2>3. Intact'
      BY <2>1, <2>2, PrefixVerifies DEF Intact
    <2>4. LockSingleWriter /\ handle' = handle /\ call' = call
      BY <1>14 DEF Truncate
    <2>5. HeadAgrees'
      BY <2>4 DEF HeadAgrees, WriterAgrees, LockSingleWriter
    <2>. QED BY <2>3, <2>5
  <1>15. CASE UNCHANGED vars
    BY <1>15 DEF vars, Intact, HeadAgrees, WriterAgrees, Agrees
  <1>. QED BY <1>1, <1>2, <1>3, <1>4, <1>5, <1>6, <1>7, <1>8, <1>9, <1>10,
              <1>11, <1>12, <1>13, <1>14, <1>15 DEF Next

\* The invariant holds initially.
LEMMA InvInit == Init => IInv
  <1>. SUFFICES ASSUME Init PROVE IInv
    OBVIOUS
  <1>1. TypeOK
    BY ClosedType, IdleType DEF Init, TypeOK, Fragment
  <1>2. Intact
    BY DEF Init, Intact, VerifyLines
  <1>3. HeadAgrees
    BY DEF Init, HeadAgrees, WriterAgrees, Closed, Idle, NoSigners
  <1>. QED BY <1>1, <1>2, <1>3 DEF IInv

\* Every reachable state satisfies the invariant.
THEOREM LedgerInvariant == Spec => []IInv
  <1>1. Init => IInv
    BY InvInit
  <1>2. IInv /\ [Next]_vars => IInv'
    BY TypeStep, InvStep DEF IInv
  <1>. QED BY <1>1, <1>2, PTL DEF Spec

\* Type correctness, as the runs check it.
THEOREM TypeCorrect == Spec => []TypeOK
  BY LedgerInvariant, PTL DEF IInv

\* Whatever is interrupted, the file verifies: no fork, gap, record behind part
\* of another, or key that signs again after its successor.
THEOREM AlwaysIntact == Spec => []Intact
  BY LedgerInvariant, PTL DEF IInv

\* One process at most holds the ledger, and its head is the file's.
THEOREM HeadAlwaysAgrees == Spec => []HeadAgrees
  BY LedgerInvariant, PTL DEF IInv

\* A file that verifies, and does not end in something foreign, can be opened
\* by the key that signed its last line, or by any key when it is empty.
LEMMA IntactReopens ==
    ASSUME TypeOK, Intact
    PROVE  Reopenable
  <1>. SUFFICES ASSUME LockSingleWriter, frag # "foreign"
                PROVE  \E key \in Key : ResolveOpenHead(key, Key, FALSE)
    BY DEF Reopenable
  <1>1. PICK key \in Key : key \notin SignersOf(file).past
    <2>1. CASE file = <<>>
      <3>1. SignersOf(file).past = {}
        BY <2>1 DEF SignersOf
      <3>. QED BY <3>1, KeysAssumption
    <2>2. CASE file # <<>>
      <3>1. file[Len(file)].kid \in Key
        BY <2>2, LastType DEF TypeOK, Record
      <3>2. file[Len(file)].kid \notin SignersOf(file).past
        BY <2>2 DEF SignersOf
      <3>. QED BY <3>1, <3>2
    <2>. QED BY <2>1, <2>2
  <1>. QED BY <1>1 DEF ResolveOpenHead, Intact

\* No crash, at whatever step, leaves a ledger that cannot be reopened.
THEOREM AlwaysReopenable == Spec => []Reopenable
  <1>1. IInv => Reopenable
    BY IntactReopens DEF IInv
  <1>. QED BY <1>1, LedgerInvariant, PTL

-----------------------------------------------------------------------------
(* Durability: what was acknowledged stays, and the ledger is a DurableLog. *)

Safe == "truncate" \notin Faults /\ (Sync \/ "power" \notin Faults)

\* AckedSurvive is not inductive: a power loss needs to know that what was
\* acknowledged had been synced.
Durable ==
    Safe => /\ StartsWith(file, acked)
            /\ "power" \in Faults => Len(acked) <= synced

\* Every step that leaves the file and the acknowledged log alone, and syncs
\* no less, keeps what is durable.
LEMMA DurableUnchanged ==
    ASSUME Durable, TypeOK, TypeOK', file' = file, acked' = acked, synced' >= synced
    PROVE  Durable'
  <1>1. synced \in Int /\ synced' \in Int /\ Len(acked) \in Int
    BY DEF TypeOK
  <1>. QED BY <1>1 DEF Durable, StartsWith, Safe

\* Where an append returns Ok, what it acknowledges is all of the file.
LEMMA FinishAcks ==
    ASSUME TypeOK, HeadAgrees, NEW p \in Proc, Finish(p), call[p].ok
    PROVE  /\ Len(acked') = Len(file)
           /\ \A i \in 1..Len(file) : acked'[i] = file[i]
  <1>1. acked' = SubSeq(file, 1, Len(file))
    BY FinishHead DEF Finish
  <1>2. Len(file) \in 0..Len(file) /\ file \in Seq(Record)
    BY DEF TypeOK
  <1>. QED BY <1>1, <1>2, SubSeqType

\* Every action keeps what was acknowledged.
LEMMA DurableStep ==
    ASSUME IInv, IInv', Durable, [Next]_vars
    PROVE  Durable'
  <1>. USE DEF IInv
  <1>0. synced \in Nat /\ Len(file) \in Nat /\ Len(acked) \in Nat
        /\ synced <= Len(file)
    BY DEF TypeOK
  <1>1. ASSUME file' = file, acked' = acked, synced' = synced
        PROVE  Durable'
    BY <1>0, <1>1, DurableUnchanged
  <1>2. ASSUME NEW p \in Proc, NEW key \in Key, NEW retired \in SUBSET Key,
               NEW anchored \in Anchoring, Open(p, key, retired, anchored)
        PROVE  Durable'
    <2>1. file' = file /\ acked' = acked /\ synced' >= synced
      BY <1>0, <1>2 DEF Open, HealTornTail
    <2>. QED BY <2>1, DurableUnchanged
  <1>3. ASSUME NEW p \in Proc, WriteLine(p)
        PROVE  Durable'
    <2>1. NextRecord(p) \in Record
      BY <1>3, NextRecordType DEF WriteLine, HeadAgrees, WriterAgrees
    <2>2. Len(file') = Len(file) + 1 /\ \A i \in 1..Len(file) : file'[i] = file[i]
      BY <1>3, <2>1, AppendType DEF WriteLine, TypeOK
    <2>3. acked' = acked /\ synced' = synced
      BY <1>3 DEF WriteLine
    <2>4. ASSUME StartsWith(file, acked)
          PROVE  StartsWith(file, acked)'
      BY <1>0, <2>2, <2>3, <2>4 DEF StartsWith
    <2>. QED BY <2>3, <2>4 DEF Durable, Safe
  <1>4. ASSUME NEW p \in Proc, Finish(p)
        PROVE  Durable'
    <2>1. CASE call[p].ok
      <3>1. file' = file /\ synced' = (IF Sync THEN Len(file) ELSE synced)
        BY <1>4 DEF Finish
      <3>2. StartsWith(file, acked)'
        BY <1>0, <1>4, <2>1, <3>1, FinishAcks DEF StartsWith
      <3>3. Safe /\ "power" \in Faults => Len(acked') <= synced'
        BY <1>0, <1>4, <2>1, <3>1, FinishAcks DEF Safe
      <3>. QED BY <3>2, <3>3 DEF Durable, Safe
    <2>2. CASE ~call[p].ok
      <3>1. file' = file /\ acked' = acked /\ synced' >= synced
        BY <1>0, <1>4, <2>2 DEF Finish
      <3>. QED BY <3>1, DurableUnchanged
    <2>. QED BY <2>1, <2>2
  <1>5. CASE PowerLoss
    <2>1. PICK n \in synced..Len(file) : file' = SubSeq(file, 1, n) /\ synced' = n
      BY <1>5 DEF PowerLoss
    <2>2. n \in 0..Len(file) /\ file \in Seq(Record)
      BY DEF TypeOK
    <2>3. Len(file') = n /\ \A i \in 1..n : file'[i] = file[i]
      BY <2>1, <2>2, SubSeqType
    <2>4. acked' = acked /\ "power" \in Faults
      BY <1>5 DEF PowerLoss
    <2>5. ASSUME Safe PROVE StartsWith(file, acked)' /\ Len(acked') <= synced'
      <3>1. Len(acked) <= n /\ StartsWith(file, acked)
        BY <1>0, <2>1, <2>4, <2>5 DEF Durable
      <3>2. \A i \in 1..Len(acked) : file'[i] = acked[i]
        BY <1>0, <2>2, <2>3, <3>1 DEF StartsWith
      <3>. QED BY <2>1, <2>3, <2>4, <3>1, <3>2 DEF StartsWith
    <2>. QED BY <2>5 DEF Durable, Safe
  <1>6. CASE Truncate
    BY <1>6 DEF Truncate, Durable, Safe
  <1>7. CASE UNCHANGED vars
    BY <1>1, <1>7 DEF vars
  <1>. QED BY <1>1, <1>2, <1>3, <1>4, <1>5, <1>6, <1>7
           DEF Next, HealFailed, AppendOne, AppendAll, WriteStart, WriteFailed,
               SyncFailed, Rotate, SignCheckpoint, SealAnchor, Stop

\* What is acknowledged is durable in every reachable state.
THEOREM AlwaysDurable == Spec => []Durable
  <1>1. Init => Durable
    BY DEF Init, Durable, StartsWith
  <1>2. IInv /\ IInv' /\ Durable /\ [Next]_vars => Durable'
    BY DurableStep
  <1>. QED BY <1>1, <1>2, LedgerInvariant, PTL DEF Spec

\* No acknowledged record is ever lost or changed: across kills and reopens
\* always, across power losses when sync is on.
THEOREM AckedAlwaysSurvive == Spec => []AckedSurvive
  <1>1. Durable => AckedSurvive
    BY DEF Durable, AckedSurvive, Safe
  <1>. QED BY <1>1, AlwaysDurable, PTL

\* Every step of the ledger is a step of the abstract log or changes nothing
\* in it.
LEMMA StepRefines ==
    ASSUME IInv, Durable, Safe, [Next]_vars
    PROVE  [D!Next]_<<file, Len(acked)>>
  <1>. USE DEF IInv
  <1>0. /\ synced \in Nat /\ Len(file) \in Nat /\ Len(acked) \in Nat
        /\ file \in Seq(Record) /\ Len(acked) <= Len(file)
    BY DEF TypeOK, Durable, StartsWith
  <1>1. ASSUME file' = file, acked' = acked
        PROVE  [D!Next]_<<file, Len(acked)>>
    BY <1>1
  <1>2. ASSUME NEW p \in Proc, WriteLine(p)
        PROVE  D!Write
    <2>1. NextRecord(p) \in Record
      BY <1>2, NextRecordType DEF WriteLine, HeadAgrees, WriterAgrees
    <2>2. file' = Append(file, NextRecord(p)) /\ acked' = acked
      BY <1>2 DEF WriteLine
    <2>3. /\ file' \in Seq(Record) /\ Len(file') = Len(file) + 1
          /\ \A i \in 1..Len(file) : file'[i] = file[i]
      BY <1>0, <2>1, <2>2, AppendType
    <2>4. SubSeq(file', 1, Len(file)) = file
      BY <1>0, <2>3
    <2>. QED BY <2>2, <2>3, <2>4 DEF D!Write
  <1>3. ASSUME NEW p \in Proc, Finish(p), call[p].ok
        PROVE  D!Promise
    <2>1. Len(acked') = Len(file) /\ file' = file
      BY <1>3, FinishAcks DEF Finish
    <2>2. Len(acked') \in Len(acked)..Len(file)
      BY <1>0, <2>1
    <2>. QED BY <2>1, <2>2 DEF D!Promise
  <1>4. ASSUME PowerLoss
        PROVE  D!Lose
    <2>1. PICK n \in synced..Len(file) : file' = SubSeq(file, 1, n)
      BY <1>4 DEF PowerLoss
    <2>2. Len(acked) <= synced /\ acked' = acked
      BY <1>4 DEF PowerLoss, Durable
    <2>. QED BY <1>0, <2>1, <2>2 DEF D!Lose
  <1>5. ASSUME NEW p \in Proc, Finish(p), ~call[p].ok
        PROVE  file' = file /\ acked' = acked
    BY <1>5 DEF Finish
  <1>6. ASSUME Truncate PROVE FALSE
    BY <1>6 DEF Truncate, Safe
  <1>. QED BY <1>1, <1>2, <1>3, <1>4, <1>5, <1>6
           DEF D!Next, Next, Open, HealFailed, AppendOne, AppendAll, WriteStart,
               WriteFailed, SyncFailed, Rotate, SignCheckpoint, SealAnchor, Stop,
               vars

\* With sync on, or no power loss, and nobody cutting the file at rest, the
\* ledger implements the abstract log: it loses only what it never promised.
THEOREM LedgerIsDurableLog ==
    ASSUME Safe
    PROVE  Spec => ImplementsDurableLog
  <1>1. Init => D!Init
    BY DEF Init, D!Init
  <1>2. IInv /\ Durable /\ [Next]_vars => [D!Next]_<<file, Len(acked)>>
    BY StepRefines
  <1>. QED BY <1>1, <1>2, LedgerInvariant, AlwaysDurable, PTL
           DEF Spec, ImplementsDurableLog, D!Spec

-----------------------------------------------------------------------------
(* What a handle would sign. *)

\* It is true of the file, also once the handle's write has failed.
HeadsHeld ==
    \A p \in Proc : handle[p].open => ExtendsCheckpoint(file, CheckpointOf(handle[p]))

\* A log that grows extends what it extended.
LEMMA AppendExtends ==
    ASSUME NEW f \in Seq(Record), NEW r \in Record, NEW cp \in Checkpoint,
           ExtendsCheckpoint(f, cp)
    PROVE  ExtendsCheckpoint(Append(f, r), cp)
  <1>1. cp.count \in Nat
    BY DEF Checkpoint
  <1>2. cp.count = 0 \/ cp.count \in 1..Len(f)
    <2>1. cp.count <= Len(f)
      BY DEF ExtendsCheckpoint
    <2>. QED BY <1>1, <2>1
  <1>. QED BY <1>1, <1>2, AppendType DEF ExtendsCheckpoint

\* The head of a log is a checkpoint it extends.
LEMMA HeadExtends ==
    ASSUME NEW f \in Seq(Record), NEW h, Agrees(h, f)
    PROVE  ExtendsCheckpoint(f, CheckpointOf(h))
  <1>1. CASE f = <<>>
    BY <1>1 DEF ExtendsCheckpoint, CheckpointOf, Agrees, HeadHash
  <1>2. CASE f # <<>>
    <2>1. Len(f) # 0 /\ Len(f) <= Len(f)
      BY <1>2
    <2>. QED BY <1>2, <2>1 DEF ExtendsCheckpoint, CheckpointOf, Agrees, HeadHash
  <1>. QED BY <1>1, <1>2

\* Signing is a matter of the head alone: the key does not enter.
LEMMA SameHeadExtends ==
    ASSUME NEW f, NEW g, NEW h, g.last_hash = h.last_hash, g.next_seq = h.next_seq,
           ExtendsCheckpoint(f, CheckpointOf(h))
    PROVE  ExtendsCheckpoint(f, CheckpointOf(g))
  BY DEF ExtendsCheckpoint, CheckpointOf

\* The head of q is what it was before the step.
SameHead(q) ==
    /\ handle[q].open
    /\ handle'[q].last_hash = handle[q].last_hash
    /\ handle'[q].next_seq = handle[q].next_seq

\* A step keeps the lines of the file, and may add one; and a head it leaves
\* was there before, or is the file's.
Continues ==
    /\ file' = file \/ \E r \in Record : file' = Append(file, r)
    /\ \A q \in Proc : handle'[q].open => SameHead(q) \/ Agrees(handle'[q], file')

\* Unless power fails or the file is cut, nothing in it goes and heads move
\* only to its end.
LEMMA StepContinues ==
    ASSUME IInv, IInv', [Next]_vars, ~PowerLoss, ~Truncate
    PROVE  Continues
  <1>. USE DEF IInv
  <1>0. handle \in [Proc -> Handle] /\ call \in [Proc -> Call]
    BY DEF TypeOK
  <1>1. ASSUME file' = file, handle' = handle
        PROVE  Continues
    BY <1>1 DEF Continues, SameHead
  <1>2. ASSUME NEW p \in Proc, NEW key \in Key, NEW retired \in SUBSET Key,
               NEW anchored \in Anchoring, Open(p, key, retired, anchored)
        PROVE  Continues
    <2>1. /\ file' = file
          /\ \A q \in Proc \ {p} : handle'[q] = handle[q]
          /\ Agrees(handle'[p], file')
      BY <1>0, <1>2 DEF Open, Agrees
    <2>. QED BY <2>1 DEF Continues, SameHead
  <1>3. ASSUME NEW p \in Proc, WriteLine(p)
        PROVE  Continues
    <2>1. NextRecord(p) \in Record /\ file' = Append(file, NextRecord(p))
      BY <1>3, NextRecordType DEF WriteLine, HeadAgrees, WriterAgrees
    <2>2. ASSUME NEW q \in Proc, handle'[q].open, handle'[q] # handle[q]
          PROVE  Agrees(handle'[q], file')
      <3>1. q = p /\ call[p].all
        BY <1>0, <1>3, <2>2 DEF WriteLine
      <3>2. call'[p].pc # "writing" /\ call'[p].all
        BY <1>0, <1>3, <3>1 DEF WriteLine, Call
      <3>3. ~handle'[p].failed
        <4>1. handle[p] \in Handle /\ ~handle[p].failed
          BY <1>0, <1>3 DEF WriteLine, HeadAgrees, WriterAgrees
        <4>2. handle'[p] = Advance(handle[p], NextRecord(p))
          BY <1>0, <1>3, <3>1 DEF WriteLine
        <4>. QED BY <4>1, <4>2 DEF Advance, Handle
      <3>. QED BY <2>2, <3>1, <3>2, <3>3 DEF HeadAgrees, WriterAgrees
    <2>. QED BY <2>1, <2>2 DEF Continues, SameHead
  <1>4. ASSUME NEW p \in Proc, Finish(p)
        PROVE  Continues
    <2>1. CASE call[p].all
      BY <1>1, <1>4, <2>1 DEF Finish
    <2>2. CASE ~call[p].all
      <3>1. /\ file' = file
            /\ handle'[p] = Advance(handle[p], file[Len(file)])
            /\ \A q \in Proc \ {p} : handle'[q] = handle[q]
        BY <1>0, <1>4, <2>2 DEF Finish
      <3>2. handle[p].open => Agrees(Advance(handle[p], file[Len(file)]), file)
        BY <1>4, <2>2 DEF Finish, HeadAgrees, WriterAgrees
      <3>3. handle[p].open
        BY <1>4 DEF Finish, HeadAgrees, WriterAgrees
      <3>. QED BY <3>1, <3>2, <3>3 DEF Continues, SameHead
    <2>. QED BY <2>1, <2>2
  <1>5. ASSUME NEW p \in Proc, WriteFailed(p) \/ SyncFailed(p)
        PROVE  Continues
    <2>1. file' = file /\ handle' = [handle EXCEPT ![p].failed = TRUE]
      BY <1>5 DEF WriteFailed, SyncFailed
    <2>. QED BY <1>0, <2>1 DEF Continues, SameHead, Handle
  <1>6. ASSUME NEW p \in Proc, NEW k \in Key, Rotate(p, k)
        PROVE  Continues
    <2>1. /\ file' = file
          /\ \A q \in Proc \ {p} : handle'[q] = handle[q]
          /\ handle'[p] = [handle[p] EXCEPT !.key = k,
                               !.verifiers = handle[p].verifiers \cup {k}]
      BY <1>0, <1>6 DEF Rotate
    <2>2. handle[p] \in Handle
      BY <1>0
    <2>3. handle'[p].open => SameHead(p)
      BY <2>1, <2>2 DEF SameHead, Handle
    <2>. QED BY <2>1, <2>3 DEF Continues, SameHead
  <1>7. ASSUME NEW p \in Proc, Stop(p)
        PROVE  Continues
    <2>1. /\ file' = file
          /\ \A q \in Proc : handle'[q].open => handle'[q] = handle[q]
      BY <1>0, <1>7 DEF Stop, Closed
    <2>. QED BY <2>1 DEF Continues, SameHead
  <1>. QED BY <1>1, <1>2, <1>3, <1>4, <1>5, <1>6, <1>7
           DEF Next, vars, HealFailed, AppendOne, AppendAll, WriteStart, SignCheckpoint,
               SealAnchor

\* Where the file's lines are kept, so is what they extended.
LEMMA ContinuesExtends ==
    ASSUME TypeOK, Continues, NEW cp \in Checkpoint, ExtendsCheckpoint(file, cp)
    PROVE  ExtendsCheckpoint(file', cp)
  <1>1. file \in Seq(Record)
    BY DEF TypeOK
  <1>. QED BY <1>1, AppendExtends DEF Continues

\* Every action keeps what a handle would sign true of the file.
LEMMA HeadsHeldStep ==
    ASSUME IInv, IInv', HeadsHeld, [Next]_vars
    PROVE  HeadsHeld'
  <1>1. TypeOK /\ TypeOK'
    BY DEF IInv
  <1>2. CASE PowerLoss
    BY <1>1, <1>2 DEF PowerLoss, Closed, HeadsHeld, TypeOK
  <1>3. CASE Truncate
    BY <1>3 DEF Truncate, LockSingleWriter, HeadsHeld
  <1>4. CASE ~PowerLoss /\ ~Truncate
    <2>1. Continues
      BY <1>4, StepContinues
    <2>2. SUFFICES ASSUME NEW p \in Proc, handle'[p].open
                   PROVE  ExtendsCheckpoint(file', CheckpointOf(handle'[p]))
      BY DEF HeadsHeld
    <2>3. CASE Agrees(handle'[p], file')
      BY <1>1, <2>3, HeadExtends DEF TypeOK
    <2>4. CASE SameHead(p)
      <3>1. CheckpointOf(handle[p]) \in Checkpoint
        BY <1>1, CheckpointType DEF TypeOK
      <3>2. ExtendsCheckpoint(file', CheckpointOf(handle[p]))
        BY <1>1, <2>1, <2>4, <3>1, ContinuesExtends DEF HeadsHeld, SameHead
      <3>. QED BY <2>4, <3>2, SameHeadExtends DEF SameHead
    <2>. QED BY <2>1, <2>2, <2>3, <2>4 DEF Continues
  <1>. QED BY <1>2, <1>3, <1>4

\* What a handle would sign is true of the file in every reachable state.
LEMMA AlwaysHeadsHeld == Spec => []HeadsHeld
  <1>1. Init => HeadsHeld
    BY DEF Init, HeadsHeld, Closed
  <1>2. IInv /\ IInv' /\ HeadsHeld /\ [Next]_vars => HeadsHeld'
    BY HeadsHeldStep
  <1>. QED BY <1>1, <1>2, LedgerInvariant, PTL DEF Spec

-----------------------------------------------------------------------------
(* Checkpoints, where nothing the file held is ever lost. *)

\* Every action keeps what was signed true.
LEMMA CheckpointsStep ==
    ASSUME Faults = {}, IInv, IInv', HeadsHeld, ExtendsPastCheckpoints, [Next]_vars
    PROVE  ExtendsPastCheckpoints'
  <1>1. TypeOK /\ TypeOK'
    BY DEF IInv
  <1>2. Continues
    BY StepContinues DEF PowerLoss, Truncate
  <1>3. \/ issued' = issued
        \/ \E p \in Proc : /\ handle[p].open /\ file' = file
                           /\ issued' = issued \cup {CheckpointOf(handle[p])}
    BY DEF Next, vars, Open, HealFailed, AppendOne, AppendAll, WriteStart, WriteLine,
           WriteFailed, Finish, SyncFailed, Rotate, SignCheckpoint, Free, SealAnchor, Stop,
           PowerLoss, Truncate
  <1>4. \A cp \in issued : ExtendsCheckpoint(file', cp)
    BY <1>1, <1>2, ContinuesExtends DEF ExtendsPastCheckpoints, TypeOK
  <1>. QED BY <1>3, <1>4 DEF ExtendsPastCheckpoints, HeadsHeld

\* Where nothing the file held is lost, the log extends every checkpoint and
\* tree head ever signed over it, by a handle whose write has failed too.
THEOREM AlwaysExtendsCheckpoints ==
    ASSUME Faults = {}
    PROVE  Spec => []ExtendsPastCheckpoints
  <1>1. Init => ExtendsPastCheckpoints
    BY DEF Init, ExtendsPastCheckpoints
  <1>2. IInv /\ IInv' /\ HeadsHeld /\ ExtendsPastCheckpoints /\ [Next]_vars
            => ExtendsPastCheckpoints'
    BY CheckpointsStep
  <1>. QED BY <1>1, <1>2, LedgerInvariant, AlwaysHeadsHeld, PTL DEF Spec
-----------------------------------------------------------------------------
(* Anchors, whatever becomes of the file while nobody holds it. *)

Below == {p \in Nat \X Nat : p[1] < p[2]}

\* Induction over the natural numbers, for a set of them.
LEMMA SetInduction ==
    ASSUME NEW S \in SUBSET Nat, 0 \in S, \A n \in S : n + 1 \in S
    PROVE  \A n \in Nat : n \in S
  <1>. DEFINE T == Nat \ S
  <1>. SUFFICES ASSUME T # {} PROVE FALSE
    OBVIOUS
  <1>1. T \subseteq Nat /\ IsWellFoundedOn(Below, Nat)
    BY NatLessThanWellFounded DEF OpToRel, Below
  <1>2. PICK x \in T : \A y \in T : <<y, x>> \notin Below
    <2>. HIDE DEF T
    <2>. QED BY <1>1, WFMin
  <1>3. x - 1 \in Nat /\ <<x - 1, x>> \in Below
    BY DEF Below
  <1>4. x - 1 \in S
    BY <1>2, <1>3
  <1>. QED BY <1>3, <1>4

\* h is the history of the first n records of f.
HistoryOf(f, n, h) == Len(h) = n /\ \A k \in 1..n : h[k] = f[k].entry

\* Each record of a log that verifies commits to the history up to it.
LEMMA HashIsHistory ==
    ASSUME NEW f \in Seq(Record), VerifyLines(f, Key)
    PROVE  \A i \in 1..Len(f) : HistoryOf(f, i, f[i].hash)
  <1>. DEFINE S == {n \in Nat : n \in 1..Len(f) => HistoryOf(f, n, f[n].hash)}
  <1>1. 0 \in S
    OBVIOUS
  <1>2. ASSUME NEW n \in S
        PROVE  n + 1 \in S
    <2>1. SUFFICES ASSUME n + 1 \in 1..Len(f)
                   PROVE  HistoryOf(f, n + 1, f[n + 1].hash)
      OBVIOUS
    <2>2. f[n + 1] \in Record /\ Chained(f, n + 1)
      BY <2>1 DEF VerifyLines
    <2>3. PICK e \in Entry : e = f[n + 1].entry
      BY <2>2 DEF Record
    <2>4. PICK h \in Seq(Entry) : h = f[n + 1].prev
      BY <2>2 DEF Record, Hash
    <2>5. f[n + 1].hash = Append(h, e)
      BY <2>2, <2>3, <2>4 DEF Chained, ChainHash
    <2>6. Len(h) = n /\ \A k \in 1..n : h[k] = f[k].entry
      <3>1. CASE n = 0
        BY <2>2, <2>4, <3>1 DEF Chained, GENESIS
      <3>2. CASE n # 0
        <4>1. n \in 1..Len(f) /\ HistoryOf(f, n, f[n].hash)
          BY <2>1, <3>2
        <4>2. h = f[n].hash
          BY <2>2, <2>4, <3>2 DEF Chained
        <4>. QED BY <4>1, <4>2 DEF HistoryOf
      <3>. QED BY <3>1, <3>2
    <2>. QED BY <2>3, <2>5, <2>6 DEF HistoryOf
  <1>3. \A n \in Nat : n \in S
    <2>. HIDE DEF S
    <2>1. S \in SUBSET Nat
      BY DEF S
    <2>. QED BY <1>1, <1>2, <2>1, SetInduction
  <1>. QED BY <1>3

\* What checkpoint cp commits to, a holds too.
Covers(a, cp) ==
    /\ Len(a.root) = a.count /\ Len(cp.root) = cp.count
    /\ cp.count <= a.count
    /\ \A k \in 1..cp.count : a.root[k] = cp.root[k]

\* The root of a checkpoint that a log extends is the log's history.
LEMMA RootIsHistory ==
    ASSUME NEW f \in Seq(Record), VerifyLines(f, Key),
           NEW cp \in Checkpoint, ExtendsCheckpoint(f, cp)
    PROVE  HistoryOf(f, cp.count, cp.root)
  <1>1. cp.count \in Nat /\ cp.count <= Len(f)
    BY DEF Checkpoint, ExtendsCheckpoint
  <1>2. CASE cp.count = 0
    BY <1>2 DEF ExtendsCheckpoint, HistoryOf, GENESIS
  <1>3. CASE cp.count # 0
    <2>1. cp.count \in 1..Len(f) /\ cp.root = f[cp.count].hash
      BY <1>1, <1>3 DEF ExtendsCheckpoint
    <2>. QED BY <2>1, HashIsHistory
  <1>. QED BY <1>2, <1>3

\* Of two checkpoints one log extends, the higher covers the lower.
LEMMA HigherCovers ==
    ASSUME NEW f \in Seq(Record), VerifyLines(f, Key),
           NEW a \in Checkpoint, ExtendsCheckpoint(f, a),
           NEW cp \in Checkpoint, ExtendsCheckpoint(f, cp), cp.count <= a.count
    PROVE  Covers(a, cp)
  <1>1. HistoryOf(f, a.count, a.root) /\ HistoryOf(f, cp.count, cp.root)
    BY RootIsHistory
  <1>2. a.count \in Nat /\ cp.count \in Nat
    BY DEF Checkpoint
  <1>. QED BY <1>1, <1>2 DEF HistoryOf, Covers

\* A log that extends a checkpoint extends what that one covers.
LEMMA CoveredExtends ==
    ASSUME NEW f \in Seq(Record), VerifyLines(f, Key),
           NEW a \in Checkpoint, ExtendsCheckpoint(f, a),
           NEW cp \in Checkpoint, Covers(a, cp)
    PROVE  ExtendsCheckpoint(f, cp) /\ cp.count <= a.count
  <1>0. cp.count \in Nat /\ a.count \in Nat /\ a.count <= Len(f) /\ cp.count <= a.count
    BY DEF Checkpoint, ExtendsCheckpoint, Covers
  <1>1. PICK r \in Seq(Entry) : r = cp.root
    BY DEF Checkpoint, Hash
  <1>2. Len(r) = cp.count /\ \A k \in 1..cp.count : r[k] = f[k].entry
    <2>1. HistoryOf(f, a.count, a.root)
      BY RootIsHistory
    <2>. QED BY <1>0, <1>1, <2>1 DEF HistoryOf, Covers
  <1>3. CASE cp.count = 0
    BY <1>0, <1>1, <1>2, <1>3 DEF ExtendsCheckpoint, GENESIS
  <1>4. CASE cp.count # 0
    <2>1. cp.count \in 1..Len(f)
      BY <1>0, <1>4
    <2>2. HistoryOf(f, cp.count, f[cp.count].hash) /\ f[cp.count] \in Record
      BY <2>1, HashIsHistory
    <2>3. PICK h \in Seq(Entry) : h = f[cp.count].hash
      BY <2>2 DEF Record, Hash
    <2>4. Len(h) = Len(r) /\ \A k \in 1..Len(r) : h[k] = r[k]
      BY <1>2, <2>2, <2>3 DEF HistoryOf
    <2>5. h = r
      BY <2>4
    <2>. QED BY <1>0, <1>1, <1>4, <2>3, <2>5 DEF ExtendsCheckpoint
  <1>. QED BY <1>0, <1>3, <1>4

\* What the anchor file holds, or may hold after a power loss, covers whatever
\* was reported sealed.
AnchorsCover ==
    /\ anchor \in stable
    /\ \A s \in stable : \A cp \in sealed : \E a \in s : Covers(a, cp)

\* Whoever holds the ledger has what was sealed below its head.
SealedHeld ==
    \A p \in Proc : handle[p].open =>
        \A cp \in sealed : ExtendsCheckpoint(file, cp) /\ cp.count <= handle[p].next_seq

AnchorInv == Anchoring = {TRUE} => AnchorsCover /\ SealedHeld

\* A ledger opened on its anchor holds what was sealed.
LEMMA AnchoredOpen ==
    ASSUME IInv, AnchorInv, Anchoring = {TRUE}, NEW p \in Proc, NEW key \in Key,
           NEW retired \in SUBSET Key, Open(p, key, retired, TRUE)
    PROVE  AnchorInv'
  <1>1. file \in Seq(Record) /\ VerifyLines(file, Key)
        /\ sealed \in SUBSET Checkpoint /\ anchor \in SUBSET Checkpoint
    BY DEF IInv, TypeOK, Intact
  <1>2. \A cp \in anchor : ExtendsCheckpoint(file, cp)
    BY DEF Open, ResolveOpenHead
  <1>3. UNCHANGED <<file, anchor, stable, sealed>>
    BY DEF Open
  <1>4. ASSUME NEW cp \in sealed
        PROVE  ExtendsCheckpoint(file, cp) /\ cp.count <= Len(file)
    <2>1. PICK a \in anchor : Covers(a, cp)
      BY DEF AnchorInv, AnchorsCover
    <2>2. ExtendsCheckpoint(file, cp)
      BY <1>1, <1>2, <2>1, CoveredExtends
    <2>. QED BY <2>2 DEF ExtendsCheckpoint
  <1>5. \A q \in Proc : handle'[q].open => handle'[q].next_seq = Len(file)
    BY DEF Open, LockSingleWriter, IInv, TypeOK
  <1>. QED BY <1>3, <1>4, <1>5 DEF AnchorInv, AnchorsCover, SealedHeld

\* Sealing a head that holds what was sealed before covers it, and itself.
LEMMA Seals ==
    ASSUME IInv, HeadsHeld, AnchorInv, Anchoring = {TRUE}, NEW p \in Proc, SealAnchor(p)
    PROVE  AnchorInv'
  <1>1. file \in Seq(Record) /\ VerifyLines(file, Key)
        /\ sealed \in SUBSET Checkpoint /\ handle[p] \in Handle
    BY DEF IInv, TypeOK, Intact
  <1>2. PICK c \in Checkpoint : c = CheckpointOf(handle[p])
    BY <1>1, CheckpointType
  <1>3. handle[p].open /\ ExtendsCheckpoint(file, c) /\ c.count = handle[p].next_seq
    BY <1>2 DEF SealAnchor, Free, HeadsHeld, CheckpointOf
  <1>4. UNCHANGED <<file, handle>> /\ anchor' = {c}
    BY <1>2 DEF SealAnchor
  <1>5. \A cp \in sealed : Covers(c, cp)
    BY <1>1, <1>3, HigherCovers DEF AnchorInv, SealedHeld
  <1>6. Covers(c, c)
    <2>1. c.count <= c.count
      BY DEF Checkpoint
    <2>. QED BY <1>1, <1>3, <2>1, HigherCovers
  <1>7. \A q \in Proc : handle[q].open => q = p
    BY <1>3 DEF IInv, HeadAgrees
  <1>8. c.count <= handle[p].next_seq
    BY <1>3 DEF Checkpoint
  <1>9. CASE stable' = {anchor'} /\ sealed' = sealed \cup anchor'
    <2>1. AnchorsCover'
      BY <1>4, <1>5, <1>6, <1>9 DEF AnchorsCover
    <2>2. SealedHeld'
      BY <1>3, <1>4, <1>7, <1>8, <1>9 DEF AnchorInv, SealedHeld
    <2>. QED BY <2>1, <2>2 DEF AnchorInv
  <1>10. CASE stable' = stable \cup {anchor'} /\ sealed' = sealed
    <2>1. AnchorsCover'
      BY <1>4, <1>5, <1>10 DEF AnchorInv, AnchorsCover
    <2>2. SealedHeld'
      BY <1>4, <1>10 DEF AnchorInv, SealedHeld
    <2>. QED BY <2>1, <2>2 DEF AnchorInv
  <1>. QED BY <1>9, <1>10 DEF SealAnchor

\* Every action keeps the anchors covering what was sealed.
LEMMA AnchorStep ==
    ASSUME IInv, IInv', HeadsHeld, AnchorInv, [Next]_vars
    PROVE  AnchorInv'
  <1>. SUFFICES ASSUME Anchoring = {TRUE} PROVE AnchorInv'
    BY DEF AnchorInv
  <1>0. TypeOK /\ TypeOK' /\ AnchorsCover /\ SealedHeld
    BY DEF IInv, AnchorInv
  <1>1. CASE \E p \in Proc : SealAnchor(p)
    BY <1>1, Seals
  <1>2. CASE \E p \in Proc, key \in Key, retired \in SUBSET Key, anchored \in Anchoring :
                 Open(p, key, retired, anchored)
    BY <1>2, AnchoredOpen
  <1>3. CASE PowerLoss
    <2>1. AnchorsCover'
      BY <1>0, <1>3 DEF PowerLoss, AnchorsCover
    <2>2. SealedHeld'
      BY <1>3 DEF PowerLoss, SealedHeld, Closed
    <2>. QED BY <2>1, <2>2 DEF AnchorInv
  <1>4. CASE Truncate
    <2>1. AnchorsCover'
      BY <1>0, <1>4 DEF Truncate, AnchorsCover
    <2>2. SealedHeld'
      BY <1>4 DEF Truncate, LockSingleWriter, SealedHeld
    <2>. QED BY <2>1, <2>2 DEF AnchorInv
  <1>5. CASE /\ ~PowerLoss /\ ~Truncate
             /\ UNCHANGED <<anchor, stable, sealed>>
             /\ \A q \in Proc : handle'[q].open => handle[q].open
    <2>1. Continues
      BY <1>5, StepContinues
    <2>2. AnchorsCover'
      BY <1>0, <1>5 DEF AnchorsCover
    <2>3. ASSUME NEW q \in Proc, handle'[q].open, NEW cp \in sealed
          PROVE  ExtendsCheckpoint(file', cp) /\ cp.count <= handle'[q].next_seq
      <3>1. /\ cp \in Checkpoint /\ ExtendsCheckpoint(file, cp)
            /\ cp.count <= handle[q].next_seq
        BY <1>0, <1>5, <2>3 DEF SealedHeld, TypeOK
      <3>2. ExtendsCheckpoint(file', cp)
        BY <1>0, <2>1, <3>1, ContinuesExtends
      <3>3. CASE SameHead(q)
        BY <3>1, <3>2, <3>3 DEF SameHead
      <3>4. CASE Agrees(handle'[q], file')
        BY <3>2, <3>4 DEF Agrees, ExtendsCheckpoint
      <3>. QED BY <2>1, <2>3, <3>2, <3>3, <3>4 DEF Continues
    <2>. QED BY <1>5, <2>2, <2>3 DEF AnchorInv, SealedHeld
  <1>6. ASSUME NEW p \in Proc,
               \/ WriteLine(p) \/ WriteFailed(p) \/ Finish(p) \/ SyncFailed(p)
               \/ Stop(p) \/ \E k \in Key : Rotate(p, k)
        PROVE  /\ UNCHANGED <<anchor, stable, sealed>>
               /\ \A q \in Proc : handle'[q].open => handle[q].open
    <2>1. UNCHANGED <<anchor, stable, sealed>>
      BY <1>6 DEF WriteLine, WriteFailed, Finish, SyncFailed, Stop, Rotate
    <2>2. /\ handle \in [Proc -> Handle] /\ handle' \in [Proc -> Handle]
          /\ \A q \in Proc \ {p} : handle'[q] = handle[q]
      BY <1>0, <1>6 DEF TypeOK, WriteLine, WriteFailed, Finish, SyncFailed, Stop, Rotate
    <2>3. handle[p].open
      BY <1>6 DEF WriteLine, WriteFailed, Finish, SyncFailed, Stop, Rotate, Free,
                  IInv, HeadAgrees, WriterAgrees
    <2>. QED BY <2>1, <2>2, <2>3
  <1>. QED BY <1>1, <1>2, <1>3, <1>4, <1>5, <1>6
           DEF Next, vars, HealFailed, AppendOne, AppendAll, WriteStart, SignCheckpoint

\* Where every open is anchored, a ledger open for writing holds every record
\* below every height seal_anchor reported committed: whatever was cut from the
\* file at rest, lost with the power, or undone of a later anchor's rename.
THEOREM AnchorsAlwaysHold == Spec => []AnchorsHold
  <1>1. Init => AnchorInv
    BY DEF Init, AnchorInv, AnchorsCover, SealedHeld, Closed
  <1>2. IInv /\ IInv' /\ HeadsHeld /\ AnchorInv /\ [Next]_vars => AnchorInv'
    BY AnchorStep
  <1>3. AnchorInv => AnchorsHold
    BY DEF AnchorInv, SealedHeld, AnchorsHold
  <1>. QED BY <1>1, <1>2, <1>3, LedgerInvariant, AlwaysHeadsHeld, PTL DEF Spec

=============================================================================
