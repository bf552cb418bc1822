------------------------- MODULE CoherentMapProofs --------------------------
(***************************************************************************)
(* CoherentMap: no write is lost and no read is stale, for any number of     *)
(* processes, inodes and lengths.                                            *)
(*                                                                          *)
(* WritingInv says who is inside a write: the file's lock is held by the one *)
(* process that is, and what that process read is still the file's map.      *)
(* FreshInv says why a fingerprint may stand for a map: every fingerprint a   *)
(* process has kept is older than this tick of the file's clock, or is the    *)
(* file's own, as long as the tick has room for another rename.  That needs a *)
(* clock fine enough that no three files share a tick (TwoPerTick): with      *)
(* three, the third may have the first one's inode, length and time.          *)
(***************************************************************************)
EXTENDS CoherentMap, TLAPS

\* The clock of the file system separates every third rename from the first.
TwoPerTick == WritesPerTick <= 2

Inside == {"rename", "stat", "publish"}

WritingInv ==
    /\ MapTypeOK
    /\ lock \in Process \cup {Free}
    /\ \A p \in Process : writing[p].pc \in Inside =>
          lock = p /\ writing[p].base = file.map
    /\ \A p \in Process : writing[p].pc = "publish" => writing[p].fp = file.fp

\* A fingerprint that no file to come can have.
Known(fp) ==
    /\ fp \in FileFingerprint
    /\ fp.mtime <= clock
    /\ ticked = 0 => fp.mtime < clock
    /\ ticked <= 1 /\ fp.mtime = clock => fp = file.fp

\* A process serves the file it looked at, or knows that it did not.
FreshAt(p) ==
    /\ reading[p].pc # "idle" => writing[p].pc # "closed"
    /\ mutex[p] = "read" <=> reading[p].pc \in {"load", "return"}
    /\ writing[p].pc # "closed" => /\ Known(cache[p].fp)
                                   /\ cache[p].fp = file.fp => cache[p].map = file.map
    /\ reading[p].pc = "load" => Known(reading[p].fp) /\ reading[p].since <= file.map
    /\ reading[p].pc = "return" => cache[p].map >= reading[p].since
    /\ cache[p].map <= file.map

FreshInv == Known(file.fp) /\ \A p \in Process : FreshAt(p)

-----------------------------------------------------------------------------
LEMMA Constants ==
    /\ MaxWrites \in Nat /\ WritesPerTick \in Nat /\ WritesPerTick > 0
    /\ Free \notin Process
  BY WritesAssumption, ProcessAssumption

\* What a step may do to the writes: begin or leave one without the lock, enter
\* it with the lock, replace the file inside it, look at the file, leave it.
LEMMA WritingInit == MapInit => WritingInv
  <1>. SUFFICES ASSUME MapInit PROVE WritingInv
    OBVIOUS
  <1>1. file \in [fp : FileFingerprint, map : 0..MaxWrites]
    BY Constants DEF MapInit, FileFingerprint
  <1>2. cache \in [Process -> [fp : FileFingerprint \cup {NoFingerprint}, map : 0..MaxWrites]]
    BY <1>1 DEF MapInit
  <1>3. reading \in [Process -> Reading] /\ writing \in [Process -> Writing]
    BY DEF MapInit, Reading, Writing, NotReading, NotWriting
  <1>. QED
    BY <1>1, <1>2, <1>3, Constants DEF MapInit, WritingInv, MapTypeOK, NotWriting, Inside

LEMMA WritingStep == WritingInv /\ [MapNext]_mapVars => WritingInv'
  <1>. SUFFICES ASSUME WritingInv, [MapNext]_mapVars PROVE WritingInv'
    OBVIOUS
  <1>0. /\ MapTypeOK /\ lock \in Process \cup {Free}
        /\ \A p \in Process : writing[p].pc \in Inside =>
              lock = p /\ writing[p].base = file.map
        /\ \A p \in Process : writing[p].pc = "publish" => writing[p].fp = file.fp
    BY DEF WritingInv
  <1>1. /\ file \in [fp : FileFingerprint, map : 0..MaxWrites]
        /\ file.fp \in FileFingerprint /\ file.map \in 0..MaxWrites /\ file.map \in Nat
        /\ clock \in Nat /\ ticked \in 0..WritesPerTick
        /\ cache \in [Process -> [fp : FileFingerprint \cup {NoFingerprint}, map : 0..MaxWrites]]
        /\ mutex \in [Process -> {Free, "read", "write"}]
        /\ reading \in [Process -> Reading] /\ writing \in [Process -> Writing]
        /\ \A p \in Process : /\ reading[p] \in Reading /\ writing[p] \in Writing
                              /\ reading[p].fp \in FileFingerprint \cup {NoFingerprint}
                              /\ writing[p].fp \in FileFingerprint \cup {NoFingerprint}
    BY <1>0, Constants DEF MapTypeOK, Reading, Writing
  <1>2. NotReading \in Reading /\ NotWriting \in Writing
        /\ [NotWriting EXCEPT !.pc = "closed"] \in Writing
    BY DEF NotReading, NotWriting, Reading, Writing
  <1>3. ASSUME NEW p \in Process, BeginRead(p) \/ Stat(p) \/ ReturnRead(p) PROVE WritingInv'
    <2>1. UNCHANGED <<file, clock, ticked, lock, cache, writing>>
      BY <1>3 DEF BeginRead, Stat, ReturnRead
    <2>2. mutex' \in [Process -> {Free, "read", "write"}]
      BY <1>1, <1>3 DEF BeginRead, Stat, ReturnRead
    <2>3. reading' \in [Process -> Reading]
      <3>1. CASE BeginRead(p)
        BY <3>1, <1>1 DEF BeginRead, Reading
      <3>2. CASE Stat(p)
        BY <3>2, <1>1 DEF Stat, Reading
      <3>3. CASE ReturnRead(p)
        BY <3>3, <1>1, <1>2 DEF ReturnRead
      <3>. QED BY <1>3, <3>1, <3>2, <3>3
    <2>. QED BY <2>1, <2>2, <2>3, <1>0, <1>1 DEF WritingInv, MapTypeOK
  <1>4. ASSUME NEW p \in Process, Load(p) PROVE WritingInv'
    <2>1. reading' \in [Process -> Reading]
      BY <1>1, <1>4 DEF Load, Reading
    <2>2. cache' \in [Process -> [fp : FileFingerprint \cup {NoFingerprint}, map : 0..MaxWrites]]
      BY <1>1, <1>4 DEF Load
    <2>. QED BY <2>1, <2>2, <1>0, <1>1, <1>4 DEF Load, WritingInv, MapTypeOK
  <1>5. ASSUME NEW p \in Process, BeginWrite(p) PROVE WritingInv'
    <2>1. writing' \in [Process -> Writing]
      BY <1>1, <1>5 DEF BeginWrite, Writing
    <2>2. /\ writing'[p].pc = "locking" /\ writing[p].pc = "idle"
          /\ \A q \in Process : q # p => writing'[q] = writing[q]
      BY <1>1, <1>5 DEF BeginWrite, Writing
    <2>. QED BY <2>1, <2>2, <1>0, <1>1, <1>5 DEF BeginWrite, WritingInv, MapTypeOK, Inside
  <1>6. ASSUME NEW p \in Process, LockAndRead(p) PROVE WritingInv'
    <2>1. writing' \in [Process -> Writing]
      BY <1>1, <1>6 DEF LockAndRead, Writing
    <2>2. /\ writing'[p].pc = "rename" /\ writing'[p].base = file.map
          /\ \A q \in Process : q # p => writing'[q] = writing[q]
      BY <1>1, <1>6 DEF LockAndRead, Writing
    <2>3. \A q \in Process : writing[q].pc \notin Inside
      BY <1>0, <1>6, Constants DEF LockAndRead
    <2>4. \A q \in Process : writing'[q].pc \in Inside => q = p
      BY <2>2, <2>3
    <2>. QED BY <2>1, <2>2, <2>4, <1>0, <1>1, <1>6 DEF LockAndRead, WritingInv, MapTypeOK, Inside
  <1>7. ASSUME NEW p \in Process, Rename(p) PROVE WritingInv'
    <2>1. file' \in [fp : FileFingerprint, map : 0..MaxWrites] /\ ticked' \in 0..WritesPerTick
      BY <1>1, <1>7, Constants DEF Rename, FileFingerprint
    <2>2. writing[p].pc = "rename" /\ lock = p
      BY <1>0, <1>7 DEF Rename, Inside
    <2>3. \A q \in Process : q # p => writing[q].pc \notin Inside
      BY <2>2, <1>0
    <2>4. \/ /\ writing' = [writing EXCEPT ![p].pc = "stat", ![p].base = file'.map]
             /\ lock' = lock
          \/ writing' = [writing EXCEPT ![p] = NotWriting] /\ lock' = Free
      BY <1>7 DEF Rename
    <2>5. /\ writing' \in [Process -> Writing]
          /\ \A q \in Process : q # p => writing'[q] = writing[q]
          /\ \/ writing'[p].pc = "stat" /\ writing'[p].base = file'.map /\ lock' = p
             \/ writing'[p].pc = "idle" /\ lock' = Free
      <3>1. file'.map \in Nat
        BY <2>1
      <3>2. CASE /\ writing' = [writing EXCEPT ![p].pc = "stat", ![p].base = file'.map]
                 /\ lock' = lock
        BY <3>1, <3>2, <2>2, <1>1 DEF Writing
      <3>3. CASE writing' = [writing EXCEPT ![p] = NotWriting] /\ lock' = Free
        <4>1. writing' \in [Process -> Writing]
          BY <3>3, <1>1, <1>2
        <4>. QED BY <4>1, <3>3, <1>1 DEF NotWriting
      <3>. QED BY <2>4, <3>2, <3>3
    <2>6. \A q \in Process : writing'[q].pc \in Inside =>
             /\ lock' = q /\ writing'[q].base = file'.map /\ writing'[q].pc # "publish"
      BY <2>3, <2>5 DEF Inside
    <2>7. UNCHANGED <<clock, cache, mutex, reading>>
      BY <1>7 DEF Rename
    <2>8. lock' \in Process \cup {Free} /\ (lock' \in Process => writing'[lock'].pc \in Inside)
      BY <2>5, Constants DEF Inside
    <2>. QED BY <2>1, <2>5, <2>6, <2>7, <2>8, <1>1 DEF WritingInv, MapTypeOK, Inside
  <1>8. ASSUME NEW p \in Process, NotRenamed(p) PROVE WritingInv'
    <2>2. writing[p].pc = "rename" /\ lock = p /\ writing[p].base = file.map
      BY <1>0, <1>8 DEF NotRenamed, Inside
    <2>3. \A q \in Process : q # p => writing[q].pc \notin Inside
      BY <2>2, <1>0
    <2>4. \/ writing' = [writing EXCEPT ![p].pc = "stat"] /\ lock' = lock
          \/ writing' = [writing EXCEPT ![p] = NotWriting] /\ lock' = Free
      BY <1>8 DEF NotRenamed
    <2>5. /\ writing' \in [Process -> Writing]
          /\ \A q \in Process : q # p => writing'[q] = writing[q]
          /\ \/ writing'[p].pc = "stat" /\ writing'[p].base = file.map /\ lock' = p
             \/ writing'[p].pc = "idle" /\ lock' = Free
      <3>2. CASE writing' = [writing EXCEPT ![p].pc = "stat"] /\ lock' = lock
        BY <3>2, <2>2, <1>1 DEF Writing
      <3>3. CASE writing' = [writing EXCEPT ![p] = NotWriting] /\ lock' = Free
        <4>1. writing' \in [Process -> Writing]
          BY <3>3, <1>1, <1>2
        <4>. QED BY <4>1, <3>3, <1>1 DEF NotWriting
      <3>. QED BY <2>4, <3>2, <3>3
    <2>6. \A q \in Process : writing'[q].pc \in Inside =>
             /\ lock' = q /\ writing'[q].base = file.map /\ writing'[q].pc # "publish"
      BY <2>3, <2>5 DEF Inside
    <2>7. UNCHANGED <<file, clock, ticked, cache, mutex, reading>>
      BY <1>8 DEF NotRenamed
    <2>8. lock' \in Process \cup {Free} /\ (lock' \in Process => writing'[lock'].pc \in Inside)
      BY <2>5, Constants DEF Inside
    <2>. QED BY <2>5, <2>6, <2>7, <2>8, <1>1 DEF WritingInv, MapTypeOK, Inside
  <1>9. ASSUME NEW p \in Process, StatWritten(p) PROVE WritingInv'
    <2>1. /\ writing' \in [Process -> Writing]
          /\ writing'[p].pc = "publish" /\ writing'[p].base = writing[p].base
          /\ writing'[p].fp = file.fp
          /\ \A q \in Process : q # p => writing'[q] = writing[q]
      BY <1>1, <1>9 DEF StatWritten, Writing
    <2>2. writing[p].pc = "stat" /\ UNCHANGED <<file, clock, ticked, lock, cache, mutex, reading>>
      BY <1>9 DEF StatWritten
    <2>. QED BY <2>1, <2>2, <1>0, <1>1 DEF WritingInv, MapTypeOK, Inside
  <1>10. ASSUME NEW p \in Process, Publish(p) PROVE WritingInv'
    <2>1. writing[p].pc = "publish" /\ lock = p /\ writing[p].base = file.map
      BY <1>0, <1>10 DEF Publish, Inside
    <2>2. writing' \in [Process -> Writing] /\ writing'[p].pc = "idle"
          /\ \A q \in Process : q # p => writing'[q] = writing[q]
      BY <1>1, <1>2, <1>10 DEF Publish, NotWriting
    <2>3. cache' \in [Process -> [fp : FileFingerprint \cup {NoFingerprint}, map : 0..MaxWrites]]
      BY <2>1, <1>1, <1>10 DEF Publish
    <2>4. mutex' \in [Process -> {Free, "read", "write"}]
      BY <1>1, <1>10 DEF Publish
    <2>5. \A q \in Process : writing'[q].pc \notin Inside
      BY <2>1, <2>2, <1>0 DEF Inside
    <2>6. lock' = Free /\ UNCHANGED <<file, clock, ticked, reading>>
      BY <1>10 DEF Publish
    <2>. QED BY <2>2, <2>3, <2>4, <2>5, <2>6, <1>1, Constants DEF WritingInv, MapTypeOK, Inside
  <1>11. ASSUME NEW p \in Process, KillProcess(p) PROVE WritingInv'
    <2>1. writing' \in [Process -> Writing] /\ writing'[p].pc = "closed"
          /\ \A q \in Process : q # p => writing'[q] = writing[q]
      BY <1>1, <1>2, <1>11 DEF KillProcess, NotWriting
    <2>2. cache' \in [Process -> [fp : FileFingerprint \cup {NoFingerprint}, map : 0..MaxWrites]]
      BY <1>1, <1>11, Constants DEF KillProcess
    <2>3. mutex' \in [Process -> {Free, "read", "write"}] /\ reading' \in [Process -> Reading]
      BY <1>1, <1>2, <1>11 DEF KillProcess
    <2>4. lock' = (IF lock = p THEN Free ELSE lock) /\ UNCHANGED <<file, clock, ticked>>
      BY <1>11 DEF KillProcess
    <2>5. lock' \in Process => lock' # p /\ lock' = lock
      BY <2>4, Constants
    <2>. QED BY <2>1, <2>2, <2>3, <2>4, <2>5, <1>0, <1>1 DEF WritingInv, MapTypeOK, Inside
  <1>12. ASSUME NEW p \in Process, OpenMap(p) PROVE WritingInv'
    <2>1. writing' \in [Process -> Writing] /\ writing'[p].pc = "idle"
          /\ \A q \in Process : q # p => writing'[q] = writing[q]
      BY <1>1, <1>2, <1>12 DEF OpenMap, NotWriting
    <2>2. cache' \in [Process -> [fp : FileFingerprint \cup {NoFingerprint}, map : 0..MaxWrites]]
      BY <1>1, <1>12 DEF OpenMap
    <2>3. writing[p].pc = "closed" /\ UNCHANGED <<file, clock, ticked, lock, mutex, reading>>
      BY <1>12 DEF OpenMap
    <2>. QED BY <2>1, <2>2, <2>3, <1>0, <1>1 DEF WritingInv, MapTypeOK, Inside
  <1>13. ASSUME Tick PROVE WritingInv'
    BY <1>0, <1>1, <1>13, Constants DEF Tick, WritingInv, MapTypeOK
  <1>14. ASSUME UNCHANGED mapVars PROVE WritingInv'
    BY <1>0, <1>1, <1>14 DEF mapVars, WritingInv, MapTypeOK
  <1>. QED
    BY <1>3, <1>4, <1>5, <1>6, <1>7, <1>8, <1>9, <1>10, <1>11, <1>12, <1>13, <1>14 DEF MapNext

-----------------------------------------------------------------------------
LEMMA FreshInit == MapInit => FreshInv
  <1>. SUFFICES ASSUME MapInit PROVE FreshInv
    OBVIOUS
  <1>1. file.fp \in FileFingerprint /\ file.fp.mtime = 0 /\ file.map = 0
    BY DEF MapInit, FileFingerprint
  <1>2. Known(file.fp)
    BY <1>1 DEF MapInit, Known
  <1>3. \A p \in Process : /\ cache[p] = file /\ mutex[p] = Free
                           /\ reading[p].pc = "idle"
    BY DEF MapInit, NotReading
  <1>. QED BY <1>1, <1>2, <1>3 DEF FreshInv, FreshAt, Free

\* A kept fingerprint stays known: across ticks, and across the rename of a file
\* that the tick still has room for.
LEMMA KnownKept ==
    ASSUME TwoPerTick, WritingInv, [MapNext]_mapVars, NEW fp, Known(fp), Known(file.fp)
    PROVE  /\ Known(fp)'
           /\ Known(file.fp)'
           /\ file' # file => fp # file'.fp /\ file'.map > file.map
  <1>0. /\ clock \in Nat /\ ticked \in 0..WritesPerTick /\ WritesPerTick \in Nat
        /\ ticked \in Nat
        /\ file.fp \in FileFingerprint /\ file.map \in Nat
        /\ fp \in FileFingerprint /\ fp.mtime \in Nat /\ file.fp.mtime \in Nat
    BY Constants DEF WritingInv, MapTypeOK, Known, FileFingerprint
  <1>1. CASE UNCHANGED <<file, clock, ticked>>
    BY <1>1 DEF Known
  <1>2. CASE Tick
    BY <1>0, <1>2 DEF Tick, Known
  <1>3. CASE \E p \in Process : Rename(p)
    <2>1. PICK p \in Process : Rename(p)
      BY <1>3
    <2>2. PICK ino \in Ino \ {file.fp.ino}, size \in Size :
             file' = [fp |-> [ino |-> ino, size |-> size, mtime |-> clock], map |-> file.map + 1]
      BY <2>1 DEF Rename
    <2>3. /\ file'.fp \in FileFingerprint /\ file'.fp.mtime = clock /\ file'.fp.ino # file.fp.ino
          /\ file'.map = file.map + 1
      BY <2>2, <1>0 DEF FileFingerprint
    <2>4. ticked <= 1 /\ ticked' = ticked + 1 /\ clock' = clock
      BY <2>1, <1>0 DEF Rename, TwoPerTick
    <2>5. fp # file'.fp
      BY <2>3, <2>4 DEF Known
    <2>6. Known(fp)'
      BY <2>4, <1>0 DEF Known
    <2>7. Known(file.fp)'
      BY <2>3, <2>4, <1>0 DEF Known
    <2>. QED BY <2>3, <2>5, <2>6, <2>7, <1>0
  <1>4. UNCHANGED <<file, clock, ticked>> \/ Tick \/ \E p \in Process : Rename(p)
    BY DEF MapNext, mapVars, BeginRead, Stat, Load, ReturnRead, BeginWrite, LockAndRead, NotRenamed,
           StatWritten, Publish, KillProcess, OpenMap
  <1>. QED BY <1>1, <1>2, <1>3, <1>4

\* A process that does not move keeps what it serves, whatever the others do.
LEMMA FreshKept ==
    ASSUME TwoPerTick, WritingInv, WritingInv', [MapNext]_mapVars, Known(file.fp),
           NEW p \in Process, FreshAt(p),
           cache'[p] = cache[p] /\ mutex'[p] = mutex[p],
           reading'[p] = reading[p],
           writing'[p].pc = "closed" <=> writing[p].pc = "closed"
    PROVE  FreshAt(p)'
  <1>1. /\ file.map \in Nat /\ file'.map \in Nat /\ cache[p].map \in Nat
        /\ reading[p].since \in Nat
    BY Constants DEF WritingInv, MapTypeOK, Reading
  <1>2. file'.map >= file.map
    BY <1>1, KnownKept
  <1>3. ASSUME writing'[p].pc # "closed"
        PROVE  Known(cache[p].fp)' /\ (cache'[p].fp = file'.fp => cache'[p].map = file'.map)
    <2>1. Known(cache[p].fp) /\ (cache[p].fp = file.fp => cache[p].map = file.map)
      BY <1>3 DEF FreshAt
    <2>2. PICK fp : fp = cache[p].fp
      OBVIOUS
    <2>3. Known(fp)' /\ (file' # file => fp # file'.fp)
      BY <2>1, <2>2, KnownKept
    <2>4. Known(cache[p].fp)'
      BY <2>2, <2>3 DEF Known
    <2>. QED BY <2>1, <2>2, <2>3, <2>4
  <1>4. ASSUME reading[p].pc = "load" PROVE Known(reading[p].fp)'
    BY <1>4, KnownKept DEF FreshAt
  <1>. QED BY <1>1, <1>2, <1>3, <1>4 DEF FreshAt

LEMMA FreshStep ==
    TwoPerTick /\ WritingInv /\ WritingInv' /\ FreshInv /\ [MapNext]_mapVars => FreshInv'
  <1>. SUFFICES ASSUME TwoPerTick, WritingInv, WritingInv', FreshInv, [MapNext]_mapVars PROVE FreshInv'
    OBVIOUS
  <1>0. Known(file.fp) /\ \A p \in Process : FreshAt(p)
    BY DEF FreshInv
  <1>1. Known(file.fp)'
    BY <1>0, KnownKept DEF Known
  <1>2. /\ file.map \in Nat /\ file.fp \in FileFingerprint
        /\ \A p \in Process : cache[p].map \in Nat /\ reading[p].since \in Nat
        /\ cache \in [Process -> [fp : FileFingerprint \cup {NoFingerprint}, map : 0..MaxWrites]]
        /\ mutex \in [Process -> {Free, "read", "write"}]
        /\ reading \in [Process -> Reading] /\ writing \in [Process -> Writing]
    BY Constants DEF WritingInv, MapTypeOK, Reading
  <1>3. SUFFICES \A p \in Process : FreshAt(p)'
    BY <1>1 DEF FreshInv
  <1>4. ASSUME NEW p \in Process,
               \A q \in Process : q # p =>
                   /\ cache'[q] = cache[q] /\ mutex'[q] = mutex[q]
                   /\ reading'[q] = reading[q] /\ writing'[q] = writing[q],
               FreshAt(p)'
        PROVE  \A q \in Process : FreshAt(q)'
    BY <1>0, <1>4, FreshKept
  <1>5. ASSUME NEW p \in Process, BeginRead(p) PROVE \A q \in Process : FreshAt(q)'
    <2>1. /\ reading[p].pc = "idle" /\ writing[p].pc # "closed"
          /\ reading'[p].pc = "locking" /\ \A q \in Process : q # p => reading'[q] = reading[q]
          /\ UNCHANGED <<file, clock, ticked, lock, cache, mutex, writing>>
      BY <1>2, <1>5 DEF BeginRead, Reading
    <2>2. FreshAt(p)'
      BY <2>1, <1>0 DEF FreshAt, Known
    <2>. QED BY <2>1, <2>2, <1>4
  <1>6. ASSUME NEW p \in Process, Stat(p) PROVE \A q \in Process : FreshAt(q)'
    <2>1. /\ reading[p].pc = "locking" /\ mutex'[p] = "read"
          /\ reading'[p] = [pc |-> IF file.fp # cache[p].fp THEN "load" ELSE "return",
                            fp |-> file.fp, since |-> file.map]
          /\ \A q \in Process : q # p => reading'[q] = reading[q] /\ mutex'[q] = mutex[q]
          /\ UNCHANGED <<file, clock, ticked, lock, cache, writing>>
      BY <1>2, <1>6 DEF Stat, Changed
    <2>2. /\ reading'[p].fp = file.fp /\ reading'[p].since = file.map
          /\ reading'[p].pc \in {"load", "return"}
          /\ reading'[p].pc = "return" => file.fp = cache[p].fp
      BY <2>1
    <2>3. writing[p].pc # "closed" /\ cache[p].map <= file.map
          /\ Known(cache[p].fp) /\ (cache[p].fp = file.fp => cache[p].map = file.map)
      BY <2>1, <1>0 DEF FreshAt
    <2>4. FreshAt(p)'
      BY <2>1, <2>2, <2>3, <1>0, <1>2 DEF FreshAt, Known
    <2>. QED BY <2>1, <2>4, <1>4
  <1>7. ASSUME NEW p \in Process, Load(p) PROVE \A q \in Process : FreshAt(q)'
    <2>1. /\ reading[p].pc = "load" /\ reading'[p].pc = "return"
          /\ reading'[p].since = reading[p].since
          /\ cache'[p].fp = reading[p].fp /\ cache'[p].map = file.map
          /\ \A q \in Process : q # p => reading'[q] = reading[q] /\ cache'[q] = cache[q]
          /\ UNCHANGED <<file, clock, ticked, lock, mutex, writing>>
      BY <1>2, <1>7 DEF Load, Reading
    <2>2. FreshAt(p)'
      BY <2>1, <1>0, <1>2 DEF FreshAt, Known
    <2>. QED BY <2>1, <2>2, <1>4
  <1>8. ASSUME NEW p \in Process, ReturnRead(p) PROVE \A q \in Process : FreshAt(q)'
    <2>1. /\ reading'[p].pc = "idle" /\ mutex'[p] = Free
          /\ \A q \in Process : q # p => reading'[q] = reading[q] /\ mutex'[q] = mutex[q]
          /\ UNCHANGED <<file, clock, ticked, lock, cache, writing>>
      BY <1>2, <1>8 DEF ReturnRead, NotReading
    <2>2. FreshAt(p)'
      BY <2>1, <1>0 DEF FreshAt, Known, Free
    <2>. QED BY <2>1, <2>2, <1>4
  <1>9. ASSUME NEW p \in Process,
               BeginWrite(p) \/ LockAndRead(p) \/ Rename(p) \/ NotRenamed(p) \/ StatWritten(p)
        PROVE  \A q \in Process : FreshAt(q)'
    <2>1. writing[p].pc # "closed" /\ UNCHANGED <<cache, mutex, reading>>
      BY <1>9 DEF BeginWrite, LockAndRead, Rename, NotRenamed, StatWritten
    <2>2. /\ writing'[p].pc # "closed"
          /\ \A q \in Process : q # p => writing'[q] = writing[q]
      <3>1. CASE BeginWrite(p) \/ LockAndRead(p) \/ StatWritten(p)
        BY <3>1, <1>2 DEF BeginWrite, LockAndRead, StatWritten, Writing
      <3>2. CASE Rename(p)
        <4>1. \/ writing' = [writing EXCEPT ![p].pc = "stat", ![p].base = file'.map]
              \/ writing' = [writing EXCEPT ![p] = NotWriting]
          BY <3>2 DEF Rename
        <4>. QED BY <4>1, <1>2 DEF Writing, NotWriting
      <3>3. CASE NotRenamed(p)
        BY <3>3, <1>2 DEF NotRenamed, Writing, NotWriting
      <3>. QED BY <1>9, <3>1, <3>2, <3>3
    <2>. QED BY <2>1, <2>2, <1>0, FreshKept
  <1>10. ASSUME NEW p \in Process, Publish(p) PROVE \A q \in Process : FreshAt(q)'
    <2>1. writing[p].pc = "publish" /\ writing[p].base = file.map /\ writing[p].fp = file.fp
      BY <1>10 DEF Publish, WritingInv, Inside
    <2>2. /\ cache'[p].fp = file.fp /\ cache'[p].map = file.map
          /\ mutex[p] # "read" /\ mutex'[p] = Free /\ writing'[p].pc = "idle"
          /\ \A q \in Process : q # p => /\ writing'[q] = writing[q] /\ mutex'[q] = mutex[q]
                                         /\ cache'[q] = cache[q]
          /\ UNCHANGED <<file, clock, ticked, reading>>
      BY <2>1, <1>2, <1>10 DEF Publish, NotWriting
    <2>3. FreshAt(p)'
      BY <2>2, <1>0, <1>2 DEF FreshAt, Known, Free
    <2>. QED BY <2>2, <2>3, <1>4
  <1>11. ASSUME NEW p \in Process, KillProcess(p) PROVE \A q \in Process : FreshAt(q)'
    <2>1. /\ cache'[p].map = 0 /\ reading'[p].pc = "idle"
          /\ mutex'[p] = Free /\ writing'[p].pc = "closed"
          /\ \A q \in Process : q # p => /\ writing'[q] = writing[q] /\ mutex'[q] = mutex[q]
                                         /\ cache'[q] = cache[q] /\ reading'[q] = reading[q]
          /\ UNCHANGED <<file, clock, ticked>>
      BY <1>2, <1>11 DEF KillProcess, NotWriting, NotReading
    <2>2. FreshAt(p)'
      BY <2>1, <1>2 DEF FreshAt, Free
    <2>. QED BY <2>1, <2>2, <1>4
  <1>12. ASSUME NEW p \in Process, OpenMap(p) PROVE \A q \in Process : FreshAt(q)'
    <2>1. /\ writing[p].pc = "closed" /\ cache'[p] = file /\ writing'[p].pc = "idle"
          /\ \A q \in Process : q # p => writing'[q] = writing[q] /\ cache'[q] = cache[q]
          /\ UNCHANGED <<file, clock, ticked, mutex, reading>>
      BY <1>2, <1>12 DEF OpenMap, NotWriting
    <2>2. reading[p].pc = "idle"
      BY <2>1, <1>0 DEF FreshAt
    <2>3. FreshAt(p)'
      BY <2>1, <2>2, <1>0, <1>2 DEF FreshAt, Known
    <2>. QED BY <2>1, <2>3, <1>4
  <1>13. ASSUME Tick \/ UNCHANGED mapVars PROVE \A q \in Process : FreshAt(q)'
    <2>1. UNCHANGED <<cache, mutex, reading, writing>>
      BY <1>13 DEF Tick, mapVars
    <2>. QED BY <2>1, <1>0, FreshKept
  <1>. QED
    BY <1>5, <1>6, <1>7, <1>8, <1>9, <1>10, <1>11, <1>12, <1>13 DEF MapNext

-----------------------------------------------------------------------------
\* The file's lock is held by the one process inside its write, which still
\* holds the map the file does (write, with_write_lock).
THEOREM OneWriter == MapSpec => []WritingInv
  <1>. QED BY WritingInit, WritingStep, PTL DEF MapSpec

\* A rename replaces the map its write read, for any number of processes,
\* whatever is killed and reopened between (write, with_write_lock).
THEOREM WritesNeverLost == MapSpec => NoLostWrite
  <1>1. WritingInv /\ [MapNext]_mapVars => [ReplacesWhatItRead]_mapVars
    <2>. SUFFICES ASSUME WritingInv, MapNext, file' # file
                  PROVE  \E p \in Process : /\ writing[p].pc = "rename"
                                            /\ writing'[p].pc # "rename"
                                            /\ writing[p].base = file.map
      BY DEF mapVars, ReplacesWhatItRead
    <2>1. PICK p \in Process : Rename(p)
      BY DEF MapNext, BeginRead, Stat, Load, ReturnRead, BeginWrite, LockAndRead, NotRenamed,
             StatWritten, Publish, KillProcess, OpenMap, Tick
    <2>2. writing[p].pc = "rename" /\ writing[p].base = file.map
      BY <2>1 DEF Rename, WritingInv, Inside
    <2>3. \/ writing' = [writing EXCEPT ![p].pc = "stat", ![p].base = file'.map]
          \/ writing' = [writing EXCEPT ![p] = NotWriting]
      BY <2>1 DEF Rename
    <2>4. writing'[p].pc # "rename"
      BY <2>3 DEF WritingInv, MapTypeOK, Writing, NotWriting
    <2>. QED BY <2>2, <2>4
  <1>. QED BY <1>1, OneWriter, PTL DEF MapSpec, NoLostWrite

\* A read returns a map at least as new as the file it looked at, and the file's
\* lock is held only inside a write, when no three renames share a tick of the
\* file's clock (read, write, file_fingerprint).
THEOREM CachesAlwaysSound == TwoPerTick /\ MapSpec => []CachesSound
  <1>1. WritingInv /\ FreshInv => CachesSound
    BY DEF WritingInv, FreshInv, FreshAt, CachesSound, ReadsAreFresh
  <1>2. TwoPerTick /\ WritingInv /\ WritingInv' /\ FreshInv /\ [MapNext]_mapVars => FreshInv'
    BY FreshStep
  <1>3. ASSUME TwoPerTick PROVE MapSpec => []CachesSound
    <2>1. WritingInv /\ WritingInv' /\ FreshInv /\ [MapNext]_mapVars => FreshInv'
      BY <1>2, <1>3
    <2>. QED BY <2>1, <1>1, FreshInit, OneWriter, PTL DEF MapSpec
  <1>. QED BY <1>3

=============================================================================
