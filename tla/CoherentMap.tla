---------------------------- MODULE CoherentMap -----------------------------
(***************************************************************************)
(* CoherentMap of decern-store, behind the mission registry: a map in one    *)
(* file that several processes read through a cache and write under a lock.  *)
(* A read compares the file's fingerprint with the one its cache was loaded  *)
(* under, and takes no file lock; a write reads, renames a new file over the *)
(* old one and publishes to the cache of its own process.                    *)
(*                                                                          *)
(* What the map holds is abstracted to the number of the write that made it, *)
(* and its length in bytes to a choice: a later map may be as long as an     *)
(* earlier one.  Inode numbers are reused as soon as they are free, and the  *)
(* clock of the file system is coarse: writes may share one of its ticks.    *)
(***************************************************************************)
EXTENDS Integers, FiniteSets

CONSTANTS
    Process,
    Ino,            \* inode numbers of the file system
    Size,           \* lengths a map may have
    MaxWrites,      \* bound on the renames
    WritesPerTick   \* how many renames may share one tick of the file's clock

ASSUME InoAssumption == Cardinality(Ino) >= 2 /\ Size # {}
ASSUME WritesAssumption == MaxWrites \in Nat /\ WritesPerTick \in Nat \ {0}

VARIABLES
    file,       \* the file: its fingerprint, and the write whose map it holds
    clock,      \* the file system's clock
    ticked,     \* how many renames this tick of the clock has seen
    lock,       \* who holds the lock of <path>.lock
    cache,      \* each process's map and the fingerprint it was loaded under
    mutex,      \* who holds the mutex around the cache
    reading,    \* the read each process is in
    writing     \* the write each process is in

mapVars == <<file, clock, ticked, lock, cache, mutex, reading, writing>>

-----------------------------------------------------------------------------
FileFingerprint == [ino : Ino, size : Size, mtime : Nat]
NoFingerprint == [ino |-> 0, size |-> 0, mtime |-> 0]
Free == "free"
ASSUME ProcessAssumption == Free \notin Process

\* since: history, the file's map when the read began.
Reading == [pc : {"idle", "locking", "load", "return"},
            fp : FileFingerprint \cup {NoFingerprint}, since : Nat]
NotReading == [pc |-> "idle", fp |-> NoFingerprint, since |-> 0]

\* base: the map the write holds.
Writing == [pc : {"closed", "idle", "locking", "rename", "stat", "publish"},
            base : Nat, fp : FileFingerprint \cup {NoFingerprint}]
NotWriting == [pc |-> "idle", base |-> 0, fp |-> NoFingerprint]

MapInit ==
    /\ file \in [fp : [ino : Ino, size : Size, mtime : {0}], map : {0}]
    /\ clock = 0 /\ ticked = 1 /\ lock = Free
    /\ cache = [p \in Process |-> file]
    /\ mutex = [p \in Process |-> Free]
    /\ reading = [p \in Process |-> NotReading]
    /\ writing = [p \in Process |-> NotWriting]

-----------------------------------------------------------------------------
(* read. *)

BeginRead(p) ==
    /\ reading[p].pc = "idle" /\ writing[p].pc # "closed"
    /\ reading' = [reading EXCEPT ![p].pc = "locking"]
    /\ UNCHANGED <<file, clock, ticked, lock, cache, mutex, writing>>

\* Mutant: a file of the same length and time is taken to be the same.
ChangedInLength(fp, cached) == fp.size # cached.size \/ fp.mtime # cached.mtime

\* Any difference in the fingerprint is a change.
Changed(fp, cached) == fp # cached

\* The mutex, and the file's fingerprint under it.
Stat(p) ==
    /\ reading[p].pc = "locking" /\ mutex[p] = Free
    /\ mutex' = [mutex EXCEPT ![p] = "read"]
    /\ reading' = [reading EXCEPT ![p] =
                      [pc |-> IF Changed(file.fp, cache[p].fp) THEN "load" ELSE "return",
                       fp |-> file.fp, since |-> file.map]]
    /\ UNCHANGED <<file, clock, ticked, lock, cache, writing>>

\* The file may have been replaced since: its map is kept under the earlier
\* fingerprint.
Load(p) ==
    /\ reading[p].pc = "load"
    /\ cache' = [cache EXCEPT ![p] = [fp |-> reading[p].fp, map |-> file.map]]
    /\ reading' = [reading EXCEPT ![p].pc = "return"]
    /\ UNCHANGED <<file, clock, ticked, lock, mutex, writing>>

ReturnRead(p) ==
    /\ reading[p].pc = "return"
    /\ mutex' = [mutex EXCEPT ![p] = Free]
    /\ reading' = [reading EXCEPT ![p] = NotReading]
    /\ UNCHANGED <<file, clock, ticked, lock, cache, writing>>

-----------------------------------------------------------------------------
(* write. *)

\* Mutant: the mutex is taken before the file's lock.
BeginWriteMutex(p) ==
    /\ writing[p].pc = "idle" /\ mutex[p] = Free
    /\ mutex' = [mutex EXCEPT ![p] = "write"]
    /\ writing' = [writing EXCEPT ![p].pc = "locking"]
    /\ UNCHANGED <<file, clock, ticked, lock, cache, reading>>

BeginWrite(p) ==
    /\ writing[p].pc = "idle"
    /\ writing' = [writing EXCEPT ![p].pc = "locking"]
    /\ UNCHANGED <<file, clock, ticked, lock, cache, mutex, reading>>

\* Mutant: the map is read before the lock is held.
LockAndReadUnlocked(p) ==
    /\ writing[p].pc = "locking"
    /\ writing' = [writing EXCEPT ![p].pc = "rename", ![p].base = file.map]
    /\ UNCHANGED <<file, clock, ticked, lock, cache, mutex, reading>>

\* with_write_lock, and the map as it is on disk.
LockAndRead(p) ==
    /\ writing[p].pc = "locking" /\ lock = Free
    /\ lock' = p
    /\ writing' = [writing EXCEPT ![p].pc = "rename", ![p].base = file.map]
    /\ UNCHANGED <<file, clock, ticked, cache, mutex, reading>>

\* atomic_write_json: a file of another inode takes the place of this one.  It
\* may fail after the rename, in the directory's sync.
Rename(p) ==
    /\ writing[p].pc = "rename"
    /\ file.map < MaxWrites /\ ticked < WritesPerTick
    /\ \E ino \in Ino \ {file.fp.ino}, size \in Size :
          file' = [fp |-> [ino |-> ino, size |-> size, mtime |-> clock], map |-> file.map + 1]
    /\ ticked' = ticked + 1
    /\ \/ writing' = [writing EXCEPT ![p].pc = "stat", ![p].base = file'.map] /\ UNCHANGED lock
       \/ writing' = [writing EXCEPT ![p] = NotWriting] /\ lock' = Free
    /\ UNCHANGED <<clock, cache, mutex, reading>>

\* f changed nothing, so nothing is written; or the write fails before its rename.
NotRenamed(p) ==
    /\ writing[p].pc = "rename"
    /\ \/ writing' = [writing EXCEPT ![p].pc = "stat"] /\ UNCHANGED lock
       \/ writing' = [writing EXCEPT ![p] = NotWriting] /\ lock' = Free
    /\ UNCHANGED <<file, clock, ticked, cache, mutex, reading>>

\* The fingerprint of what is on disk, under the lock.
StatWritten(p) ==
    /\ writing[p].pc = "stat"
    /\ writing' = [writing EXCEPT ![p].pc = "publish", ![p].fp = file.fp]
    /\ UNCHANGED <<file, clock, ticked, lock, cache, mutex, reading>>

\* Published to the cache under the mutex, and the lock released.
Publish(p) ==
    /\ writing[p].pc = "publish" /\ mutex[p] # "read"
    /\ cache' = [cache EXCEPT ![p] = [fp |-> writing[p].fp, map |-> writing[p].base]]
    /\ mutex' = [mutex EXCEPT ![p] = Free]
    /\ writing' = [writing EXCEPT ![p] = NotWriting]
    /\ lock' = Free
    /\ UNCHANGED <<file, clock, ticked, reading>>

-----------------------------------------------------------------------------
\* The process is killed: its lock is released.
KillProcess(p) ==
    /\ writing[p].pc # "closed"
    /\ writing' = [writing EXCEPT ![p] = [NotWriting EXCEPT !.pc = "closed"]]
    /\ reading' = [reading EXCEPT ![p] = NotReading]
    /\ mutex' = [mutex EXCEPT ![p] = Free]
    /\ lock' = IF lock = p THEN Free ELSE lock
    /\ cache' = [cache EXCEPT ![p] = [fp |-> NoFingerprint, map |-> 0]]
    /\ UNCHANGED <<file, clock, ticked>>

\* open: the map and its fingerprint, under the lock.
OpenMap(p) ==
    /\ writing[p].pc = "closed" /\ lock = Free
    /\ cache' = [cache EXCEPT ![p] = file]
    /\ writing' = [writing EXCEPT ![p] = NotWriting]
    /\ UNCHANGED <<file, clock, ticked, lock, mutex, reading>>

\* The file system's clock moves on.
Tick ==
    /\ ticked > 0
    /\ ticked' = 0 /\ clock' = clock + 1
    /\ UNCHANGED <<file, lock, cache, mutex, reading, writing>>

MapNext ==
    \/ \E p \in Process :
         \/ BeginRead(p) \/ Stat(p) \/ Load(p) \/ ReturnRead(p)
         \/ BeginWrite(p) \/ LockAndRead(p) \/ Rename(p) \/ NotRenamed(p)
         \/ StatWritten(p) \/ Publish(p) \/ KillProcess(p) \/ OpenMap(p)
    \/ Tick

MapSpec == MapInit /\ [][MapNext]_mapVars

\* A process that reads goes on reading; one that writes may stop where it is,
\* with the lock, for good.
MapFairness ==
    \A p \in Process : WF_mapVars(Stat(p)) /\ WF_mapVars(Load(p)) /\ WF_mapVars(ReturnRead(p))
                       /\ WF_mapVars(StatWritten(p)) /\ WF_mapVars(Publish(p))

MapFairSpec == MapSpec /\ MapFairness

-----------------------------------------------------------------------------
MapTypeOK ==
    /\ file \in [fp : FileFingerprint, map : 0..MaxWrites]
    /\ clock \in Nat /\ ticked \in 0..WritesPerTick
    /\ lock \in Process => writing[lock].pc \in {"rename", "stat", "publish"}
    /\ cache \in [Process -> [fp : FileFingerprint \cup {NoFingerprint}, map : 0..MaxWrites]]
    /\ mutex \in [Process -> {Free, "read", "write"}]
    /\ reading \in [Process -> Reading] /\ writing \in [Process -> Writing]

\* A read returns a map at least as new as the file was when it took the
\* fingerprint: a termination another process has written is seen, whatever
\* reloads, publishes and reused inodes came in between (read, write).
ReadsAreFresh ==
    \A p \in Process : reading[p].pc = "return" => cache[p].map >= reading[p].since

ReplacesWhatItRead ==
    file' # file => \E p \in Process : /\ writing[p].pc = "rename" /\ writing'[p].pc # "rename"
                                       /\ writing[p].base = file.map

\* A rename replaces the very map its write read: two processes that write at
\* once never lose one of the writes (write, with_write_lock).
NoLostWrite == [][ReplacesWhatItRead]_mapVars

\* A process that sits on the file's lock does not stall the reads of another,
\* nor a write of this process that waits for it its own reads.
ReadsReturn == \A p \in Process : reading[p].pc = "locking" ~> reading[p].pc = "idle"

\* The caches of all processes serve maps as new as the file each looked at,
\* and the file's lock is held only by a process inside its write.
CachesSound == MapTypeOK /\ ReadsAreFresh
=============================================================================
