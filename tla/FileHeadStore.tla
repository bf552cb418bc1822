---------------------------- MODULE FileHeadStore ----------------------------
(***************************************************************************)
(* FileLedgerHeadStore of decern-store: the files that hold one shard, the   *)
(* critical section that appends to it under the shard's lock, the           *)
(* conversion of a shard an earlier release wrote, that release itself, and  *)
(* the listing of shards, which takes no lock.                               *)
(*                                                                          *)
(* The lock is exclusive on the host, so one section at a time is enough;    *)
(* which process runs it makes no difference to the files.  Lengths are     *)
(* counted in records, and the cursor is the number of records before it.   *)
(***************************************************************************)
EXTENDS Integers, Sequences, FiniteSets

CONSTANTS
    Payload,    \* what a caller asks to record
    Releases,   \* {"this"}, or {"this", "earlier"} when both run on the host
    Faults,     \* "power": a loss of power; "lost": a head file goes missing
    MaxRecords  \* bound on the records of the shard

ASSUME PayloadAssumption == Payload # {}
ASSUME RecordsAssumption == MaxRecords \in Nat

VARIABLES
    dir,        \* the directory: the .shard file, the .head file, the .log's entry
    log,        \* the lines of the .log file
    dirs,       \* the directories that may be there after a power loss
    logs,       \* the log contents that may be there after a power loss
    section,    \* the critical section in progress
    listing,    \* the list_shards call in progress
    acked,      \* history: the shard as last acknowledged to a caller
    meddled     \* history: an earlier release appended, or a head file was lost

files == <<dir, log, dirs, logs>>
vars == <<dir, log, dirs, logs, section, listing, acked, meddled>>

-----------------------------------------------------------------------------
Record == [seq : Nat, payload : Payload]

\* Part of a line.
Torn == [seq |-> 0, torn |-> TRUE]

Line == Record \cup {Torn}

\* What the .shard path holds.
Missing       == [is |-> "missing", records |-> <<>>]
Marker        == [is |-> "marker", records |-> <<>>]
Earlier(recs) == [is |-> "earlier", records |-> recs]
Beside        == [is : {"missing", "marker", "earlier"}, records : Seq(Record)]

\* head: {} when the file is absent, else the committed length.  0 is a head
\* with no cursor: FileHead::EMPTY.
Directory == [beside : Beside, head : SUBSET Nat, log : BOOLEAN]

Section == [pc : {"idle", "mark", "empty", "write", "sync", "head", "remark", "return"},
            records : Seq(Record), committed : Nat, converting : BOOLEAN]

NoSection == [pc |-> "idle", records |-> <<>>, committed |-> 0, converting |-> FALSE]

\* had: the shard had history when the listing began.  listed: it is in the result.
Listing == [pc : {"idle", "next", "head", "shard", "beside", "log", "orphan",
                  "again", "refuse", "failed"},
            names : SUBSET {"head", "shard", "log"}, had : BOOLEAN, listed : BOOLEAN]

NoListing == [pc |-> "idle", names |-> {}, had |-> FALSE, listed |-> FALSE]

-----------------------------------------------------------------------------
(* Reading a shard. *)

Begins(s, t) == Len(s) <= Len(t) /\ SubSeq(t, 1, Len(s)) = s

\* read_log: the first n lines, all whole.
LogReads(n) == n <= Len(log) /\ \A i \in 1..n : log[i] # Torn

\* Mutant: any .shard file may stand beside a head.
LoadsOverEarlier(history) ==
    IF dir.head # {} THEN \A n \in dir.head : history => LogReads(n)
    ELSE dir.beside.records = <<>> => log = <<>>

\* load: with a head, an earlier-layout shard beside it must hold only what the
\* log does; without one, a log with records must be a conversion's.
Loads(history) ==
    IF dir.head # {}
    THEN \A n \in dir.head :
             /\ history \/ dir.beside.is = "earlier" => LogReads(n)
             /\ Begins(dir.beside.records, SubSeq(log, 1, n))
    ELSE dir.beside.records = <<>> => log = <<>>

\* What load returns.
Shown == IF dir.head # {} THEN SubSeq(log, 1, CHOOSE n \in dir.head : TRUE)
         ELSE dir.beside.records

-----------------------------------------------------------------------------
Init ==
    /\ \E beside \in {Missing} \cup {Earlier(<<[seq |-> 0, payload |-> p]>>) : p \in Payload} :
         /\ dir = [beside |-> beside, head |-> {}, log |-> FALSE]
         /\ acked = beside.records
    /\ log = <<>>
    /\ dirs = {dir} /\ logs = {log}
    /\ section = NoSection /\ listing = NoListing
    /\ meddled = FALSE

-----------------------------------------------------------------------------
(* Writing files. *)

\* atomic_write_json returns Ok: the rename and all before it are durable.
Renamed(d) == dir' = d /\ dirs' = {d}

\* It fails: before the rename, or after it, in the directory's sync.
RenameFailed(d) ==
    \/ UNCHANGED <<dir, dirs>>
    \/ dir' = d /\ dirs' = dirs \cup {d}

\* A step of commit that writes d: it succeeds and the section goes on to pc,
\* or it fails and the section returns the error.
Write(d, pc) ==
    \/ Renamed(d) /\ section' = [section EXCEPT !.pc = pc]
    \/ RenameFailed(d) /\ section' = NoSection

-----------------------------------------------------------------------------
(* with_shard and with_shard_head: load, decide, commit. *)

\* A section that loads the shard and appends a record.  One that appends
\* nothing, or that load refuses, leaves every file as it is.
Enter(history, payload) ==
    LET converting == dir.head = {} /\ dir.beside.records # <<>>
        record     == [seq |-> Len(Shown), payload |-> payload]
    IN
    /\ section.pc = "idle"
    /\ Loads(history)
    /\ Len(Shown) < MaxRecords
    /\ section' = [
           pc |-> CASE converting -> "write"
                    [] ~converting /\ dir.beside # Marker -> "mark"
                    [] ~converting /\ dir.beside = Marker /\ dir.head = {} -> "empty"
                    [] OTHER -> "write",
           records    |-> IF converting THEN Append(Shown, record) ELSE <<record>>,
           committed  |-> IF converting THEN 0 ELSE Len(Shown),
           converting |-> converting]
    /\ UNCHANGED <<files, listing, acked>>

\* The marker, before the first record or where it is missing.
Mark ==
    /\ section.pc = "mark"
    /\ Write([dir EXCEPT !.beside = Marker], IF dir.head = {} THEN "empty" ELSE "write")
    /\ UNCHANGED <<log, logs, listing, acked>>

\* A new shard's head, with no cursor.
WriteEmptyHead ==
    /\ section.pc = "empty"
    /\ Write([dir EXCEPT !.head = {0}], "write")
    /\ UNCHANGED <<log, logs, listing, acked>>

\* The log cut at its committed length and n of the section's lines written,
\* perhaps with part of another.
WrittenLog(n, torn) ==
    SubSeq(log, 1, section.committed) \o SubSeq(section.records, 1, n) \o torn

\* append_log up to its sync, done or interrupted: until the sync, any of its
\* states may be on disk.
WriteLog ==
    /\ section.pc = "write"
    /\ LogReads(section.committed)
    /\ \E n \in 0..Len(section.records), torn \in {<<>>, <<Torn>>} :
         /\ log' = WrittenLog(n, torn)
         /\ section' = IF n = Len(section.records) /\ torn = <<>>
                       THEN [section EXCEPT !.pc = "sync"] ELSE NoSection
    /\ logs' = logs \cup {WrittenLog(n, torn) :
                   n \in 0..Len(section.records), torn \in {<<>>, <<Torn>>}}
    /\ dir' = [dir EXCEPT !.log = TRUE]
    /\ dirs' = dirs \cup {dir'}
    /\ UNCHANGED <<listing, acked>>

\* Mutant: the head is written without a sync of the log.
SyncLogSkipped ==
    /\ section.pc = "sync"
    /\ section' = [section EXCEPT !.pc = "head"]
    /\ UNCHANGED <<files, listing, acked>>

\* append_log's sync.
SyncLog ==
    /\ section.pc = "sync"
    /\ \/ logs' = {log} /\ section' = [section EXCEPT !.pc = "head"]
       \/ UNCHANGED logs /\ section' = NoSection
    /\ UNCHANGED <<dir, log, dirs, listing, acked>>

\* The commit point.
WriteHead ==
    LET d == [dir EXCEPT !.head = {Len(log)}] IN
    /\ section.pc = "head"
    /\ Write(d, IF section.converting THEN "remark" ELSE "return")
    /\ UNCHANGED <<log, logs, listing, acked>>

\* Mutant: a conversion that does not mark the shard.
MarkConvertedSkipped ==
    /\ section.pc = "remark"
    /\ section' = [section EXCEPT !.pc = "return"]
    /\ UNCHANGED <<files, listing, acked>>

\* A conversion marks the shard last.
MarkConverted ==
    /\ section.pc = "remark"
    /\ Write([dir EXCEPT !.beside = Marker], "return")
    /\ UNCHANGED <<log, logs, listing, acked>>

\* with_shard returns: the append, and all that it followed, is acknowledged.
Return ==
    /\ section.pc = "return"
    /\ acked' = Shown
    /\ section' = NoSection
    /\ UNCHANGED <<files, listing>>

-----------------------------------------------------------------------------
(* list_shards, one step per file it reads. *)

Names == {name \in {"head", "shard", "log"} :
             \/ name = "head" /\ dir.head # {}
             \/ name = "shard" /\ dir.beside # Missing
             \/ name = "log" /\ dir.log}

HeadListed == dir.head \notin {{}, {0}}

\* The directory read returns some of the names that are there.
ListBegin ==
    /\ listing.pc = "idle"
    /\ \E names \in (SUBSET Names) \ {{}} :
           listing' = [NoListing EXCEPT !.pc = "next", !.names = names,
                                        !.had = Shown # <<>>]
    /\ UNCHANGED <<files, section, acked>>

\* The next name, in the order the directory returned them.
ListName(name) ==
    /\ listing.pc = "next" /\ name \in listing.names
    /\ listing' = [listing EXCEPT !.pc = name, !.names = @ \ {name}]
    /\ UNCHANGED <<files, section, acked>>

\* The shard is listed, or it is not and the listing goes on.
Judge(listed) ==
    listing' = [listing EXCEPT !.pc = "next", !.listed = listing.listed \/ listed]

ListHead ==
    /\ listing.pc = "head"
    /\ Judge(HeadListed)
    /\ UNCHANGED <<files, section, acked>>

ListShard ==
    /\ listing.pc = "shard"
    /\ IF HeadListed THEN Judge(TRUE) ELSE listing' = [listing EXCEPT !.pc = "beside"]
    /\ UNCHANGED <<files, section, acked>>

\* A marker may be that of a conversion that finished since the head was read.
ListBeside ==
    /\ listing.pc = "beside"
    /\ IF dir.beside = Marker THEN listing' = [listing EXCEPT !.pc = "head"]
       ELSE Judge(dir.beside.records # <<>>)
    /\ UNCHANGED <<files, section, acked>>

ListLog ==
    /\ listing.pc = "log"
    /\ listing' = [listing EXCEPT !.pc = IF dir.head # {} THEN "head" ELSE "orphan"]
    /\ UNCHANGED <<files, section, acked>>

\* No head: the .shard file decides.
ListOrphan ==
    /\ listing.pc = "orphan"
    /\ IF dir.beside.records # <<>> THEN Judge(TRUE)
       ELSE listing' = [listing EXCEPT !.pc = IF dir.beside = Marker THEN "again" ELSE "refuse"]
    /\ UNCHANGED <<files, section, acked>>

\* Mutant: the head is not looked for again.
ListAgainNever ==
    /\ listing.pc = "again"
    /\ listing' = [listing EXCEPT !.pc = "refuse"]
    /\ UNCHANGED <<files, section, acked>>

\* After a marker the head is looked for again.
ListAgain ==
    /\ listing.pc = "again"
    /\ listing' = [listing EXCEPT !.pc = IF dir.head # {} THEN "head" ELSE "refuse"]
    /\ UNCHANGED <<files, section, acked>>

\* refuse_orphan_log: a log with records and no head fails the listing.
ListRefuse ==
    /\ listing.pc = "refuse"
    /\ listing' = [listing EXCEPT !.pc = IF log # <<>> THEN "failed" ELSE "next"]
    /\ UNCHANGED <<files, section, acked>>

ListEnd ==
    /\ \/ listing.pc = "next" /\ listing.names = {}
       \/ listing.pc = "failed"
    /\ listing' = NoListing
    /\ UNCHANGED <<files, section, acked>>

-----------------------------------------------------------------------------
(* The earlier release, and faults. *)

\* It takes the same lock, reads only the .shard file, refuses a marker, and
\* rewrites the file whole.
EarlierAppend(payload) ==
    LET records == Append(dir.beside.records,
                          [seq |-> Len(dir.beside.records), payload |-> payload])
        d       == [dir EXCEPT !.beside = Earlier(records)]
    IN
    /\ "earlier" \in Releases
    /\ section.pc = "idle"
    /\ dir.beside # Marker
    /\ Len(records) <= MaxRecords
    /\ \/ Renamed(d) /\ acked' = records
       \/ RenameFailed(d) /\ UNCHANGED acked
    /\ UNCHANGED <<log, logs, section, listing>>

\* The process in the section is killed; the lock is released.
Kill ==
    /\ section.pc # "idle"
    /\ section' = NoSection
    /\ UNCHANGED <<files, listing, acked>>

\* Directory operations survive in the order they were made.
PowerLoss ==
    /\ "power" \in Faults
    /\ dir' \in dirs /\ dirs' = {dir'}
    /\ IF dir'.log THEN log' \in logs ELSE log' = <<>>
    /\ logs' = {log'}
    /\ section' = NoSection /\ listing' = NoListing
    /\ UNCHANGED acked

\* The head file of a shard with records, at rest, goes missing.
LoseHead ==
    /\ "lost" \in Faults
    /\ section.pc = "idle" /\ listing.pc = "idle"
    /\ HeadListed
    /\ dir' = [dir EXCEPT !.head = {}] /\ dirs' = {dir'}
    /\ UNCHANGED <<log, logs, section, listing, acked>>

Step ==
    \/ \E history \in BOOLEAN, payload \in Payload : Enter(history, payload)
    \/ Mark \/ WriteEmptyHead \/ WriteLog \/ SyncLog \/ WriteHead \/ MarkConverted \/ Return
    \/ ListBegin \/ ListHead \/ ListShard \/ ListBeside \/ ListLog
    \/ \E name \in {"head", "shard", "log"} : ListName(name)
    \/ ListOrphan \/ ListAgain \/ ListRefuse \/ ListEnd
    \/ Kill
    \/ PowerLoss

Meddle == LoseHead \/ \E payload \in Payload : EarlierAppend(payload)

Next ==
    \/ Step /\ UNCHANGED meddled
    \/ Meddle /\ meddled' = TRUE

Spec == Init /\ [][Next]_vars

-----------------------------------------------------------------------------
(* Properties. *)

\* Every variable has its type, and no head, now or after a power loss, commits
\* more than the log then holds.
TypeOK ==
    /\ dir \in Directory /\ dirs \in SUBSET Directory
    /\ log \in Seq(Line) /\ logs \in SUBSET Seq(Line)
    /\ section \in Section /\ listing \in Listing
    /\ acked \in Seq(Record)
    /\ \A d \in dirs, l \in logs : \A n \in d.head : n <= Len(l)

\* What a reader is shown; where the store refuses the shard, no history at all.
Readable == IF Loads(TRUE) THEN Shown ELSE <<Torn>>

D == INSTANCE DurableLog WITH Item <- Record, log <- Readable, promised <- Len(acked)

\* Until an earlier release appends or a head file is lost, whatever step a
\* crash or a power loss cuts, the shard reads as it did before the append or
\* after it, is never refused, and keeps every record it acknowledged, a
\* conversion's included.
ShardIsDurableLog ==
    D!Init /\ [][~meddled' => D!Next]_<<Readable, Len(acked), meddled>>

\* Also when an earlier release appends between a conversion's head and its
\* marker, or a head file goes missing: all that the last acknowledged caller was
\* told is recorded is held, by the .shard file or by the committed log; where
\* the head is gone, what it committed is not cut off.
AckedHeld ==
    \/ Begins(acked, dir.beside.records)
    \/ \E n \in IF dir.head = {} THEN {Len(log)} ELSE dir.head :
           Begins(acked, SubSeq(log, 1, n))

\* And no caller of either release is told of a history that leaves out or
\* changes what an earlier caller was told: the two never fork the shard.
AckedGrows == [][Begins(acked, acked')]_acked

\* A shard that had history when a listing began is listed if the directory
\* read returned any of its files, whatever commit or conversion runs meanwhile,
\* and the listing fails only where a log's head really went missing.
ListingComplete ==
    /\ listing.pc = "failed" => dir.head = {} /\ dir.beside = Marker
    /\ listing.pc = "next" /\ listing.names = {} /\ listing.had => listing.listed

\* No commit, conversion or release loses what another caller was told is held,
\* and no head commits more than the log then holds (commit, load).
CommitsSound == TypeOK /\ AckedHeld
=============================================================================
