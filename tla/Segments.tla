------------------------------ MODULE Segments -------------------------------
(***************************************************************************)
(* The segmented ledger of decern-ledger: a directory of numbered segment    *)
(* files and a manifest that names them in order, the last one active.  An   *)
(* append may first roll the active segment over: create the next file, sync *)
(* the outgoing one, rename the manifest, open the new file.  Each of these  *)
(* can fail, and the process can be killed or the power lost between them.   *)
(*                                                                          *)
(* One process at a time has the directory open: open_segmented_inner takes  *)
(* no writer lock.  A segment's length in bytes is counted in lines, and a   *)
(* chain hash stands for the timestamps of the entries it covers.           *)
(***************************************************************************)
EXTENDS Integers, Sequences, FiniteSets, FiniteSetsExt, SequencesExt

CONSTANTS
    Time,        \* timestamps entries carry
    MaxBytes,    \* RolloverPolicy::max_bytes
    Epoch,       \* RolloverPolicy::epoch_ms
    MaxRecords,  \* bound on the records
    MaxIndex,    \* the largest index a segment's name can hold
    MaxBatch,    \* bound on the entries of one append_all
    Environments \* sets of faults that may come together: "power", a loss of
                 \* power; "dirsync", a directory sync that fails after a rename;
                 \* "undo", a loss of power that undoes a rename no sync followed
                 \* after a reopen has built on it

ASSUME SegmentsAssumption ==
    /\ Time \subseteq Nat /\ MaxBytes \in Nat \ {0} /\ Epoch \in Nat \ {0}
    /\ MaxRecords \in Nat /\ MaxIndex \in Nat \ {0} /\ MaxBatch \in Nat \ {0}

VARIABLES
    dir,         \* the directory: the manifest and the segment files' entries
    lines,       \* the lines of each segment file
    dirs,        \* the directories that may be there after a power loss
    kept,        \* how many lines of each file are known to survive one
    handle,      \* the open ledger, if any
    call,        \* the append or append_all in progress
    promised,    \* history: how many records callers may rely on after a power loss
    faults       \* the faults this environment has

vars == <<dir, lines, dirs, kept, handle, call, promised, faults>>

-----------------------------------------------------------------------------
Index == 1..MaxIndex

Hash == Seq(Time)
GENESIS == <<>>

Record == [seq : Nat, ts : Time, prev : Hash]
HashOf(r) == Append(r.prev, r.ts)

\* Part of a line, which does not end in a newline.
Torn == [torn |-> TRUE]

\* end is {} while the segment is active.
SegmentMeta == [file : Index, start_seq : Nat, end_seq : SUBSET Nat, opened_ms : Nat]

\* manifest is {} when there is none.
Directory == [manifest : SUBSET Seq(SegmentMeta), files : SUBSET Index]

Handle == [open : BOOLEAN, sync : BOOLEAN, failed : BOOLEAN, active : Index,
           manifest : Seq(SegmentMeta), next_seq : Nat, last_hash : Hash]

\* left: the entries of the call not yet appended.  index: the file a rollover
\* creates.
Call == [pc : {"idle", "initialize", "next", "create", "flush", "commit", "reopen",
               "rebase", "write", "finish"},
         all : BOOLEAN, ts : Nat, left : Nat, index : Nat]

Closed == [open |-> FALSE, sync |-> FALSE, failed |-> FALSE, active |-> 1,
           manifest |-> <<>>, next_seq |-> 0, last_hash |-> GENESIS]
NoCall == [pc |-> "idle", all |-> FALSE, ts |-> 0, left |-> 0, index |-> 0]

-----------------------------------------------------------------------------
(* Reading a segmented ledger. *)

\* validate_manifest_shape.
ManifestShaped(m) ==
    /\ m # <<>> /\ m[1].start_seq = 0
    /\ \A i \in 1..Len(m) : m[i].end_seq = {} => i = Len(m)
    /\ \A i \in 1..(Len(m) - 1) : m[i].end_seq = {m[i + 1].start_seq}

\* load_manifest and segment_paths: shaped, and every file there.
Listed(d, m) == ManifestShaped(m) /\ \A i \in 1..Len(m) : m[i].file \in d.files

\* chained_lines: every file in the manifest's order.
ChainedLines(m, ls) == FlattenSeq([i \in 1..Len(m) |-> ls[m[i].file]])

\* prefix_lines: without the torn tail of the last file.
PrefixLines(m, ls) ==
    LET all == ChainedLines(m, ls) IN
    IF all # <<>> /\ Last(all) = Torn /\ Last(ls[Last(m).file]) = Torn THEN Front(all) ELSE all

\* verify_lines, over a chain that one key signs.
VerifyLines(recs) ==
    \A i \in 1..Len(recs) :
        /\ recs[i] # Torn
        /\ recs[i].seq = i - 1
        /\ recs[i].prev = IF i = 1 THEN GENESIS ELSE HashOf(recs[i - 1])

\* The records a reopen finds, whole and in order.
Stored == IF dir.manifest = {} THEN <<>>
          ELSE PrefixLines(CHOOSE m \in dir.manifest : TRUE, lines)

-----------------------------------------------------------------------------
(* Writing files. *)

\* write_atomic of a manifest up to its rename, which a power loss may undo.
Renamed(m)   == LET d == [dir EXCEPT !.manifest = {m}] IN dir' = d /\ dirs' = dirs \cup {d}

\* write_atomic: the directory synced after the rename, failed before the rename,
\* or failed in the directory's sync.
Saved(m)     == LET d == [dir EXCEPT !.manifest = {m}] IN dir' = d /\ dirs' = {d}
NotLanded    == UNCHANGED <<dir, dirs>>
Landed(m)    == "dirsync" \in faults /\ Renamed(m)

\* create_segment: create_new fails on a file that is there.
Created(i)   == /\ i \notin dir.files
                /\ dir' = [dir EXCEPT !.files = @ \cup {i}]
                /\ dirs' = dirs \cup {dir'}

Init ==
    /\ dir = [manifest |-> {}, files |-> {}] /\ dirs = {dir}
    /\ lines = [i \in Index |-> <<>>] /\ kept = [i \in Index |-> 0]
    /\ handle = Closed /\ call = NoCall /\ promised = 0
    /\ faults \in Environments

-----------------------------------------------------------------------------
(* open_segmented. *)

\* initialize: the first segment, then the manifest that names it.
Initialize ==
    /\ ~handle.open /\ call.pc = "idle" /\ dir.manifest = {}
    /\ Created(1)
    /\ call' = [NoCall EXCEPT !.pc = "initialize"]
    /\ UNCHANGED <<lines, kept, handle, promised, faults>>

FirstManifest == <<[file |-> 1, start_seq |-> 0, end_seq |-> {}, opened_ms |-> 0]>>

InitializeManifest ==
    /\ call.pc = "initialize"
    /\ Saved(FirstManifest) \/ NotLanded \/ Landed(FirstManifest)
    /\ call' = NoCall
    /\ UNCHANGED <<lines, kept, handle, promised, faults>>

\* heal_torn_tail: cut off and synced.
HealTornTail(i) ==
    /\ lines' = [lines EXCEPT ![i] = Front(@)]
    /\ kept' = [kept EXCEPT ![i] = Len(lines[i]) - 1]

\* The chain is verified, a torn tail of the active segment cut off and synced,
\* and the handle starts at the head the lines give.  The directory is not
\* synced: a rename before it stays open to a power loss where there is "undo",
\* and has otherwise reached the disk by now.
Open(sync) ==
    /\ ~handle.open /\ call.pc = "idle"
    /\ \E m \in dir.manifest :
         LET recs == PrefixLines(m, lines)
             active == Last(m)
             torn == Len(recs) < Len(ChainedLines(m, lines))
         IN  /\ Listed(dir, m) /\ VerifyLines(recs) /\ active.end_seq = {}
             /\ handle' = [open |-> TRUE, sync |-> sync, failed |-> FALSE,
                           active |-> active.file, manifest |-> m, next_seq |-> Len(recs),
                           last_hash |-> IF recs = <<>> THEN GENESIS ELSE HashOf(Last(recs))]
             /\ IF torn THEN HealTornTail(active.file) ELSE UNCHANGED <<lines, kept>>
    /\ dirs' = IF "undo" \in faults THEN dirs ELSE {d \in dirs : d.manifest = dir.manifest}
    /\ UNCHANGED <<dir, call, promised, faults>>

-----------------------------------------------------------------------------
(* append and append_all. *)

AppendCall(all, n) ==
    /\ handle.open /\ call.pc = "idle"
    /\ handle.next_seq + n <= MaxRecords
    /\ call' = [NoCall EXCEPT !.pc = "next", !.all = all, !.left = n]
    /\ UNCHANGED <<dir, lines, dirs, kept, handle, promised, faults>>

\* Mutant: a segment without records is rolled over too.
ShouldRollOverEmpty(ts) ==
    LET active == Last(handle.manifest) IN
    \/ Len(lines[handle.active]) >= MaxBytes
    \/ ts \div Epoch # active.opened_ms \div Epoch

\* should_roll_over: never a segment without records, else when it is full or
\* the entry is of another epoch.
ShouldRollOver(ts) ==
    LET active == Last(handle.manifest) IN
    /\ active.start_seq # handle.next_seq
    /\ \/ Len(lines[handle.active]) >= MaxBytes
       \/ ts \div Epoch # active.opened_ms \div Epoch

\* The step after the rollover, if there was one: the active segment's first
\* record sets its opened_ms.
AfterRoll(h, ts) ==
    LET active == Last(h.manifest) IN
    IF active.start_seq = h.next_seq /\ active.opened_ms # ts THEN "rebase" ELSE "write"

\* An error ends the call: append_all still does its sync.
Refused ==
    call' = IF call.all THEN [call EXCEPT !.pc = "finish", !.left = 0, !.index = 0] ELSE NoCall

\* append: the next entry of the call.
NextEntry(ts) ==
    /\ call.pc = "next" /\ call.left > 0
    /\ \/ /\ handle.failed
          /\ Refused
       \/ /\ ~handle.failed
          /\ call' = [call EXCEPT !.ts = ts, !.left = @ - 1,
                                  !.pc = IF ShouldRollOver(ts) THEN "create"
                                         ELSE AfterRoll(handle, ts)]
    /\ UNCHANGED <<dir, lines, dirs, kept, handle, promised, faults>>

\* max_index: over the manifest and the directory both.
NextIndex == Max({0} \cup dir.files \cup {handle.manifest[i].file : i \in 1..Len(handle.manifest)}) + 1

\* roll_over_prepared: the next segment's file.
CreateNext ==
    /\ call.pc = "create"
    /\ \/ /\ NextIndex \in Index
          /\ Created(NextIndex)
          /\ call' = [call EXCEPT !.pc = "flush", !.index = NextIndex]
       \/ NotLanded /\ Refused
    /\ UNCHANGED <<lines, kept, handle, promised, faults>>

\* The outgoing segment's tail is synced before the manifest seals it.
Flush ==
    /\ call.pc = "flush"
    /\ \/ /\ kept' = [kept EXCEPT ![handle.active] = Len(lines[handle.active])]
          /\ call' = [call EXCEPT !.pc = "commit"]
       \/ UNCHANGED kept /\ Refused
    /\ UNCHANGED <<dir, lines, dirs, handle, promised, faults>>

\* Mutant: sealed at its last record's number.
RolledAtLast ==
    LET n == Len(handle.manifest) IN
    Append([handle.manifest EXCEPT ![n].end_seq = {handle.next_seq - 1}],
           [file |-> call.index, start_seq |-> handle.next_seq, end_seq |-> {},
            opened_ms |-> call.ts])

\* The manifest after the rollover: the active segment sealed where the next starts.
Rolled ==
    LET n == Len(handle.manifest) IN
    Append([handle.manifest EXCEPT ![n].end_seq = {handle.next_seq}],
           [file |-> call.index, start_seq |-> handle.next_seq, end_seq |-> {},
            opened_ms |-> call.ts])

\* The manifest's rename commits the rollover.  A failure after it leaves the
\* disk ahead of the handle, which stops.
CommitRoll ==
    /\ call.pc = "commit"
    /\ \/ Saved(Rolled) /\ call' = [call EXCEPT !.pc = "reopen"] /\ UNCHANGED handle
       \/ NotLanded /\ Refused /\ UNCHANGED handle
       \/ Landed(Rolled) /\ Refused /\ handle' = [handle EXCEPT !.failed = TRUE]
    /\ UNCHANGED <<lines, kept, promised, faults>>

\* The new segment is opened and becomes the active one; what was sealed is on
\* disk for good.
OpenNext ==
    LET h == [handle EXCEPT !.active = call.index, !.manifest = Rolled] IN
    /\ call.pc = "reopen"
    /\ \/ /\ handle' = h
          /\ call' = [call EXCEPT !.pc = AfterRoll(h, call.ts), !.index = 0]
          /\ promised' = handle.next_seq
       \/ /\ handle' = [handle EXCEPT !.failed = TRUE]
          /\ Refused /\ UNCHANGED promised
    /\ UNCHANGED <<dir, lines, dirs, kept, faults>>

\* The manifest with the active segment opened at its first record's time.
Rebased == [handle.manifest EXCEPT ![Len(handle.manifest)].opened_ms = call.ts]

\* The rebased manifest is saved, and kept in memory only when that succeeds.
Rebase ==
    /\ call.pc = "rebase"
    /\ \/ /\ Saved(Rebased)
          /\ handle' = [handle EXCEPT !.manifest = Rebased]
          /\ call' = [call EXCEPT !.pc = "write"]
       \/ (NotLanded \/ Landed(Rebased)) /\ Refused /\ UNCHANGED handle
    /\ UNCHANGED <<lines, kept, promised, faults>>

NewRecord == [seq |-> handle.next_seq, ts |-> call.ts, prev |-> handle.last_hash]

Advanced == [handle EXCEPT !.next_seq = @ + 1, !.last_hash = HashOf(NewRecord)]

\* write_line, without its sync: whole, or in part, which stops the handle.
\* append advances the head after its sync; append_all turns sync off meanwhile.
WriteLine ==
    /\ call.pc = "write"
    /\ \/ /\ lines' = [lines EXCEPT ![handle.active] = Append(@, NewRecord)]
          /\ handle' = IF call.all \/ ~handle.sync THEN Advanced ELSE handle
          /\ call' = [call EXCEPT !.pc = IF call.left > 0 THEN "next" ELSE "finish"]
       \/ /\ lines' \in {lines, [lines EXCEPT ![handle.active] = Append(@, Torn)]}
          /\ handle' = [handle EXCEPT !.failed = TRUE]
          /\ Refused
    /\ UNCHANGED <<dir, dirs, kept, promised, faults>>

\* Mutant: append_all returns without its sync.
FinishAllUnsynced ==
    /\ call.pc = "finish"
    /\ kept' = IF handle.sync /\ ~call.all THEN [kept EXCEPT ![handle.active] = Len(lines[handle.active])]
               ELSE kept
    /\ handle' = IF handle.sync /\ ~call.all THEN Advanced ELSE handle
    /\ promised' = IF handle.sync /\ ~handle.failed THEN handle'.next_seq ELSE promised
    /\ call' = NoCall
    /\ UNCHANGED <<dir, lines, dirs, faults>>

\* The sync at the end, when sync is on, of the file that is active by then.
Finish ==
    /\ call.pc = "finish"
    /\ \/ /\ handle.sync
          /\ kept' = [kept EXCEPT ![handle.active] = Len(lines[handle.active])]
          /\ handle' = IF call.all THEN handle ELSE Advanced
          /\ promised' = IF handle.failed THEN promised ELSE handle'.next_seq
       \/ /\ handle.sync
          /\ handle' = [handle EXCEPT !.failed = TRUE]
          /\ UNCHANGED <<kept, promised>>
       \/ ~handle.sync /\ UNCHANGED <<kept, promised, handle>>
    /\ call' = NoCall
    /\ UNCHANGED <<dir, lines, dirs, faults>>

-----------------------------------------------------------------------------
\* The process exits or is killed, at any point.
Kill ==
    /\ handle.open \/ call.pc # "idle"
    /\ handle' = Closed /\ call' = NoCall
    /\ UNCHANGED <<dir, lines, dirs, kept, promised, faults>>

\* The process is killed inside write_atomic, between the manifest's rename and
\* the sync of its directory.
KilledUnsynced ==
    /\ \/ call.pc = "initialize" /\ Renamed(FirstManifest)
       \/ call.pc = "commit" /\ Renamed(Rolled)
       \/ call.pc = "rebase" /\ Renamed(Rebased)
    /\ handle' = Closed /\ call' = NoCall
    /\ UNCHANGED <<lines, kept, promised, faults>>

\* What was not synced may be lost; of the line after the last that survives,
\* part may.
PowerLoss ==
    /\ "power" \in faults
    /\ dir' \in dirs /\ dirs' = {dir'}
    /\ LET survive(i) ==
               {SubSeq(lines[i], 1, n) : n \in kept[i]..Len(lines[i])}
                 \cup {Append(SubSeq(lines[i], 1, n), Torn) : n \in kept[i]..(Len(lines[i]) - 1)}
       IN  lines' \in {f \in [Index -> UNION {survive(i) : i \in Index}] :
                          \A i \in Index : f[i] \in (IF i \in dir'.files THEN survive(i) ELSE {<<>>})}
    /\ kept' = [i \in Index |-> Len(lines'[i])]
    /\ handle' = Closed /\ call' = NoCall
    /\ UNCHANGED <<promised, faults>>

Next ==
    \/ Initialize \/ InitializeManifest
    \/ \E sync \in BOOLEAN : Open(sync)
    \/ AppendCall(FALSE, 1) \/ \E n \in 1..MaxBatch : AppendCall(TRUE, n)
    \/ \E ts \in Time : NextEntry(ts)
    \/ CreateNext \/ Flush \/ CommitRoll \/ OpenNext \/ Rebase \/ WriteLine \/ Finish
    \/ Kill \/ KilledUnsynced \/ PowerLoss

Spec == Init /\ [][Next]_vars

-----------------------------------------------------------------------------
TypeOK ==
    /\ dir \in [manifest : {{}} \cup {{m} : m \in dir.manifest}, files : SUBSET Index]
    /\ \A m \in dir.manifest, i \in Index : i \in 1..Len(m) => m[i] \in SegmentMeta
    /\ dir \in dirs
    /\ \A i \in Index : kept[i] \in 0..Len(lines[i])
    /\ handle.open \in BOOLEAN /\ handle.next_seq \in 0..MaxRecords
    /\ call.pc \in {"initialize", "idle"} \/ handle.open

\* Whatever failed and wherever the process or the power stopped, the manifest
\* names files that are there, their lines in its order are one chain, so the
\* ledger opens again, and no record is in a file the manifest does not name.
\* The last fails where there is "undo": a rename the process was killed before
\* syncing, adopted by a reopen and extended, may be undone by a power loss.
Reopens ==
    /\ \A m \in dir.manifest : Listed(dir, m) /\ VerifyLines(Stored) /\ Last(m).end_seq = {}
    /\ \A i \in Index :
          lines[i] # <<>> => \E m \in dir.manifest : \E j \in 1..Len(m) : m[j].file = i

\* A handle that has not stopped writes where the disk says the ledger ends:
\* roll_over and the rebase never leave it on a segment the manifest sealed.
HandleAgrees ==
    handle.open /\ ~handle.failed /\ call.pc = "idle" =>
        /\ handle.next_seq = Len(Stored)
        /\ \A m \in dir.manifest : /\ Len(m) = Len(handle.manifest)
                                   /\ Last(m).file = handle.active

\* A sealed segment holds records, none holds more than the policy allows, and
\* all of one segment's are of one epoch (should_roll_over and the rebase of
\* opened_ms), across failed rollovers, reopens and lost tails.  A rebase whose
\* directory sync failed leaves opened_ms on disk ahead of the handle's, and an
\* entry with the handle's own timestamp is then written without saving it.  A
\* rebase undone after a reopen ("undo") may mix epochs in the same way.
RolledByPolicy ==
    \A m \in dir.manifest : \A i \in 1..Len(m) :
        LET l == lines[m[i].file]
            whole == {k \in 1..Len(l) : l[k] # Torn}
        IN  /\ i < Len(m) => whole # {}
            /\ Cardinality(whole) <= MaxBytes
            /\ "dirsync" \in faults \/
               \A j, k \in whole : l[j].ts \div Epoch = l[k].ts \div Epoch


\* What the segmented ledger promises, as for the single file.
D == INSTANCE DurableLog WITH Item <- Record, log <- Stored, promised <- promised

\* A segmented ledger is a log that may lose only what it has not promised:
\* with sync on what was acknowledged, and in any case what a rollover sealed,
\* through kills, failed syncs and power losses, unless there is "undo".
ImplementsDurableLog == D!Init /\ [][D!Next]_<<Stored, promised>>

\* Whichever step of initialize, roll_over or an append failed or was cut off,
\* the directory opens again and an unfailed handle writes where it ends.
SegmentsSound == TypeOK /\ Reopens /\ HandleAgrees
=============================================================================
