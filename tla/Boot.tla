-------------------------------- MODULE Boot --------------------------------
(***************************************************************************)
(* Starting the server (boot.rs): the checks made before anything is       *)
(* written, then the writes, each after what it depends on: the key        *)
(* (decern-crypto), the ledger it signs, the mission registry.  Several    *)
(* processes may be starting or serving at once; a process may be killed   *)
(* and power may fail at any step.                                         *)
(*                                                                         *)
(* A path is a sequence of names; a link may lead two paths to one place.  *)
(* Of a record only its signer is kept, and of a sharded store one shard:  *)
(* Ledger and Sharded are about the rest.                                  *)
(***************************************************************************)
EXTENDS Integers, Sequences, FiniteSets, SequencesExt

CONSTANTS
    Starters,        \* the processes an operator may start
    CommandLines,    \* what they may be started with
    Links,           \* first name -> the directory it is a link to
    DisksAtStart,    \* place -> what is there: what earlier starts may have left
    KeyMaterial,     \* the keys generate returns, in turn
    MaxBoots,        \* how many times a process is started
    MaxSigned        \* how many records one ledger gets

VARIABLES
    disk,            \* place -> what is there
    boots,           \* process -> its start, as far as it got
    risked,          \* the key files a power loss may still undo
    borrowed,        \* the key files used by another start while they could be undone
    made,            \* how many keys were generated
    started,
    extended         \* place of a ledger -> the command line that last extended it

bootVars == <<disk, boots, risked, borrowed, made, started, extended>>

NoPath == <<>>
NoKey == "none"
Off == [pc |-> "off"]

Absent == [is |-> "absent"]
EmptyFile == [is |-> "empty"]
Dir(lines) == [is |-> "dir", lines |-> lines]            \* a shard store's records too
KeyFile(key) == [is |-> "key", key |-> key]
LedgerFile(lines) == [is |-> "ledger", lines |-> lines]
Json(held) == [is |-> "json", held |-> held]             \* nothing, missions, or another shape
Mixed == [is |-> "mixed"]            \* a key and records in one file, which is neither

Content ==
    [is : {"absent", "empty", "mixed"}]
    \cup [is : {"dir", "ledger"}, lines : Seq(STRING)]
    \cup [is : {"key"}, key : STRING]
    \cup [is : {"json"}, held : {"nothing", "missions", "another shape"}]

Name == STRING \cup {"ledger", "missions"}               \* also the names it gives itself
Path == Seq(Name)

CommandLine ==
    [valid : BOOLEAN, key : Path, retired : SUBSET STRING, ledger : Path, sharded : STRING,
     dir : Path, missionsPerHost : BOOLEAN, missions : Path]

DATABASE == <<"postgres">>

---------------------------------------------------------------------------
(***************************************************************************)
(* Paths.                                                                  *)
(***************************************************************************)

Real(path) ==
    IF path # <<>> /\ path[1] \in DOMAIN Links THEN Links[path[1]] \o Tail(path) ELSE path

At(path) == disk[Real(path)]
Exists(path) == At(path) # Absent
IsDir(path) == At(path).is = "dir"

SamePath(a, b) ==
    IF Exists(a) /\ Exists(b) THEN Real(a) = Real(b) ELSE a = b

RegistryPath(path) ==
    /\ ~IsDir(path)
    /\ Exists(Front(path)) => IsDir(Front(path))

WritablePath(path) == ~IsDir(path) /\ IsDir(Front(path))

LedgerPath(f) == IF f.ledger = NoPath THEN <<"ledger">> ELSE f.ledger

DefaultMissionsPath(f) ==
    CASE f.ledger # NoPath -> Append(Front(f.ledger), "missions")
      [] f.sharded = "dir" -> Append(f.dir, "missions")
      [] OTHER -> <<"missions">>

MissionsPath(f) == IF f.missions = NoPath THEN DefaultMissionsPath(f) ELSE f.missions

\* Where the records of a deployment are.
Store(f) ==
    CASE f.sharded = "no" -> Real(LedgerPath(f))
      [] f.sharded = "dir" -> Real(f.dir)
      [] OTHER -> DATABASE

\* The places a start with these flags names.
PlacesOf(f) ==
    {Store(f), Real(MissionsPath(f))} \cup (IF f.key = NoPath THEN {} ELSE {Real(f.key)})

\* The directories a place is under.
Above(place) == {s \in DOMAIN disk : IsStrictPrefix(s, place)}
Blocked(place) == \E s \in Above(place) : disk[s].is \notin {"absent", "dir"}

\* Disks are trees: what there is, is in a directory, and links lead to one.
IsTree(d) ==
    /\ d[<<>>].is = "dir" /\ d[DATABASE].is = "dir"
    /\ \A n \in DOMAIN Links : d[Links[n]].is = "dir"
    /\ \A s, t \in DOMAIN d : IsStrictPrefix(s, t) /\ d[t] # Absent => d[s].is = "dir"

ASSUME BootAssumption ==
    /\ KeyMaterial \in Seq(STRING)
    /\ CommandLines \subseteq CommandLine
    /\ \A n \in DOMAIN Links : Links[n] \in Path \ {<<>>}
    /\ \A d \in DisksAtStart :
         /\ d \in [DOMAIN d -> Content]
         /\ DOMAIN d \subseteq Path /\ {<<>>, DATABASE} \subseteq DOMAIN d
         /\ \A s \in DOMAIN d : Front(s) \in DOMAIN d
         /\ \A n \in DOMAIN Links : Links[n] \in DOMAIN d
         /\ \A f \in CommandLines : PlacesOf(f) \subseteq DOMAIN d
         /\ IsTree(d)

Lines(f) == IF disk[Store(f)].is \in {"ledger", "dir"} THEN disk[Store(f)].lines ELSE <<>>

---------------------------------------------------------------------------
(***************************************************************************)
(* The checks.                                                             *)
(***************************************************************************)

\* What the flags alone decide; f.valid stands for the caller posture, the
\* model, the aliases, the public URL and the keys given as hex.
FlagsOk(f) ==
    /\ f.valid /\ f.sharded \in {"no", "dir", "postgres"}
    /\ (f.sharded = "postgres") = f.missionsPerHost
    /\ f.sharded # "no" \/ f.retired # {} => f.key # NoPath

HasRecords(f) ==
    CASE f.sharded = "no" -> At(LedgerPath(f)).is \notin {"absent", "empty"}
      [] f.sharded = "dir" -> Lines(f) # <<>>
      [] OTHER -> FALSE

LooksRightUnkeyed(f) ==              \* mutant: a ledger with records may be given a new key
    /\ f.sharded = "dir" /\ Exists(f.dir) => IsDir(f.dir)
    /\ f.retired # {} => Exists(f.key)

LooksRight(f) ==
    /\ f.sharded = "dir" /\ Exists(f.dir) => IsDir(f.dir)
    /\ f.retired # {} => Exists(f.key)
    /\ HasRecords(f) => f.key # NoPath /\ Exists(f.key)

\* A ledger of one record is one JSON value.
ParsesAsJson(c) == c.is = "json" \/ (c.is = "ledger" /\ Len(c.lines) = 1)

PathsRight(f) ==
    LET m == MissionsPath(f)  l == LedgerPath(f) IN
    /\ RegistryPath(m)
    /\ f.sharded = "dir" => ~SamePath(m, f.dir)
    /\ f.sharded = "no" => ~SamePath(m, l) /\ WritablePath(l)
    /\ f.key # NoPath =>
         /\ WritablePath(f.key) /\ ~SamePath(f.key, m)
         /\ f.sharded = "no" => ~SamePath(f.key, l)
    /\ At(m).is \notin {"absent", "dir"} => ParsesAsJson(At(m))

\* The whole log verifies under these keys, and no other key has followed this one.
MaySign(lines, key, retired) ==
    /\ \A i \in DOMAIN lines : lines[i] \in {key} \cup retired
    /\ \A i, j, k \in DOMAIN lines : i < j /\ j < k /\ lines[i] = lines[k] => lines[j] = lines[i]
    /\ key \in Range(lines) => Last(lines) = key

---------------------------------------------------------------------------
(***************************************************************************)
(* One start, step by step.                                                *)
(***************************************************************************)

NotRunning(p) == boots[p].pc \in {"off", "refused", "failed"}
To(p, pc) == boots' = [boots EXCEPT ![p].pc = pc]

\* A refused start that wrote nothing is as if it had not been.
Refused(p) == boots' = [boots EXCEPT ![p] = IF @.wrote = {} THEN Off ELSE [@ EXCEPT !.pc = "refused"]]
Passing(p, test, pc) == IF test THEN To(p, pc) ELSE Refused(p)

Write(p, place, content, pc) ==
    /\ disk' = [disk EXCEPT ![place] = content]
    /\ boots' = [boots EXCEPT ![p].pc = pc, ![p].wrote = @ \cup {place}]

\* create_dir_all and then what goes under it.
WriteUnder(p, place, content, pc) ==
    /\ disk' = [s \in DOMAIN disk |->
         IF s = place THEN content
         ELSE IF s \in Above(place) /\ disk[s] = Absent THEN Dir(<<>>)
         ELSE disk[s]]
    /\ boots' = [boots EXCEPT ![p].pc = pc, ![p].wrote = @ \cup {place}]

Start(p, f) ==
    /\ NotRunning(p)
    /\ started < MaxBoots
    /\ started' = started + 1
    /\ boots' = [q \in Starters |->
         IF q = p THEN
            IF FlagsOk(f)
            THEN [pc |-> "look", flags |-> f, key |-> NoKey, wrote |-> {},
                  alone |-> \A o \in Starters \ {p} : NotRunning(o)]
            ELSE Off
         ELSE IF NotRunning(q) THEN Off
         ELSE [boots[q] EXCEPT !.alone = FALSE]]
    /\ UNCHANGED <<disk, risked, borrowed, made, extended>>

Look(p) ==
    /\ boots[p].pc = "look"
    /\ Passing(p, LooksRight(boots[p].flags), "paths")
    /\ UNCHANGED <<disk, risked, borrowed, made, started, extended>>

CheckPaths(p) ==
    /\ boots[p].pc = "paths"
    /\ Passing(p, PathsRight(boots[p].flags), "bind")
    /\ UNCHANGED <<disk, risked, borrowed, made, started, extended>>

\* The address may be taken, by another start or by anything else.
BindAddress(p) ==
    /\ boots[p].pc = "bind"
    /\ \/ To(p, "key")
       \/ Refused(p)
    /\ UNCHANGED <<disk, risked, borrowed, made, started, extended>>

Generate(p, pc) ==
    /\ made < Len(KeyMaterial)
    /\ made' = made + 1
    /\ boots' = [boots EXCEPT ![p].pc = pc, ![p].key = KeyMaterial[made + 1]]

LoadSigningKey(p) ==
    LET f == boots[p].flags  c == At(f.key) IN
    /\ boots[p].pc = "key"
    /\ \/ f.key = NoPath /\ Generate(p, "open") /\ UNCHANGED borrowed
       \/ f.key # NoPath /\ ~Exists(f.key) /\ Generate(p, "create") /\ UNCHANGED borrowed
       \/ /\ f.key # NoPath /\ Exists(f.key)
          /\ borrowed' = borrowed \cup ({Real(f.key)} \cap risked)
          /\ IF c.is = "key" /\ c.key \notin f.retired
             THEN boots' = [boots EXCEPT ![p].pc = "open", ![p].key = c.key]
             ELSE Refused(p)
          /\ UNCHANGED made
    /\ UNCHANGED <<disk, risked, started, extended>>

CreateKeyOver(p) ==                  \* mutant: the key file is created or truncated
    LET place == Real(boots[p].flags.key) IN
    /\ boots[p].pc = "create"
    /\ Write(p, place, EmptyFile, "fill") /\ risked' = risked \cup {place}
    /\ UNCHANGED <<borrowed, made, started, extended>>

\* create_new: a key that appeared since the look is not overwritten.
CreateKey(p) ==
    LET place == Real(boots[p].flags.key) IN
    /\ boots[p].pc = "create"
    /\ IF disk[place] = Absent
       THEN Write(p, place, EmptyFile, "fill") /\ risked' = risked \cup {place}
       ELSE Refused(p) /\ UNCHANGED <<disk, risked>>
    /\ UNCHANGED <<borrowed, made, started, extended>>

FillKey(p) ==
    LET place == Real(boots[p].flags.key) IN
    /\ boots[p].pc = "fill"
    /\ Write(p, place, IF disk[place] = EmptyFile THEN KeyFile(boots[p].key) ELSE Mixed, "sync")
    /\ UNCHANGED <<risked, borrowed, made, started, extended>>

SyncKeyLater(p) ==                   \* mutant: the key is left to the system to write back
    boots[p].pc = "sync" /\ To(p, "open") /\ UNCHANGED <<disk, risked, borrowed, made, started, extended>>

\* The file is synced, and its directory when the path names one.
SyncKey(p) ==
    LET path == boots[p].flags.key IN
    /\ boots[p].pc = "sync"
    /\ To(p, "open")
    /\ risked' = IF Front(path) = <<>> THEN risked ELSE risked \ {Real(path)}
    /\ UNCHANGED <<disk, borrowed, made, started, extended>>

SaveFailed(p) ==
    /\ boots[p].pc \in {"fill", "sync"}
    /\ To(p, "failed")
    /\ UNCHANGED <<disk, risked, borrowed, made, started, extended>>

\* The writer's lock on a single-file ledger.
HoldsLedger(p, place) ==
    /\ boots[p].pc \in {"registry", "serving"}
    /\ boots[p].flags.sharded = "no" /\ Store(boots[p].flags) = place

HeldAsLedger(place) == \E p \in Starters : HoldsLedger(p, place)

\* The single-file ledger: the writer lock creates an absent file, and an
\* empty registry, which is one unterminated line beginning as a record does,
\* is taken for a torn tail.  Any other file that is not a ledger is refused.
OpenLedger(p) ==
    LET f == boots[p].flags  place == Store(f) IN
    /\ boots[p].pc = "open" /\ f.sharded = "no"
    /\ CASE HeldAsLedger(place) -> Refused(p) /\ UNCHANGED <<disk, borrowed>>
         [] ~HeldAsLedger(place) /\ disk[place] \in {Absent, Json("nothing")} ->
              Write(p, place, EmptyFile, "registry") /\ UNCHANGED borrowed
         [] OTHER ->
              LET fits == /\ disk[place].is \in {"empty", "ledger"}
                          /\ MaySign(Lines(f), boots[p].key, f.retired)
              IN  /\ Passing(p, fits, "registry")
                  /\ borrowed' = borrowed \cup (IF fits THEN {place} \cap risked ELSE {})
                  /\ UNCHANGED disk
    /\ UNCHANGED <<risked, made, started, extended>>

\* The sharded store: a directory is created if it can be; every shard verifies.
OpenStore(p) ==
    LET f == boots[p].flags IN
    /\ boots[p].pc = "open" /\ f.sharded # "no"
    /\ IF disk[Store(f)] = Absent /\ ~Blocked(Store(f))
       THEN WriteUnder(p, Store(f), Dir(<<>>), "registry")
       ELSE /\ Passing(p, disk[Store(f)].is = "dir" /\ MaySign(Lines(f), boots[p].key, f.retired),
                       "registry")
            /\ UNCHANGED disk
    /\ UNCHANGED <<risked, borrowed, made, started, extended>>

OpenRegistry(p) ==
    LET m == Real(MissionsPath(boots[p].flags)) IN
    /\ boots[p].pc = "registry"
    /\ IF disk[m] = Absent /\ ~Blocked(m)
       THEN WriteUnder(p, m, Json("nothing"), "serving")
       ELSE /\ Passing(p, disk[m] \in {Json("nothing"), Json("missions")}, "serving")
            /\ UNCHANGED disk
    /\ UNCHANGED <<risked, borrowed, made, started, extended>>

---------------------------------------------------------------------------
(***************************************************************************)
(* What a server does with what it opened, and how it ends.                *)
(***************************************************************************)

RecordSigned(p) ==
    LET f == boots[p].flags IN
    /\ boots[p].pc = "serving"
    /\ Len(Lines(f)) < MaxSigned
    /\ f.sharded # "no" => MaySign(Lines(f), boots[p].key, f.retired)
    /\ disk' = [disk EXCEPT ![Store(f)] =
         LET lines == Append(Lines(f), boots[p].key) IN
         IF f.sharded # "no" THEN Dir(lines)
         ELSE IF @.is \in {"empty", "ledger"} THEN LedgerFile(lines)
         ELSE Mixed]
    /\ extended' = [s \in DOMAIN extended \cup {Store(f)} |-> IF s = Store(f) THEN f ELSE extended[s]]
    /\ UNCHANGED <<boots, risked, borrowed, made, started>>

RegisterMission(p) ==
    LET m == Real(MissionsPath(boots[p].flags)) IN
    /\ boots[p].pc = "serving"
    /\ disk[m] = Json("nothing")
    /\ disk' = [disk EXCEPT ![m] = Json("missions")]
    /\ UNCHANGED <<boots, risked, borrowed, made, started, extended>>

EndProcess(p) ==
    /\ ~NotRunning(p)
    /\ boots' = [boots EXCEPT ![p] = Off]
    /\ UNCHANGED <<disk, risked, borrowed, made, started, extended>>

PowerFails ==
    /\ \E lost \in [risked -> {"entry", "bytes", "nothing"}] :
         disk' = [s \in DOMAIN disk |->
                    IF s \notin risked \/ lost[s] = "nothing" THEN disk[s]
                    ELSE IF lost[s] = "entry" THEN Absent
                    ELSE EmptyFile]
    /\ risked' = {}
    /\ boots' = [p \in Starters |-> Off]
    /\ UNCHANGED <<borrowed, made, started, extended>>

---------------------------------------------------------------------------
BootInit ==
    /\ disk \in DisksAtStart
    /\ boots = [p \in Starters |-> Off]
    /\ risked = {} /\ borrowed = {} /\ made = 0 /\ started = 0
    /\ extended = [s \in {} |-> Off]

BootNext ==
    \/ \E p \in Starters :
         \/ \E f \in CommandLines : Start(p, f)
         \/ Look(p) \/ CheckPaths(p) \/ BindAddress(p)
         \/ LoadSigningKey(p) \/ CreateKey(p) \/ FillKey(p) \/ SyncKey(p) \/ SaveFailed(p)
         \/ OpenLedger(p) \/ OpenStore(p) \/ OpenRegistry(p)
         \/ RecordSigned(p) \/ RegisterMission(p) \/ EndProcess(p)
    \/ PowerFails

BootSpec == BootInit /\ [][BootNext]_bootVars

---------------------------------------------------------------------------
(***************************************************************************)
(* Properties.                                                             *)
(***************************************************************************)

\* What only opening reveals (boot.rs:79-82, 237-245): records in a database,
\* a registry file that is JSON of another shape, a registry or a store under a
\* path that is a file, and two flags that lead to one file not created yet.
OnlyOpeningReveals(f) ==
    LET m == Real(MissionsPath(f))  l == Real(LedgerPath(f))  k == Real(f.key) IN
    \/ f.sharded = "postgres" /\ Lines(f) # <<>>
    \/ disk[m].is # "absent" /\ disk[m] \notin {Json("nothing"), Json("missions")}
    \/ Blocked(Front(m)) \/ Real(Front(MissionsPath(f))) \in {k, l}
    \/ f.sharded = "dir" /\ (Blocked(Real(f.dir)) \/ Real(f.dir) = k)
    \/ f.sharded = "no" /\ l \in {m, k}

\* A boot refused for what its flags got wrong leaves no key, ledger or
\* registry behind: one that wrote anything, with no other process at work,
\* was refused for something only opening reveals (prepare, boot.rs:79-390).
RefusedLeavesNothing ==
    \A p \in Starters :
        boots[p].pc = "refused" /\ boots[p].alone /\ boots[p].wrote # {}
            => OnlyOpeningReveals(boots[p].flags)

\* Whatever is started beside what, in whatever order, and whichever start is
\* killed: a key file that was written is never written again, unless another
\* server had opened it as its ledger before the key was in it, a registry that
\* holds missions keeps them, and a ledger is only ever extended
\* (load_signing_key, same_path, open_single_inner, CoherentMap::open).
FilesKept ==
    [][\A s \in DOMAIN disk \ risked :
        /\ (disk[s].is = "key" /\ ~HeldAsLedger(s)) \/ disk[s] = Json("missions") => disk'[s] = disk[s]
        /\ disk[s].is = "ledger" => disk'[s].is = "ledger" /\ IsPrefix(disk[s].lines, disk'[s].lines)]_bootVars

KeyIsKept(f) == Len(f.key) > 1 /\ Real(f.key) \notin borrowed

\* The command line that last extended a ledger can serve it again, after any
\* refused or interrupted start of any other and after a loss of power: the
\* records are there, its key is on disk and may sign, and every check passes.
\* An ephemeral key is lost with its process; a key given by a bare name is in
\* a directory that is never synced; a key file that was loaded, or opened as a
\* ledger, before the start that wrote it had synced it, or after that start
\* failed to, is never synced either, or is neither a key nor a ledger.  A
\* registry that holds nothing may also be lost, to a start that names it as
\* its ledger (boot.rs:176-184, save_signing_key, begins_a_record).
ServedServesAgain ==
    (\A p \in Starters : NotRunning(p)) =>
        \A s \in DOMAIN extended \ borrowed :
            LET f == extended[s] IN
            /\ Lines(f) # <<>>
            /\ KeyIsKept(f) /\ At(MissionsPath(f)).is \notin {"empty", "ledger"} =>
                /\ LooksRight(f) /\ PathsRight(f)
                /\ At(f.key).is = "key"
                /\ MaySign(Lines(f), At(f.key).key, f.retired)
                /\ At(MissionsPath(f)) \in {Json("nothing"), Json("missions")}
=============================================================================
