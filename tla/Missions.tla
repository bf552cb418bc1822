------------------------------ MODULE Missions ------------------------------
(***************************************************************************)
(* The Mission lifecycle of one decern-serve host: the requests that         *)
(* approve, terminate and decide under Missions, each on a blocking thread   *)
(* of its own, the mission registry (a durable file and the cached copy of   *)
(* it that reads are answered from), and the ledger they record in.          *)
(*                                                                          *)
(* The ledger is what module Ledger promises of it: an append that returns  *)
(* Ok is durable; after one that fails nothing more is recorded until a     *)
(* restart.  A mission stands for its reference s256, which commits to its  *)
(* expiry.                                                                  *)
(***************************************************************************)
EXTENDS Integers, Sequences, FiniteSets

CONSTANTS
    Mission,    \* mission references
    Expiry,     \* the expiry each of them commits to
    Retention,  \* TERMINATED_TOMBSTONE_RETENTION_SECS
    Patience,   \* the longest a request stays in progress
    Req,        \* requests that may be in progress at once
    Serves,     \* what each of them may ask: "approve", "terminate", "decide"
    Semantic,   \* the evaluations_semantic values callers use
    Environments, \* the faults a host may meet together: "power", a loss of
                \* power; "dirsync", a directory sync that fails after a rename
    MaxItems,   \* bound on the items of one evaluations exchange
    MaxNow,     \* bound on the clock
    MaxLen      \* bound on the ledger

ASSUME ExpiryAssumption   == Expiry \in [Mission -> Nat]
ASSUME PatienceAssumption == Retention \in Nat /\ Patience \in 1..Retention
ASSUME ServesAssumption   == Serves \in [Req -> SUBSET {"approve", "terminate", "decide"}]
ASSUME SemanticAssumption ==
    Semantic \subseteq {"execute_all", "deny_on_first_deny", "permit_on_first_permit"}
ASSUME MissionBoundAssumption == MaxItems \in Nat /\ MaxNow \in Nat /\ MaxLen \in Nat

VARIABLES
    now,        \* the host's clock
    disk,       \* the registry file: each mission's entry
    view,       \* the registry as this process's next read answers it
    stable,     \* the contents the registry file may have after a power loss,
                \* where there may be one
    ledger,     \* the records, in order
    durable,    \* how many of them survive a power loss
    failed,     \* the ledger handle records nothing more
    lock,       \* the request holding the ledger's mutex, or none: {}
    req,        \* each request's progress
    ended,      \* history: the missions the registry ended for good
    faults      \* the faults this host meets

registry == <<disk, view, stable>>
log  == <<ledger, durable, failed>>
vars == <<now, disk, view, stable, ledger, durable, failed, lock, req, ended, faults>>

-----------------------------------------------------------------------------
Status == {"none", "active", "terminated"}

Registry == [Mission -> Status]

\* held: for a termination, whether the registry held the mission when the
\* request marked it, with a tombstone that no power loss can undo.
Event == [what : {"approve", "terminate", "allow", "deny"}, mission : Mission,
          held : BOOLEAN]

\* An item of an exchange, answered: the ledger record it was served from, or
\* 0 when none has landed for it.  "undecided" is served as a false decision.
Answer == [what : {"allow", "deny", "undecided"}, mission : Mission, at : Nat]

\* decided: the positions, among the answers, of the decisions to record next;
\* settled: how many of them are settled.
Request == [pc       : {"idle", "clock", "status", "record", "register", "mark",
                        "bind", "settle", "done"},
            kind     : {"approve", "terminate", "decide"},
            semantic : {"execute_all", "deny_on_first_deny", "permit_on_first_permit"},
            todo     : Seq(Mission),
            since    : Nat,
            now_s    : Nat,
            held     : BOOLEAN,
            answers  : Seq(Answer),
            decided  : Seq(Nat),
            settled  : Nat]

Idle == [pc |-> "idle", kind |-> "decide", semantic |-> "execute_all",
         todo |-> <<>>, since |-> 0, now_s |-> 0, held |-> FALSE,
         answers |-> <<>>, decided |-> <<>>, settled |-> 0]

Init ==
    /\ now = 0
    /\ disk = [m \in Mission |-> "none"] /\ view = disk /\ stable = {disk}
    /\ ledger = <<>> /\ durable = 0 /\ failed = FALSE
    /\ lock = {}
    /\ req = [r \in Req |-> Idle]
    /\ ended = {}
    /\ faults \in Environments

-----------------------------------------------------------------------------
(* The registry. *)

\* Mutant: a tombstone is dropped at the mission's expiry.
RetainedToExpiry(m, status, t) == status # "none" => Expiry[m] > t

\* mission_entry_retained: a tombstone outlives the mission's expiry.
Retained(m, status, t) ==
    /\ status = "active" => Expiry[m] > t
    /\ status = "terminated" => Expiry[m] + Retention > t

Swept(map, t) ==
    [m \in Mission |-> IF Retained(m, map[m], t) THEN map[m] ELSE "none"]

\* mission_register: sweep, then insert a mission that is not there.
Registered(map, m, t) ==
    LET swept == Swept(map, t) IN
    IF swept[m] = "none" /\ Expiry[m] > t THEN [swept EXCEPT ![m] = "active"]
    ELSE swept

Marked(map, m) == IF map[m] = "active" THEN [map EXCEPT ![m] = "terminated"] ELSE map

\* atomic_write_json has renamed the new file into place, and its directory is
\* not synced: a power loss may bring an older content back.
Renamed(map) ==
    /\ disk' = map /\ view' = map
    /\ stable' = {map} \cup (IF "power" \in faults THEN stable ELSE {})

\* CoherentMap::write returns Ok: the map is persisted, its directory synced,
\* only if it is dirty; the swept map is published to the cache either way.
Written(map, dirty) ==
    /\ view' = map
    /\ IF dirty THEN disk' = map /\ stable' = {map} ELSE UNCHANGED <<disk, stable>>

\* CoherentMap::write returns an error: nothing was renamed over the file, or
\* it was and only the directory's sync is missing.  The next read reloads.
WriteFailed(map, dirty) ==
    \/ UNCHANGED registry
    \/ "dirsync" \in faults /\ dirty /\ Renamed(map)

-----------------------------------------------------------------------------
(* The ledger. *)

Recorded(events) ==
    /\ ~failed
    /\ ledger' = ledger \o events
    /\ durable' = Len(ledger')
    /\ UNCHANGED failed

\* An append that fails leaves any part of what it wrote, none of it durable.
RecordFailed(events) ==
    /\ failed' = TRUE
    /\ \E n \in 0..(IF failed THEN 0 ELSE Len(events)) :
           ledger' = ledger \o SubSeq(events, 1, n)
    /\ UNCHANGED durable

Fits(events) == Len(ledger) + Len(events) <= MaxLen

-----------------------------------------------------------------------------
(* What every handler does. *)

Begin(r, kind, semantic, items) ==
    /\ req[r].pc = "idle" /\ kind \in Serves[r]
    /\ req' = [req EXCEPT ![r] = [Idle EXCEPT
           !.pc = "clock", !.kind = kind, !.semantic = semantic,
           !.todo = items, !.since = now]]
    /\ UNCHANGED <<now, registry, log, lock, ended>>

Subject(r) == Head(req[r].todo)

AfterClock(kind) == IF kind = "decide" THEN "bind" ELSE "status"

\* now_s is read once per approval, termination or item.  An approval of an
\* expired mission is refused at once.
ReadClock(r) ==
    /\ req[r].pc = "clock"
    /\ req' = [req EXCEPT ![r] =
           IF req[r].kind = "approve" /\ Expiry[Subject(r)] <= now THEN Idle
           ELSE [req[r] EXCEPT !.pc = AfterClock(req[r].kind), !.now_s = now]]
    /\ UNCHANGED <<now, registry, log, lock, ended>>

\* A registry that cannot be read is a 503 and the request ends.
RegistryUnreadable(r) ==
    /\ req[r].pc = "status"
    /\ req' = [req EXCEPT ![r] = Idle]
    /\ UNCHANGED <<now, registry, log, lock, ended>>

-----------------------------------------------------------------------------
(* POST /mission/v1/approve: record, then register. *)

ApproveStatus(r) ==
    /\ req[r].pc = "status" /\ req[r].kind = "approve"
    /\ req' = [req EXCEPT ![r] =
           IF view[Subject(r)] = "terminated" THEN Idle
           ELSE [req[r] EXCEPT !.pc = "record"]]
    /\ UNCHANGED <<now, registry, log, lock, ended>>

\* Mutant: the approval goes live whether or not its record landed.
ApproveRecordIgnored(r) ==
    LET events == <<[what |-> "approve", mission |-> Subject(r), held |-> FALSE]>> IN
    /\ req[r].pc = "record" /\ req[r].kind = "approve"
    /\ lock = {}
    /\ Fits(events)
    /\ Recorded(events) \/ RecordFailed(events)
    /\ req' = [req EXCEPT ![r].pc = "register"]
    /\ UNCHANGED <<now, registry, lock, ended>>

\* append_to_backend, under the ledger's mutex.
ApproveRecord(r) ==
    LET events == <<[what |-> "approve", mission |-> Subject(r), held |-> FALSE]>> IN
    /\ req[r].pc = "record" /\ req[r].kind = "approve"
    /\ lock = {}
    /\ Fits(events)
    /\ \/ Recorded(events) /\ req' = [req EXCEPT ![r].pc = "register"]
       \/ RecordFailed(events) /\ req' = [req EXCEPT ![r] = Idle]
    /\ UNCHANGED <<now, registry, lock, ended>>

\* The registry with the request's mission registered in it, and whether that
\* is to be persisted.
Registering(r) == Registered(disk, Subject(r), req[r].now_s)
RegisterDirty(r) == Registering(r) # Swept(disk, req[r].now_s)

Register(r) ==
    LET map   == Registering(r)
        dirty == RegisterDirty(r)
    IN
    /\ req[r].pc = "register"
    /\ Written(map, dirty) \/ WriteFailed(map, dirty)
    /\ req' = [req EXCEPT ![r] = Idle]
    /\ UNCHANGED <<now, log, lock, ended>>

-----------------------------------------------------------------------------
(* POST /mission/v1/{s256}/terminate: mark, then record. *)

TerminateStatus(r) ==
    /\ req[r].pc = "status" /\ req[r].kind = "terminate"
    /\ req' = [req EXCEPT ![r] =
           IF view[Subject(r)] = "none" THEN Idle
           ELSE [req[r] EXCEPT !.pc = "mark"]]
    /\ UNCHANGED <<now, registry, log, lock, ended>>

\* The registry with the request's mission marked in it, before the sweep, and
\* whether that is to be persisted.
Marking(r) == Swept(Marked(disk, Subject(r)), req[r].now_s)
MarkDirty(r) == disk[Subject(r)] = "active"

\* MissionRegistry::terminate: a mission the file no longer holds is passed
\* over, and the request goes on.  synced: no content the file may have after a
\* power loss lacks the tombstone, for one that was there before may still wait
\* for its directory's sync.
Mark(r) ==
    LET m      == Subject(r)
        map    == Marking(r)
        dirty  == MarkDirty(r)
        held   == disk[m] # "none"
        synced == dirty \/ \A old \in stable : old[m] = "terminated"
    IN
    /\ req[r].pc = "mark"
    /\ \/ /\ Written(map, dirty)
          /\ req' = [req EXCEPT ![r] =
                 [req[r] EXCEPT !.pc = "record", !.held = held /\ synced]]
          /\ ended' = IF held /\ synced THEN ended \cup {m} ELSE ended
       \/ /\ WriteFailed(map, dirty)
          /\ req' = [req EXCEPT ![r] = Idle]
          /\ UNCHANGED ended
    /\ UNCHANGED <<now, log, lock>>

TerminateRecord(r) ==
    LET events == <<[what |-> "terminate", mission |-> Subject(r), held |-> req[r].held]>> IN
    /\ req[r].pc = "record" /\ req[r].kind = "terminate"
    /\ lock = {}
    /\ Fits(events)
    /\ Recorded(events) \/ RecordFailed(events)
    /\ req' = [req EXCEPT ![r] = Idle]
    /\ UNCHANGED <<now, registry, lock, ended>>

-----------------------------------------------------------------------------
(* POST /access/v1/evaluation and /access/v1/evaluations: bind each item,    *)
(* then settle and record it under the ledger's mutex.                       *)

\* Whether the exchange stops after its last answer.
Stops(semantic, answers) ==
    LET allow == answers[Len(answers)].what = "allow" IN
    \/ semantic = "deny_on_first_deny" /\ ~allow
    \/ semantic = "permit_on_first_permit" /\ allow

\* The exchange with an item of mission m answered; a decision is to be recorded.
Answered(q, what, m) ==
    [q EXCEPT !.todo = Tail(q.todo),
              !.answers = Append(q.answers, [what |-> what, mission |-> m, at |-> 0]),
              !.decided = IF what = "undecided" THEN q.decided
                          ELSE Append(q.decided, Len(q.answers) + 1)]

\* Where a request goes once an item is answered and needs no record of its own.
Onward(q) ==
    IF q.todo # <<>> /\ ~Stops(q.semantic, q.answers) THEN "clock"
    ELSE IF q.decided # <<>> THEN "settle"
    ELSE "done"

\* Mutant: a short-circuit exchange is settled and recorded at its end.
BindTogether(r) ==
    LET m    == Subject(r)
        live == view[m] = "active" /\ Expiry[m] > req[r].now_s
    IN
    /\ req[r].pc = "bind"
    /\ \E what \in IF live THEN {"allow", "deny", "undecided"} ELSE {"deny", "undecided"} :
         LET q == Answered(req[r], what, m)
         IN  req' = [req EXCEPT ![r] = [q EXCEPT !.pc = Onward(q)]]
    /\ UNCHANGED <<now, registry, log, lock, ended>>

\* bound_mission: an item is allowed only under a live, unexpired mission, and
\* even then the policy may deny it.  The two short-circuit semantics record
\* an item before they evaluate the next.
Bind(r) ==
    LET m    == Subject(r)
        live == view[m] = "active" /\ Expiry[m] > req[r].now_s
    IN
    /\ req[r].pc = "bind"
    /\ \E what \in IF live THEN {"allow", "deny", "undecided"} ELSE {"deny", "undecided"} :
         LET q     == Answered(req[r], what, m)
             alone == what # "undecided" /\ q.semantic # "execute_all"
         IN  req' = [req EXCEPT ![r] =
                 [q EXCEPT !.pc = IF alone THEN "settle" ELSE Onward(q)]]
    /\ UNCHANGED <<now, registry, log, lock, ended>>

\* Mutant: what was bound is recorded as it was bound.
SettledAsBound(answer) == answer

\* settle: an Allow whose mission was terminated since it was bound is a Deny.
Settled(answer) ==
    IF answer.what = "allow" /\ view[answer.mission] = "terminated"
    THEN [answer EXCEPT !.what = "deny"]
    ELSE answer

\* The position of the answer to settle next.
Unsettled(q) == q.decided[q.settled + 1]

\* The entries are settled one after another, the lock held throughout.
Settle(r) ==
    LET i == Unsettled(req[r]) IN
    /\ req[r].pc = "settle"
    /\ lock \in {{}, {r}}
    /\ lock' = {r}
    /\ req' = [req EXCEPT ![r] = [req[r] EXCEPT
           !.settled = @ + 1,
           !.answers[i] = Settled(req[r].answers[i]),
           !.pc = IF req[r].settled + 1 < Len(req[r].decided) THEN "settle" ELSE "record"]]
    /\ UNCHANGED <<now, registry, log, ended>>

\* The registry cannot be read for an Allow: nothing of the batch is recorded.
SettleFailed(r) ==
    /\ req[r].pc = "settle"
    /\ lock \in {{}, {r}}
    /\ req[r].answers[Unsettled(req[r])].what = "allow"
    /\ req' = [req EXCEPT ![r] = Idle]
    /\ lock' = {}
    /\ UNCHANGED <<now, registry, log, ended>>

\* The record of an answer.
EventOf(answer) == [what |-> answer.what, mission |-> answer.mission, held |-> FALSE]

\* The exchange once its decisions are recorded, each answer where it landed.
Landed(q) ==
    [q EXCEPT !.decided = <<>>, !.settled = 0,
              !.answers = [i \in DOMAIN q.answers |->
                  IF \E k \in DOMAIN q.decided : q.decided[k] = i
                  THEN [q.answers[i] EXCEPT
                           !.at = Len(ledger) + CHOOSE k \in DOMAIN q.decided : q.decided[k] = i]
                  ELSE q.answers[i]]]

\* append or append_all, and the answers as recorded.
DecideRecord(r) ==
    LET events == [k \in DOMAIN req[r].decided |-> EventOf(req[r].answers[req[r].decided[k]])]
        q      == Landed(req[r])
    IN
    /\ req[r].pc = "record" /\ req[r].kind = "decide"
    /\ lock = {r} /\ lock' = {}
    /\ Fits(events)
    /\ \/ Recorded(events) /\ req' = [req EXCEPT ![r] = [q EXCEPT !.pc = Onward(q)]]
       \/ RecordFailed(events) /\ req' = [req EXCEPT ![r] = Idle]
    /\ UNCHANGED <<now, registry, ended>>

\* The response leaves.
Respond(r) ==
    /\ req[r].pc = "done"
    /\ req' = [req EXCEPT ![r] = Idle]
    /\ UNCHANGED <<now, registry, log, lock, ended>>

-----------------------------------------------------------------------------
(* Time and faults. *)

Tick ==
    /\ now < MaxNow
    /\ \A r \in Req : req[r].pc # "idle" => now < req[r].since + Patience
    /\ now' = now + 1
    /\ UNCHANGED <<registry, log, lock, req, ended>>

\* The process is started again on its files.
Restarted ==
    /\ failed' = FALSE
    /\ lock' = {}
    /\ req' = [r \in Req |-> Idle]

\* The process is killed and started again.
Restart ==
    /\ Restarted
    /\ view' = disk
    /\ UNCHANGED <<now, disk, stable, ledger, durable, ended>>

\* It is killed between the rename of a registry write and the sync of the
\* directory.  Opening the registry again syncs neither.
KilledInWrite(r) ==
    /\ \/ req[r].pc = "register" /\ RegisterDirty(r) /\ Renamed(Registering(r))
       \/ req[r].pc = "mark" /\ MarkDirty(r) /\ Renamed(Marking(r))
    /\ Restarted
    /\ UNCHANGED <<now, ledger, durable, ended>>

PowerLoss ==
    /\ "power" \in faults
    /\ \E n \in durable..Len(ledger) : ledger' = SubSeq(ledger, 1, n)
    /\ durable' = Len(ledger')
    /\ disk' \in stable /\ stable' = {disk'} /\ view' = disk'
    /\ Restarted
    /\ UNCHANGED <<now, ended>>

\* What an exchange of n items may ask for.  One item takes the same steps under
\* each semantics, and a single evaluation has none to choose.
Semantics(n) == IF n = 1 THEN {"execute_all"} ELSE Semantic

Step ==
    \/ \E r \in Req :
         \/ \E m \in Mission, kind \in {"approve", "terminate"} :
                Begin(r, kind, "execute_all", <<m>>)
         \/ \E n \in 1..MaxItems : \E semantic \in Semantics(n) :
                \E items \in [1..n -> Mission] : Begin(r, "decide", semantic, items)
         \/ ReadClock(r) \/ RegistryUnreadable(r)
         \/ ApproveStatus(r) \/ ApproveRecord(r) \/ Register(r)
         \/ TerminateStatus(r) \/ Mark(r) \/ TerminateRecord(r)
         \/ Bind(r) \/ Settle(r) \/ SettleFailed(r) \/ DecideRecord(r) \/ Respond(r)
         \/ KilledInWrite(r)
    \/ Tick
    \/ Restart
    \/ PowerLoss

Next == Step /\ UNCHANGED faults

Spec == Init /\ [][Next]_vars

-----------------------------------------------------------------------------
(* Properties. *)

\* Every variable has its type; the ledger's mutex is held only by a request
\* that is settling or recording, and what is durable is in the ledger.
TypeOK ==
    /\ now \in Nat
    /\ disk \in Registry /\ view \in Registry
    /\ stable \in SUBSET Registry /\ stable # {}
    /\ ledger \in Seq(Event) /\ durable \in 0..Len(ledger) /\ failed \in BOOLEAN
    /\ lock \in SUBSET {r \in Req : req[r].pc \in {"settle", "record"}}
    /\ Cardinality(lock) <= 1
    /\ req \in [Req -> Request]
    /\ ended \in SUBSET Mission

\* A live mission never exists without a durable record of its approval, on
\* disk or in what a power loss can bring back: a record that fails registers
\* nothing, and one that lands is registered after it.
LiveIsRecorded ==
    \A map \in stable \cup {disk, view} : \A m \in Mission : map[m] = "active" =>
        \E i \in 1..durable : ledger[i].what = "approve" /\ ledger[i].mission = m

\* A mission ended for good, its tombstone past being undone when terminate
\* returned Ok, is never live again: not by a registration that was
\* under way, by a retry, by the sweep that drops its tombstone, nor by what a
\* kill, a failed sync or a power loss leaves of the writes after it.
NeverRevives ==
    \A m \in ended : disk[m] # "active" /\ view[m] # "active"

\* Termination is monotone, as terminate's comment says: no mission is live
\* whose termination is durably recorded.
TerminationIsMonotone ==
    \A i \in 1..durable : ledger[i].what = "terminate" =>
        disk[ledger[i].mission] # "active" /\ view[ledger[i].mission] # "active"

FollowedByAllow(i) ==
    \E j \in (i + 1)..Len(ledger) :
        ledger[j].what = "allow" /\ ledger[j].mission = ledger[i].mission

\* No Allow under a mission follows, in the ledger, a termination that ended it
\* for good, whenever the decision was bound, however long it waited for the
\* ledger and whatever was killed or lost power in between.
NoAllowAfterTakenTermination ==
    \A i \in 1..Len(ledger) :
        ledger[i].what = "terminate" /\ ledger[i].held => ~FollowedByAllow(i)

\* No Allow under a mission follows, in the ledger, any termination of it.
NoAllowAfterTermination ==
    \A i \in 1..Len(ledger) : ledger[i].what = "terminate" => ~FollowedByAllow(i)

\* Every decision of an exchange is durably recorded before it is served, and
\* is served as it was recorded, also where settling it made it a Deny.
ServedAsRecorded ==
    \A r \in Req : req[r].pc = "done" =>
        \A i \in DOMAIN req[r].answers :
            LET answer == req[r].answers[i] IN
            answer.what # "undecided" =>
                /\ answer.at \in 1..durable
                /\ ledger[answer.at].what = answer.what
                /\ ledger[answer.at].mission = answer.mission

\* A short-circuit exchange stops at the first decision that ends it, and only
\* there, judged on the decisions as they were settled and served.
ShortCircuits ==
    \A r \in Req : req[r].pc = "done" =>
        LET answers == req[r].answers
            stopped == {i \in DOMAIN answers :
                            Stops(req[r].semantic, SubSeq(answers, 1, i))}
        IN  /\ stopped \subseteq {Len(answers)}
            /\ req[r].todo # <<>> => stopped # {}

\* What the registry shows live is on the ledger for good, whatever approval,
\* termination or crash is under way (approve_now, register), on well-typed
\* states: the ledger's mutex is held only by a request that settles or records.
RegistrySound == TypeOK /\ LiveIsRecorded

\* What an exchange of decisions answers is what it recorded, and it stops where
\* its semantic says, on the decisions as settled (evaluate_all, settle).
ExchangesSound == ServedAsRecorded /\ ShortCircuits
=============================================================================
