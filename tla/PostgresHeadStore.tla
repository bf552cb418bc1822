------------------------- MODULE PostgresHeadStore -------------------------
(***************************************************************************)
(* The multi-host head store of decern-store-postgres, one shard of it.    *)
(* Each host runs one actor thread that owns the database connection; a    *)
(* caller hands it a job and then meets it three times on channels of      *)
(* capacity zero: `loaded' (the shard, read under the shard's advisory     *)
(* lock), `decision' (what the caller's section returned) and `done'.      *)
(* The database is external: a lock, a head row and the record rows, with  *)
(* a transaction that lands whole or not at all and whose COMMIT may land  *)
(* although its answer is lost with the connection.                        *)
(*                                                                         *)
(* A work item is a request's work on a blocking thread; Serving starts    *)
(* and ends it.                                                            *)
(***************************************************************************)
EXTENDS Integers, Sequences, FiniteSets

CONSTANTS Host,       \* processes sharing the database
          Work,       \* work items of one host
          Depth,      \* how many jobs the actor's queue holds (QUEUE_DEPTH)
          MaxRequests,\* bound: requests started on one host
          MaxPeer     \* bound: records other deployments' hosts commit

NoHost == "no host"
Peer == "peer"   \* a host outside the model that extends the same shard
NoWork == "no work"

ASSUME PostgresAssumption ==
  /\ Depth \in Nat \ {0} /\ MaxRequests \in Nat /\ MaxPeer \in Nat
  /\ NoHost \notin Host /\ Peer \notin Host
  /\ NoWork \notin Work /\ IsFiniteSet(Work)

(* A request's name: its host and its number there.                        *)
Request == [host : Host \cup {Peer}, n : Nat]

VARIABLES db,      \* the committed head row and record rows
          lock,    \* the host whose transaction holds the advisory lock
          link,    \* per host: is its connection to the database open
          closed,  \* per host: the `closed' flag the store reports
          queue,   \* per host: jobs waiting for the actor
          actor,   \* per host: the actor thread
          work     \* per host and work item: the caller's thread

storeVars == <<db, lock, link, closed, queue, actor, work>>

ActorPc == {"idle", "loading", "deciding", "writing", "unloaded", "ran", "gone"}
WorkPc == {"idle", "ready", "queued", "running", "decided", "ended", "finished"}
Outcome == {"none", "ok", "refused", "closed", "lost", "panicked"}
Decision == {"write", "none"}

Caller == [pc : WorkPc, req : [host : Host \cup {NoHost}, n : Nat],
           cursor : Nat, out : Outcome]
Actor == [pc : ActorPc, job : Work \cup {NoWork},
          dec : Decision, out : Outcome]

Idle == [pc |-> "idle", req |-> [host |-> NoHost, n |-> 0], cursor |-> 0, out |-> "none"]
IdleActor == [pc |-> "idle", job |-> NoWork, dec |-> "none", out |-> "none"]

Job(h) == work[h][actor[h].job]

Inside(h) == actor[h].pc \in {"deciding", "writing"}

StoreInit ==
  /\ db = [head |-> 0, records |-> {}]
  /\ lock = NoHost
  /\ link = [h \in Host |-> TRUE]
  /\ closed = [h \in Host |-> FALSE]
  /\ queue = [h \in Host |-> <<>>]
  /\ actor = [h \in Host |-> IdleActor]
  /\ work = [h \in Host |-> [w \in Work |-> Idle]]

(* What the actor and the caller it serves become.                         *)
ActorTo(h, pc, out) == actor' = [actor EXCEPT ![h].pc = pc, ![h].out = out]
WorkEnds(h, w, out) ==
  work' = [work EXCEPT ![h][w] = [Idle EXCEPT !.pc = "ended", !.out = out]]

(* note_closed runs before the caller is answered.                         *)
NoteClosed(h) == closed' = [closed EXCEPT ![h] = closed[h] \/ ~link[h]]

Unlocked(h) == IF lock = h THEN NoHost ELSE lock

---------------------------------------------------------------------------
(* The caller's side: section.                                             *)

QueueFull(h) == Len(queue[h]) = Depth

(* enqueue: a full queue, or an actor that is gone, is refused at once.    *)
Enqueue(h, w) ==
  /\ work[h][w].pc = "ready"
  /\ IF actor[h].pc = "gone" \/ QueueFull(h)
     THEN WorkEnds(h, w, "refused") /\ UNCHANGED queue
     ELSE /\ queue' = [queue EXCEPT ![h] = Append(@, w)]
          /\ work' = [work EXCEPT ![h][w].pc = "queued"]
  /\ UNCHANGED <<db, lock, link, closed, actor>>

(* The caller's section returned a write, or nothing to write: it meets    *)
(* the actor on `decision'.                                                *)
Decide(h, w) ==
  /\ work[h][w].pc = "running"
  /\ work' = [work EXCEPT ![h][w].pc = "decided"]
  /\ \E d \in Decision :
       actor' = [actor EXCEPT ![h].pc = "writing", ![h].dec = d]
  /\ UNCHANGED <<db, lock, link, closed, queue>>

(* The caller's section returned an error: the transaction rolls back.     *)
Refuse(h, w) ==
  /\ work[h][w].pc = "running"
  /\ work' = [work EXCEPT ![h][w].pc = "decided"]
  /\ ActorTo(h, "ran", "refused")
  /\ NoteClosed(h)
  /\ lock' = Unlocked(h)
  /\ UNCHANGED <<db, link, queue>>

(* The caller's section panicked: its channels drop, the actor's receive   *)
(* fails, the transaction rolls back and there is nobody to answer.        *)
PanicInside(h, w) ==
  /\ work[h][w].pc = "running"
  /\ WorkEnds(h, w, "panicked")
  /\ actor' = [actor EXCEPT ![h] = IdleActor]
  /\ NoteClosed(h)
  /\ lock' = Unlocked(h)
  /\ UNCHANGED <<db, link, queue>>

---------------------------------------------------------------------------
(* The actor's loop.                                                       *)

Take(h) ==
  /\ actor[h].pc = "idle"
  /\ queue[h] # <<>>
  /\ actor' = [actor EXCEPT ![h] = [IdleActor EXCEPT !.pc = "loading", !.job = Head(queue[h])]]
  /\ queue' = [queue EXCEPT ![h] = Tail(@)]
  /\ UNCHANGED <<db, lock, link, closed, work>>

(* The advisory lock is the transaction's: held until it ends.             *)
HeldForTheRead(h) == lock   \* mutant: the lock is held only while the shard is read
HeldToTheEnd(h) == h

(* load: the transaction has its lock and has read the head; the caller,   *)
(* waiting on `loaded', is handed it and runs its section.                 *)
Load(h) ==
  /\ actor[h].pc = "loading"
  /\ link[h]
  /\ lock = NoHost
  /\ lock' = HeldToTheEnd(h)
  /\ ActorTo(h, "deciding", "none")
  /\ work' = [work EXCEPT ![h][actor[h].job].pc = "running",
                          ![h][actor[h].job].cursor = db.head]
  /\ UNCHANGED <<db, link, closed, queue>>

(* load failed: the connection is closed, or the database cancelled a lock *)
(* wait another host outlasted (lock_timeout).                             *)
LoadFailed(h) ==
  /\ actor[h].pc = "loading"
  /\ ~link[h] \/ lock # NoHost
  /\ ActorTo(h, "unloaded", IF link[h] THEN "refused" ELSE "closed")
  /\ NoteClosed(h)
  /\ UNCHANGED <<db, lock, link, queue, work>>

(* A section that did not load is answered on `loaded', where its caller   *)
(* waits.                                                                  *)
WaitsOnDone(h) == "decided"   \* mutant: answered on `done' instead
WaitsOn(h) == "queued"

AnswerUnloaded(h) ==
  /\ actor[h].pc = "unloaded"
  /\ Job(h).pc = WaitsOn(h)
  /\ WorkEnds(h, actor[h].job, actor[h].out)
  /\ actor' = [actor EXCEPT ![h] = IdleActor]
  /\ UNCHANGED <<db, lock, link, closed, queue>>

(* The rows a commit adds: the record at the sequence number before the    *)
(* new head's, and the head.                                               *)
Landed(h) ==
  IF actor[h].dec = "write"
  THEN [head |-> Job(h).cursor + 1,
        records |-> db.records \cup {[seq |-> Job(h).cursor, req |-> Job(h).req]}]
  ELSE db

(* The primary key (shard, seq) refuses a second record at one number.     *)
KeyTaken(h) ==
  /\ actor[h].dec = "write"
  /\ \E r \in db.records : r.seq = Job(h).cursor

Commit(h) ==
  /\ actor[h].pc = "writing"
  /\ link[h]
  /\ ~KeyTaken(h)
  /\ db' = Landed(h)
  /\ lock' = Unlocked(h)
  /\ ActorTo(h, "ran", "ok")
  /\ UNCHANGED <<link, closed, queue, work>>

(* A transaction dropped without its COMMIT leaves nothing.                *)
RolledBackInPart(h) == Landed(h)   \* mutant: the writes are not one transaction
RolledBack(h) == db

(* An INSERT or the COMMIT is refused by the database: nothing landed.     *)
WriteRefused(h) ==
  /\ actor[h].pc = "writing"
  /\ ActorTo(h, "ran", IF link[h] THEN "refused" ELSE "closed")
  /\ NoteClosed(h)
  /\ db' = RolledBack(h)
  /\ lock' = Unlocked(h)
  /\ UNCHANGED <<link, queue, work>>

(* The connection closes under the COMMIT: the answer is lost, and the     *)
(* transaction may have landed.                                            *)
CommitLost(h) ==
  /\ actor[h].pc = "writing"
  /\ link[h]
  /\ ~KeyTaken(h)
  /\ db' \in {db, Landed(h)}
  /\ link' = [link EXCEPT ![h] = FALSE]
  /\ closed' = [closed EXCEPT ![h] = TRUE]
  /\ lock' = Unlocked(h)
  /\ ActorTo(h, "ran", "lost")
  /\ UNCHANGED <<queue, work>>

AnswerRan(h) ==
  /\ actor[h].pc = "ran"
  /\ Job(h).pc = "decided"
  /\ WorkEnds(h, actor[h].job, actor[h].out)
  /\ actor' = [actor EXCEPT ![h] = IdleActor]
  /\ UNCHANGED <<db, lock, link, closed, queue>>

(* The connection closes (a database restart): the database rolls back the *)
(* host's transaction and releases its lock; the actor finds out at its    *)
(* next call. One that closes between two jobs is one that closes as the   *)
(* second begins.                                                          *)
LoseLink(h) ==
  /\ link[h]
  /\ actor[h].pc \in {"loading", "deciding", "writing", "ran", "unloaded"}
  /\ link' = [link EXCEPT ![h] = FALSE]
  /\ lock' = Unlocked(h)
  /\ UNCHANGED <<db, closed, queue, actor, work>>

(* The store is dropped with its last user: the queue is empty, so the     *)
(* actor ends and is joined.                                               *)
DropStore(h) ==
  /\ actor[h].pc = "idle"
  /\ queue[h] = <<>>
  /\ actor' = [actor EXCEPT ![h].pc = "gone"]
  /\ link' = [link EXCEPT ![h] = FALSE]
  /\ UNCHANGED <<db, lock, closed, queue, work>>

(* A host outside the model takes the lock, and later commits its record   *)
(* and releases it, or releases it alone. It may be paused in between. Its *)
(* section matters to the hosts modelled only around one of their own.     *)
PeerLocks ==
  /\ lock = NoHost
  /\ \E h \in Host : actor[h].pc \in {"loading", "deciding", "unloaded"}
  /\ lock' = Peer
  /\ UNCHANGED <<db, link, closed, queue, actor, work>>

PeerCommits ==
  /\ lock = Peer
  /\ lock' = NoHost
  /\ \/ UNCHANGED db
     \/ /\ Cardinality({r \in db.records : r.req.host = Peer}) < MaxPeer
        /\ db' = [head |-> db.head + 1,
                  records |-> db.records \cup
                    {[seq |-> db.head, req |-> [host |-> Peer, n |-> db.head]]}]
  /\ UNCHANGED <<link, closed, queue, actor, work>>

(* A call of the actor that the database or a channel completes.           *)
ActorStep(h) ==
  \/ Take(h) \/ Load(h) \/ LoadFailed(h) \/ AnswerUnloaded(h)
  \/ Commit(h) \/ WriteRefused(h) \/ CommitLost(h) \/ AnswerRan(h)

CallerStep(h, w) ==
  Enqueue(h, w) \/ Decide(h, w) \/ Refuse(h, w) \/ PanicInside(h, w)

---------------------------------------------------------------------------
StoreTypeOK ==
  /\ db \in [head : Nat, records : SUBSET [seq : Nat, req : Request]]
  /\ lock \in Host \cup {NoHost, Peer}
  /\ link \in [Host -> BOOLEAN]
  /\ closed \in [Host -> BOOLEAN]
  /\ queue \in [Host -> Seq(Work)]
  /\ \A h \in Host : Len(queue[h]) <= Depth
  /\ actor \in [Host -> Actor]
  /\ work \in [Host -> [Work -> Caller]]

(* The shard in the database is one chain: its records fill the numbers    *)
(* below the head, one each; and it is the advisory lock that makes it so  *)
(* across hosts, not the primary key: a host about to write at a number    *)
(* still connected finds it free.                                          *)
OneRecordPerNumber ==
  /\ \A r, s \in db.records : r.seq = s.seq => r = s
  /\ {r.seq : r \in db.records} = 0 .. db.head - 1
  /\ \A h \in Host : Inside(h) /\ link[h] => lock = h /\ Job(h).cursor = db.head

(* A caller refused because the connection closed already sees the store   *)
(* as failed: note_closed runs before the answer, so a health check made   *)
(* after such an answer is red.                                            *)
FailureIsSeen ==
  \A h \in Host : \A w \in Work :
    work[h][w].out \in {"closed", "lost"} => closed[h]
=============================================================================
