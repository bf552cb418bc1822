--------------------------- MODULE ServingProofs ----------------------------
(***************************************************************************)
(* Serving over the Postgres head store, for any number of hosts, places,    *)
(* connections and requests: the shard is one chain, capacity is conserved,  *)
(* and an answer that says nothing was recorded is so.                       *)
(*                                                                          *)
(* PairedInv says where the actor and the callers stand when they meet: the  *)
(* job the actor has is the one caller past its queue, at the rendezvous the *)
(* actor's place names.  RequestsInv follows a request by its number, from   *)
(* the connection that sent it to the thread that works on it and into the   *)
(* database: no two of a host's threads, and no two of its connections, work *)
(* on one request; a thread that has not been told of a COMMIT has none, and *)
(* no thread still has a request that was answered as refused.               *)
(***************************************************************************)
EXTENDS Serving, FiniteSetTheorems, SequenceTheorems, TLAPS

-----------------------------------------------------------------------------
(* What the variables hold; places and slots are counted by CapacityInv.     *)

Typed ==
  /\ StoreTypeOK
  /\ phase \in [Host -> {"serving", "draining", "dropping", "exited"}]
  /\ acceptor \in [Host -> {"acquiring", "accepting", "stopped"}]
  /\ slots \in [Host -> Int]
  /\ conn \in [Host -> [Conn -> Connection]]
  /\ taken \in [Host -> Int]
  /\ sent \in [Host -> 0 .. MaxRequests]
  /\ refused \subseteq Request

\* The thread works on its request.
Holds(h, w) == work[h][w].pc \in {"ready", "queued", "running", "decided"}

\* The actor of h and its callers.
Paired(h) ==
  /\ actor[h].pc \in {"idle", "gone"} <=> actor[h].job = NoWork
  /\ actor[h].pc \in {"loading", "unloaded"} => Job(h).pc = "queued"
  /\ actor[h].pc = "deciding" => Job(h).pc = "running"
  /\ actor[h].pc \in {"writing", "ran"} => Job(h).pc = "decided"
  /\ \A w \in Work : work[h][w].pc \in {"running", "decided"} => actor[h].job = w
  /\ \A i \in 1 .. Len(queue[h]) : /\ work[h][queue[h][i]].pc = "queued"
                                   /\ queue[h][i] # actor[h].job
  /\ \A i, j \in 1 .. Len(queue[h]) : queue[h][i] = queue[h][j] => i = j
  /\ \A w \in Work : Holds(h, w) => work[h][w].req.host = h

\* A handler waits for a thread, and a connection without one for none.
Matched(h) == \A k \in Conn : conn[h][k].st = "waiting" <=> conn[h][k].work # NoWork

PairedInv == Typed /\ \A h \in Host : Paired(h) /\ Matched(h)

-----------------------------------------------------------------------------
CapacityInv ==
  /\ CapacityConserved
  /\ \A h \in Host :
       /\ taken[h] <= Cap[h] /\ slots[h] >= 0
       /\ phase[h] # "serving" => acceptor[h] = "stopped"

-----------------------------------------------------------------------------
(* A host's requests by their numbers.                                       *)

Kept(h) == {n \in Nat : \E r \in db.records : r.req = [host |-> h, n |-> n]}
Denied(h) == {n \in Nat : [host |-> h, n |-> n] \in refused}

\* Nothing was committed for it.
Clean(h, w) ==
  /\ Holds(h, w)
  /\ work[h][w].pc = "decided" /\ actor[h].pc = "ran" => actor[h].out \in Certain

WorkNamed(h, w) ==
  /\ Holds(h, w) => work[h][w].req.n \in (1 .. sent[h]) \ Denied(h)
  /\ Clean(h, w) => work[h][w].req.n \notin Kept(h)
  /\ \A x \in Work : Holds(h, w) /\ Holds(h, x) /\ x # w =>
                        work[h][w].req.n # work[h][x].req.n

\* A connection's request is in the hands of no thread but the one it waits for.
ConnNamed(h, k) ==
  InProgress(h, k) =>
    /\ conn[h][k].req \in (1 .. sent[h]) \ Denied(h)
    /\ \A j \in Conn : InProgress(h, j) /\ j # k => conn[h][j].req # conn[h][k].req
    /\ \A w \in Work : Holds(h, w) =>
         (work[h][w].req.n = conn[h][k].req <=> conn[h][k].work = w)
    /\ conn[h][k].st = "handling" => conn[h][k].req \notin Kept(h)

\* A connection that waits has a thread of its own, which answers it truly.
Waits(h, k) ==
  conn[h][k].st = "waiting" =>
    /\ \A j \in Conn : j # k => conn[h][j].work # conn[h][k].work
    /\ LET w == conn[h][k].work IN
         /\ work[h][w].pc # "idle"
         /\ ~Holds(h, w) /\ work[h][w].out \in Certain => conn[h][k].req \notin Kept(h)

\* The store's flag is up before the caller hears of a closed connection.
Flagged(h) ==
  /\ actor[h].out \in {"closed", "lost"} => closed[h]
  /\ \A w \in Work : work[h][w].out \in {"closed", "lost"} => closed[h]

RequestsAt(h) ==
  /\ Kept(h) \subseteq 1 .. sent[h] /\ Denied(h) \subseteq 1 .. sent[h]
  /\ Kept(h) \cap Denied(h) = {}
  /\ \A w \in Work : WorkNamed(h, w)
  /\ \A k \in Conn : ConnNamed(h, k) /\ Waits(h, k)

\* One record a request; a peer's record has its number for its request's.
RecordsNamed ==
  /\ \A r, s \in db.records : r.req = s.req => r = s
  /\ \A r \in db.records : r.req.host = Peer => r.req.n = r.seq
  /\ \A q \in refused : q.host # Peer

RequestsInv == RecordsNamed /\ \A h \in Host : RequestsAt(h)

FlaggedInv == \A h \in Host : Flagged(h)
-----------------------------------------------------------------------------
(* Steps, told by what becomes of one thread and of the actor.               *)

LEMMA Constants ==
  /\ Depth \in Nat /\ MaxRequests \in Nat /\ NoHost \notin Host /\ Peer \notin Host
  /\ NoWork \notin Work /\ IsFiniteSet(Work) /\ IsFiniteSet(Conn)
  /\ Slots \in Nat /\ Cap \in [Host -> Nat] /\ NoHost # Peer
  BY PostgresAssumption, ServingAssumption DEF NoHost, Peer

\* Nobody's thread but w of h moves.
Moved(h, w) ==
  /\ work' \in [Host -> [Work -> Caller]]
  /\ \A x \in Work : x # w => work'[h][x] = work[h][x]
  /\ \A g \in Host : g # h => work'[g] = work[g]

Advanced(h, w, pc) ==
  /\ Moved(h, w)
  /\ work'[h][w].pc = pc /\ work'[h][w].req = work[h][w].req
  /\ work'[h][w].out = work[h][w].out

Ended(h, w, out) ==
  /\ Moved(h, w)
  /\ work'[h][w].pc = "ended" /\ work'[h][w].out = out

ActorIs(h, pc, job, out) ==
  /\ actor' \in [Host -> Actor]
  /\ actor'[h].pc = pc /\ actor'[h].job = job /\ actor'[h].out = out
  /\ \A g \in Host : g # h => actor'[g] = actor[g]

Sets(h, w, c) == work' = [work EXCEPT ![h][w] = c]
SetsActor(h, a) == actor' = [actor EXCEPT ![h] = a]

LEMMA SetsFacts ==
  ASSUME work \in [Host -> [Work -> Caller]], NEW h \in Host, NEW w \in Work,
         NEW c \in Caller, Sets(h, w, c)
  PROVE  Moved(h, w) /\ work'[h][w] = c
  BY DEF Sets, Moved

LEMMA SetsActorFacts ==
  ASSUME actor \in [Host -> Actor], NEW h \in Host, NEW a \in Actor, SetsActor(h, a)
  PROVE  ActorIs(h, a.pc, a.job, a.out) /\ actor'[h] = a
  BY DEF SetsActor, ActorIs

LEMMA PcSet ==
  ASSUME work \in [Host -> [Work -> Caller]], NEW h \in Host, NEW w \in Work,
         NEW pc \in WorkPc, work' = [work EXCEPT ![h][w].pc = pc]
  PROVE  Advanced(h, w, pc) /\ work'[h][w].cursor = work[h][w].cursor
  <1>. DEFINE c == [work[h][w] EXCEPT !.pc = pc]
  <1>0. work[h][w] \in Caller
    OBVIOUS
  <1>1. c \in Caller /\ c.pc = pc /\ c.req = work[h][w].req /\ c.out = work[h][w].out
        /\ c.cursor = work[h][w].cursor
    BY <1>0 DEF Caller
  <1>2. Sets(h, w, c)
    BY DEF Sets
  <1>. HIDE DEF c
  <1>. QED BY <1>1, <1>2, SetsFacts DEF Advanced

LEMMA EndSet ==
  ASSUME work \in [Host -> [Work -> Caller]], NEW h \in Host, NEW w \in Work,
         NEW out \in Outcome, WorkEnds(h, w, out)
  PROVE  Ended(h, w, out)
  <1>. DEFINE c == [Idle EXCEPT !.pc = "ended", !.out = out]
  <1>1. c \in Caller /\ c.pc = "ended" /\ c.out = out
    BY DEF Caller, Idle, WorkPc, Outcome
  <1>2. Sets(h, w, c)
    BY DEF Sets, WorkEnds
  <1>. HIDE DEF c
  <1>. QED BY <1>1, <1>2, SetsFacts DEF Ended

LEMMA ActorSet ==
  ASSUME actor \in [Host -> Actor], NEW h \in Host, NEW pc \in ActorPc, NEW out \in Outcome,
         ActorTo(h, pc, out)
  PROVE  ActorIs(h, pc, actor[h].job, out)
  <1>. DEFINE a == [actor[h] EXCEPT !.pc = pc, !.out = out]
  <1>1. a \in Actor /\ a.pc = pc /\ a.out = out /\ a.job = actor[h].job
    BY DEF Actor
  <1>2. SetsActor(h, a)
    BY DEF SetsActor, ActorTo
  <1>. HIDE DEF a
  <1>. QED BY <1>1, <1>2, SetsActorFacts

LEMMA ActorIdles ==
  ASSUME actor \in [Host -> Actor], NEW h \in Host, actor' = [actor EXCEPT ![h] = IdleActor]
  PROVE  ActorIs(h, "idle", NoWork, "none")
  <1>1. IdleActor \in Actor
    BY DEF IdleActor, Actor, ActorPc, Outcome, Decision
  <1>2. SetsActor(h, IdleActor)
    BY DEF SetsActor
  <1>. QED BY <1>1, <1>2, SetsActorFacts DEF IdleActor

\* What the store's variables hold, and who the actor's job is.
LEMMA JobFacts ==
  ASSUME PairedInv, NEW h \in Host
  PROVE  /\ db.head \in Nat /\ db.records \subseteq [seq : Nat, req : Request]
         /\ link \in [Host -> BOOLEAN] /\ closed \in [Host -> BOOLEAN]
         /\ queue \in [Host -> Seq(Work)] /\ Len(queue[h]) <= Depth
         /\ actor \in [Host -> Actor] /\ actor[h] \in Actor
         /\ work \in [Host -> [Work -> Caller]]
         /\ \A w \in Work : work[h][w] \in Caller
         /\ actor[h].pc \notin {"idle", "gone"} => actor[h].job \in Work
         /\ actor[h].out \in Outcome /\ Paired(h)
  BY DEF PairedInv, Typed, StoreTypeOK, Paired, Actor

LEMMA EnqueueFacts ==
  ASSUME PairedInv, NEW h \in Host, NEW w \in Work, Enqueue(h, w)
  PROVE  /\ work[h][w].pc = "ready"
         /\ UNCHANGED <<db, lock, link, closed, actor>>
         /\ \/ /\ Ended(h, w, "refused") /\ queue' = queue
            \/ /\ Advanced(h, w, "queued")
               /\ queue' = [queue EXCEPT ![h] = Append(queue[h], w)]
               /\ Len(queue[h]) # Depth
  <1>1. CASE WorkEnds(h, w, "refused") /\ UNCHANGED queue
    BY <1>1, JobFacts, EndSet DEF Outcome, Enqueue
  <1>2. CASE /\ work' = [work EXCEPT ![h][w].pc = "queued"]
             /\ queue' = [queue EXCEPT ![h] = Append(queue[h], w)]
             /\ Len(queue[h]) # Depth
    <2>1. "queued" \in WorkPc
      BY DEF WorkPc
    <2>2. Advanced(h, w, "queued")
      BY <1>2, <2>1, JobFacts, PcSet, Zenon
    <2>. QED BY <1>2, <2>2 DEF Enqueue
  <1>. QED BY <1>1, <1>2, Zenon DEF Enqueue, QueueFull

LEMMA DecideFacts ==
  ASSUME PairedInv, NEW h \in Host, NEW w \in Work, Decide(h, w)
  PROVE  /\ work[h][w].pc = "running" /\ actor[h].job = w
         /\ UNCHANGED <<db, lock, link, closed, queue>>
         /\ Advanced(h, w, "decided") /\ work'[h][w].cursor = work[h][w].cursor
         /\ ActorIs(h, "writing", w, actor[h].out)
  <1>1. "decided" \in WorkPc
    BY DEF WorkPc
  <1>2. work[h][w].pc = "running" /\ actor[h].job = w /\ UNCHANGED <<db, lock, link, closed, queue>>
    BY JobFacts DEF Decide, Paired
  <1>3. work' = [work EXCEPT ![h][w].pc = "decided"]
    BY DEF Decide
  <1>4. Advanced(h, w, "decided") /\ work'[h][w].cursor = work[h][w].cursor
    BY <1>1, <1>3, JobFacts, PcSet, Zenon
  <1>5. PICK d \in Decision : actor' = [actor EXCEPT ![h].pc = "writing", ![h].dec = d]
    BY DEF Decide
  <1>. DEFINE a == [actor[h] EXCEPT !.pc = "writing", !.dec = d]
  <1>6. a \in Actor /\ a.pc = "writing" /\ a.job = actor[h].job /\ a.out = actor[h].out
    BY JobFacts DEF Actor, ActorPc
  <1>7. SetsActor(h, a)
    BY <1>5 DEF SetsActor
  <1>. HIDE DEF a
  <1>8. ActorIs(h, "writing", w, actor[h].out)
    BY <1>2, <1>6, <1>7, JobFacts, SetsActorFacts
  <1>. QED BY <1>2, <1>4, <1>8

LEMMA RefuseFacts ==
  ASSUME PairedInv, NEW h \in Host, NEW w \in Work, Refuse(h, w)
  PROVE  /\ work[h][w].pc = "running" /\ actor[h].job = w
         /\ UNCHANGED <<db, link, queue>> /\ NoteClosed(h) /\ lock' = Unlocked(h)
         /\ Advanced(h, w, "decided")
         /\ ActorIs(h, "ran", w, "refused")
  <1>1. "decided" \in WorkPc /\ "ran" \in ActorPc /\ "refused" \in Outcome
    BY DEF WorkPc, ActorPc, Outcome
  <1>2. work[h][w].pc = "running" /\ actor[h].job = w /\ UNCHANGED <<db, link, queue>>
        /\ NoteClosed(h) /\ lock' = Unlocked(h) /\ ActorTo(h, "ran", "refused")
    BY JobFacts DEF Refuse, Paired
  <1>3. work' = [work EXCEPT ![h][w].pc = "decided"]
    BY DEF Refuse
  <1>4. Advanced(h, w, "decided")
    BY <1>1, <1>3, JobFacts, PcSet, Zenon
  <1>. QED BY <1>1, <1>2, <1>4, JobFacts, ActorSet

LEMMA PanicFacts ==
  ASSUME PairedInv, NEW h \in Host, NEW w \in Work, PanicInside(h, w)
  PROVE  /\ work[h][w].pc = "running" /\ actor[h].job = w
         /\ UNCHANGED <<db, link, queue>> /\ NoteClosed(h) /\ lock' = Unlocked(h)
         /\ Ended(h, w, "panicked")
         /\ ActorIs(h, "idle", NoWork, "none")
  <1>1. work[h][w].pc = "running" /\ actor[h].job = w /\ UNCHANGED <<db, link, queue>>
        /\ NoteClosed(h) /\ lock' = Unlocked(h) /\ WorkEnds(h, w, "panicked")
        /\ "panicked" \in Outcome
    BY JobFacts DEF PanicInside, Paired, Outcome
  <1>2. actor' = [actor EXCEPT ![h] = IdleActor]
    BY DEF PanicInside
  <1>3. ActorIs(h, "idle", NoWork, "none")
    BY <1>2, JobFacts, ActorIdles, Zenon
  <1>. QED BY <1>1, <1>3, JobFacts, EndSet

LEMMA TakeFacts ==
  ASSUME PairedInv, NEW h \in Host, Take(h)
  PROVE  /\ actor[h].pc = "idle" /\ queue[h] # <<>> /\ Head(queue[h]) \in Work
         /\ UNCHANGED <<db, lock, link, closed, work>>
         /\ queue' = [queue EXCEPT ![h] = Tail(queue[h])]
         /\ ActorIs(h, "loading", Head(queue[h]), "none")
  <1>. DEFINE a == [IdleActor EXCEPT !.pc = "loading", !.job = Head(queue[h])]
  <1>1. /\ actor[h].pc = "idle" /\ queue[h] # <<>>
        /\ UNCHANGED <<db, lock, link, closed, work>>
        /\ queue' = [queue EXCEPT ![h] = Tail(queue[h])] /\ SetsActor(h, a)
    BY DEF Take, SetsActor
  <1>2. Head(queue[h]) \in Work
    BY <1>1, JobFacts
  <1>3. a \in Actor /\ a.pc = "loading" /\ a.job = Head(queue[h]) /\ a.out = "none"
    BY <1>2 DEF Actor, IdleActor, ActorPc, Outcome, Decision
  <1>. HIDE DEF a
  <1>. QED BY <1>1, <1>2, <1>3, JobFacts, SetsActorFacts

LEMMA LoadFacts ==
  ASSUME PairedInv, NEW h \in Host, Load(h)
  PROVE  LET w == actor[h].job IN
         /\ w \in Work /\ actor[h].pc = "loading" /\ work[h][w].pc = "queued" /\ link[h]
         /\ lock = NoHost /\ lock' = h
         /\ UNCHANGED <<db, link, closed, queue>>
         /\ Advanced(h, w, "running") /\ work'[h][w].cursor = db.head
         /\ ActorIs(h, "deciding", w, "none")
  <1>1. /\ actor[h].pc = "loading" /\ link[h] /\ lock = NoHost /\ lock' = h
        /\ UNCHANGED <<db, link, closed, queue>> /\ ActorTo(h, "deciding", "none")
    BY DEF Load, HeldToTheEnd
  <1>2. PICK w \in Work : w = actor[h].job
    BY <1>1, JobFacts
  <1>3. work[h][w].pc = "queued"
    BY <1>1, <1>2, JobFacts DEF Paired, Job
  <1>. DEFINE c == [work[h][w] EXCEPT !.pc = "running", !.cursor = db.head]
  <1>4. work[h][w] \in Caller /\ db.head \in Nat
    BY JobFacts
  <1>5. c \in Caller /\ c.pc = "running" /\ c.req = work[h][w].req /\ c.out = work[h][w].out
        /\ c.cursor = db.head
    BY <1>4 DEF Caller, WorkPc
  <1>6. Sets(h, w, c)
    BY <1>2 DEF Load, Sets
  <1>. HIDE DEF c
  <1>7. Advanced(h, w, "running") /\ work'[h][w].cursor = db.head
    BY <1>5, <1>6, JobFacts, SetsFacts DEF Advanced
  <1>8. ActorIs(h, "deciding", w, "none")
    BY <1>1, <1>2, JobFacts, ActorSet DEF ActorPc, Outcome
  <1>. QED BY <1>1, <1>2, <1>3, <1>7, <1>8

LEMMA LoadFailedFacts ==
  ASSUME PairedInv, NEW h \in Host, LoadFailed(h)
  PROVE  /\ actor[h].pc = "loading" /\ NoteClosed(h)
         /\ UNCHANGED <<db, lock, link, queue, work>>
         /\ ActorIs(h, "unloaded", actor[h].job, IF link[h] THEN "refused" ELSE "closed")
  <1>1. (IF link[h] THEN "refused" ELSE "closed") \in Outcome /\ "unloaded" \in ActorPc
    BY DEF Outcome, ActorPc
  <1>. QED BY <1>1, JobFacts, ActorSet DEF LoadFailed

LEMMA AnswerFacts ==
  ASSUME PairedInv, NEW h \in Host, AnswerUnloaded(h) \/ AnswerRan(h)
  PROVE  LET w == actor[h].job IN
         /\ w \in Work
         /\ \/ actor[h].pc = "unloaded" /\ work[h][w].pc = "queued"
            \/ actor[h].pc = "ran" /\ work[h][w].pc = "decided"
         /\ UNCHANGED <<db, lock, link, closed, queue>>
         /\ Ended(h, w, actor[h].out)
         /\ ActorIs(h, "idle", NoWork, "none")
  <1>1. /\ \/ actor[h].pc = "unloaded" /\ Job(h).pc = "queued"
           \/ actor[h].pc = "ran" /\ Job(h).pc = "decided"
        /\ WorkEnds(h, actor[h].job, actor[h].out)
        /\ UNCHANGED <<db, lock, link, closed, queue>>
        /\ actor' = [actor EXCEPT ![h] = IdleActor]
    BY DEF AnswerUnloaded, AnswerRan, WaitsOn
  <1>2. actor[h].job \in Work /\ actor[h].out \in Outcome
    BY <1>1, JobFacts
  <1>3. ActorIs(h, "idle", NoWork, "none")
    BY <1>1, JobFacts, ActorIdles, Zenon
  <1>4. Ended(h, actor[h].job, actor[h].out)
    BY <1>1, <1>2, JobFacts, EndSet
  <1>. QED BY <1>1, <1>2, <1>3, <1>4 DEF Job

LEMMA WriteFacts ==
  ASSUME PairedInv, NEW h \in Host, Commit(h) \/ WriteRefused(h) \/ CommitLost(h)
  PROVE  /\ actor[h].pc = "writing" /\ actor[h].job \in Work
         /\ work[h][actor[h].job].pc = "decided"
         /\ UNCHANGED <<queue, work>> /\ lock' = Unlocked(h)
         /\ \/ db' = db
            \/ link[h] /\ db' = Landed(h)
         /\ \/ ActorIs(h, "ran", actor[h].job, "ok") /\ UNCHANGED <<link, closed>>
            \/ /\ ActorIs(h, "ran", actor[h].job, "lost")
               /\ link' = [link EXCEPT ![h] = FALSE] /\ closed' = [closed EXCEPT ![h] = TRUE]
            \/ /\ ActorIs(h, "ran", actor[h].job, IF link[h] THEN "refused" ELSE "closed")
               /\ db' = db /\ UNCHANGED link /\ NoteClosed(h)
  <1>1. /\ "ran" \in ActorPc /\ "ok" \in Outcome /\ "lost" \in Outcome
        /\ (IF link[h] THEN "refused" ELSE "closed") \in Outcome
    BY DEF ActorPc, Outcome
  <1>2. /\ actor[h].pc = "writing" /\ UNCHANGED <<queue, work>> /\ lock' = Unlocked(h)
    BY DEF Commit, WriteRefused, CommitLost
  <1>3. actor[h].job \in Work /\ work[h][actor[h].job].pc = "decided"
    BY <1>2, JobFacts DEF Paired, Job
  <1>4. CASE Commit(h)
    BY <1>1, <1>2, <1>3, <1>4, JobFacts, ActorSet DEF Commit
  <1>5. CASE WriteRefused(h)
    BY <1>1, <1>2, <1>3, <1>5, JobFacts, ActorSet DEF WriteRefused, RolledBack
  <1>6. CASE CommitLost(h)
    BY <1>1, <1>2, <1>3, <1>6, JobFacts, ActorSet DEF CommitLost
  <1>. QED BY <1>4, <1>5, <1>6

LEMMA IdleCaller == Idle \in Caller /\ Idle.pc = "idle" /\ Idle.out = "none" /\ NoConn \in Connection
  BY DEF Idle, Caller, WorkPc, Outcome, NoConn, Connection

\* The threads of h that are through may be picked up; the others' are kept.
Swept(h) ==
  /\ work' \in [Host -> [Work -> Caller]]
  /\ \A w \in Work : \/ work'[h][w] = work[h][w]
                     \/ work[h][w].pc = "finished" /\ work'[h][w] = Idle
  /\ \A g \in Host : g # h => work'[g] = work[g]

LEMMA DroppedFacts ==
  ASSUME work \in [Host -> [Work -> Caller]], NEW h \in Host, NEW k \in Conn,
         HandlerDropped(h, k)
  PROVE  /\ Swept(h)
         /\ \A w \in Work : conn[h][k].work # w => work'[h][w] = work[h][w]
         /\ \A w \in Work : conn[h][k].work = w /\ work[h][w].pc = "finished" =>
                               work'[h][w] = Idle
  <1>. DEFINE f == [w \in Work |-> IF conn[h][k].work = w /\ work[h][w].pc = "finished"
                                   THEN Idle ELSE work[h][w]]
  <1>1. f \in [Work -> Caller]
    BY IdleCaller
  <1>2. work' = [work EXCEPT ![h] = f]
    BY DEF HandlerDropped
  <1>3. \A w \in Work : f[w] = IF conn[h][k].work = w /\ work[h][w].pc = "finished"
                               THEN Idle ELSE work[h][w]
    OBVIOUS
  <1>. HIDE DEF f
  <1>4. work'[h] = f /\ work' \in [Host -> [Work -> Caller]]
        /\ \A g \in Host : g # h => work'[g] = work[g]
    BY <1>1, <1>2
  <1>. QED BY <1>3, <1>4 DEF Swept

LEMMA StopServingFacts ==
  ASSUME work \in [Host -> [Work -> Caller]], NEW h \in Host, StopServing(h)
  PROVE  Swept(h)
  <1>. DEFINE f == [w \in Work |-> IF work[h][w].pc = "finished" THEN Idle ELSE work[h][w]]
  <1>1. f \in [Work -> Caller]
    BY IdleCaller
  <1>2. work' = [work EXCEPT ![h] = f]
    BY DEF StopServing
  <1>3. \A w \in Work : f[w] = IF work[h][w].pc = "finished" THEN Idle ELSE work[h][w]
    OBVIOUS
  <1>. HIDE DEF f
  <1>4. work'[h] = f /\ work' \in [Host -> [Work -> Caller]]
        /\ \A g \in Host : g # h => work'[g] = work[g]
    BY <1>1, <1>2
  <1>. QED BY <1>3, <1>4 DEF Swept

SetsConn(h, k, c) == conn' = [conn EXCEPT ![h][k] = c]

\* Nobody's connection but k of h changes.
Changed(h, k) ==
  /\ conn' \in [Host -> [Conn -> Connection]]
  /\ \A j \in Conn : j # k => conn'[h][j] = conn[h][j]
  /\ \A g \in Host : g # h => conn'[g] = conn[g]

LEMMA SetsConnFacts ==
  ASSUME conn \in [Host -> [Conn -> Connection]], NEW h \in Host, NEW k \in Conn,
         NEW c \in Connection, SetsConn(h, k, c)
  PROVE  Changed(h, k) /\ conn'[h][k] = c
  BY DEF SetsConn, Changed

LEMMA TakePlaceFacts ==
  ASSUME PairedInv, NEW h \in Host, NEW k \in Conn, TakePlace(h, k)
  PROVE  \E w \in Work :
           /\ work[h][w].pc = "idle" /\ conn[h][k].st = "handling" /\ MayTake(h)
           /\ Moved(h, w) /\ work'[h][w].pc = "ready" /\ work'[h][w].out = "none"
           /\ work'[h][w].req = [host |-> h, n |-> conn[h][k].req]
           /\ Changed(h, k) /\ conn'[h][k].st = "waiting" /\ conn'[h][k].work = w
           /\ conn'[h][k].req = conn[h][k].req
           /\ taken' = [taken EXCEPT ![h] = taken[h] + 1]
           /\ UNCHANGED <<db, lock, link, closed, queue, actor, phase, acceptor, slots, sent, refused>>
  <1>. DEFINE u == CHOOSE x \in Unused(h) : TRUE
              c == [Idle EXCEPT !.pc = "ready", !.req = [host |-> h, n |-> conn[h][k].req]]
  <1>1. u \in Unused(h) /\ work' = [work EXCEPT ![h][u] = c]
        /\ conn' = [conn EXCEPT ![h][k].st = "waiting", ![h][k].work = u]
        /\ conn[h][k].st = "handling" /\ MayTake(h)
        /\ taken' = [taken EXCEPT ![h] = taken[h] + 1]
        /\ UNCHANGED <<db, lock, link, closed, queue, actor, phase, acceptor, slots, sent, refused>>
    BY DEF TakePlace
  <1>. HIDE DEF u
  <1>2. PICK w \in Work : w = u /\ work[h][w].pc = "idle"
    BY <1>1 DEF Unused
  <1>3. conn[h][k] \in Connection /\ conn \in [Host -> [Conn -> Connection]]
    BY DEF PairedInv, Typed
  <1>4. c \in Caller /\ c.pc = "ready" /\ c.out = "none"
        /\ c.req = [host |-> h, n |-> conn[h][k].req]
    BY <1>3 DEF Caller, Idle, WorkPc, Outcome, Connection
  <1>5. Sets(h, w, c)
    BY <1>1, <1>2 DEF Sets
  <1>. DEFINE d == [conn[h][k] EXCEPT !.st = "waiting", !.work = w]
  <1>6. d \in Connection /\ d.st = "waiting" /\ d.work = w /\ d.req = conn[h][k].req
    BY <1>3 DEF Connection
  <1>7. SetsConn(h, k, d)
    BY <1>1, <1>2 DEF SetsConn
  <1>. HIDE DEF c, d
  <1>8. Moved(h, w) /\ work'[h][w] = c
    BY <1>4, <1>5, JobFacts, SetsFacts
  <1>9. Changed(h, k) /\ conn'[h][k] = d
    BY <1>3, <1>6, <1>7, SetsConnFacts
  <1>. QED BY <1>1, <1>2, <1>4, <1>6, <1>8, <1>9

LEMMA FinishFacts ==
  ASSUME PairedInv, NEW h \in Host, NEW w \in Work, FinishWork(h, w)
  PROVE  /\ work[h][w].pc = "ended" /\ Moved(h, w)
         /\ \/ Awaited(h, w) /\ work'[h][w].pc = "finished"
            \/ ~Awaited(h, w) /\ work'[h][w].pc = "idle"
         /\ work'[h][w].out \in {work[h][w].out, "panicked", "none"}
         /\ taken' = [taken EXCEPT ![h] = taken[h] - 1]
         /\ UNCHANGED <<db, lock, link, closed, queue, actor, phase, acceptor, slots, conn, sent,
                        refused>>
  <1>1. PICK out \in {work[h][w].out, "panicked"} :
           Sets(h, w, IF Awaited(h, w) THEN [Idle EXCEPT !.pc = "finished", !.out = out] ELSE Idle)
    BY DEF FinishWork, Sets
  <1>. DEFINE c == IF Awaited(h, w) THEN [Idle EXCEPT !.pc = "finished", !.out = out] ELSE Idle
  <1>2. out \in Outcome
    BY JobFacts DEF Caller, Outcome
  <1>3. c \in Caller /\ c.out \in {out, "none"}
        /\ c.pc = IF Awaited(h, w) THEN "finished" ELSE "idle"
    BY <1>2 DEF Caller, Idle, WorkPc, Outcome
  <1>4. Sets(h, w, c)
    BY <1>1
  <1>. HIDE DEF c
  <1>5. Moved(h, w) /\ work'[h][w] = c
    BY <1>3, <1>4, JobFacts, SetsFacts
  <1>. QED BY <1>3, <1>5 DEF FinishWork

LEMMA RespondFacts ==
  ASSUME PairedInv, NEW h \in Host, NEW k \in Conn, Respond(h, k), conn[h][k].work \in Work
  PROVE  LET w == conn[h][k].work IN
         /\ conn[h][k].st = "waiting" /\ work[h][w].pc = "finished"
         /\ Moved(h, w) /\ work'[h][w] = Idle /\ Swept(h)
         /\ Answered(h, k, work[h][w].out) /\ AfterAnswer(h, k)
         /\ UNCHANGED <<db, lock, link, closed, queue, actor, phase, acceptor, taken, sent>>
  <1>1. Sets(h, conn[h][k].work, Idle)
    BY DEF Respond, Sets
  <1>2. Moved(h, conn[h][k].work) /\ work'[h][conn[h][k].work] = Idle
    BY <1>1, IdleCaller, JobFacts, SetsFacts
  <1>. QED BY <1>2 DEF Respond, Swept, Moved

\* A connection that has had its answer.
LEMMA AfterAnswerFacts ==
  ASSUME PairedInv, NEW h \in Host, NEW k \in Conn, AfterAnswer(h, k)
  PROVE  /\ Changed(h, k) /\ conn'[h][k].work = NoWork /\ conn'[h][k].req = 0
         /\ \/ /\ phase[h] = "serving" /\ conn'[h][k].st = "open"
               /\ slots' = [slots EXCEPT ![h] = slots[h]]
            \/ /\ phase[h] # "serving" /\ conn'[h][k].st = "none"
               /\ slots' = [slots EXCEPT ![h] = slots[h] + 1]
  <1>. DEFINE c == IF phase[h] = "serving" THEN [NoConn EXCEPT !.st = "open"] ELSE NoConn
  <1>1. SetsConn(h, k, c)
    BY DEF AfterAnswer, SetsConn
  <1>2. c \in Connection /\ c.work = NoWork /\ c.req = 0
        /\ c.st = IF phase[h] = "serving" THEN "open" ELSE "none"
    BY DEF NoConn, Connection
  <1>. HIDE DEF c
  <1>3. Changed(h, k) /\ conn'[h][k] = c
    BY <1>1, <1>2, SetsConnFacts DEF PairedInv, Typed
  <1>4. CASE phase[h] = "serving"
    BY <1>2, <1>3, <1>4 DEF AfterAnswer
  <1>5. CASE phase[h] # "serving"
    BY <1>2, <1>3, <1>5 DEF AfterAnswer
  <1>. QED BY <1>4, <1>5

-----------------------------------------------------------------------------
(* PairedInv is inductive.                                                   *)

\* A host whose actor and queue are left alone, and whose threads move only where
\* they do not meet the actor.
LEMMA PairedKept ==
  ASSUME NEW h \in Host, Paired(h), queue'[h] = queue[h], actor'[h] = actor[h],
         queue[h] \in Seq(Work), actor[h].job \in Work \cup {NoWork},
         \A w \in Work : \/ work'[h][w] = work[h][w]
                         \/ /\ work[h][w].pc \notin {"queued", "running", "decided"}
                            /\ work'[h][w].pc \notin {"queued", "running", "decided"}
                            /\ work'[h][w].pc = "ready" => work'[h][w].req.host = h
  PROVE  Paired(h)'
  <1>1. \A w \in Work : \/ work[h][w].pc \in {"queued", "running", "decided"}
                        \/ work'[h][w].pc \in {"queued", "running", "decided"}
                        => work'[h][w] = work[h][w]
    OBVIOUS
  <1>2. /\ actor[h].pc \notin {"idle", "gone"} => actor[h].job \in Work
        /\ \A i \in 1 .. Len(queue[h]) : queue[h][i] \in Work
    BY DEF Paired
  <1>3. \A w \in Work : Holds(h, w)' => work'[h][w].req.host = h
    BY DEF Paired, Holds
  <1>. QED BY <1>1, <1>2, <1>3 DEF Paired, Job

LEMMA PairedStays ==
  ASSUME PairedInv, NEW g \in Host, queue'[g] = queue[g], actor'[g] = actor[g], work'[g] = work[g]
  PROVE  Paired(g)'
  <1>1. Paired(g) /\ queue[g] \in Seq(Work) /\ actor[g].job \in Work \cup {NoWork}
    BY JobFacts DEF Actor
  <1>. QED BY <1>1, PairedKept

\* A caller's step, and the actor's, keep them paired.
LEMMA CallerPaired ==
  ASSUME PairedInv, NEW h \in Host, NEW w \in Work, CallerStep(h, w)
  PROVE  /\ queue' \in [Host -> Seq(Work)] /\ Len(queue'[h]) <= Depth
         /\ \A g \in Host : g # h => queue'[g] = queue[g] /\ actor'[g] = actor[g] /\ work'[g] = work[g]
         /\ actor' \in [Host -> Actor] /\ work' \in [Host -> [Work -> Caller]]
         /\ Paired(h)'
  <1>0. /\ queue \in [Host -> Seq(Work)] /\ Len(queue[h]) <= Depth /\ Len(queue[h]) \in Nat
        /\ actor \in [Host -> Actor] /\ work \in [Host -> [Work -> Caller]]
        /\ Paired(h) /\ queue[h] \in Seq(Work) /\ Depth \in Nat /\ NoWork \notin Work
        /\ actor[h].job \in Work \cup {NoWork}
    BY JobFacts, Constants DEF Actor
  <1>1. CASE Enqueue(h, w)
    <2>1. CASE Ended(h, w, "refused") /\ queue' = queue
      <3>1. actor' = actor /\ work[h][w].pc = "ready"
        BY <1>1, EnqueueFacts
      <3>2. Paired(h)'
        BY <2>1, <3>1, <1>0, PairedKept DEF Ended, Moved
      <3>. QED BY <2>1, <3>1, <3>2, <1>0 DEF Ended, Moved
    <2>2. CASE /\ Advanced(h, w, "queued")
               /\ queue' = [queue EXCEPT ![h] = Append(queue[h], w)]
               /\ Len(queue[h]) # Depth
      <3>1. actor' = actor /\ work[h][w].pc = "ready"
        BY <1>1, EnqueueFacts
      <3>. DEFINE n == Len(queue[h])
      <3>2. /\ queue'[h] = Append(queue[h], w) /\ Len(queue'[h]) = n + 1
            /\ queue'[h][n + 1] = w /\ \A i \in 1 .. n : queue'[h][i] = queue[h][i]
        BY <2>2, <1>0
      <3>3. /\ queue' \in [Host -> Seq(Work)] /\ Len(queue'[h]) <= Depth
            /\ \A g \in Host : g # h => queue'[g] = queue[g]
        BY <2>2, <3>2, <1>0
      <3>4. \A i \in 1 .. n : queue[h][i] \in Work /\ queue[h][i] # w
        BY <3>1, <1>0 DEF Paired
      <3>5. actor[h].job # w
        BY <3>1, <1>0 DEF Paired, Job, Actor, ActorPc
      <3>6. \A i \in 1 .. Len(queue'[h]) : /\ work'[h][queue'[h][i]].pc = "queued"
                                           /\ queue'[h][i] # actor'[h].job
        <4>. TAKE i \in 1 .. Len(queue'[h])
        <4>1. CASE i \in 1 .. n
          BY <4>1, <3>1, <3>2, <3>4, <2>2, <1>0 DEF Paired, Advanced, Moved
        <4>2. CASE i = n + 1
          BY <4>2, <3>1, <3>2, <3>5, <2>2 DEF Advanced
        <4>. QED BY <4>1, <4>2, <3>2, <1>0
      <3>7. \A i, j \in 1 .. Len(queue'[h]) : queue'[h][i] = queue'[h][j] => i = j
        <4>. TAKE i, j \in 1 .. Len(queue'[h])
        <4>1. (i \in 1 .. n \/ i = n + 1) /\ (j \in 1 .. n \/ j = n + 1)
          BY <3>2, <1>0
        <4>. QED BY <4>1, <3>2, <3>4, <1>0 DEF Paired
      <3>8. \A x \in Work : x # w => work'[h][x] = work[h][x]
        BY <2>2 DEF Advanced, Moved
      <3>9. \A x \in Work : Holds(h, x)' => work'[h][x].req.host = h
        BY <2>2, <3>1, <3>8, <1>0 DEF Paired, Holds, Advanced
      <3>10. Paired(h)'
        BY <3>1, <3>5, <3>6, <3>7, <3>8, <3>9, <2>2, <1>0 DEF Paired, Job, Advanced
      <3>. QED BY <3>1, <3>3, <3>10, <2>2, <1>0 DEF Advanced, Moved
    <2>. QED BY <1>1, <2>1, <2>2, EnqueueFacts
  <1>2. ASSUME work[h][w].pc = "running", actor[h].job = w, queue' = queue,
               NEW pc \in {"writing", "ran"}, NEW out,
               Advanced(h, w, "decided"), ActorIs(h, pc, w, out)
        PROVE  Paired(h)'
    <2>1. \A x \in Work : x # w => work'[h][x] = work[h][x]
      BY <1>2 DEF Advanced, Moved
    <2>2. \A x \in Work : Holds(h, x)' => work'[h][x].req.host = h
      BY <1>2, <2>1, <1>0 DEF Paired, Holds, Advanced
    <2>3. \A i \in 1 .. Len(queue[h]) : queue[h][i] \in Work /\ queue[h][i] # w
      BY <1>2, <1>0 DEF Paired
    <2>. QED BY <1>2, <2>1, <2>2, <2>3, <1>0 DEF Paired, Job, Advanced, ActorIs
  <1>3. CASE Decide(h, w)
    BY <1>0, <1>2, <1>3, DecideFacts DEF Advanced, Moved, ActorIs
  <1>4. CASE Refuse(h, w)
    BY <1>0, <1>2, <1>4, RefuseFacts DEF Advanced, Moved, ActorIs
  <1>5. CASE PanicInside(h, w)
    <2>1. /\ work[h][w].pc = "running" /\ actor[h].job = w /\ queue' = queue
          /\ Ended(h, w, "panicked") /\ ActorIs(h, "idle", NoWork, "none")
      BY <1>5, PanicFacts
    <2>2. \A x \in Work : x # w => work'[h][x] = work[h][x]
      BY <2>1 DEF Ended, Moved
    <2>3. \A i \in 1 .. Len(queue[h]) : queue[h][i] \in Work /\ queue[h][i] # w
      BY <2>1, <1>0 DEF Paired
    <2>4. \A x \in Work : work'[h][x].pc \notin {"running", "decided"}
      BY <2>1, <2>2, <1>0 DEF Paired, Ended
    <2>5. \A x \in Work : Holds(h, x)' => work'[h][x].req.host = h
      BY <2>1, <2>2, <1>0 DEF Paired, Holds, Ended
    <2>6. Paired(h)'
      BY <2>1, <2>2, <2>3, <2>4, <2>5, <1>0 DEF Paired, Job, Ended, ActorIs
    <2>. QED BY <2>1, <2>6, <1>0 DEF Ended, Moved, ActorIs
  <1>. QED BY <1>1, <1>3, <1>4, <1>5 DEF CallerStep

LEMMA ActorPaired ==
  ASSUME PairedInv, NEW h \in Host, ActorStep(h)
  PROVE  /\ queue' \in [Host -> Seq(Work)] /\ Len(queue'[h]) <= Depth
         /\ \A g \in Host : g # h => queue'[g] = queue[g] /\ actor'[g] = actor[g] /\ work'[g] = work[g]
         /\ actor' \in [Host -> Actor] /\ work' \in [Host -> [Work -> Caller]]
         /\ Paired(h)'
  <1>0. /\ queue \in [Host -> Seq(Work)] /\ Len(queue[h]) <= Depth /\ Len(queue[h]) \in Nat
        /\ actor \in [Host -> Actor] /\ work \in [Host -> [Work -> Caller]]
        /\ Paired(h) /\ queue[h] \in Seq(Work) /\ Depth \in Nat /\ NoWork \notin Work
        /\ actor[h].job \in Work \cup {NoWork}
        /\ \A i \in 1 .. Len(queue[h]) : queue[h][i] \in Work
    BY JobFacts, Constants DEF Actor
  <1>1. CASE Take(h)
    <2>1. /\ actor[h].pc = "idle" /\ queue[h] # <<>> /\ Head(queue[h]) \in Work
          /\ work' = work /\ queue' = [queue EXCEPT ![h] = Tail(queue[h])]
          /\ ActorIs(h, "loading", Head(queue[h]), "none")
      BY <1>1, TakeFacts
    <2>. DEFINE n == Len(queue[h])
    <2>2. /\ n > 0 /\ queue'[h] \in Seq(Work) /\ Len(queue'[h]) = n - 1 /\ Head(queue[h]) = queue[h][1]
          /\ \A i \in 1 .. (n - 1) : queue'[h][i] = queue[h][i + 1]
      BY <2>1, <1>0
    <2>3. /\ queue' \in [Host -> Seq(Work)] /\ Len(queue'[h]) <= Depth
          /\ \A g \in Host : g # h => queue'[g] = queue[g]
      BY <2>1, <2>2, <1>0
    <2>4. \A w \in Work : work[h][w].pc \notin {"running", "decided"}
      BY <2>1, <1>0 DEF Paired
    <2>5. /\ \A i \in 1 .. n : work[h][queue[h][i]].pc = "queued"
          /\ \A i, j \in 1 .. n : queue[h][i] = queue[h][j] => i = j
      BY <1>0 DEF Paired
    <2>6. \A i \in 1 .. (n - 1) : i + 1 \in 1 .. n /\ i + 1 # 1 /\ 1 \in 1 .. n
      BY <1>0
    <2>7. \A i \in 1 .. (n - 1) : /\ work[h][queue'[h][i]].pc = "queued"
                                  /\ queue'[h][i] # queue[h][1]
      BY <2>2, <2>5, <2>6
    <2>8. \A i, j \in 1 .. (n - 1) : queue'[h][i] = queue'[h][j] => i = j
      BY <2>2, <2>5, <2>6, <1>0
    <2>9. \A w \in Work : Holds(h, w)' => work'[h][w].req.host = h
      BY <2>1, <1>0 DEF Paired, Holds
    <2>10. work[h][queue[h][1]].pc = "queued"
      BY <2>2, <2>5, <1>0
    <2>11. Paired(h)'
      BY <2>1, <2>2, <2>4, <2>7, <2>8, <2>9, <2>10, <1>0 DEF Paired, Job, ActorIs
    <2>. QED BY <2>1, <2>3, <2>11, <1>0 DEF ActorIs
  <1>2. CASE Load(h)
    <2>1. PICK w \in Work :
            /\ w = actor[h].job /\ actor[h].pc = "loading" /\ work[h][w].pc = "queued"
            /\ queue' = queue /\ Advanced(h, w, "running") /\ ActorIs(h, "deciding", w, "none")
      BY <1>2, LoadFacts
    <2>2. \A x \in Work : x # w => work'[h][x] = work[h][x]
      BY <2>1 DEF Advanced, Moved
    <2>3. \A i \in 1 .. Len(queue[h]) : queue[h][i] # w
      BY <2>1, <1>0 DEF Paired
    <2>4. \A x \in Work : Holds(h, x)' => work'[h][x].req.host = h
      BY <2>1, <2>2, <1>0 DEF Paired, Holds, Advanced
    <2>5. Paired(h)'
      BY <2>1, <2>2, <2>3, <2>4, <1>0 DEF Paired, Job, Advanced, ActorIs
    <2>. QED BY <2>1, <2>5, <1>0 DEF Advanced, Moved, ActorIs
  <1>3. ASSUME queue' = queue, work' = work, NEW out,
               \/ actor[h].pc = "loading" /\ ActorIs(h, "unloaded", actor[h].job, out)
               \/ actor[h].pc = "writing" /\ ActorIs(h, "ran", actor[h].job, out)
        PROVE  Paired(h)'
    <2>1. \A w \in Work : Holds(h, w)' => work'[h][w].req.host = h
      BY <1>3, <1>0 DEF Paired, Holds
    <2>. QED BY <1>3, <2>1, <1>0 DEF Paired, Job, ActorIs
  <1>4. CASE LoadFailed(h)
    BY <1>0, <1>3, <1>4, LoadFailedFacts DEF ActorIs
  <1>5. CASE Commit(h) \/ WriteRefused(h) \/ CommitLost(h)
    <2>1. /\ actor[h].pc = "writing" /\ queue' = queue /\ work' = work
          /\ \E out \in {"ok", "lost", "refused", "closed"} :
                ActorIs(h, "ran", actor[h].job, out)
      BY <1>5, WriteFacts
    <2>2. Paired(h)'
      BY <2>1, <1>3
    <2>. QED BY <2>1, <2>2, <1>0 DEF ActorIs
  <1>6. CASE AnswerUnloaded(h) \/ AnswerRan(h)
    <2>1. PICK w \in Work :
            /\ w = actor[h].job /\ work[h][w].pc \in {"queued", "decided"}
            /\ actor[h].pc \in {"unloaded", "ran"}
            /\ queue' = queue /\ Ended(h, w, actor[h].out) /\ ActorIs(h, "idle", NoWork, "none")
      BY <1>6, AnswerFacts
    <2>2. \A x \in Work : x # w => work'[h][x] = work[h][x]
      BY <2>1 DEF Ended, Moved
    <2>3. \A i \in 1 .. Len(queue[h]) : queue[h][i] # w
      BY <2>1, <1>0 DEF Paired
    <2>4. \A x \in Work : work'[h][x].pc \notin {"running", "decided"}
      BY <2>1, <2>2, <1>0 DEF Paired, Ended
    <2>5. \A x \in Work : Holds(h, x)' => work'[h][x].req.host = h
      BY <2>1, <2>2, <1>0 DEF Paired, Holds, Ended
    <2>6. Paired(h)'
      BY <2>1, <2>2, <2>3, <2>4, <2>5, <1>0 DEF Paired, Job, Ended, ActorIs
    <2>. QED BY <2>1, <2>6, <1>0 DEF Ended, Moved, ActorIs
  <1>. QED BY <1>1, <1>2, <1>4, <1>5, <1>6 DEF ActorStep

\* What a commit adds.
LEMMA LandedType ==
  ASSUME PairedInv, NEW h \in Host, actor[h].pc = "writing"
  PROVE  Landed(h) \in [head : Nat, records : SUBSET [seq : Nat, req : Request]]
  <1>0. actor[h].job \in Work /\ Paired(h)
    BY JobFacts
  <1>1. PICK w \in Work : w = actor[h].job
    BY <1>0
  <1>2. work[h][w] \in Caller /\ work[h][w].req.host = h
    BY <1>0, <1>1, JobFacts DEF Paired, Job, Holds
  <1>3. work[h][w].cursor \in Nat /\ work[h][w].req \in Request
    BY <1>1, <1>2 DEF Caller, Request
  <1>4. db \in [head : Nat, records : SUBSET [seq : Nat, req : Request]]
    BY DEF PairedInv, Typed, StoreTypeOK
  <1>5. [seq |-> work[h][w].cursor, req |-> work[h][w].req] \in [seq : Nat, req : Request]
    BY <1>3
  <1>. QED BY <1>1, <1>3, <1>4, <1>5 DEF Landed, Job

LEMMA StoreTyped ==
  ASSUME PairedInv, NEW h \in Host, StoreStep(h)
  PROVE  Typed' /\ \A g \in Host : Paired(g)'
  <1>0. /\ Typed /\ UNCHANGED serverVars
        /\ db \in [head : Nat, records : SUBSET [seq : Nat, req : Request]]
        /\ lock \in Host \cup {NoHost, Peer} /\ link \in [Host -> BOOLEAN]
        /\ closed \in [Host -> BOOLEAN] /\ queue \in [Host -> Seq(Work)]
        /\ \A g \in Host : Len(queue[g]) <= Depth
    BY DEF PairedInv, Typed, StoreTypeOK, StoreStep
  <1>1. SUFFICES /\ StoreTypeOK' /\ Paired(h)'
                 /\ \A g \in Host : g # h => /\ queue'[g] = queue[g] /\ actor'[g] = actor[g]
                                             /\ work'[g] = work[g]
    BY <1>0, PairedStays DEF Typed, serverVars
  <1>2. CASE \E w \in Work : CallerStep(h, w)
    <2>1. PICK w \in Work : CallerStep(h, w)
      BY <1>2
    <2>2. /\ UNCHANGED <<db, link>>
          /\ lock' \in {lock, Unlocked(h)} /\ (closed' = closed \/ NoteClosed(h))
      BY <2>1 DEF CallerStep, Enqueue, Decide, Refuse, PanicInside
    <2>3. lock' \in Host \cup {NoHost, Peer} /\ closed' \in [Host -> BOOLEAN]
      BY <2>2, <1>0 DEF Unlocked, NoteClosed
    <2>. QED BY <2>1, <2>2, <2>3, <1>0, CallerPaired DEF StoreTypeOK
  <1>3. CASE ActorStep(h)
    <2>1. db' \in [head : Nat, records : SUBSET [seq : Nat, req : Request]]
      <3>1. db' = db \/ (actor[h].pc = "writing" /\ db' = Landed(h))
        BY <1>3 DEF ActorStep, Take, Load, LoadFailed, AnswerUnloaded, Commit, WriteRefused,
                    CommitLost, AnswerRan, RolledBack
      <3>. QED BY <3>1, <1>0, LandedType
    <2>2. lock' \in Host \cup {NoHost, Peer}
      BY <1>0, <1>3 DEF ActorStep, Take, Load, LoadFailed, AnswerUnloaded, Commit, WriteRefused,
                        CommitLost, AnswerRan, Unlocked, HeldToTheEnd
    <2>3. /\ link' = link \/ link' = [link EXCEPT ![h] = FALSE]
          /\ closed' = closed \/ NoteClosed(h) \/ closed' = [closed EXCEPT ![h] = TRUE]
      BY <1>3 DEF ActorStep, Take, Load, LoadFailed, AnswerUnloaded, Commit, WriteRefused,
                  CommitLost, AnswerRan
    <2>4. link' \in [Host -> BOOLEAN] /\ closed' \in [Host -> BOOLEAN]
      BY <2>3, <1>0 DEF NoteClosed
    <2>. QED BY <2>1, <2>2, <2>4, <1>0, <1>3, ActorPaired DEF StoreTypeOK
  <1>4. CASE LoseLink(h)
    <2>1. UNCHANGED <<db, closed, queue, actor, work>>
          /\ link' = [link EXCEPT ![h] = FALSE] /\ lock' = Unlocked(h)
      BY <1>4 DEF LoseLink
    <2>2. Paired(h)'
      BY <2>1, PairedStays
    <2>3. lock' \in Host \cup {NoHost, Peer} /\ link' \in [Host -> BOOLEAN]
      BY <2>1, <1>0 DEF Unlocked
    <2>. QED BY <2>1, <2>2, <2>3, <1>0 DEF StoreTypeOK, Typed
  <1>. QED BY <1>2, <1>3, <1>4 DEF StoreStep

\* What a step of the server does to the threads.
LEMMA ServerPaired ==
  ASSUME PairedInv, NEW h \in Host, work' \in [Host -> [Work -> Caller]],
         UNCHANGED <<queue, actor>>,
         \A g \in Host : g # h => work'[g] = work[g],
         \A w \in Work : \/ work'[h][w] = work[h][w]
                         \/ /\ work[h][w].pc \notin {"queued", "running", "decided"}
                            /\ work'[h][w].pc \notin {"queued", "running", "decided"}
                            /\ work'[h][w].pc = "ready" => work'[h][w].req.host = h
  PROVE  \A g \in Host : Paired(g)'
  <1>1. Paired(h)'
    BY JobFacts, PairedKept DEF Actor
  <1>2. ASSUME NEW g \in Host, g # h PROVE Paired(g)'
    BY <1>2, PairedStays
  <1>. QED BY <1>1, <1>2

LEMMA AnsweredType ==
  ASSUME PairedInv, NEW h \in Host, NEW k \in Conn, NEW what, Answered(h, k, what)
  PROVE  /\ refused' \subseteq Request
         /\ \/ /\ refused' = refused \cup {[host |-> h, n |-> conn[h][k].req]}
               /\ what \in Certain
            \/ refused' = refused /\ what \notin Certain
  <1>1. conn[h][k] \in Connection /\ refused \subseteq Request
    BY DEF PairedInv, Typed
  <1>2. [host |-> h, n |-> conn[h][k].req] \in Request
    BY <1>1 DEF Connection, Request
  <1>. QED BY <1>1, <1>2 DEF Answered

LEMMA MatchedChange ==
  ASSUME PairedInv, NEW h \in Host, NEW k \in Conn, Changed(h, k),
         conn'[h][k].st = "waiting" <=> conn'[h][k].work # NoWork
  PROVE  \A g \in Host : Matched(g)'
  <1>1. Matched(h)'
    BY DEF PairedInv, Matched, Changed
  <1>2. ASSUME NEW g \in Host, g # h PROVE Matched(g)'
    BY <1>2 DEF PairedInv, Matched, Changed
  <1>. QED BY <1>1, <1>2

\* The connections after the server's steps that set one.
LEMMA ConnFacts ==
  ASSUME PairedInv, NEW h \in Host, NEW k \in Conn
  PROVE  /\ Hangup(h, k) => Changed(h, k) /\ conn'[h][k] = NoConn
         /\ Accept(h, k) => /\ Changed(h, k) /\ conn'[h][k].st = "open"
                            /\ conn'[h][k].work = NoWork
         /\ SendRequest(h, k) => /\ Changed(h, k) /\ conn'[h][k].st = "handling"
                                 /\ conn'[h][k].work = NoWork
                                 /\ conn'[h][k].req = sent[h] + 1
  <1>1. /\ conn \in [Host -> [Conn -> Connection]] /\ conn[h][k] \in Connection
        /\ sent[h] \in Nat /\ Matched(h)
    BY Constants DEF PairedInv, Typed
  <1>2. ASSUME Hangup(h, k) PROVE Changed(h, k) /\ conn'[h][k] = NoConn
    <2>1. SetsConn(h, k, NoConn)
      BY <1>2 DEF Hangup, SetsConn
    <2>. QED BY <2>1, <1>1, IdleCaller, SetsConnFacts
  <1>3. ASSUME Accept(h, k)
        PROVE  Changed(h, k) /\ conn'[h][k].st = "open" /\ conn'[h][k].work = NoWork
    <2>. DEFINE c == [conn[h][k] EXCEPT !.st = "open"]
    <2>1. conn[h][k].work = NoWork
      BY <1>1, <1>3 DEF Accept, Matched
    <2>2. c \in Connection /\ c.st = "open" /\ c.work = NoWork
      BY <2>1, <1>1 DEF Connection
    <2>3. SetsConn(h, k, c)
      BY <1>3 DEF Accept, SetsConn
    <2>. HIDE DEF c
    <2>. QED BY <2>2, <2>3, <1>1, SetsConnFacts
  <1>4. ASSUME SendRequest(h, k)
        PROVE  /\ Changed(h, k) /\ conn'[h][k].st = "handling"
               /\ conn'[h][k].work = NoWork /\ conn'[h][k].req = sent[h] + 1
    <2>. DEFINE c == [st |-> "handling", work |-> NoWork, req |-> sent[h] + 1]
    <2>1. c \in Connection /\ c.st = "handling" /\ c.work = NoWork /\ c.req = sent[h] + 1
      BY <1>1 DEF Connection
    <2>2. SetsConn(h, k, c)
      BY <1>4 DEF SendRequest, SetsConn
    <2>. HIDE DEF c
    <2>. QED BY <2>1, <2>2, <1>1, SetsConnFacts
  <1>. QED BY <1>2, <1>3, <1>4

LEMMA ServerTyped ==
  ASSUME PairedInv, NEW h \in Host, ServerStep(h)
  PROVE  PairedInv'
  <1>0. /\ Typed /\ StoreTypeOK /\ work \in [Host -> [Work -> Caller]]
        /\ phase \in [Host -> {"serving", "draining", "dropping", "exited"}]
        /\ acceptor \in [Host -> {"acquiring", "accepting", "stopped"}]
        /\ slots \in [Host -> Int] /\ conn \in [Host -> [Conn -> Connection]]
        /\ taken \in [Host -> Int] /\ sent \in [Host -> 0 .. MaxRequests]
        /\ refused \subseteq Request /\ MaxRequests \in Nat
    BY Constants DEF PairedInv, Typed, StoreTypeOK
  <1>1. ASSUME UNCHANGED <<db, lock, link, closed, queue, actor>>,
               work' \in [Host -> [Work -> Caller]],
               \A g \in Host : g # h => work'[g] = work[g],
               \A w \in Work : \/ work'[h][w] = work[h][w]
                               \/ /\ work[h][w].pc \notin {"queued", "running", "decided"}
                                  /\ work'[h][w].pc \notin {"queued", "running", "decided"}
                                  /\ work'[h][w].pc = "ready" => work'[h][w].req.host = h
        PROVE  StoreTypeOK' /\ \A g \in Host : Paired(g)'
    BY <1>0, <1>1, ServerPaired DEF StoreTypeOK
  <1>2. ASSUME UNCHANGED storeVars PROVE StoreTypeOK' /\ \A g \in Host : Paired(g)'
    BY <1>0, <1>1, <1>2 DEF storeVars
  <1>3. ASSUME UNCHANGED <<db, lock, link, closed, queue, actor>>, Swept(h)
        PROVE  StoreTypeOK' /\ \A g \in Host : Paired(g)'
    <2>1. \A w \in Work : \/ work'[h][w] = work[h][w]
                          \/ work[h][w].pc = "finished" /\ work'[h][w].pc = "idle"
      BY <1>3, IdleCaller DEF Swept
    <2>. QED BY <2>1, <1>1, <1>3 DEF Swept
  <1>4. ASSUME UNCHANGED conn PROVE \A g \in Host : Matched(g)'
    BY <1>4 DEF PairedInv, Matched
  <1>5. CASE AcquireSlot(h) \/ AcceptFailed(h) \/ Stop(h)
    <2>1. UNCHANGED <<storeVars, conn, taken, sent, refused>>
      BY <1>5 DEF AcquireSlot, AcceptFailed, Stop
    <2>2. /\ phase' \in [Host -> {"serving", "draining", "dropping", "exited"}]
          /\ acceptor' \in [Host -> {"acquiring", "accepting", "stopped"}]
          /\ slots' \in [Host -> Int]
      <3>1. CASE AcquireSlot(h)
        BY <3>1, <1>0 DEF AcquireSlot
      <3>2. CASE AcceptFailed(h)
        BY <3>2, <1>0 DEF AcceptFailed
      <3>3. CASE Stop(h)
        BY <3>3, <1>0 DEF Stop
      <3>. QED BY <1>5, <3>1, <3>2, <3>3
    <2>. QED BY <2>1, <2>2, <1>0, <1>2, <1>4 DEF PairedInv, Typed
  <1>6. CASE \E k \in Conn : Accept(h, k) \/ SendRequest(h, k)
    <2>1. PICK k \in Conn : Accept(h, k) \/ SendRequest(h, k)
      BY <1>6
    <2>2. /\ UNCHANGED <<storeVars, phase, slots, taken, refused>>
          /\ acceptor' \in [Host -> {"acquiring", "accepting", "stopped"}]
          /\ sent' \in [Host -> 0 .. MaxRequests]
      <3>1. CASE Accept(h, k)
        BY <3>1, <1>0 DEF Accept
      <3>2. CASE SendRequest(h, k)
        BY <3>2, <1>0 DEF SendRequest
      <3>. QED BY <2>1, <3>1, <3>2
    <2>3. /\ Changed(h, k)
          /\ conn'[h][k].st = "waiting" <=> conn'[h][k].work # NoWork
      BY <2>1, ConnFacts
    <2>4. \A g \in Host : Matched(g)'
      BY <2>3, MatchedChange
    <2>. QED BY <2>2, <2>3, <2>4, <1>0, <1>2 DEF PairedInv, Typed, Changed
  <1>7. CASE \E k \in Conn : Hangup(h, k)
    <2>1. PICK k \in Conn : Hangup(h, k)
      BY <1>7
    <2>2. /\ UNCHANGED <<db, lock, link, closed, queue, actor, phase, acceptor, taken, sent, refused>>
          /\ slots' \in [Host -> Int] /\ HandlerDropped(h, k)
      BY <2>1, <1>0 DEF Hangup
    <2>3. Changed(h, k) /\ conn'[h][k].st = "none" /\ conn'[h][k].work = NoWork
      BY <2>1, ConnFacts DEF NoConn
    <2>4. \A g \in Host : Matched(g)'
      BY <2>3, MatchedChange
    <2>5. Swept(h)
      BY <2>2, <1>0, DroppedFacts
    <2>. QED BY <2>2, <2>3, <2>4, <2>5, <1>0, <1>3 DEF PairedInv, Typed, Changed
  <1>8. CASE \E k \in Conn : TakePlace(h, k)
    <2>1. PICK k \in Conn : TakePlace(h, k)
      BY <1>8
    <2>2. PICK w \in Work :
           /\ work[h][w].pc = "idle"
           /\ Moved(h, w) /\ work'[h][w].pc = "ready"
           /\ work'[h][w].req = [host |-> h, n |-> conn[h][k].req]
           /\ Changed(h, k) /\ conn'[h][k].st = "waiting" /\ conn'[h][k].work = w
           /\ taken' = [taken EXCEPT ![h] = taken[h] + 1]
           /\ UNCHANGED <<db, lock, link, closed, queue, actor, phase, acceptor, slots, sent, refused>>
      BY <2>1, TakePlaceFacts
    <2>3. \A g \in Host : Matched(g)'
      BY <2>2, MatchedChange, Constants
    <2>4. StoreTypeOK' /\ \A g \in Host : Paired(g)'
      BY <2>2, <1>1 DEF Moved
    <2>5. taken' \in [Host -> Int]
      BY <2>2, <1>0
    <2>. QED BY <2>2, <2>3, <2>4, <2>5, <1>0 DEF PairedInv, Typed, Changed
  <1>9. ASSUME NEW k \in Conn, AfterAnswer(h, k)
        PROVE  /\ \A g \in Host : Matched(g)'
               /\ conn' \in [Host -> [Conn -> Connection]] /\ slots' \in [Host -> Int]
    <2>1. Changed(h, k) /\ conn'[h][k].st # "waiting" /\ conn'[h][k].work = NoWork
      BY <1>9, AfterAnswerFacts
    <2>2. \/ slots' = [slots EXCEPT ![h] = slots[h]]
          \/ slots' = [slots EXCEPT ![h] = slots[h] + 1]
      BY <1>9, AfterAnswerFacts
    <2>3. slots' \in [Host -> Int]
      <3>1. CASE slots' = [slots EXCEPT ![h] = slots[h]]
        BY <3>1, <1>0
      <3>2. CASE slots' = [slots EXCEPT ![h] = slots[h] + 1]
        BY <3>2, <1>0
      <3>. QED BY <2>2, <3>1, <3>2
    <2>. QED BY <2>1, <2>3, MatchedChange DEF Changed
  <1>10. CASE \E k \in Conn : Busy(h, k)
    <2>1. PICK k \in Conn : Busy(h, k)
      BY <1>10
    <2>2. Answered(h, k, "busy") /\ AfterAnswer(h, k)
          /\ UNCHANGED <<storeVars, phase, acceptor, taken, sent>>
      BY <2>1 DEF Busy
    <2>. QED BY <2>2, <1>0, <1>2, <1>9, AnsweredType DEF PairedInv, Typed
  <1>11. CASE \E k \in Conn : Deadline(h, k)
    <2>1. PICK k \in Conn : Deadline(h, k)
      BY <1>11
    <2>2. /\ Answered(h, k, "timeout") /\ AfterAnswer(h, k) /\ HandlerDropped(h, k)
          /\ UNCHANGED <<db, lock, link, closed, queue, actor, phase, acceptor, taken, sent>>
      BY <2>1 DEF Deadline, PlaceAtDeadline
    <2>3. Swept(h)
      BY <2>2, <1>0, DroppedFacts
    <2>. QED BY <2>2, <2>3, <1>0, <1>3, <1>9, AnsweredType DEF PairedInv, Typed
  <1>12. CASE \E k \in Conn : Respond(h, k)
    <2>1. PICK k \in Conn : Respond(h, k)
      BY <1>12
    <2>2. conn[h][k].work \in Work
      <3>1. conn[h][k] \in Connection /\ conn[h][k].st = "waiting" /\ Matched(h)
        BY <2>1, <1>0 DEF Respond, PairedInv
      <3>. QED BY <3>1 DEF Matched, Connection
    <2>3. /\ Swept(h) /\ AfterAnswer(h, k) /\ refused' \subseteq Request
          /\ UNCHANGED <<db, lock, link, closed, queue, actor, phase, acceptor, taken, sent>>
      BY <2>1, <2>2, RespondFacts, AnsweredType
    <2>. QED BY <2>3, <1>0, <1>3, <1>9 DEF PairedInv, Typed
  <1>13. CASE \E w \in Work : FinishWork(h, w)
    <2>1. PICK w \in Work : FinishWork(h, w)
      BY <1>13
    <2>2. /\ work[h][w].pc = "ended" /\ Moved(h, w) /\ work'[h][w].pc \in {"finished", "idle"}
          /\ taken' = [taken EXCEPT ![h] = taken[h] - 1]
          /\ UNCHANGED <<db, lock, link, closed, queue, actor, phase, acceptor, slots, conn, sent,
                         refused>>
      BY <2>1, FinishFacts
    <2>3. StoreTypeOK' /\ \A g \in Host : Paired(g)'
      BY <2>2, <1>1 DEF Moved
    <2>4. taken' \in [Host -> Int]
      BY <2>2, <1>0
    <2>. QED BY <2>2, <2>3, <2>4, <1>0, <1>4 DEF PairedInv, Typed
  <1>14. CASE StopServing(h)
    <2>1. /\ UNCHANGED <<db, lock, link, closed, queue, actor, acceptor, taken, sent, refused>>
          /\ phase' \in [Host -> {"serving", "draining", "dropping", "exited"}]
          /\ slots' \in [Host -> Int]
      BY <1>0, <1>14, Constants DEF StopServing
    <2>2. /\ conn' \in [Host -> [Conn -> Connection]]
          /\ \A g \in Host : conn'[g] = IF g = h THEN [k \in Conn |-> NoConn] ELSE conn[g]
      <3>1. conn' = [conn EXCEPT ![h] = [k \in Conn |-> NoConn]]
        BY <1>14 DEF StopServing
      <3>. QED BY <3>1, <1>0, IdleCaller
    <2>3. \A g \in Host : Matched(g)'
      BY <2>2 DEF PairedInv, Matched, NoConn
    <2>4. Swept(h)
      BY <1>0, <1>14, StopServingFacts
    <2>. QED BY <2>1, <2>2, <2>3, <2>4, <1>0, <1>3 DEF PairedInv, Typed
  <1>15. CASE Exit(h)
    <2>1. /\ UNCHANGED <<db, lock, closed, queue, work, acceptor, slots, conn, taken, sent, refused>>
          /\ actor' = [actor EXCEPT ![h].pc = "gone"] /\ actor[h].pc = "idle"
          /\ link' = [link EXCEPT ![h] = FALSE]
          /\ phase' \in [Host -> {"serving", "draining", "dropping", "exited"}]
      BY <1>0, <1>15 DEF Exit, DropStore
    <2>2. /\ actor' \in [Host -> Actor] /\ link' \in [Host -> BOOLEAN]
          /\ actor'[h].pc = "gone" /\ actor'[h].job = actor[h].job
          /\ \A g \in Host : g # h => actor'[g] = actor[g]
      BY <2>1, <1>0 DEF StoreTypeOK, Actor, ActorPc
    <2>3. Paired(h)'
      <3>1. Paired(h)
        BY DEF PairedInv
      <3>. QED BY <3>1, <2>1, <2>2 DEF Paired, Job, Holds
    <2>4. \A g \in Host : Paired(g)'
      BY <2>1, <2>2, <2>3, PairedStays
    <2>5. StoreTypeOK'
      BY <2>1, <2>2, <1>0 DEF StoreTypeOK
    <2>. QED BY <2>1, <2>4, <2>5, <1>0, <1>4 DEF PairedInv, Typed
  <1>. QED
    BY <1>5, <1>6, <1>7, <1>8, <1>10, <1>11, <1>12, <1>13, <1>14, <1>15 DEF ServerStep

LEMMA PeerFacts ==
  ASSUME PairedInv, PeerStep
  PROVE  /\ UNCHANGED <<link, closed, queue, actor, work, serverVars>>
         /\ \/ lock = NoHost /\ lock' = Peer /\ db' = db
            \/ lock = Peer /\ lock' = NoHost /\ db' = db
            \/ /\ lock = Peer /\ lock' = NoHost
               /\ db' = [head |-> db.head + 1,
                         records |-> db.records \cup
                            {[seq |-> db.head, req |-> [host |-> Peer, n |-> db.head]]}]
  BY DEF PeerStep, PeerLocks, PeerCommits

LEMMA PairedInit == Init => PairedInv
  <1>. SUFFICES ASSUME Init PROVE PairedInv
    OBVIOUS
  <1>1. IdleActor \in Actor
    BY DEF IdleActor, Actor, ActorPc, Outcome, Decision
  <1>2. StoreTypeOK
    <2>1. work \in [Host -> [Work -> Caller]]
      BY IdleCaller DEF Init, StoreInit
    <2>2. actor \in [Host -> Actor]
      BY <1>1 DEF Init, StoreInit
    <2>3. /\ queue \in [Host -> Seq(Work)]
          /\ \A h \in Host : Len(queue[h]) <= Depth
      BY Constants DEF Init, StoreInit
    <2>. QED BY <2>1, <2>2, <2>3 DEF Init, StoreInit, StoreTypeOK
  <1>3. Typed
    <2>1. conn \in [Host -> [Conn -> Connection]]
      BY IdleCaller DEF Init
    <2>. QED BY <1>2, <2>1, Constants DEF Init, Typed
  <1>4. ASSUME NEW h \in Host PROVE Paired(h) /\ Matched(h)
    <2>1. /\ queue[h] = <<>> /\ actor[h] = IdleActor /\ \A w \in Work : work[h][w] = Idle
          /\ \A k \in Conn : conn[h][k] = NoConn
      BY DEF Init, StoreInit
    <2>. QED BY <2>1 DEF Paired, Matched, IdleActor, Idle, NoConn, Holds
  <1>. QED BY <1>3, <1>4 DEF PairedInv

LEMMA PairedStep == PairedInv /\ [Next]_vars => PairedInv'
  <1>. SUFFICES ASSUME PairedInv, [Next]_vars PROVE PairedInv'
    OBVIOUS
  <1>1. ASSUME UNCHANGED <<queue, actor, work, conn>>
        PROVE  \A h \in Host : Paired(h)' /\ Matched(h)'
    BY <1>1, PairedStays DEF PairedInv, Matched
  <1>2. CASE UNCHANGED vars
    BY <1>1, <1>2 DEF vars, storeVars, PairedInv, Typed, StoreTypeOK
  <1>3. CASE PeerStep
    <2>1. UNCHANGED <<link, closed, queue, actor, work, serverVars>>
      BY <1>3, PeerFacts
    <2>2. /\ db' \in [head : Nat, records : SUBSET [seq : Nat, req : Request]]
          /\ lock' \in Host \cup {NoHost, Peer}
      <3>1. db \in [head : Nat, records : SUBSET [seq : Nat, req : Request]]
            /\ lock \in Host \cup {NoHost, Peer}
        BY DEF PairedInv, Typed, StoreTypeOK
      <3>2. [seq |-> db.head, req |-> [host |-> Peer, n |-> db.head]] \in [seq : Nat, req : Request]
        BY <3>1 DEF Request
      <3>. QED BY <3>1, <3>2, <1>3, PeerFacts
    <2>. QED BY <2>1, <2>2, <1>1 DEF serverVars, PairedInv, Typed, StoreTypeOK
  <1>4. CASE \E h \in Host : StoreStep(h)
    <2>1. PICK h \in Host : StoreStep(h)
      BY <1>4
    <2>2. Typed' /\ \A g \in Host : Paired(g)'
      BY <2>1, StoreTyped
    <2>3. \A g \in Host : Matched(g)'
      BY <2>1 DEF StoreStep, serverVars, PairedInv, Matched
    <2>. QED BY <2>2, <2>3 DEF PairedInv
  <1>5. CASE \E h \in Host : ServerStep(h)
    BY <1>5, ServerTyped
  <1>. QED BY <1>2, <1>3, <1>4, <1>5 DEF Next, Done

-----------------------------------------------------------------------------
(* The shard in the database is one chain.                                   *)

\* The server leaves the store's calls alone.
LEMMA ServerFrame ==
  ASSUME PairedInv, NEW h \in Host, ServerStep(h)
  PROVE  /\ UNCHANGED <<db, lock, closed, queue>>
         /\ \A g \in Host : \/ actor'[g] = actor[g] /\ link'[g] = link[g]
                            \/ actor'[g].pc = "gone"
         /\ \A g \in Host, w \in Work :
              work[g][w].pc \in {"ready", "queued", "running", "decided"} =>
                work'[g][w] = work[g][w]
  <1>0. work \in [Host -> [Work -> Caller]] /\ actor \in [Host -> Actor]
    BY DEF PairedInv, Typed, StoreTypeOK
  <1>1. CASE Exit(h)
    <2>1. /\ UNCHANGED <<db, lock, closed, queue, work>>
          /\ actor' = [actor EXCEPT ![h].pc = "gone"]
          /\ link' = [link EXCEPT ![h] = FALSE]
      BY <1>1 DEF Exit, DropStore
    <2>2. link \in [Host -> BOOLEAN]
      BY DEF PairedInv, Typed, StoreTypeOK
    <2>3. \A g \in Host : g # h => actor'[g] = actor[g] /\ link'[g] = link[g]
      BY <2>1, <2>2, <1>0
    <2>4. actor'[h].pc = "gone"
      BY <2>1, <1>0 DEF Actor
    <2>. QED BY <2>1, <2>3, <2>4
  <1>2. CASE \E k \in Conn : TakePlace(h, k)
    <2>1. \E w \in Work : /\ work[h][w].pc = "idle" /\ Moved(h, w)
                          /\ UNCHANGED <<db, lock, closed, queue, actor, link>>
      BY <1>2, TakePlaceFacts
    <2>. QED BY <2>1 DEF Moved
  <1>3. CASE \E w \in Work : FinishWork(h, w)
    <2>1. \E w \in Work : /\ work[h][w].pc = "ended" /\ Moved(h, w)
                          /\ UNCHANGED <<db, lock, closed, queue, actor, link>>
      BY <1>3, FinishFacts
    <2>. QED BY <2>1 DEF Moved
  <1>4. ASSUME UNCHANGED <<db, lock, closed, queue, actor, link>>, UNCHANGED work \/ Swept(h)
        PROVE  /\ UNCHANGED <<db, lock, closed, queue>>
               /\ \A g \in Host : \/ actor'[g] = actor[g] /\ link'[g] = link[g]
                                  \/ actor'[g].pc = "gone"
               /\ \A g \in Host, w \in Work :
                    work[g][w].pc \in {"ready", "queued", "running", "decided"} =>
                      work'[g][w] = work[g][w]
    BY <1>4 DEF Swept
  <1>5. CASE \E k \in Conn : Respond(h, k)
    <2>1. PICK k \in Conn : Respond(h, k)
      BY <1>5
    <2>2. conn[h][k] \in Connection /\ conn[h][k].st = "waiting" /\ Matched(h)
      BY <2>1 DEF Respond, PairedInv, Typed
    <2>3. conn[h][k].work \in Work
      BY <2>2 DEF Matched, Connection
    <2>. QED BY <2>1, <2>3, <1>4, RespondFacts
  <1>6. CASE \E k \in Conn : Hangup(h, k) \/ Deadline(h, k)
    <2>1. PICK k \in Conn : Hangup(h, k) \/ Deadline(h, k)
      BY <1>6
    <2>2. HandlerDropped(h, k) /\ UNCHANGED <<db, lock, closed, queue, actor, link>>
      BY <2>1 DEF Hangup, Deadline
    <2>. QED BY <2>2, <1>0, <1>4, DroppedFacts
  <1>7. CASE StopServing(h)
    <2>1. UNCHANGED <<db, lock, closed, queue, actor, link>>
      BY <1>7 DEF StopServing
    <2>. QED BY <2>1, <1>0, <1>4, <1>7, StopServingFacts
  <1>8. CASE \/ AcquireSlot(h) \/ AcceptFailed(h) \/ Stop(h)
             \/ \E k \in Conn : Accept(h, k) \/ SendRequest(h, k) \/ Busy(h, k)
    <2>1. UNCHANGED storeVars
      BY <1>8 DEF AcquireSlot, AcceptFailed, Stop, Accept, SendRequest, Busy
    <2>. QED BY <2>1, <1>4 DEF storeVars
  <1>. QED BY <1>1, <1>2, <1>3, <1>5, <1>6, <1>7, <1>8 DEF ServerStep

\* The records fill the numbers below the head.
Chain ==
  /\ \A r, s \in db.records : r.seq = s.seq => r = s
  /\ {r.seq : r \in db.records} = 0 .. db.head - 1

Locked(h) == Inside(h) /\ link[h] => lock = h /\ Job(h).cursor = db.head

LEMMA ChainGrows ==
  ASSUME db.head \in Nat, Chain, NEW q,
         db'.head = db.head + 1,
         db'.records = db.records \cup {[seq |-> db.head, req |-> q]}
  PROVE  Chain'
  <1>. DEFINE new == [seq |-> db.head, req |-> q]
  <1>1. \A r \in db.records : r.seq \in 0 .. db.head - 1
    BY DEF Chain
  <1>2. \A r \in db.records : r.seq # db.head
    BY <1>1
  <1>3. new.seq = db.head
    OBVIOUS
  <1>4. db'.records = db.records \cup {new}
    OBVIOUS
  <1>. HIDE DEF new
  <1>5. \A r, s \in db'.records : r.seq = s.seq => r = s
    BY <1>2, <1>3, <1>4 DEF Chain
  <1>6. ASSUME NEW n \in 0 .. db'.head - 1 PROVE \E r \in db'.records : r.seq = n
    <2>1. CASE n = db.head
      BY <2>1, <1>3, <1>4
    <2>2. CASE n # db.head
      <3>1. n \in 0 .. db.head - 1
        BY <2>2, <1>6
      <3>2. \E r \in db.records : r.seq = n
        BY <3>1 DEF Chain
      <3>. QED BY <3>2, <1>4
    <2>. QED BY <2>1, <2>2
  <1>7. ASSUME NEW r \in db'.records PROVE r.seq \in 0 .. db'.head - 1
    BY <1>1, <1>3, <1>4
  <1>8. {r.seq : r \in db'.records} = 0 .. db'.head - 1
    BY <1>6, <1>7
  <1>. QED BY <1>5, <1>8 DEF Chain

\* The actor's place where its job is.
LEMMA JobPlaces ==
  ASSUME PairedInv, NEW h \in Host, NEW w \in Work
  PROVE  /\ work[h][w].pc = "running" => actor[h].pc = "deciding" /\ actor[h].job = w
         /\ work[h][w].pc = "decided" => actor[h].pc \in {"writing", "ran"} /\ actor[h].job = w
         /\ Inside(h) => actor[h].job \in Work /\ Job(h).pc \in {"running", "decided"}
         /\ work[h][w].pc \in {"idle", "ready", "ended", "finished"} => actor[h].job # w
  <1>1. Paired(h) /\ actor[h] \in Actor /\ NoWork \notin Work
    BY JobFacts, Constants
  <1>2. actor[h].pc \in ActorPc
    BY <1>1 DEF Actor
  <1>. QED BY <1>1, <1>2, JobFacts DEF Paired, Job, ActorPc, Inside

LEMMA LockedStore ==
  ASSUME PairedInv, NEW h \in Host, StoreStep(h), \A g \in Host : Locked(g)
  PROVE  /\ \A g \in Host : Locked(g)'
         /\ db' = db \/ \E q : db' = [head |-> db.head + 1,
                                      records |-> db.records \cup {[seq |-> db.head, req |-> q]}]
  <1>0. /\ link \in [Host -> BOOLEAN] /\ lock \in Host \cup {NoHost, Peer}
        /\ NoHost \notin Host /\ Peer \notin Host
    BY Constants DEF PairedInv, Typed, StoreTypeOK
  <1>1. ASSUME UNCHANGED <<db, link>>, NEW g \in Host, g # h,
               actor'[g] = actor[g], work'[g] = work[g],
               lock' \in {lock, Unlocked(h)}
        PROVE  Locked(g)'
    BY <1>1 DEF Locked, Inside, Job, Unlocked
  <1>2. ASSUME NEW w \in Work, CallerStep(h, w) PROVE db' = db /\ \A g \in Host : Locked(g)'
    <2>1. /\ UNCHANGED <<db, link>> /\ lock' \in {lock, Unlocked(h)}
          /\ \A g \in Host : g # h => actor'[g] = actor[g] /\ work'[g] = work[g]
      BY <1>2, CallerPaired DEF CallerStep, Enqueue, Decide, Refuse, PanicInside
    <2>2. CASE Enqueue(h, w)
      <3>1. /\ UNCHANGED <<db, lock, link, actor>> /\ Moved(h, w) /\ actor[h].job # w
            /\ Inside(h) => actor[h].job \in Work
        BY <2>2, EnqueueFacts, JobPlaces DEF Ended, Advanced
      <3>2. Locked(h)'
        BY <3>1 DEF Locked, Inside, Job, Moved
      <3>. QED BY <2>1, <3>2, <1>1
    <2>3. CASE Decide(h, w)
      <3>1. /\ UNCHANGED <<db, lock, link>> /\ actor[h].job = w /\ Inside(h)
            /\ actor'[h].job = w /\ work'[h][w].cursor = work[h][w].cursor
        BY <2>3, DecideFacts, JobPlaces DEF ActorIs, Inside
      <3>2. Locked(h)'
        BY <3>1 DEF Locked, Job
      <3>. QED BY <2>1, <3>2, <1>1
    <2>4. CASE Refuse(h, w) \/ PanicInside(h, w)
      <3>1. actor'[h].pc \in {"ran", "idle"}
        BY <2>4, RefuseFacts, PanicFacts DEF ActorIs
      <3>2. Locked(h)'
        BY <3>1 DEF Locked, Inside
      <3>. QED BY <2>1, <3>2, <1>1
    <2>. QED BY <1>2, <2>2, <2>3, <2>4 DEF CallerStep
  <1>3. ASSUME ActorStep(h)
        PROVE  \A g \in Host : g # h => actor'[g] = actor[g] /\ work'[g] = work[g]
    BY <1>3, ActorPaired
  <1>4. CASE Load(h)
    <2>1. /\ lock = NoHost /\ lock' = h /\ UNCHANGED <<db, link>> /\ actor[h].job \in Work
          /\ actor'[h].job = actor[h].job /\ work'[h][actor[h].job].cursor = db.head
      BY <1>4, LoadFacts DEF ActorIs
    <2>2. Locked(h)'
      BY <2>1 DEF Locked, Job
    <2>3. ASSUME NEW g \in Host, g # h PROVE Locked(g)'
      <3>1. actor'[g] = actor[g] /\ work'[g] = work[g] /\ lock # g
        BY <2>1, <2>3, <1>0, <1>3, <1>4 DEF ActorStep
      <3>. QED BY <2>1, <3>1 DEF Locked, Inside
    <2>. QED BY <2>1, <2>2, <2>3
  <1>5. CASE Take(h) \/ LoadFailed(h) \/ AnswerUnloaded(h) \/ AnswerRan(h)
    <2>1. /\ UNCHANGED <<db, link, lock>>
          /\ actor'[h].pc \in {"loading", "unloaded", "idle"}
      BY <1>5, TakeFacts, LoadFailedFacts, AnswerFacts DEF ActorIs
    <2>2. Locked(h)'
      BY <2>1 DEF Locked, Inside
    <2>. QED BY <2>1, <2>2, <1>1, <1>3, <1>5 DEF ActorStep
  <1>6. CASE Commit(h) \/ WriteRefused(h) \/ CommitLost(h)
    <2>1. /\ actor[h].pc = "writing" /\ actor[h].job \in Work /\ lock' = Unlocked(h)
          /\ actor'[h].pc = "ran"
          /\ db' = db \/ (link[h] /\ db' = Landed(h))
          /\ link' = link \/ link' = [link EXCEPT ![h] = FALSE]
      BY <1>6, WriteFacts DEF ActorIs
    <2>2. Locked(h)'
      BY <2>1 DEF Locked, Inside
    <2>3. Inside(h)
      BY <2>1 DEF Inside
    <2>4. ASSUME NEW g \in Host, g # h PROVE Locked(g)'
      <3>1. actor'[g] = actor[g] /\ work'[g] = work[g] /\ link'[g] = link[g]
        BY <2>1, <2>4, <1>0, <1>3, <1>6 DEF ActorStep
      <3>2. CASE db' = db
        BY <2>1, <2>4, <3>1, <3>2 DEF Locked, Inside, Job, Unlocked
      <3>3. CASE link[h]
        BY <2>3, <2>4, <3>1, <3>3 DEF Locked, Inside
      <3>. QED BY <2>1, <3>2, <3>3
    <2>5. ASSUME link[h]
          PROVE  \/ Landed(h) = db
                 \/ \E q : Landed(h) = [head |-> db.head + 1,
                                        records |-> db.records \cup {[seq |-> db.head, req |-> q]}]
      <3>1. Job(h).cursor = db.head
        BY <2>3, <2>5 DEF Locked
      <3>. QED BY <3>1 DEF Landed
    <2>. QED BY <2>1, <2>2, <2>4, <2>5
  <1>7. CASE LoseLink(h)
    <2>1. /\ UNCHANGED <<db, actor, work>> /\ lock' = Unlocked(h)
          /\ link' = [link EXCEPT ![h] = FALSE]
      BY <1>7 DEF LoseLink
    <2>2. link'[h] = FALSE /\ \A g \in Host : g # h => link'[g] = link[g]
      BY <2>1, <1>0
    <2>3. Locked(h)'
      BY <2>2 DEF Locked
    <2>4. ASSUME NEW g \in Host, g # h PROVE Locked(g)'
      BY <2>1, <2>2, <2>4 DEF Locked, Inside, Job, Unlocked
    <2>. QED BY <2>1, <2>3, <2>4
  <1>. QED BY <1>2, <1>4, <1>5, <1>6, <1>7 DEF StoreStep, ActorStep

LEMMA ChainStep == PairedInv /\ OneRecordPerNumber /\ [Next]_vars => OneRecordPerNumber'
  <1>. SUFFICES ASSUME PairedInv, OneRecordPerNumber, [Next]_vars PROVE OneRecordPerNumber'
    OBVIOUS
  <1>0. Chain /\ (\A g \in Host : Locked(g)) /\ db.head \in Nat
        /\ db \in [head : Nat, records : SUBSET [seq : Nat, req : Request]]
        /\ lock \in Host \cup {NoHost, Peer} /\ NoHost \notin Host /\ Peer \notin Host
    BY Constants DEF OneRecordPerNumber, Chain, Locked, PairedInv, Typed, StoreTypeOK
  <1>1. SUFFICES Chain' /\ \A g \in Host : Locked(g)'
    BY DEF OneRecordPerNumber, Chain, Locked
  <1>2. ASSUME db' = db PROVE Chain'
    BY <1>0, <1>2 DEF Chain
  <1>3. ASSUME \E q : db' = [head |-> db.head + 1,
                             records |-> db.records \cup {[seq |-> db.head, req |-> q]}]
        PROVE  Chain'
    <2>1. PICK q : db' = [head |-> db.head + 1,
                          records |-> db.records \cup {[seq |-> db.head, req |-> q]}]
      BY <1>3
    <2>2. db'.head = db.head + 1 /\ db'.records = db.records \cup {[seq |-> db.head, req |-> q]}
      BY <2>1
    <2>. QED BY <2>2, <1>0, ChainGrows
  <1>4. CASE \E h \in Host : StoreStep(h)
    BY <1>0, <1>2, <1>3, <1>4, LockedStore
  <1>5. CASE \E h \in Host : ServerStep(h)
    <2>1. PICK h \in Host : ServerStep(h)
      BY <1>5
    <2>2. /\ UNCHANGED <<db, lock>>
          /\ \A g \in Host : \/ actor'[g] = actor[g] /\ link'[g] = link[g]
                             \/ actor'[g].pc = "gone"
          /\ \A g \in Host, w \in Work : work[g][w].pc \in {"running", "decided"} =>
                work'[g][w] = work[g][w]
      BY <2>1, ServerFrame
    <2>3. ASSUME NEW g \in Host PROVE Locked(g)'
      <3>1. CASE actor'[g].pc = "gone"
        BY <3>1 DEF Locked, Inside
      <3>2. CASE actor'[g] = actor[g] /\ link'[g] = link[g] /\ Inside(g)
        <4>1. actor[g].job \in Work /\ Job(g).pc \in {"running", "decided"}
          <5>1. Paired(g) /\ actor[g].pc \in {"deciding", "writing"}
            BY <3>2 DEF PairedInv, Inside
          <5>. QED BY <5>1, JobFacts DEF Paired
        <4>2. work'[g][actor[g].job] = work[g][actor[g].job]
          BY <4>1, <2>2 DEF Job
        <4>. QED BY <3>2, <4>2, <2>2, <1>0 DEF Locked, Job
      <3>3. CASE actor'[g] = actor[g] /\ ~Inside(g)
        BY <3>3 DEF Locked, Inside
      <3>. QED BY <3>1, <3>2, <3>3, <2>2
    <2>. QED BY <2>2, <2>3, <1>2
  <1>6. CASE PeerStep
    <2>1. /\ UNCHANGED <<link, actor, work>> /\ lock \in {NoHost, Peer}
          /\ db' = db \/ \E q : db' = [head |-> db.head + 1,
                                       records |-> db.records \cup {[seq |-> db.head, req |-> q]}]
      BY <1>6, PeerFacts
    <2>2. \A g \in Host : Locked(g)'
      BY <2>1, <1>0 DEF Locked, Inside
    <2>. QED BY <2>1, <2>2, <1>2, <1>3
  <1>7. CASE UNCHANGED vars
    BY <1>0, <1>2, <1>7 DEF vars, storeVars, Locked, Inside, Job
  <1>. QED BY <1>4, <1>5, <1>6, <1>7 DEF Next, Done

LEMMA ChainInit == Init => OneRecordPerNumber
  <1>. SUFFICES ASSUME Init PROVE OneRecordPerNumber
    OBVIOUS
  <1>1. db.head = 0 /\ db.records = {} /\ \A h \in Host : actor[h].pc = "idle"
    BY DEF Init, StoreInit, IdleActor
  <1>. QED BY <1>1 DEF OneRecordPerNumber, Inside

\* The shard is one chain, extended only under its advisory lock: its records
\* fill the numbers below the head, one each, however hosts, peers, lost
\* connections and lost COMMITs interleave (run_with_shard, load, store).
THEOREM ShardIsOneChain == Spec => []OneRecordPerNumber
  <1>. QED BY PairedInit, PairedStep, ChainInit, ChainStep, PTL DEF Spec

-----------------------------------------------------------------------------
(* Places and slots.                                                         *)

Running(h) == {w \in Work : work[h][w].pc \notin {"idle", "finished"}}
Held(h) == {k \in Conn : conn[h][k].st # "none"}

PlacesAt(h) == taken[h] = Cardinality(Running(h)) /\ taken[h] <= Cap[h]
SlotsAt(h) ==
  /\ slots[h] + (IF acceptor[h] = "accepting" THEN 1 ELSE 0) + Cardinality(Held(h)) = Slots
  /\ slots[h] >= 0
  /\ phase[h] # "serving" => acceptor[h] = "stopped"

LEMMA CapacityIs == CapacityInv <=> \A h \in Host : PlacesAt(h) /\ SlotsAt(h)
  BY DEF CapacityInv, CapacityConserved, PlacesAt, SlotsAt, Running, Held

LEMMA CardinalityStep ==
  ASSUME NEW S, NEW x, IsFiniteSet(S)
  PROVE  /\ x \notin S => Cardinality(S \cup {x}) = Cardinality(S) + 1
         /\ x \in S => Cardinality(S \ {x}) = Cardinality(S) - 1
         /\ Cardinality(S) \in Nat
  <1>1. x \notin S => Cardinality(S \cup {x}) = Cardinality(S) + 1
    BY FS_AddElement
  <1>2. x \in S => Cardinality(S \ {x}) = Cardinality(S) - 1
    BY FS_RemoveElement
  <1>3. Cardinality(S) \in Nat
    BY FS_CardinalityType
  <1>. QED BY <1>1, <1>2, <1>3

LEMMA FiniteSides == \A h \in Host : IsFiniteSet(Running(h)) /\ IsFiniteSet(Held(h))
  <1>. TAKE h \in Host
  <1>1. Running(h) \subseteq Work /\ Held(h) \subseteq Conn
    BY DEF Running, Held
  <1>. QED BY <1>1, Constants, FS_Subset

LEMMA PlacesKept ==
  ASSUME NEW g \in Host, PlacesAt(g), taken'[g] = taken[g],
         \A w \in Work : work[g][w].pc \notin {"idle", "finished"} <=>
                         work'[g][w].pc \notin {"idle", "finished"}
  PROVE  PlacesAt(g)'
  <1>1. Running(g)' = Running(g)
    BY DEF Running
  <1>. QED BY <1>1 DEF PlacesAt

LEMMA SlotsKept ==
  ASSUME NEW g \in Host, SlotsAt(g), slots'[g] = slots[g], acceptor'[g] = acceptor[g],
         phase'[g] = "serving" => phase[g] = "serving",
         phase'[g] # phase[g] => acceptor[g] = "stopped",
         \A k \in Conn : conn[g][k].st # "none" <=> conn'[g][k].st # "none"
  PROVE  SlotsAt(g)'
  <1>1. Held(g)' = Held(g)
    BY DEF Held
  <1>. QED BY <1>1 DEF SlotsAt

\* A connection closes and its slot is free again.
LEMMA SlotFreed ==
  ASSUME PairedInv, NEW h \in Host, NEW k \in Conn, SlotsAt(h), Changed(h, k),
         conn[h][k].st # "none", conn'[h][k].st = "none",
         slots' = [slots EXCEPT ![h] = slots[h] + 1], UNCHANGED <<acceptor, phase>>
  PROVE  SlotsAt(h)'
  <1>1. Held(h)' = Held(h) \ {k} /\ k \in Held(h)
    BY DEF Held, Changed
  <1>2. Cardinality(Held(h)') = Cardinality(Held(h)) - 1 /\ Cardinality(Held(h)) \in Nat
    BY <1>1, FiniteSides, CardinalityStep
  <1>3. slots'[h] = slots[h] + 1 /\ slots[h] \in Int
    BY DEF PairedInv, Typed
  <1>. QED BY <1>2, <1>3, Constants DEF SlotsAt

\* A thread's moves in the store keep its place.
LEMMA StoreRuns ==
  ASSUME PairedInv, NEW h \in Host, StoreStep(h)
  PROVE  \A g \in Host, x \in Work : work[g][x].pc \notin {"idle", "finished"} <=>
                                     work'[g][x].pc \notin {"idle", "finished"}
  <1>1. ASSUME NEW w \in Work, Moved(h, w), work[h][w].pc \notin {"idle", "finished"},
               work'[h][w].pc \notin {"idle", "finished"}
        PROVE  \A g \in Host, x \in Work : work[g][x].pc \notin {"idle", "finished"} <=>
                                           work'[g][x].pc \notin {"idle", "finished"}
    BY <1>1 DEF Moved
  <1>2. ASSUME NEW w \in Work, CallerStep(h, w)
        PROVE  /\ Moved(h, w) /\ work[h][w].pc \notin {"idle", "finished"}
               /\ work'[h][w].pc \notin {"idle", "finished"}
    BY <1>2, EnqueueFacts, DecideFacts, RefuseFacts, PanicFacts DEF CallerStep, Advanced, Ended
  <1>3. CASE Load(h) \/ AnswerUnloaded(h) \/ AnswerRan(h)
    <2>1. /\ actor[h].job \in Work
          /\ Moved(h, actor[h].job) /\ work[h][actor[h].job].pc \notin {"idle", "finished"}
          /\ work'[h][actor[h].job].pc \notin {"idle", "finished"}
      BY <1>3, LoadFacts, AnswerFacts DEF Advanced, Ended
    <2>. QED BY <2>1, <1>1
  <1>4. CASE Take(h) \/ LoadFailed(h) \/ Commit(h) \/ WriteRefused(h) \/ CommitLost(h) \/ LoseLink(h)
    <2>1. work' = work
      BY <1>4 DEF Take, LoadFailed, Commit, WriteRefused, CommitLost, LoseLink
    <2>. QED BY <2>1
  <1>. QED BY <1>1, <1>2, <1>3, <1>4 DEF StoreStep, ActorStep

LEMMA CapacityStep == PairedInv /\ CapacityInv /\ [Next]_vars => CapacityInv'
  <1>. SUFFICES ASSUME PairedInv, CapacityInv, [Next]_vars PROVE CapacityInv'
    OBVIOUS
  <1>0. /\ \A g \in Host : PlacesAt(g) /\ SlotsAt(g)
        /\ slots \in [Host -> Int] /\ taken \in [Host -> Int] /\ Cap \in [Host -> Nat]
        /\ acceptor \in [Host -> {"acquiring", "accepting", "stopped"}]
        /\ phase \in [Host -> {"serving", "draining", "dropping", "exited"}]
        /\ work \in [Host -> [Work -> Caller]] /\ conn \in [Host -> [Conn -> Connection]]
        /\ \A g \in Host : Cardinality(Held(g)) \in Nat /\ Cardinality(Running(g)) \in Nat
    BY CapacityIs, Constants, FiniteSides, CardinalityStep DEF PairedInv, Typed, StoreTypeOK
  <1>1. SUFFICES (\A g \in Host : PlacesAt(g)') /\ (\A g \in Host : SlotsAt(g)')
    BY DEF CapacityInv, CapacityConserved, PlacesAt, SlotsAt, Running, Held
  <1>2. ASSUME UNCHANGED taken,
               \A g \in Host, w \in Work : work[g][w].pc \notin {"idle", "finished"} <=>
                                           work'[g][w].pc \notin {"idle", "finished"}
        PROVE  \A g \in Host : PlacesAt(g)'
    BY <1>0, <1>2, PlacesKept
  <1>3. ASSUME NEW h \in Host, UNCHANGED taken, Swept(h) PROVE \A g \in Host : PlacesAt(g)'
    <2>1. \A g \in Host, w \in Work : work[g][w].pc \notin {"idle", "finished"} <=>
                                      work'[g][w].pc \notin {"idle", "finished"}
      BY <1>3, IdleCaller DEF Swept
    <2>. QED BY <2>1, <1>2, <1>3
  <1>4. ASSUME UNCHANGED <<slots, acceptor, conn, phase>> PROVE \A g \in Host : SlotsAt(g)'
    BY <1>0, <1>4, SlotsKept
  <1>5. ASSUME NEW h \in Host, SlotsAt(h)',
               \A g \in Host : g # h => /\ slots'[g] = slots[g] /\ acceptor'[g] = acceptor[g]
                                        /\ phase'[g] = phase[g] /\ conn'[g] = conn[g]
        PROVE  \A g \in Host : SlotsAt(g)'
    <2>1. ASSUME NEW g \in Host, g # h PROVE SlotsAt(g)'
      BY <2>1, <1>0, <1>5, SlotsKept
    <2>. QED BY <2>1, <1>5
  <1>6. CASE UNCHANGED vars
    BY <1>2, <1>4, <1>6 DEF vars, storeVars
  <1>7. CASE PeerStep
    BY <1>2, <1>4, <1>7, PeerFacts DEF serverVars
  <1>8. CASE \E h \in Host : StoreStep(h)
    BY <1>2, <1>4, <1>8, StoreRuns DEF StoreStep, serverVars
  <1>9. ASSUME NEW h \in Host, AcquireSlot(h) \/ AcceptFailed(h)
        PROVE  (\A g \in Host : PlacesAt(g)') /\ (\A g \in Host : SlotsAt(g)')
    <2>1. UNCHANGED <<work, conn, taken, phase>> /\ phase[h] = "serving"
      BY <1>9 DEF AcquireSlot, AcceptFailed, storeVars
    <2>2. /\ \/ /\ acceptor[h] = "acquiring" /\ acceptor'[h] = "accepting"
                /\ slots'[h] = slots[h] - 1 /\ slots[h] > 0
             \/ /\ acceptor[h] = "accepting" /\ acceptor'[h] = "acquiring"
                /\ slots'[h] = slots[h] + 1
          /\ \A g \in Host : g # h => slots'[g] = slots[g] /\ acceptor'[g] = acceptor[g]
      <3>1. CASE AcquireSlot(h)
        BY <3>1, <1>0 DEF AcquireSlot
      <3>2. CASE AcceptFailed(h)
        BY <3>2, <1>0 DEF AcceptFailed
      <3>. QED BY <1>9, <3>1, <3>2
    <2>3. Held(h)' = Held(h)
      BY <2>1 DEF Held
    <2>4. SlotsAt(h)'
      BY <2>1, <2>2, <2>3, <1>0, Constants DEF SlotsAt
    <2>. QED BY <2>1, <2>2, <2>4, <1>2, <1>5
  <1>10. ASSUME NEW h \in Host, NEW k \in Conn, Accept(h, k)
         PROVE  (\A g \in Host : PlacesAt(g)') /\ (\A g \in Host : SlotsAt(g)')
    <2>1. /\ UNCHANGED <<work, taken, phase, slots>> /\ phase[h] = "serving"
          /\ acceptor[h] = "accepting" /\ conn[h][k].st = "none"
          /\ acceptor' = [acceptor EXCEPT ![h] = "acquiring"]
      BY <1>10 DEF Accept, storeVars
    <2>2. Changed(h, k) /\ conn'[h][k].st = "open"
      BY <1>10, ConnFacts
    <2>3. Held(h)' = Held(h) \cup {k} /\ k \notin Held(h)
      BY <2>1, <2>2 DEF Held, Changed
    <2>4. Cardinality(Held(h)') = Cardinality(Held(h)) + 1
      BY <2>3, FiniteSides, CardinalityStep
    <2>5. acceptor'[h] = "acquiring" /\ \A g \in Host : g # h => acceptor'[g] = acceptor[g]
      BY <2>1, <1>0
    <2>6. SlotsAt(h)'
      BY <2>1, <2>4, <2>5, <1>0, Constants DEF SlotsAt
    <2>. QED BY <2>1, <2>2, <2>5, <2>6, <1>2, <1>5 DEF Changed
  <1>11. ASSUME NEW h \in Host, NEW k \in Conn, Hangup(h, k)
         PROVE  (\A g \in Host : PlacesAt(g)') /\ (\A g \in Host : SlotsAt(g)')
    <2>1. /\ UNCHANGED <<taken, phase, acceptor>> /\ HandlerDropped(h, k)
          /\ conn[h][k].st # "none" /\ slots' = [slots EXCEPT ![h] = slots[h] + 1]
      BY <1>11 DEF Hangup
    <2>2. Changed(h, k) /\ conn'[h][k].st = "none"
      BY <1>11, ConnFacts DEF NoConn
    <2>3. SlotsAt(h)'
      BY <2>1, <2>2, <1>0, SlotFreed
    <2>4. \A g \in Host : g # h => slots'[g] = slots[g]
      BY <2>1, <1>0
    <2>5. Swept(h)
      BY <2>1, <1>0, DroppedFacts
    <2>. QED BY <2>1, <2>2, <2>3, <2>4, <2>5, <1>3, <1>5 DEF Changed
  <1>12. ASSUME NEW h \in Host, NEW k \in Conn, SendRequest(h, k)
         PROVE  (\A g \in Host : PlacesAt(g)') /\ (\A g \in Host : SlotsAt(g)')
    <2>1. UNCHANGED <<work, taken, phase, acceptor, slots>> /\ conn[h][k].st = "open"
      BY <1>12 DEF SendRequest, storeVars
    <2>2. Changed(h, k) /\ conn'[h][k].st = "handling"
      BY <1>12, ConnFacts
    <2>3. SlotsAt(h)'
      BY <2>1, <2>2, <1>0, SlotsKept DEF Changed
    <2>. QED BY <2>1, <2>2, <2>3, <1>2, <1>5 DEF Changed
  <1>13. ASSUME NEW h \in Host, NEW k \in Conn, TakePlace(h, k)
         PROVE  (\A g \in Host : PlacesAt(g)') /\ (\A g \in Host : SlotsAt(g)')
    <2>1. PICK w \in Work :
           /\ work[h][w].pc = "idle" /\ conn[h][k].st = "handling" /\ MayTake(h)
           /\ Moved(h, w) /\ work'[h][w].pc = "ready"
           /\ Changed(h, k) /\ conn'[h][k].st = "waiting"
           /\ taken' = [taken EXCEPT ![h] = taken[h] + 1]
           /\ UNCHANGED <<phase, acceptor, slots>>
      BY <1>13, TakePlaceFacts
    <2>2. SlotsAt(h)'
      BY <2>1, <1>0, SlotsKept DEF Changed
    <2>3. Running(h)' = Running(h) \cup {w} /\ w \notin Running(h)
      BY <2>1 DEF Running, Moved
    <2>4. Cardinality(Running(h)') = Cardinality(Running(h)) + 1
      BY <2>3, FiniteSides, CardinalityStep
    <2>5. taken'[h] = taken[h] + 1 /\ \A g \in Host : g # h => taken'[g] = taken[g]
      BY <2>1, <1>0
    <2>6. taken[h] < Cap[h] /\ taken[h] \in Int /\ Cap[h] \in Nat
      BY <2>1, <1>0 DEF MayTake
    <2>7. PlacesAt(h)'
      BY <2>4, <2>5, <2>6, <1>0 DEF PlacesAt
    <2>8. ASSUME NEW g \in Host, g # h PROVE PlacesAt(g)'
      BY <2>1, <2>5, <2>8, <1>0, PlacesKept DEF Moved
    <2>. QED BY <2>1, <2>2, <2>7, <2>8, <1>5 DEF Changed
  <1>14. ASSUME NEW h \in Host, NEW k \in Conn, AfterAnswer(h, k), conn[h][k].st # "none",
                UNCHANGED <<phase, acceptor>>
         PROVE  \A g \in Host : SlotsAt(g)'
    <2>1. /\ Changed(h, k)
          /\ \/ conn'[h][k].st = "open" /\ slots' = [slots EXCEPT ![h] = slots[h]]
             \/ conn'[h][k].st = "none" /\ slots' = [slots EXCEPT ![h] = slots[h] + 1]
      BY <1>14, AfterAnswerFacts
    <2>2. CASE conn'[h][k].st = "open" /\ slots' = [slots EXCEPT ![h] = slots[h]]
      <3>1. \A g \in Host : slots'[g] = slots[g]
        BY <2>2, <1>0
      <3>2. SlotsAt(h)'
        BY <3>1, <2>1, <2>2, <1>0, <1>14, SlotsKept DEF Changed
      <3>. QED BY <3>1, <3>2, <2>1, <1>5, <1>14 DEF Changed
    <2>3. CASE conn'[h][k].st = "none" /\ slots' = [slots EXCEPT ![h] = slots[h] + 1]
      <3>1. \A g \in Host : g # h => slots'[g] = slots[g]
        BY <2>3, <1>0
      <3>2. SlotsAt(h)'
        BY <2>1, <2>3, <1>0, <1>14, SlotFreed
      <3>. QED BY <3>1, <3>2, <2>1, <1>5, <1>14 DEF Changed
    <2>. QED BY <2>1, <2>2, <2>3
  <1>15. ASSUME NEW h \in Host, NEW k \in Conn, Busy(h, k)
         PROVE  (\A g \in Host : PlacesAt(g)') /\ (\A g \in Host : SlotsAt(g)')
    <2>1. /\ UNCHANGED <<work, taken, phase, acceptor>> /\ AfterAnswer(h, k)
          /\ conn[h][k].st = "handling"
      BY <1>15 DEF Busy, storeVars
    <2>. QED BY <2>1, <1>2, <1>14
  <1>16. ASSUME NEW h \in Host, NEW k \in Conn, Deadline(h, k)
         PROVE  (\A g \in Host : PlacesAt(g)') /\ (\A g \in Host : SlotsAt(g)')
    <2>1. /\ UNCHANGED <<taken, phase, acceptor>> /\ AfterAnswer(h, k) /\ HandlerDropped(h, k)
          /\ conn[h][k].st # "none"
      BY <1>16 DEF Deadline, PlaceAtDeadline, InProgress
    <2>2. Swept(h)
      BY <2>1, <1>0, DroppedFacts
    <2>. QED BY <2>1, <2>2, <1>3, <1>14
  <1>17. ASSUME NEW h \in Host, NEW k \in Conn, Respond(h, k)
         PROVE  (\A g \in Host : PlacesAt(g)') /\ (\A g \in Host : SlotsAt(g)')
    <2>1. conn[h][k] \in Connection /\ conn[h][k].st = "waiting" /\ Matched(h)
      BY <1>17 DEF Respond, PairedInv, Typed
    <2>2. conn[h][k].work \in Work
      BY <2>1 DEF Matched, Connection
    <2>3. Swept(h) /\ AfterAnswer(h, k) /\ UNCHANGED <<phase, acceptor, taken>>
      BY <2>2, <1>17, RespondFacts
    <2>. QED BY <2>1, <2>3, <1>3, <1>14
  <1>18. ASSUME NEW h \in Host, NEW w \in Work, FinishWork(h, w)
         PROVE  (\A g \in Host : PlacesAt(g)') /\ (\A g \in Host : SlotsAt(g)')
    <2>1. /\ work[h][w].pc = "ended" /\ Moved(h, w) /\ work'[h][w].pc \in {"finished", "idle"}
          /\ taken' = [taken EXCEPT ![h] = taken[h] - 1]
          /\ UNCHANGED <<phase, acceptor, slots, conn>>
      BY <1>18, FinishFacts
    <2>2. Running(h)' = Running(h) \ {w} /\ w \in Running(h)
      BY <2>1 DEF Running, Moved
    <2>3. Cardinality(Running(h)') = Cardinality(Running(h)) - 1
      BY <2>2, FiniteSides, CardinalityStep
    <2>4. taken'[h] = taken[h] - 1 /\ \A g \in Host : g # h => taken'[g] = taken[g]
      BY <2>1, <1>0
    <2>5. PlacesAt(h)'
      BY <2>3, <2>4, <1>0 DEF PlacesAt
    <2>6. ASSUME NEW g \in Host, g # h PROVE PlacesAt(g)'
      BY <2>1, <2>4, <2>6, <1>0, PlacesKept DEF Moved
    <2>. QED BY <2>1, <2>5, <2>6, <1>4
  <1>19. ASSUME NEW h \in Host, Stop(h)
         PROVE  (\A g \in Host : PlacesAt(g)') /\ (\A g \in Host : SlotsAt(g)')
    <2>1. UNCHANGED <<work, conn, taken>>
      BY <1>19 DEF Stop, storeVars
    <2>2. /\ acceptor'[h] = "stopped"
          /\ slots'[h] = IF acceptor[h] = "accepting" THEN slots[h] + 1 ELSE slots[h]
          /\ \A g \in Host : g # h => /\ slots'[g] = slots[g] /\ acceptor'[g] = acceptor[g]
                                      /\ phase'[g] = phase[g]
      BY <1>0, <1>19 DEF Stop
    <2>3. Held(h)' = Held(h)
      BY <2>1 DEF Held
    <2>4. SlotsAt(h)'
      BY <2>2, <2>3, <1>0, Constants DEF SlotsAt
    <2>. QED BY <2>1, <2>2, <2>4, <1>2, <1>5
  <1>20. ASSUME NEW h \in Host, StopServing(h)
         PROVE  (\A g \in Host : PlacesAt(g)') /\ (\A g \in Host : SlotsAt(g)')
    <2>1. /\ UNCHANGED <<taken, acceptor>> /\ phase[h] = "draining"
          /\ slots'[h] = Slots
          /\ \A g \in Host : g # h => slots'[g] = slots[g] /\ phase'[g] = phase[g]
      BY <1>0, <1>20 DEF StopServing
    <2>2. \A g \in Host : conn'[g] = IF g = h THEN [k \in Conn |-> NoConn] ELSE conn[g]
      <3>1. conn' = [conn EXCEPT ![h] = [k \in Conn |-> NoConn]]
        BY <1>20 DEF StopServing
      <3>. QED BY <3>1, <1>0
    <2>3. Held(h)' = {}
      BY <2>2 DEF Held, NoConn
    <2>4. Cardinality(Held(h)') = 0
      BY <2>3, FS_EmptySet
    <2>5. acceptor'[h] = "stopped"
      BY <2>1, <1>0 DEF SlotsAt
    <2>6. SlotsAt(h)'
      BY <2>1, <2>4, <2>5, Constants DEF SlotsAt
    <2>7. Swept(h)
      BY <1>0, <1>20, StopServingFacts
    <2>. QED BY <2>1, <2>2, <2>6, <2>7, <1>3, <1>5
  <1>21. ASSUME NEW h \in Host, Exit(h)
         PROVE  (\A g \in Host : PlacesAt(g)') /\ (\A g \in Host : SlotsAt(g)')
    <2>1. /\ UNCHANGED <<work, acceptor, slots, conn, taken>> /\ phase[h] = "dropping"
          /\ phase' = [phase EXCEPT ![h] = "exited"]
      BY <1>21 DEF Exit, DropStore
    <2>2. phase'[h] = "exited" /\ \A g \in Host : g # h => phase'[g] = phase[g]
      BY <2>1, <1>0
    <2>3. SlotsAt(h)'
      <3>1. acceptor[h] = "stopped"
        BY <2>1, <1>0 DEF SlotsAt
      <3>. QED BY <3>1, <2>1, <2>2, <1>0, SlotsKept
    <2>. QED BY <2>1, <2>2, <2>3, <1>2, <1>5
  <1>22. CASE \E h \in Host : ServerStep(h)
    BY <1>9, <1>10, <1>11, <1>12, <1>13, <1>15, <1>16, <1>17, <1>18, <1>19, <1>20, <1>21, <1>22
       DEF ServerStep
  <1>. QED BY <1>6, <1>7, <1>8, <1>22 DEF Next, Done

LEMMA CapacityInit == Init => CapacityInv
  <1>. SUFFICES ASSUME Init PROVE \A h \in Host : PlacesAt(h) /\ SlotsAt(h)
    BY CapacityIs
  <1>. TAKE h \in Host
  <1>1. /\ Running(h) = {} /\ Held(h) = {} /\ taken[h] = 0 /\ slots[h] = Slots
        /\ acceptor[h] = "acquiring" /\ phase[h] = "serving"
    BY DEF Init, StoreInit, Running, Held, Idle, NoConn
  <1>2. Cap[h] \in Nat
    BY Constants
  <1>. QED BY <1>1, <1>2, FS_EmptySet, Constants DEF PlacesAt, SlotsAt

\* Places and slots are conserved and stay within their limits, whatever times
\* out, panics, hangs up, fails to accept or is stopped (Blocking::take, the drop
\* of a Place, run's semaphore, enqueue).
THEOREM CapacityAlwaysSound == Spec => []CapacitySound
  <1>1. PairedInv /\ CapacityInv => CapacitySound
    <2>. SUFFICES ASSUME PairedInv, CapacityInv PROVE TypeOK
      BY DEF CapacitySound, CapacityInv
    <2>1. \A h \in Host : PlacesAt(h) /\ SlotsAt(h)
      BY CapacityIs
    <2>2. Typed /\ \A h \in Host : Matched(h)
      BY DEF PairedInv
    <2>3. ASSUME NEW h \in Host PROVE taken[h] \in Nat /\ taken[h] <= Cap[h]
      BY <2>1, FiniteSides, CardinalityStep DEF PlacesAt
    <2>4. ASSUME NEW h \in Host PROVE slots[h] \in 0 .. Slots
      <3>1. Cardinality(Held(h)) \in Nat /\ slots[h] \in Int
        BY <2>2, FiniteSides, CardinalityStep DEF Typed
      <3>. QED BY <3>1, <2>1, Constants DEF SlotsAt
    <2>5. taken \in [Host -> Nat] /\ slots \in [Host -> 0 .. Slots]
      BY <2>2, <2>3, <2>4 DEF Typed
    <2>. QED BY <2>2, <2>3, <2>5 DEF TypeOK, Typed, Matched
  <1>. QED BY <1>1, PairedInit, PairedStep, CapacityInit, CapacityStep, PTL DEF Spec

-----------------------------------------------------------------------------
(* Requests, followed by their numbers.                                      *)

\* The numbers a new record, or a new refusal, adds.
LEMMA KeptGrows ==
  ASSUME NEW q \in Request, NEW s, db'.records = db.records \cup {[seq |-> s, req |-> q]}
  PROVE  \A g : Kept(g)' = IF q.host = g THEN Kept(g) \cup {q.n} ELSE Kept(g)
  <1>. TAKE g
  <1>. DEFINE r == [seq |-> s, req |-> q]
  <1>1. r.req = q /\ db'.records = db.records \cup {r}
    OBVIOUS
  <1>. HIDE DEF r
  <1>2. \A n \in Nat : q = [host |-> g, n |-> n] <=> (q.host = g /\ q.n = n)
    BY DEF Request
  <1>3. q.n \in Nat
    BY DEF Request
  <1>4. \A n \in Nat : (\E x \in db'.records : x.req = [host |-> g, n |-> n]) <=>
                       \/ \E x \in db.records : x.req = [host |-> g, n |-> n]
                       \/ q.host = g /\ q.n = n
    BY <1>1, <1>2
  <1>. QED BY <1>3, <1>4 DEF Kept

LEMMA KeptSame == db' = db => \A g : Kept(g)' = Kept(g)
  BY DEF Kept

LEMMA DeniedGrows ==
  ASSUME NEW h, NEW m \in Nat, refused' = refused \cup {[host |-> h, n |-> m]}
  PROVE  \A g : Denied(g)' = IF g = h THEN Denied(g) \cup {m} ELSE Denied(g)
  <1>. TAKE g
  <1>1. \A n \in Nat : [host |-> g, n |-> n] = [host |-> h, n |-> m] <=> (g = h /\ n = m)
    OBVIOUS
  <1>. QED BY <1>1 DEF Denied

LEMMA DeniedSame == refused' = refused => \A g : Denied(g)' = Denied(g)
  BY DEF Denied

\* A host that no step touches.
LEMMA RequestsKept ==
  ASSUME NEW g \in Host, RequestsAt(g), Kept(g)' = Kept(g), Denied(g)' = Denied(g),
         sent'[g] = sent[g], work'[g] = work[g], conn'[g] = conn[g],
         actor'[g] = actor[g] \/ \A w \in Work : work[g][w].pc # "decided"
  PROVE  RequestsAt(g)'
  <1>1. /\ \A w \in Work : Holds(g, w)' <=> Holds(g, w)
        /\ \A w \in Work : Clean(g, w)' => Clean(g, w)
        /\ \A k \in Conn : InProgress(g, k)' <=> InProgress(g, k)
    BY DEF Holds, Clean, InProgress
  <1>2. \A w \in Work : WorkNamed(g, w)'
    BY <1>1 DEF RequestsAt, WorkNamed
  <1>3. \A k \in Conn : ConnNamed(g, k)'
    BY <1>1 DEF RequestsAt, ConnNamed
  <1>4. ASSUME NEW k \in Conn PROVE Waits(g, k)'
    BY DEF RequestsAt, Waits, Holds
  <1>. QED BY <1>2, <1>3, <1>4 DEF RequestsAt

\* A thread goes on with its request.
LEMMA RequestsAdvance ==
  ASSUME PairedInv, NEW h \in Host, NEW w \in Work, RequestsAt(h), Kept(h)' = Kept(h),
         Denied(h)' = Denied(h), sent'[h] = sent[h], conn'[h] = conn[h],
         Holds(h, w), NEW pc \in {"queued", "running", "decided"}, Advanced(h, w, pc),
         \A x \in Work : Clean(h, x)' => Clean(h, x)
  PROVE  RequestsAt(h)'
  <1>1. \A x \in Work : /\ Holds(h, x)' <=> Holds(h, x)
                        /\ work'[h][x].req = work[h][x].req
                        /\ work'[h][x].out = work[h][x].out
                        /\ work'[h][x].pc = "idle" => work[h][x].pc = "idle"
    BY DEF Holds, Advanced, Moved
  <1>2. \A k \in Conn : InProgress(h, k)' <=> InProgress(h, k)
    BY DEF InProgress
  <1>3. \A x \in Work : WorkNamed(h, x)'
    BY <1>1 DEF RequestsAt, WorkNamed
  <1>4. \A k \in Conn : ConnNamed(h, k)'
    BY <1>1, <1>2 DEF RequestsAt, ConnNamed
  <1>5. ASSUME NEW k \in Conn PROVE Waits(h, k)'
    <2>. SUFFICES ASSUME conn[h][k].st = "waiting" PROVE Waits(h, k)'
      BY DEF Waits
    <2>1. conn[h][k].work \in Work
      BY DEF PairedInv, Typed, Matched, Connection
    <2>2. Waits(h, k)
      BY DEF RequestsAt
    <2>. QED BY <2>1, <2>2, <1>1 DEF Waits
  <1>. QED BY <1>3, <1>4, <1>5 DEF RequestsAt

\* The actor's COMMIT may have landed for its job.
LEMMA RequestsCommit ==
  ASSUME PairedInv, NEW h \in Host, NEW w \in Work, RequestsAt(h),
         w = actor[h].job, work[h][w].pc = "decided", actor[h].pc = "writing",
         actor'[h].pc = "ran",
         Denied(h)' = Denied(h), sent'[h] = sent[h], conn'[h] = conn[h], work'[h] = work[h],
         \/ Kept(h)' = Kept(h)
         \/ Kept(h)' = Kept(h) \cup {work[h][w].req.n} /\ actor'[h].out \notin Certain
  PROVE  RequestsAt(h)'
  <1>0. /\ Holds(h, w) /\ Clean(h, w) /\ Paired(h) /\ sent[h] \in Nat
        /\ \A x \in Work : WorkNamed(h, x)
    BY Constants DEF Holds, Clean, RequestsAt, PairedInv, Typed
  <1>1. /\ \A x \in Work : Holds(h, x)' <=> Holds(h, x)
        /\ \A k \in Conn : InProgress(h, k)' <=> InProgress(h, k)
        /\ Kept(h)' \subseteq Kept(h) \cup {work[h][w].req.n}
    BY DEF Holds, InProgress
  <1>2. work[h][w].req.n \in (1 .. sent[h]) \ Denied(h)
    BY <1>0 DEF WorkNamed
  <1>3. /\ Kept(h)' \subseteq 1 .. sent'[h] /\ Denied(h)' \subseteq 1 .. sent'[h]
        /\ Kept(h)' \cap Denied(h)' = {}
    BY <1>1, <1>2 DEF RequestsAt
  <1>4. ASSUME NEW x \in Work, Clean(h, x)' PROVE work[h][x].req.n \notin Kept(h)'
    <2>1. Clean(h, x) /\ Holds(h, x)
      BY <1>4 DEF Clean, Holds
    <2>2. work[h][x].req.n \notin Kept(h)
      BY <2>1, <1>0 DEF WorkNamed
    <2>3. CASE x = w
      BY <2>2, <2>3, <1>4 DEF Clean
    <2>4. CASE x # w
      BY <2>1, <2>2, <2>4, <1>0, <1>1 DEF WorkNamed
    <2>. QED BY <2>3, <2>4
  <1>5. \A x \in Work : WorkNamed(h, x)'
    BY <1>0, <1>1, <1>4 DEF WorkNamed
  <1>6. ASSUME NEW k \in Conn PROVE ConnNamed(h, k)' /\ Waits(h, k)'
    <2>1. /\ ConnNamed(h, k) /\ Waits(h, k) /\ conn[h][k] \in Connection
          /\ conn[h][k].st = "waiting" <=> conn[h][k].work # NoWork
      BY DEF RequestsAt, PairedInv, Typed, Matched
    <2>2. InProgress(h, k) /\ conn[h][k].work # w => conn[h][k].req # work[h][w].req.n
      BY <2>1, <1>0 DEF ConnNamed
    <2>3. conn[h][k].st = "handling" => InProgress(h, k) /\ conn[h][k].work # w
      BY <2>1, Constants DEF InProgress
    <2>4. ConnNamed(h, k)'
      BY <2>1, <2>2, <2>3, <1>1 DEF ConnNamed
    <2>5. conn[h][k].st = "waiting" /\ ~Holds(h, conn[h][k].work) =>
             InProgress(h, k) /\ conn[h][k].work # w
      BY <1>0 DEF InProgress
    <2>6. Waits(h, k)'
      BY <2>1, <2>2, <2>5, <1>1 DEF Waits, Holds
    <2>. QED BY <2>4, <2>6
  <1>. QED BY <1>3, <1>5, <1>6 DEF RequestsAt

\* A thread ends, with nothing recorded when it says so.
LEMMA RequestsEnd ==
  ASSUME PairedInv, NEW h \in Host, NEW w \in Work, NEW out, RequestsAt(h), Kept(h)' = Kept(h),
         Denied(h)' = Denied(h), sent'[h] = sent[h], conn'[h] = conn[h],
         Holds(h, w), Ended(h, w, out), out \in Certain => Clean(h, w),
         \A x \in Work : Clean(h, x)' => Clean(h, x)
  PROVE  RequestsAt(h)'
  <1>1. /\ \A x \in Work : x # w => /\ Holds(h, x)' <=> Holds(h, x)
                                    /\ work'[h][x] = work[h][x]
        /\ ~Holds(h, w)' /\ work'[h][w].pc = "ended" /\ work'[h][w].out = out
    BY DEF Holds, Ended, Moved
  <1>2. \A k \in Conn : InProgress(h, k)' <=> InProgress(h, k)
    BY DEF InProgress
  <1>3. ASSUME NEW x \in Work PROVE WorkNamed(h, x)'
    <2>1. WorkNamed(h, x)
      BY DEF RequestsAt
    <2>2. Clean(h, x)' => Holds(h, x)'
      BY DEF Clean, Holds
    <2>. QED BY <2>1, <2>2, <1>1 DEF WorkNamed
  <1>4. ASSUME NEW k \in Conn PROVE ConnNamed(h, k)'
    <2>1. ConnNamed(h, k)
      BY DEF RequestsAt
    <2>. QED BY <2>1, <1>1, <1>2 DEF ConnNamed
  <1>5. ASSUME NEW k \in Conn PROVE Waits(h, k)'
    <2>. SUFFICES ASSUME conn[h][k].st = "waiting" PROVE Waits(h, k)'
      BY DEF Waits
    <2>1. conn[h][k].work \in Work
      BY DEF PairedInv, Typed, Matched, Connection
    <2>2. Waits(h, k) /\ ConnNamed(h, k) /\ InProgress(h, k) /\ WorkNamed(h, w)
      BY DEF RequestsAt, InProgress
    <2>3. CASE conn[h][k].work # w
      BY <2>1, <2>2, <2>3, <1>1 DEF Waits, Holds
    <2>4. CASE conn[h][k].work = w
      <3>1. conn[h][k].req = work[h][w].req.n
        BY <2>2, <2>4 DEF ConnNamed
      <3>2. out \in Certain => conn[h][k].req \notin Kept(h)
        BY <3>1, <2>2 DEF WorkNamed
      <3>. QED BY <3>2, <2>2, <2>4, <1>1 DEF Waits
    <2>. QED BY <2>3, <2>4
  <1>. QED BY <1>3, <1>4, <1>5 DEF RequestsAt

\* Connections lose their request, threads nobody waits for are picked up, and
\* at most one request, in nobody's hands any more, is answered as refused.
LEMMA RequestsDrop ==
  ASSUME PairedInv, NEW h \in Host, NEW D, RequestsAt(h), Kept(h)' = Kept(h),
         Denied(h)' = Denied(h) \cup D, sent'[h] = sent[h], Swept(h),
         D \subseteq (1 .. sent[h]) \ Kept(h),
         \A w \in Work : Holds(h, w) => work[h][w].req.n \notin D,
         \A k \in Conn : \/ conn'[h][k] = conn[h][k]
                         \/ conn'[h][k].st \notin {"handling", "waiting"} /\ conn'[h][k].work = NoWork,
         \A k \in Conn : conn'[h][k] = conn[h][k] /\ InProgress(h, k) =>
                           /\ conn[h][k].req \notin D
                           /\ \A w \in Work : conn[h][k].work = w => work'[h][w] = work[h][w],
         \A w \in Work : Clean(h, w)' => Clean(h, w)
  PROVE  RequestsAt(h)'
  <1>1. \A w \in Work : Holds(h, w)' <=> Holds(h, w)
    BY IdleCaller DEF Holds, Swept
  <1>2. \A w \in Work : Holds(h, w) => work'[h][w] = work[h][w]
    BY DEF Holds, Swept
  <1>3. \A k \in Conn : InProgress(h, k)' => InProgress(h, k) /\ conn'[h][k] = conn[h][k]
    BY DEF InProgress
  <1>4. /\ Kept(h)' \subseteq 1 .. sent'[h] /\ Denied(h)' \subseteq 1 .. sent'[h]
        /\ Kept(h)' \cap Denied(h)' = {}
    BY DEF RequestsAt
  <1>5. ASSUME NEW w \in Work PROVE WorkNamed(h, w)'
    <2>1. WorkNamed(h, w)
      BY DEF RequestsAt
    <2>2. Clean(h, w)' => Holds(h, w)'
      BY DEF Clean, Holds
    <2>. QED BY <2>1, <2>2, <1>1, <1>2 DEF WorkNamed
  <1>6. ASSUME NEW k \in Conn PROVE ConnNamed(h, k)'
    <2>1. ConnNamed(h, k)
      BY DEF RequestsAt
    <2>. QED BY <2>1, <1>1, <1>2, <1>3 DEF ConnNamed
  <1>7. ASSUME NEW k \in Conn PROVE Waits(h, k)'
    <2>. SUFFICES ASSUME conn'[h][k].st = "waiting" PROVE Waits(h, k)'
      BY DEF Waits
    <2>1. conn'[h][k] = conn[h][k] /\ InProgress(h, k) /\ conn[h][k].st = "waiting"
      BY DEF InProgress
    <2>2. conn[h][k].work \in Work
      BY <2>1 DEF PairedInv, Typed, Matched, Connection
    <2>3. work'[h][conn[h][k].work] = work[h][conn[h][k].work]
      BY <2>1, <2>2
    <2>4. Waits(h, k)
      BY DEF RequestsAt
    <2>5. \A j \in Conn : j # k => conn'[h][j].work # conn[h][k].work
      BY <2>1, <2>2, <2>4, Constants DEF Waits
    <2>. QED BY <2>1, <2>3, <2>4, <2>5, <1>1, <2>2 DEF Waits
  <1>. QED BY <1>4, <1>5, <1>6, <1>7 DEF RequestsAt

\* A new request has a new number.
LEMMA RequestsSend ==
  ASSUME PairedInv, NEW h \in Host, NEW k \in Conn, RequestsAt(h), Kept(h)' = Kept(h),
         Denied(h)' = Denied(h), sent'[h] = sent[h] + 1, work'[h] = work[h], actor'[h] = actor[h],
         Changed(h, k), conn[h][k].st = "open", conn'[h][k].st = "handling",
         conn'[h][k].work = NoWork, conn'[h][k].req = sent[h] + 1
  PROVE  RequestsAt(h)'
  <1>0. sent[h] \in Nat /\ NoWork \notin Work
    BY Constants DEF PairedInv, Typed
  <1>1. /\ \A w \in Work : Holds(h, w)' <=> Holds(h, w)
        /\ \A w \in Work : Clean(h, w)' <=> Clean(h, w)
        /\ \A j \in Conn : j # k => (InProgress(h, j)' <=> InProgress(h, j))
                                    /\ conn'[h][j] = conn[h][j]
        /\ (1 .. sent[h]) \subseteq (1 .. sent'[h]) /\ sent[h] + 1 \in 1 .. sent'[h]
        /\ sent[h] + 1 \notin 1 .. sent[h]
    BY <1>0 DEF Holds, Clean, InProgress, Changed
  <1>2. ASSUME NEW w \in Work PROVE WorkNamed(h, w)'
    <2>1. WorkNamed(h, w)
      BY DEF RequestsAt
    <2>. QED BY <2>1, <1>1 DEF WorkNamed
  <1>3. \A w \in Work : Holds(h, w) => work[h][w].req.n # sent[h] + 1
    BY <1>1 DEF RequestsAt, WorkNamed
  <1>4. \A j \in Conn : InProgress(h, j) => conn[h][j].req # sent[h] + 1
    BY <1>1 DEF RequestsAt, ConnNamed
  <1>5. sent[h] + 1 \notin Kept(h) /\ sent[h] + 1 \notin Denied(h)
    BY <1>1 DEF RequestsAt
  <1>6. ASSUME NEW j \in Conn PROVE ConnNamed(h, j)'
    <2>1. CASE j = k
      BY <2>1, <1>0, <1>1, <1>3, <1>4, <1>5 DEF ConnNamed
    <2>2. CASE j # k
      <3>1. ConnNamed(h, j)
        BY DEF RequestsAt
      <3>. QED BY <3>1, <2>2, <1>1, <1>4 DEF ConnNamed
    <2>. QED BY <2>1, <2>2
  <1>7. ASSUME NEW j \in Conn PROVE Waits(h, j)'
    <2>. SUFFICES ASSUME conn'[h][j].st = "waiting" PROVE Waits(h, j)'
      BY DEF Waits
    <2>1. j # k /\ Waits(h, j) /\ conn'[h][j] = conn[h][j]
      BY <1>1 DEF RequestsAt
    <2>2. conn[h][j].work \in Work
      BY <2>1 DEF PairedInv, Typed, Matched, Connection
    <2>. QED BY <2>1, <2>2, <1>0, <1>1 DEF Waits
  <1>8. /\ Kept(h)' \subseteq 1 .. sent'[h] /\ Denied(h)' \subseteq 1 .. sent'[h]
        /\ Kept(h)' \cap Denied(h)' = {}
    BY <1>1 DEF RequestsAt
  <1>. QED BY <1>2, <1>6, <1>7, <1>8 DEF RequestsAt

\* A request gets a thread of its own.
LEMMA RequestsTake ==
  ASSUME PairedInv, NEW h \in Host, NEW k \in Conn, NEW w \in Work, RequestsAt(h),
         Kept(h)' = Kept(h), Denied(h)' = Denied(h), sent'[h] = sent[h], actor'[h] = actor[h],
         work[h][w].pc = "idle", conn[h][k].st = "handling",
         Moved(h, w), work'[h][w].pc = "ready",
         work'[h][w].req = [host |-> h, n |-> conn[h][k].req],
         Changed(h, k), conn'[h][k].st = "waiting", conn'[h][k].work = w,
         conn'[h][k].req = conn[h][k].req
  PROVE  RequestsAt(h)'
  <1>. DEFINE n == conn[h][k].req
  <1>0. NoWork \notin Work /\ conn[h][k].work = NoWork
    BY Constants DEF PairedInv, Matched
  <1>1. /\ \A x \in Work : x # w => /\ Holds(h, x)' <=> Holds(h, x)
                                    /\ Clean(h, x)' <=> Clean(h, x)
                                    /\ work'[h][x] = work[h][x]
        /\ Holds(h, w)' /\ ~Holds(h, w) /\ work'[h][w].req.n = n
        /\ \A j \in Conn : InProgress(h, j)' <=> InProgress(h, j)
        /\ \A j \in Conn : conn'[h][j].req = conn[h][j].req
        /\ \A j \in Conn : j # k => conn'[h][j] = conn[h][j]
        /\ InProgress(h, k)
    <2>1. /\ \A x \in Work : x # w => /\ Holds(h, x)' <=> Holds(h, x)
                                      /\ Clean(h, x)' <=> Clean(h, x)
                                      /\ work'[h][x] = work[h][x]
          /\ Holds(h, w)' /\ ~Holds(h, w) /\ work'[h][w].req.n = n
      BY DEF Holds, Clean, Moved
    <2>2. \A j \in Conn : j # k => conn'[h][j] = conn[h][j]
      BY DEF Changed
    <2>3. /\ \A j \in Conn : InProgress(h, j)' <=> InProgress(h, j)
          /\ \A j \in Conn : conn'[h][j].req = conn[h][j].req
          /\ InProgress(h, k)
      BY <2>2 DEF InProgress
    <2>. QED BY <2>1, <2>2, <2>3
  <1>2. ConnNamed(h, k)
    BY DEF RequestsAt
  <1>3. /\ n \in (1 .. sent[h]) \ Denied(h) /\ n \notin Kept(h)
        /\ \A x \in Work : Holds(h, x) => work[h][x].req.n # n
        /\ \A j \in Conn : j # k /\ InProgress(h, j) => conn[h][j].req # n
    BY <1>0, <1>1, <1>2 DEF ConnNamed
  <1>4. ASSUME NEW x \in Work PROVE WorkNamed(h, x)'
    <2>1. CASE x = w
      BY <2>1, <1>1, <1>3 DEF WorkNamed
    <2>2. CASE x # w
      <3>1. WorkNamed(h, x)
        BY DEF RequestsAt
      <3>2. Clean(h, x) => Holds(h, x)
        BY DEF Clean
      <3>. QED BY <2>2, <3>1, <3>2, <1>1, <1>3 DEF WorkNamed
    <2>. QED BY <2>1, <2>2
  <1>5. ASSUME NEW j \in Conn, j # k PROVE conn[h][j].work # w
    <2>1. Waits(h, j) /\ (conn[h][j].st = "waiting" <=> conn[h][j].work # NoWork)
      BY DEF RequestsAt, PairedInv, Matched
    <2>. QED BY <2>1, <1>0 DEF Waits
  <1>6. ASSUME NEW j \in Conn PROVE ConnNamed(h, j)'
    <2>1. CASE j = k
      <3>1. \A x \in Work : Holds(h, x)' => (work'[h][x].req.n = n <=> w = x)
        BY <1>1, <1>3
      <3>. QED BY <2>1, <3>1, <1>1, <1>3 DEF ConnNamed
    <2>2. CASE j # k
      <3>1. ConnNamed(h, j)
        BY DEF RequestsAt
      <3>2. InProgress(h, j) => conn[h][j].req # n
        BY <2>2, <1>3
      <3>3. \A x \in Work : InProgress(h, j) /\ Holds(h, x)' =>
              (work'[h][x].req.n = conn[h][j].req <=> conn[h][j].work = x)
        <4>. TAKE x \in Work
        <4>1. CASE x = w
          BY <4>1, <3>2, <2>2, <1>1, <1>5
        <4>2. CASE x # w
          BY <4>2, <3>1, <1>1 DEF ConnNamed
        <4>. QED BY <4>1, <4>2
      <3>. QED BY <2>2, <3>1, <3>3, <1>1 DEF ConnNamed
    <2>. QED BY <2>1, <2>2
  <1>7. ASSUME NEW j \in Conn PROVE Waits(h, j)'
    <2>1. CASE j = k
      BY <2>1, <1>1, <1>5 DEF Waits
    <2>2. CASE j # k
      <3>. SUFFICES ASSUME conn[h][j].st = "waiting" PROVE Waits(h, j)'
        BY <2>2, <1>1 DEF Waits
      <3>1. Waits(h, j) /\ conn[h][j].work # w
        BY <2>2, <1>5 DEF RequestsAt
      <3>2. conn[h][j].work \in Work
        BY DEF PairedInv, Typed, Matched, Connection
      <3>3. conn'[h][k].work # conn[h][j].work
        BY <3>1
      <3>. QED BY <2>2, <3>1, <3>2, <3>3, <1>1 DEF Waits
    <2>. QED BY <2>1, <2>2
  <1>. QED BY <1>4, <1>6, <1>7 DEF RequestsAt

\* A thread's place goes back, and its result to the handler that waits for it.
LEMMA RequestsFinish ==
  ASSUME PairedInv, NEW h \in Host, NEW w \in Work, RequestsAt(h), Kept(h)' = Kept(h),
         Denied(h)' = Denied(h), sent'[h] = sent[h], conn'[h] = conn[h], actor'[h] = actor[h],
         work[h][w].pc = "ended", Moved(h, w),
         \/ Awaited(h, w) /\ work'[h][w].pc = "finished"
         \/ ~Awaited(h, w) /\ work'[h][w].pc = "idle",
         work'[h][w].out \in {work[h][w].out, "panicked", "none"}
  PROVE  RequestsAt(h)'
  <1>1. /\ \A x \in Work : /\ Holds(h, x)' <=> Holds(h, x)
                           /\ Clean(h, x)' <=> Clean(h, x)
                           /\ Holds(h, x) => work'[h][x] = work[h][x]
        /\ \A x \in Work : x # w => work'[h][x] = work[h][x]
        /\ \A j \in Conn : InProgress(h, j)' <=> InProgress(h, j)
        /\ ~Holds(h, w)
    BY DEF Holds, Clean, InProgress, Moved
  <1>2. ASSUME NEW x \in Work PROVE WorkNamed(h, x)'
    <2>1. WorkNamed(h, x) /\ (Clean(h, x) => Holds(h, x))
      BY DEF RequestsAt, Clean
    <2>. QED BY <2>1, <1>1 DEF WorkNamed
  <1>3. ASSUME NEW k \in Conn PROVE ConnNamed(h, k)'
    <2>1. ConnNamed(h, k)
      BY DEF RequestsAt
    <2>. QED BY <2>1, <1>1 DEF ConnNamed
  <1>4. ASSUME NEW k \in Conn PROVE Waits(h, k)'
    <2>. SUFFICES ASSUME conn[h][k].st = "waiting" PROVE Waits(h, k)'
      BY DEF Waits
    <2>1. conn[h][k].work \in Work /\ Waits(h, k)
      BY DEF PairedInv, Typed, Matched, Connection, RequestsAt
    <2>2. CASE conn[h][k].work = w
      <3>1. work'[h][w].pc = "finished"
        BY <2>2 DEF Awaited
      <3>2. work'[h][w].out \in Certain => work[h][w].out \in Certain
        BY DEF Certain
      <3>. QED BY <2>1, <2>2, <3>1, <3>2, <1>1 DEF Waits
    <2>3. CASE conn[h][k].work # w
      BY <2>1, <2>3, <1>1 DEF Waits
    <2>. QED BY <2>2, <2>3
  <1>. QED BY <1>2, <1>3, <1>4 DEF RequestsAt

\* What a commit of h's actor does to the numbers that are kept.
LEMMA LandedKept ==
  ASSUME PairedInv, NEW h \in Host, actor[h].pc = "writing", db' = Landed(h)
  PROVE  /\ actor[h].job \in Work
         /\ \/ db' = db
            \/ LET q == work[h][actor[h].job].req IN
               /\ q \in Request /\ q.host = h
               /\ db'.records = db.records \cup
                     {[seq |-> work[h][actor[h].job].cursor, req |-> q]}
               /\ Kept(h)' = Kept(h) \cup {q.n}
               /\ \A g \in Host : g # h => Kept(g)' = Kept(g)
  <1>0. actor[h].job \in Work /\ Paired(h)
    BY JobFacts
  <1>1. PICK w \in Work : w = actor[h].job
    BY <1>0
  <1>2. work[h][w] \in Caller /\ work[h][w].req.host = h
    BY <1>0, <1>1, JobFacts DEF Paired, Job, Holds
  <1>3. work[h][w].req \in Request
    BY <1>2 DEF Caller, Request
  <1>4. CASE actor[h].dec = "write"
    <2>1. db'.records = db.records \cup {[seq |-> work[h][w].cursor, req |-> work[h][w].req]}
      BY <1>1, <1>4 DEF Landed, Job
    <2>2. \A g : Kept(g)' = IF work[h][w].req.host = g THEN Kept(g) \cup {work[h][w].req.n}
                            ELSE Kept(g)
      BY <2>1, <1>3, KeptGrows
    <2>. QED BY <2>1, <2>2, <1>1, <1>2, <1>3
  <1>5. CASE actor[h].dec # "write"
    BY <1>0, <1>5 DEF Landed
  <1>. QED BY <1>4, <1>5

LEMMA RequestsStore ==
  ASSUME PairedInv, NEW h \in Host, StoreStep(h), \A g \in Host : RequestsAt(g)
  PROVE  \A g \in Host : RequestsAt(g)'
  <1>0. /\ Paired(h) /\ UNCHANGED <<sent, conn, refused>>
        /\ \A g : Denied(g)' = Denied(g)
    BY DeniedSame DEF PairedInv, StoreStep, serverVars
  <1>1. ASSUME NEW g \in Host, g # h, Kept(g)' = Kept(g), actor'[g] = actor[g], work'[g] = work[g]
        PROVE  RequestsAt(g)'
    BY <1>0, <1>1, RequestsKept
  <1>2. ASSUME NEW w \in Work, CallerStep(h, w)
        PROVE  \A g \in Host : RequestsAt(g)'
    <2>1. db' = db /\ \A g \in Host : Kept(g)' = Kept(g)
      BY <1>2, KeptSame DEF CallerStep, Enqueue, Decide, Refuse, PanicInside
    <2>2. \A g \in Host : g # h => actor'[g] = actor[g] /\ work'[g] = work[g]
      BY <1>2, CallerPaired
    <2>3. CASE Enqueue(h, w)
      <3>1. work[h][w].pc = "ready" /\ actor' = actor
        BY <2>3, EnqueueFacts
      <3>2. Holds(h, w) /\ Clean(h, w)
        BY <3>1 DEF Holds, Clean
      <3>3. CASE Ended(h, w, "refused")
        <4>1. \A x \in Work : Clean(h, x)' => Clean(h, x)
          BY <3>1, <3>3 DEF Clean, Holds, Ended, Moved
        <4>2. RequestsAt(h)'
          BY <4>1, <3>2, <3>3, <2>1, <1>0, RequestsEnd
        <4>. QED BY <4>2, <2>1, <2>2, <1>1
      <3>4. CASE Advanced(h, w, "queued")
        <4>1. \A x \in Work : Clean(h, x)' => Clean(h, x)
          BY <3>1, <3>2, <3>4 DEF Clean, Holds, Advanced, Moved
        <4>2. RequestsAt(h)'
          BY <4>1, <3>2, <3>4, <2>1, <1>0, RequestsAdvance
        <4>. QED BY <4>2, <2>1, <2>2, <1>1
      <3>. QED BY <2>3, <3>3, <3>4, EnqueueFacts
    <2>4. CASE Decide(h, w) \/ Refuse(h, w)
      <3>1. work[h][w].pc = "running" /\ Advanced(h, w, "decided") /\ actor[h].pc = "deciding"
        BY <2>4, DecideFacts, RefuseFacts, JobPlaces
      <3>2. Holds(h, w) /\ \A x \in Work : Clean(h, x)' => Clean(h, x)
        BY <3>1 DEF Clean, Holds, Advanced, Moved
      <3>3. RequestsAt(h)'
        BY <3>1, <3>2, <2>1, <1>0, RequestsAdvance
      <3>. QED BY <3>3, <2>1, <2>2, <1>1
    <2>5. CASE PanicInside(h, w)
      <3>1. work[h][w].pc = "running" /\ Ended(h, w, "panicked") /\ actor[h].pc = "deciding"
        BY <2>5, PanicFacts, JobPlaces
      <3>2. Holds(h, w) /\ "panicked" \notin Certain /\ \A x \in Work : Clean(h, x)' => Clean(h, x)
        BY <3>1 DEF Clean, Holds, Ended, Moved, Certain
      <3>3. RequestsAt(h)'
        BY <3>1, <3>2, <2>1, <1>0, RequestsEnd
      <3>. QED BY <3>3, <2>1, <2>2, <1>1
    <2>. QED BY <1>2, <2>3, <2>4, <2>5 DEF CallerStep
  <1>3. ASSUME ActorStep(h)
        PROVE  \A g \in Host : g # h => actor'[g] = actor[g] /\ work'[g] = work[g]
    BY <1>3, ActorPaired
  <1>4. CASE Load(h)
    <2>1. PICK w \in Work : /\ w = actor[h].job /\ actor[h].pc = "loading" /\ db' = db
                            /\ work[h][w].pc = "queued" /\ Advanced(h, w, "running")
      BY <1>4, LoadFacts
    <2>2. Holds(h, w) /\ \A x \in Work : Clean(h, x)' => Clean(h, x)
      BY <2>1 DEF Clean, Holds, Advanced, Moved
    <2>3. \A g \in Host : Kept(g)' = Kept(g)
      BY <2>1, KeptSame
    <2>4. RequestsAt(h)'
      BY <2>1, <2>2, <2>3, <1>0, RequestsAdvance
    <2>. QED BY <2>3, <2>4, <1>1, <1>3, <1>4 DEF ActorStep
  <1>5. CASE Take(h) \/ LoadFailed(h) \/ LoseLink(h)
    <2>1. /\ db' = db /\ work' = work /\ \A g \in Host : g # h => actor'[g] = actor[g]
          /\ actor' = actor \/ actor[h].pc \in {"idle", "loading"}
      BY <1>5, TakeFacts, LoadFailedFacts DEF LoseLink, ActorIs
    <2>2. actor' = actor \/ \A w \in Work : work[h][w].pc # "decided"
      BY <2>1, JobPlaces
    <2>3. \A g \in Host : Kept(g)' = Kept(g)
      BY <2>1, KeptSame
    <2>4. RequestsAt(h)'
      BY <2>1, <2>2, <2>3, <1>0, RequestsKept
    <2>. QED BY <2>1, <2>3, <2>4, <1>1
  <1>6. CASE AnswerUnloaded(h) \/ AnswerRan(h)
    <2>1. PICK w \in Work :
            /\ w = actor[h].job /\ db' = db /\ Ended(h, w, actor[h].out)
            /\ \/ actor[h].pc = "unloaded" /\ work[h][w].pc = "queued"
               \/ actor[h].pc = "ran" /\ work[h][w].pc = "decided"
      BY <1>6, AnswerFacts
    <2>2. Holds(h, w) /\ (actor[h].out \in Certain => Clean(h, w))
      BY <2>1 DEF Holds, Clean
    <2>3. \A x \in Work : x # w => work[h][x].pc # "decided"
      BY <2>1, JobPlaces
    <2>4. \A x \in Work : Clean(h, x)' => Clean(h, x)
      BY <2>1, <2>3 DEF Clean, Holds, Ended, Moved
    <2>5. \A g \in Host : Kept(g)' = Kept(g)
      BY <2>1, KeptSame
    <2>6. RequestsAt(h)'
      BY <2>1, <2>2, <2>4, <2>5, <1>0, RequestsEnd
    <2>. QED BY <2>5, <2>6, <1>1, <1>3, <1>6 DEF ActorStep
  <1>7. CASE Commit(h) \/ WriteRefused(h) \/ CommitLost(h)
    <2>1. PICK w \in Work :
            /\ w = actor[h].job /\ actor[h].pc = "writing" /\ work[h][w].pc = "decided"
            /\ work' = work /\ actor'[h].pc = "ran"
            /\ \/ db' = db
               \/ db' = Landed(h) /\ actor'[h].out \in {"ok", "lost"}
      BY <1>7, WriteFacts DEF ActorIs
    <2>2. /\ \/ Kept(h)' = Kept(h)
             \/ Kept(h)' = Kept(h) \cup {work[h][w].req.n} /\ actor'[h].out \notin Certain
          /\ \A g \in Host : g # h => Kept(g)' = Kept(g)
      <3>1. CASE db' = db
        BY <3>1, KeptSame
      <3>2. CASE db' = Landed(h) /\ actor'[h].out \in {"ok", "lost"}
        BY <3>2, <2>1, LandedKept, KeptSame DEF Certain
      <3>. QED BY <2>1, <3>1, <3>2
    <2>3. RequestsAt(h)'
      BY <2>1, <2>2, <1>0, RequestsCommit
    <2>. QED BY <2>2, <2>3, <1>1, <1>3, <1>7 DEF ActorStep
  <1>. QED BY <1>2, <1>4, <1>5, <1>6, <1>7 DEF StoreStep, ActorStep

LEMMA RequestsServer ==
  ASSUME PairedInv, NEW h \in Host, ServerStep(h), \A g \in Host : RequestsAt(g)
  PROVE  \A g \in Host : RequestsAt(g)'
  <1>0. /\ RequestsAt(h) /\ db' = db /\ \A g : Kept(g)' = Kept(g)
        /\ sent \in [Host -> 0 .. MaxRequests] /\ conn \in [Host -> [Conn -> Connection]]
        /\ work \in [Host -> [Work -> Caller]] /\ MaxRequests \in Nat /\ NoWork \notin Work
        /\ \A k \in Conn : /\ conn[h][k] \in Connection /\ ConnNamed(h, k) /\ Waits(h, k)
                           /\ conn[h][k].st = "waiting" <=> conn[h][k].work # NoWork
        /\ \A g : refused' = refused => Denied(g)' = Denied(g)
    BY ServerFrame, KeptSame, DeniedSame, Constants
       DEF PairedInv, Typed, StoreTypeOK, Matched, RequestsAt
  <1>1. ASSUME RequestsAt(h)',
               \A g \in Host : g # h => /\ work'[g] = work[g] /\ actor'[g] = actor[g]
                                        /\ conn'[g] = conn[g] /\ sent'[g] = sent[g]
                                        /\ Denied(g)' = Denied(g)
        PROVE  \A g \in Host : RequestsAt(g)'
    <2>1. ASSUME NEW g \in Host, g # h PROVE RequestsAt(g)'
      BY <2>1, <1>0, <1>1, RequestsKept
    <2>. QED BY <2>1, <1>1
  <1>2. CASE AcquireSlot(h) \/ AcceptFailed(h) \/ Stop(h)
    <2>1. UNCHANGED <<work, actor, conn, sent, refused>>
      BY <1>2 DEF AcquireSlot, AcceptFailed, Stop, storeVars
    <2>. QED BY <2>1, <1>0, RequestsKept
  <1>3. CASE Exit(h)
    <2>1. /\ UNCHANGED <<work, conn, sent, refused>> /\ \A w \in Work : work[h][w].pc = "idle"
          /\ actor' = [actor EXCEPT ![h].pc = "gone"]
      BY <1>3 DEF Exit, DropStore
    <2>2. \A g \in Host : g # h => actor'[g] = actor[g]
      BY <2>1 DEF PairedInv, Typed, StoreTypeOK
    <2>3. RequestsAt(h)'
      BY <2>1, <1>0, RequestsKept
    <2>. QED BY <2>1, <2>2, <2>3, <1>0, <1>1
  <1>4. ASSUME NEW D, UNCHANGED <<actor, sent>>, Swept(h),
               Denied(h)' = Denied(h) \cup D, \A g \in Host : g # h => Denied(g)' = Denied(g),
               \A g \in Host : g # h => conn'[g] = conn[g],
               D \subseteq (1 .. sent[h]) \ Kept(h),
               \A w \in Work : Holds(h, w) => work[h][w].req.n \notin D,
               \A k \in Conn : \/ conn'[h][k] = conn[h][k]
                               \/ /\ conn'[h][k].st \notin {"handling", "waiting"}
                                  /\ conn'[h][k].work = NoWork,
               \A k \in Conn : conn'[h][k] = conn[h][k] /\ InProgress(h, k) =>
                                 /\ conn[h][k].req \notin D
                                 /\ \A w \in Work : conn[h][k].work = w => work'[h][w] = work[h][w]
         PROVE  \A g \in Host : RequestsAt(g)'
    <2>1. \A w \in Work : Clean(h, w)' => Clean(h, w)
      BY <1>4, IdleCaller DEF Clean, Holds, Swept
    <2>2. RequestsAt(h)'
      BY <2>1, <1>0, <1>4, RequestsDrop
    <2>. QED BY <2>2, <1>1, <1>4 DEF Swept
  <1>16. ASSUME UNCHANGED <<actor, sent, refused>>, Swept(h),
                \A g \in Host : g # h => conn'[g] = conn[g],
                \A k \in Conn : \/ conn'[h][k] = conn[h][k]
                                \/ /\ conn'[h][k].st \notin {"handling", "waiting"}
                                   /\ conn'[h][k].work = NoWork,
                \A k \in Conn : conn'[h][k] = conn[h][k] /\ InProgress(h, k) =>
                                  \A w \in Work : conn[h][k].work = w => work'[h][w] = work[h][w]
         PROVE  \A g \in Host : RequestsAt(g)'
    <2>1. PICK D : D = {}
      OBVIOUS
    <2>2. /\ Denied(h)' = Denied(h) \cup D /\ \A g \in Host : g # h => Denied(g)' = Denied(g)
          /\ D \subseteq (1 .. sent[h]) \ Kept(h)
          /\ \A w \in Work : Holds(h, w) => work[h][w].req.n \notin D
          /\ \A k \in Conn : conn[h][k].req \notin D
      BY <2>1, <1>0, <1>16
    <2>. QED BY <2>2, <1>4, <1>16
  <1>5. CASE \E k \in Conn : Accept(h, k)
    <2>1. PICK k \in Conn : Accept(h, k)
      BY <1>5
    <2>2. UNCHANGED <<work, actor, sent, refused>> /\ conn[h][k].st = "none"
      BY <2>1 DEF Accept, storeVars
    <2>3. Changed(h, k) /\ conn'[h][k].st = "open" /\ conn'[h][k].work = NoWork
      BY <2>1, ConnFacts
    <2>4. Swept(h)
      BY <2>2, <1>0 DEF Swept
    <2>. QED BY <2>2, <2>3, <2>4, <1>16 DEF Changed
  <1>6. ASSUME NEW k \in Conn, HandlerDropped(h, k), Changed(h, k), UNCHANGED <<actor, sent, refused>>,
               conn'[h][k].st \notin {"handling", "waiting"}, conn'[h][k].work = NoWork
        PROVE  \A g \in Host : RequestsAt(g)'
    <2>1. Swept(h) /\ \A w \in Work : conn[h][k].work # w => work'[h][w] = work[h][w]
      BY <1>0, <1>6, DroppedFacts
    <2>2. ASSUME NEW j \in Conn, conn'[h][j] = conn[h][j], InProgress(h, j), NEW w \in Work,
                 conn[h][j].work = w
          PROVE  work'[h][w] = work[h][w]
      <3>1. j # k
        BY <2>2, <1>6 DEF InProgress
      <3>2. conn[h][k].work # w
        BY <3>1, <2>2, <1>0 DEF Waits
      <3>. QED BY <3>2, <2>1
    <2>. QED BY <2>1, <2>2, <1>6, <1>16 DEF Changed
  <1>7. CASE \E k \in Conn : Hangup(h, k)
    <2>1. PICK k \in Conn : Hangup(h, k)
      BY <1>7
    <2>2. HandlerDropped(h, k) /\ UNCHANGED <<actor, sent, refused>>
      BY <2>1 DEF Hangup
    <2>3. Changed(h, k) /\ conn'[h][k].st = "none" /\ conn'[h][k].work = NoWork
      BY <2>1, ConnFacts DEF NoConn
    <2>. QED BY <2>2, <2>3, <1>6
  <1>8. CASE \E k \in Conn : Deadline(h, k)
    <2>1. PICK k \in Conn : Deadline(h, k)
      BY <1>8
    <2>2. /\ HandlerDropped(h, k) /\ UNCHANGED <<actor, sent>> /\ AfterAnswer(h, k)
          /\ Answered(h, k, "timeout")
      BY <2>1 DEF Deadline
    <2>3. refused' = refused
      BY <2>2 DEF Answered, Certain
    <2>4. Changed(h, k) /\ conn'[h][k].st \in {"open", "none"} /\ conn'[h][k].work = NoWork
      BY <2>2, AfterAnswerFacts
    <2>. QED BY <2>2, <2>3, <2>4, <1>6
  <1>9. CASE \E k \in Conn : SendRequest(h, k)
    <2>1. PICK k \in Conn : SendRequest(h, k)
      BY <1>9
    <2>2. /\ UNCHANGED <<work, actor, refused>> /\ conn[h][k].st = "open"
          /\ sent' = [sent EXCEPT ![h] = sent[h] + 1]
      BY <2>1 DEF SendRequest, storeVars
    <2>3. sent'[h] = sent[h] + 1 /\ \A g \in Host : g # h => sent'[g] = sent[g]
      BY <2>2, <1>0
    <2>4. /\ Changed(h, k) /\ conn'[h][k].st = "handling"
          /\ conn'[h][k].work = NoWork /\ conn'[h][k].req = sent[h] + 1
      BY <2>1, ConnFacts
    <2>5. RequestsAt(h)'
      BY <2>2, <2>3, <2>4, <1>0, RequestsSend
    <2>. QED BY <2>2, <2>3, <2>4, <2>5, <1>0, <1>1 DEF Changed
  <1>10. CASE \E k \in Conn : TakePlace(h, k)
    <2>1. PICK k \in Conn : TakePlace(h, k)
      BY <1>10
    <2>2. PICK w \in Work :
           /\ work[h][w].pc = "idle" /\ conn[h][k].st = "handling"
           /\ Moved(h, w) /\ work'[h][w].pc = "ready"
           /\ work'[h][w].req = [host |-> h, n |-> conn[h][k].req]
           /\ Changed(h, k) /\ conn'[h][k].st = "waiting" /\ conn'[h][k].work = w
           /\ conn'[h][k].req = conn[h][k].req
           /\ UNCHANGED <<actor, sent, refused>>
      BY <2>1, TakePlaceFacts
    <2>3. RequestsAt(h)'
      BY <2>2, <1>0, RequestsTake
    <2>. QED BY <2>2, <2>3, <1>0, <1>1 DEF Changed, Moved
  <1>11. CASE \E w \in Work : FinishWork(h, w)
    <2>1. PICK w \in Work : FinishWork(h, w)
      BY <1>11
    <2>2. /\ work[h][w].pc = "ended" /\ Moved(h, w)
          /\ \/ Awaited(h, w) /\ work'[h][w].pc = "finished"
             \/ ~Awaited(h, w) /\ work'[h][w].pc = "idle"
          /\ work'[h][w].out \in {work[h][w].out, "panicked", "none"}
          /\ UNCHANGED <<actor, conn, sent, refused>>
      BY <2>1, FinishFacts
    <2>3. RequestsAt(h)'
      BY <2>2, <1>0, RequestsFinish
    <2>. QED BY <2>2, <2>3, <1>0, <1>1 DEF Moved
  <1>12. CASE StopServing(h)
    <2>1. UNCHANGED <<actor, sent, refused>>
      BY <1>12 DEF StopServing
    <2>2. Swept(h)
      BY <1>0, <1>12, StopServingFacts
    <2>3. \A g \in Host : conn'[g] = IF g = h THEN [k \in Conn |-> NoConn] ELSE conn[g]
      <3>1. conn' = [conn EXCEPT ![h] = [k \in Conn |-> NoConn]]
        BY <1>12 DEF StopServing
      <3>. QED BY <3>1, <1>0
    <2>4. \A k \in Conn : conn'[h][k].st = "none" /\ conn'[h][k].work = NoWork
      BY <2>3 DEF NoConn
    <2>5. \A k \in Conn : ~(conn'[h][k] = conn[h][k] /\ InProgress(h, k))
      BY <2>4 DEF InProgress
    <2>. QED BY <2>1, <2>2, <2>3, <2>4, <2>5, <1>16
  <1>13. ASSUME NEW k \in Conn, NEW what, Answered(h, k, what), AfterAnswer(h, k), Swept(h),
                UNCHANGED <<actor, sent>>, InProgress(h, k),
                \A w \in Work : conn[h][k].work # w => work'[h][w] = work[h][w],
                what \in Certain => conn[h][k].req \notin Kept(h),
                \A w \in Work : Holds(h, w) => conn[h][k].work # w
         PROVE  \A g \in Host : RequestsAt(g)'
    <2>. DEFINE n == conn[h][k].req
                D == IF what \in Certain THEN {n} ELSE {}
    <2>1. n \in 1 .. sent[h] /\ n \in Nat
      BY <1>0, <1>13 DEF ConnNamed, Connection
    <2>2. Changed(h, k) /\ conn'[h][k].st \in {"open", "none"} /\ conn'[h][k].work = NoWork
      BY <1>13, AfterAnswerFacts
    <2>3. Denied(h)' = Denied(h) \cup D /\ \A g \in Host : g # h => Denied(g)' = Denied(g)
      <3>1. CASE what \in Certain
        <4>1. refused' = refused \cup {[host |-> h, n |-> n]}
          BY <3>1, <1>13 DEF Answered
        <4>. QED BY <3>1, <4>1, <2>1, DeniedGrows
      <3>2. CASE what \notin Certain
        BY <3>2, <1>0, <1>13 DEF Answered
      <3>. QED BY <3>1, <3>2
    <2>4. D \subseteq (1 .. sent[h]) \ Kept(h) /\ D \subseteq {n}
      BY <2>1, <1>13
    <2>. HIDE DEF D
    <2>5. \A w \in Work : Holds(h, w) => work[h][w].req.n \notin D
      BY <2>4, <1>0, <1>13 DEF ConnNamed
    <2>6. ASSUME NEW j \in Conn, conn'[h][j] = conn[h][j], InProgress(h, j)
          PROVE  /\ conn[h][j].req \notin D
                 /\ \A w \in Work : conn[h][j].work = w => work'[h][w] = work[h][w]
      <3>1. j # k
        BY <2>2, <2>6 DEF InProgress
      <3>2. conn[h][j].req # n
        BY <3>1, <2>6, <1>0, <1>13 DEF ConnNamed
      <3>3. \A w \in Work : conn[h][j].work = w => conn[h][k].work # w
        BY <3>1, <1>0 DEF Waits
      <3>. QED BY <3>2, <3>3, <2>4, <1>13
    <2>. QED BY <2>2, <2>3, <2>4, <2>5, <2>6, <1>4, <1>13 DEF Changed
  <1>14. CASE \E k \in Conn : Busy(h, k)
    <2>1. PICK k \in Conn : Busy(h, k)
      BY <1>14
    <2>2. /\ conn[h][k].st = "handling" /\ Answered(h, k, "busy") /\ AfterAnswer(h, k)
          /\ UNCHANGED <<work, actor, sent>>
      BY <2>1 DEF Busy, storeVars
    <2>3. Swept(h) /\ InProgress(h, k) /\ conn[h][k].work = NoWork /\ conn[h][k].req \notin Kept(h)
      BY <2>2, <1>0 DEF Swept, InProgress, ConnNamed
    <2>. QED BY <2>2, <2>3, <1>0, <1>13
  <1>15. CASE \E k \in Conn : Respond(h, k)
    <2>1. PICK k \in Conn : Respond(h, k)
      BY <1>15
    <2>2. conn[h][k].work \in Work
      BY <2>1, <1>0 DEF Respond, Connection
    <2>3. /\ conn[h][k].st = "waiting" /\ work[h][conn[h][k].work].pc = "finished"
          /\ Moved(h, conn[h][k].work) /\ Swept(h)
          /\ Answered(h, k, work[h][conn[h][k].work].out) /\ AfterAnswer(h, k)
          /\ UNCHANGED <<actor, sent>>
      BY <2>1, <2>2, RespondFacts
    <2>4. ~Holds(h, conn[h][k].work) /\ InProgress(h, k)
      BY <2>3 DEF Holds, InProgress
    <2>5. work[h][conn[h][k].work].out \in Certain => conn[h][k].req \notin Kept(h)
      BY <2>3, <2>4, <1>0 DEF Waits
    <2>6. \A w \in Work : /\ conn[h][k].work # w => work'[h][w] = work[h][w]
                          /\ Holds(h, w) => conn[h][k].work # w
      BY <2>3, <2>4 DEF Moved
    <2>. QED BY <2>3, <2>4, <2>5, <2>6, <1>13
  <1>. QED BY <1>2, <1>3, <1>5, <1>7, <1>8, <1>9, <1>10, <1>11, <1>12, <1>14, <1>15 DEF ServerStep

\* A record's request is its own: the committing thread's was not recorded, and a
\* peer's is named by the record's number.
LEMMA RecordsNamedStep ==
  ASSUME PairedInv, OneRecordPerNumber, RequestsInv, [Next]_vars
  PROVE  RecordsNamed'
  <1>0. /\ RecordsNamed /\ \A g \in Host : RequestsAt(g)
        /\ db.head \in Nat /\ db.records \subseteq [seq : Nat, req : Request]
        /\ refused \subseteq Request /\ Peer \notin Host
        /\ \A r \in db.records : r.seq \in 0 .. db.head - 1
    BY Constants DEF RequestsInv, PairedInv, Typed, StoreTypeOK, OneRecordPerNumber
  <1>1. \A q \in refused' : q \in refused \/ q.host \in Host
    <2>1. ASSUME NEW h \in Host, NEW k \in Conn, NEW what, Answered(h, k, what)
          PROVE  \A q \in refused' : q \in refused \/ q.host \in Host
      BY <2>1 DEF Answered
    <2>2. refused' = refused \/ \E h \in Host, k \in Conn : \E what : Answered(h, k, what)
      <3>1. CASE UNCHANGED vars \/ PeerStep \/ \E h \in Host : StoreStep(h)
        BY <3>1 DEF vars, serverVars, PeerStep, StoreStep
      <3>2. ASSUME NEW h \in Host, ServerStep(h)
            PROVE  refused' = refused \/ \E k \in Conn : \E what : Answered(h, k, what)
        BY <3>2 DEF ServerStep, AcquireSlot, AcceptFailed, Stop, StopServing, Exit, Accept, Hangup,
                    SendRequest, TakePlace, Busy, Deadline, Respond, FinishWork
      <3>. QED BY <3>1, <3>2 DEF Next, Done
    <2>. QED BY <2>1, <2>2
  <1>2. \A q \in refused' : q.host # Peer
    BY <1>0, <1>1 DEF RecordsNamed
  <1>3. ASSUME db' = db PROVE RecordsNamed'
    BY <1>0, <1>2, <1>3 DEF RecordsNamed
  <1>4. ASSUME NEW s, NEW q, db'.records = db.records \cup {[seq |-> s, req |-> q]},
               \A r \in db.records : r.req # q, q.host = Peer => q.n = s
        PROVE  RecordsNamed'
    <2>. DEFINE new == [seq |-> s, req |-> q]
    <2>1. new.seq = s /\ new.req = q /\ db'.records = db.records \cup {new}
      BY <1>4
    <2>. HIDE DEF new
    <2>2. \A r, t \in db'.records : r.req = t.req => r = t
      BY <2>1, <1>0, <1>4 DEF RecordsNamed
    <2>3. \A r \in db'.records : r.req.host = Peer => r.req.n = r.seq
      BY <2>1, <1>0, <1>4 DEF RecordsNamed
    <2>. QED BY <2>2, <2>3, <1>2 DEF RecordsNamed
  <1>5. ASSUME NEW h \in Host, StoreStep(h) PROVE RecordsNamed'
    <2>1. CASE db' = db
      BY <2>1, <1>3
    <2>2. CASE db' # db
      <3>1. actor[h].pc = "writing" /\ db' = Landed(h)
        BY <2>2, <1>5 DEF StoreStep, CallerStep, Enqueue, Decide, Refuse, PanicInside, ActorStep, Take,
                         Load, LoadFailed, AnswerUnloaded, Commit, WriteRefused, CommitLost, AnswerRan,
                         LoseLink, RolledBack
      <3>2. PICK w \in Work : w = actor[h].job
        BY <3>1, LandedKept
      <3>3. /\ work[h][w].req \in Request /\ work[h][w].req.host = h
            /\ db'.records = db.records \cup {[seq |-> work[h][w].cursor, req |-> work[h][w].req]}
        BY <2>2, <3>1, <3>2, LandedKept
      <3>4. work[h][w].pc = "decided"
        BY <3>1, <3>2 DEF PairedInv, Paired, Job
      <3>5. work[h][w].req.n \notin Kept(h)
        BY <3>1, <3>4, <1>0 DEF RequestsAt, WorkNamed, Clean, Holds
      <3>6. \A r \in db.records : r.req # work[h][w].req
        <4>1. work[h][w].req = [host |-> h, n |-> work[h][w].req.n] /\ work[h][w].req.n \in Nat
          BY <3>3 DEF Request
        <4>. QED BY <4>1, <3>5 DEF Kept
      <3>7. PICK s : s = work[h][w].cursor
        OBVIOUS
      <3>8. PICK q : q = work[h][w].req
        OBVIOUS
      <3>9. /\ db'.records = db.records \cup {[seq |-> s, req |-> q]}
            /\ \A r \in db.records : r.req # q
            /\ q.host = Peer => q.n = s
        BY <3>3, <3>6, <3>7, <3>8, <1>0
      <3>. QED BY <3>9, <1>4
    <2>. QED BY <2>1, <2>2
  <1>6. CASE PeerStep
    <2>1. CASE db' = db
      BY <2>1, <1>3
    <2>2. CASE db' # db
      <3>. DEFINE q == [host |-> Peer, n |-> db.head]
      <3>1. db'.records = db.records \cup {[seq |-> db.head, req |-> q]}
        BY <2>2, <1>6, PeerFacts
      <3>2. q.host = Peer /\ q.n = db.head
        OBVIOUS
      <3>. HIDE DEF q
      <3>3. \A r \in db.records : r.seq # db.head
        BY <1>0
      <3>4. \A r \in db.records : r.req # q
        BY <3>2, <3>3, <1>0 DEF RecordsNamed
      <3>. QED BY <3>1, <3>2, <3>4, <1>4
    <2>. QED BY <2>1, <2>2
  <1>7. ASSUME NEW h \in Host, ServerStep(h) PROVE RecordsNamed'
    BY <1>3, <1>7, ServerFrame
  <1>8. CASE UNCHANGED vars
    BY <1>3, <1>8 DEF vars, storeVars
  <1>. QED BY <1>5, <1>6, <1>7, <1>8 DEF Next, Done

LEMMA RequestsStep ==
  PairedInv /\ OneRecordPerNumber /\ RequestsInv /\ [Next]_vars => RequestsInv'
  <1>. SUFFICES ASSUME PairedInv, OneRecordPerNumber, RequestsInv, [Next]_vars PROVE RequestsInv'
    OBVIOUS
  <1>1. RecordsNamed' /\ \A g \in Host : RequestsAt(g)
    BY RecordsNamedStep DEF RequestsInv
  <1>2. CASE \E h \in Host : StoreStep(h)
    BY <1>1, <1>2, RequestsStore DEF RequestsInv
  <1>3. CASE \E h \in Host : ServerStep(h)
    BY <1>1, <1>3, RequestsServer DEF RequestsInv
  <1>4. ASSUME UNCHANGED <<work, actor, conn, sent, refused>>, \A g \in Host : Kept(g)' = Kept(g)
        PROVE  RequestsInv'
    BY <1>1, <1>4, RequestsKept, DeniedSame DEF RequestsInv
  <1>5. CASE PeerStep
    <2>1. UNCHANGED <<work, actor, conn, sent, refused>>
      BY <1>5, PeerFacts DEF serverVars
    <2>2. \A g \in Host : Kept(g)' = Kept(g)
      <3>1. CASE db' = db
        BY <3>1, KeptSame
      <3>2. CASE db' # db
        <4>. DEFINE q == [host |-> Peer, n |-> db.head]
        <4>1. db'.records = db.records \cup {[seq |-> db.head, req |-> q]}
          BY <3>2, <1>5, PeerFacts
        <4>2. q \in Request /\ q.host = Peer
          BY DEF PairedInv, Typed, StoreTypeOK, Request
        <4>. HIDE DEF q
        <4>. QED BY <4>1, <4>2, KeptGrows, Constants
      <3>. QED BY <3>1, <3>2
    <2>. QED BY <2>1, <2>2, <1>4
  <1>6. CASE UNCHANGED vars
    BY <1>4, <1>6, KeptSame DEF vars, storeVars
  <1>. QED BY <1>2, <1>3, <1>5, <1>6 DEF Next, Done

LEMMA RequestsInit == Init => RequestsInv
  <1>. SUFFICES ASSUME Init PROVE RequestsInv
    OBVIOUS
  <1>1. db.records = {} /\ refused = {}
    BY DEF Init, StoreInit
  <1>2. RecordsNamed /\ \A h \in Host : Kept(h) = {} /\ Denied(h) = {}
    BY <1>1 DEF RecordsNamed, Kept, Denied
  <1>3. ASSUME NEW h \in Host PROVE RequestsAt(h)
    <2>1. /\ \A w \in Work : work[h][w].pc = "idle"
          /\ \A k \in Conn : conn[h][k].st = "none"
      BY DEF Init, StoreInit, Idle, NoConn
    <2>. QED BY <2>1, <1>2 DEF RequestsAt, WorkNamed, ConnNamed, Waits, Holds, Clean, InProgress
  <1>. QED BY <1>2, <1>3 DEF RequestsInv

-----------------------------------------------------------------------------
(* The store's flag.                                                         *)

Failed == {"closed", "lost"}

\* The flag is never taken down, and an outcome that tells of a closed connection
\* is an old one, the actor's, or one whose flag is up.
LEMMA FlaggedKept ==
  ASSUME FlaggedInv,
         \A g \in Host : closed[g] => closed'[g],
         \A g \in Host : \/ actor'[g].out = actor[g].out \/ actor'[g].out \notin Failed
                         \/ closed'[g],
         \A g \in Host, w \in Work :
           \/ work'[g][w].out = work[g][w].out \/ work'[g][w].out = actor[g].out
           \/ work'[g][w].out \notin Failed
  PROVE  FlaggedInv'
  <1>. SUFFICES ASSUME NEW g \in Host PROVE Flagged(g)'
    BY DEF FlaggedInv
  <1>1. Flagged(g)
    BY DEF FlaggedInv
  <1>2. actor'[g].out \in Failed => closed'[g]
    BY <1>1 DEF Flagged, Failed
  <1>3. \A w \in Work : work'[g][w].out \in Failed => closed'[g]
    BY <1>1 DEF Flagged, Failed
  <1>. QED BY <1>2, <1>3 DEF Flagged, Failed

LEMMA Notes ==
  ASSUME PairedInv, NEW h \in Host, NoteClosed(h)
  PROVE  /\ \A g \in Host : closed[g] => closed'[g]
         /\ ~link[h] => closed'[h]
  <1>1. closed \in [Host -> BOOLEAN] /\ link \in [Host -> BOOLEAN]
    BY DEF PairedInv, Typed, StoreTypeOK
  <1>. QED BY <1>1 DEF NoteClosed

LEMMA FlaggedStore ==
  ASSUME PairedInv, FlaggedInv, NEW h \in Host, StoreStep(h)
  PROVE  FlaggedInv'
  <1>1. ASSUME NEW w \in Work, Enqueue(h, w) PROVE FlaggedInv'
    BY <1>1, EnqueueFacts, FlaggedKept DEF Ended, Advanced, Moved, Failed
  <1>2. ASSUME NEW w \in Work, Decide(h, w) PROVE FlaggedInv'
    BY <1>2, DecideFacts, FlaggedKept DEF Advanced, Moved, ActorIs, Failed
  <1>3. ASSUME NEW w \in Work, Refuse(h, w) PROVE FlaggedInv'
    <2>1. NoteClosed(h) /\ Advanced(h, w, "decided") /\ ActorIs(h, "ran", w, "refused")
      BY <1>3, RefuseFacts
    <2>2. \A g \in Host, x \in Work : \/ work'[g][x].out = work[g][x].out
                                      \/ work'[g][x].out \notin Failed
      BY <2>1 DEF Advanced, Ended, Moved, Failed
    <2>3. \A g \in Host : actor'[g].out = actor[g].out \/ actor'[g].out \notin Failed
      BY <2>1 DEF ActorIs, Failed
    <2>. QED BY <2>1, <2>2, <2>3, Notes, FlaggedKept
  <1>4. ASSUME NEW w \in Work, PanicInside(h, w) PROVE FlaggedInv'
    <2>1. NoteClosed(h) /\ Ended(h, w, "panicked") /\ ActorIs(h, "idle", NoWork, "none")
      BY <1>4, PanicFacts
    <2>2. \A g \in Host, x \in Work : \/ work'[g][x].out = work[g][x].out
                                      \/ work'[g][x].out \notin Failed
      BY <2>1 DEF Advanced, Ended, Moved, Failed
    <2>3. \A g \in Host : actor'[g].out = actor[g].out \/ actor'[g].out \notin Failed
      BY <2>1 DEF ActorIs, Failed
    <2>. QED BY <2>1, <2>2, <2>3, Notes, FlaggedKept
  <1>5. CASE Take(h)
    BY <1>5, TakeFacts, FlaggedKept DEF ActorIs, Failed
  <1>6. CASE Load(h)
    <2>0. PICK w : w = actor[h].job
      OBVIOUS
    <2>1. /\ w \in Work /\ closed' = closed
          /\ Advanced(h, w, "running") /\ ActorIs(h, "deciding", w, "none")
      BY <1>6, <2>0, LoadFacts
    <2>2. \A g \in Host, x \in Work : \/ work'[g][x].out = work[g][x].out
                                      \/ work'[g][x].out \notin Failed
      BY <2>1 DEF Advanced, Ended, Moved, Failed
    <2>3. \A g \in Host : actor'[g].out = actor[g].out \/ actor'[g].out \notin Failed
      BY <2>1 DEF ActorIs, Failed
    <2>. QED BY <2>1, <2>2, <2>3, FlaggedKept
  <1>7. CASE LoadFailed(h)
    BY <1>7, LoadFailedFacts, Notes, FlaggedKept DEF ActorIs, Failed
  <1>8. CASE AnswerUnloaded(h) \/ AnswerRan(h)
    BY <1>8, AnswerFacts, FlaggedKept DEF Ended, Moved, ActorIs, Failed
  <1>9. CASE Commit(h) \/ WriteRefused(h) \/ CommitLost(h)
    <2>1. work' = work
      BY <1>9, WriteFacts
    <2>2. CASE ActorIs(h, "ran", actor[h].job, "ok") /\ closed' = closed
      BY <2>1, <2>2, FlaggedKept DEF ActorIs, Failed
    <2>3. CASE ActorIs(h, "ran", actor[h].job, "lost") /\ closed' = [closed EXCEPT ![h] = TRUE]
      <3>1. closed'[h] /\ \A g \in Host : closed[g] => closed'[g]
        BY <2>3 DEF PairedInv, Typed, StoreTypeOK
      <3>. QED BY <2>1, <2>3, <3>1, FlaggedKept DEF ActorIs
    <2>4. CASE /\ ActorIs(h, "ran", actor[h].job, IF link[h] THEN "refused" ELSE "closed")
               /\ NoteClosed(h)
      BY <2>1, <2>4, Notes, FlaggedKept DEF ActorIs, Failed
    <2>. QED BY <1>9, <2>2, <2>3, <2>4, WriteFacts
  <1>10. CASE LoseLink(h)
    BY <1>10, FlaggedKept DEF LoseLink
  <1>. QED BY <1>1, <1>2, <1>3, <1>4, <1>5, <1>6, <1>7, <1>8, <1>9, <1>10
           DEF StoreStep, CallerStep, ActorStep

LEMMA FlaggedServer ==
  ASSUME PairedInv, FlaggedInv, NEW h \in Host, ServerStep(h)
  PROVE  FlaggedInv'
  <1>0. /\ work \in [Host -> [Work -> Caller]] /\ actor \in [Host -> Actor]
        /\ closed' = closed /\ Idle.out = "none"
    BY ServerFrame, IdleCaller DEF PairedInv, Typed, StoreTypeOK
  <1>1. ASSUME actor' = actor, work' = work \/ Swept(h) PROVE FlaggedInv'
    BY <1>0, <1>1, FlaggedKept DEF Swept, Failed
  <1>2. ASSUME actor' = actor, NEW w \in Work, Moved(h, w),
               work'[h][w].out \in {work[h][w].out, "panicked", "none"}
        PROVE  FlaggedInv'
    BY <1>0, <1>2, FlaggedKept DEF Moved, Failed
  <1>3. CASE Exit(h)
    <2>1. work' = work /\ actor' = [actor EXCEPT ![h].pc = "gone"]
      BY <1>3 DEF Exit, DropStore
    <2>2. \A g \in Host : actor'[g].out = actor[g].out
      BY <2>1, <1>0 DEF Actor
    <2>. QED BY <1>0, <2>1, <2>2, FlaggedKept
  <1>4. CASE \E k \in Conn : TakePlace(h, k)
    BY <1>2, <1>4, TakePlaceFacts
  <1>5. CASE \E w \in Work : FinishWork(h, w)
    BY <1>2, <1>5, FinishFacts
  <1>6. CASE \E k \in Conn : Respond(h, k)
    <2>1. PICK k \in Conn : Respond(h, k)
      BY <1>6
    <2>2. conn[h][k] \in Connection /\ conn[h][k].st = "waiting" /\ Matched(h)
      BY <2>1 DEF Respond, PairedInv, Typed
    <2>3. conn[h][k].work \in Work
      BY <2>2 DEF Matched, Connection
    <2>. QED BY <2>1, <2>3, <1>1, RespondFacts
  <1>7. CASE \E k \in Conn : Hangup(h, k) \/ Deadline(h, k)
    <2>1. \E k \in Conn : HandlerDropped(h, k) /\ actor' = actor
      BY <1>7 DEF Hangup, Deadline
    <2>. QED BY <2>1, <1>0, <1>1, DroppedFacts
  <1>8. CASE StopServing(h)
    BY <1>0, <1>1, <1>8, StopServingFacts DEF StopServing
  <1>9. CASE \/ AcquireSlot(h) \/ AcceptFailed(h) \/ Stop(h)
             \/ \E k \in Conn : Accept(h, k) \/ SendRequest(h, k) \/ Busy(h, k)
    BY <1>1, <1>9 DEF AcquireSlot, AcceptFailed, Stop, Accept, SendRequest, Busy, storeVars
  <1>. QED BY <1>3, <1>4, <1>5, <1>6, <1>7, <1>8, <1>9 DEF ServerStep

LEMMA FlaggedStep == PairedInv /\ FlaggedInv /\ [Next]_vars => FlaggedInv'
  <1>. SUFFICES ASSUME PairedInv, FlaggedInv, [Next]_vars PROVE FlaggedInv'
    OBVIOUS
  <1>1. CASE UNCHANGED vars
    BY <1>1, FlaggedKept DEF vars, storeVars
  <1>2. CASE PeerStep
    BY <1>2, PeerFacts, FlaggedKept
  <1>. QED BY <1>1, <1>2, FlaggedStore, FlaggedServer DEF Next, Done

LEMMA FlaggedInit == Init => FlaggedInv
  <1>. SUFFICES ASSUME Init, NEW h \in Host PROVE Flagged(h)
    BY DEF FlaggedInv
  <1>1. actor[h].out = "none" /\ \A w \in Work : work[h][w].out = "none"
    BY DEF Init, StoreInit, IdleActor, Idle
  <1>. QED BY <1>1 DEF Flagged

\* A client told by a full pool, a full queue, a lock timeout, the section or the
\* database that its request was refused has no record, then or ever after; no
\* request has two records; and a caller that hears of a closed connection finds
\* the store's health flag already up (within, run_with_shard, note_closed).
THEOREM AnswersAlwaysTrue == Spec => []AnswersSound
  <1>1. PairedInv /\ RequestsInv /\ FlaggedInv => AnswersSound
    <2>. SUFFICES ASSUME PairedInv, RequestsInv, FlaggedInv PROVE AnswersSound
      OBVIOUS
    <2>1. ASSUME NEW r \in db.records, r.req \in refused PROVE FALSE
      <3>1. r.req \in Request /\ r.req.host # Peer
        BY <2>1 DEF PairedInv, Typed, StoreTypeOK, RequestsInv, RecordsNamed
      <3>2. PICK h \in Host, n \in Nat : r.req = [host |-> h, n |-> n]
        BY <3>1 DEF Request
      <3>3. n \in Kept(h) \cap Denied(h)
        BY <2>1, <3>2 DEF Kept, Denied
      <3>. QED BY <3>2, <3>3 DEF RequestsInv, RequestsAt
    <2>2. \A r, s \in db.records : r.req = s.req => r = s
      BY DEF RequestsInv, RecordsNamed
    <2>3. FailureIsSeen
      BY DEF FailureIsSeen, FlaggedInv, Flagged
    <2>. QED BY <2>1, <2>2, <2>3 DEF AnswersSound, AnswersAreTrue
  <1>2. PairedInv /\ OneRecordPerNumber /\ RequestsInv /\ [Next]_vars => RequestsInv'
    BY RequestsStep
  <1>. QED BY <1>1, <1>2, PairedInit, PairedStep, ChainInit, ChainStep, RequestsInit, FlaggedInit,
              FlaggedStep, PTL DEF Spec

=============================================================================
