------------------------------ MODULE Serving ------------------------------
(***************************************************************************)
(* decern-serve's process around its handlers, over the Postgres store:    *)
(* the accept loop and its connection slots (serve.rs run), the request    *)
(* deadline (serve.rs within), the places on the blocking pool             *)
(* (blocking.rs) and the stop (serve.rs run, boot.rs serve_with, main.rs). *)
(* A request that runs out of time, or whose client goes away, leaves its  *)
(* work behind on its thread.                                              *)
(***************************************************************************)
EXTENDS PostgresHeadStore

CONSTANTS Conn,       \* clients of one host
          Slots,      \* connections held open at once (MAX_CONNECTIONS)
          Cap         \* places per host (MAX_BLOCKING)

ASSUME ServingAssumption ==
  /\ Slots \in Nat \ {0} /\ Cap \in [Host -> Nat \ {0}]
  /\ IsFiniteSet(Conn)

VARIABLES phase,   \* per host: serving, draining, dropping, exited
          acceptor,\* per host: where the accept loop is
          slots,   \* per host: permits left in the semaphore
          conn,    \* per host and client: the connection
          taken,   \* per host: the places taken
          sent,    \* per host: requests sent so far
          refused  \* history: the requests answered that nothing was recorded

vars == <<storeVars, phase, acceptor, slots, conn, taken, sent, refused>>
serverVars == <<phase, acceptor, slots, conn, taken, sent, refused>>

Connection == [st : {"none", "open", "handling", "waiting"},
               work : Work \cup {NoWork}, req : Nat]
NoConn == [st |-> "none", work |-> NoWork, req |-> 0]

Init ==
  /\ StoreInit
  /\ phase = [h \in Host |-> "serving"]
  /\ acceptor = [h \in Host |-> "acquiring"]
  /\ slots = [h \in Host |-> Slots]
  /\ conn = [h \in Host |-> [k \in Conn |-> NoConn]]
  /\ taken = [h \in Host |-> 0]
  /\ sent = [h \in Host |-> 0]
  /\ refused = {}

Live(h) == phase[h] \in {"serving", "draining"}
InProgress(h, k) == conn[h][k].st \in {"handling", "waiting"}

(* A connection that has had its answer: kept alive while serving, closed  *)
(* by the graceful stop.                                                   *)
AfterAnswer(h, k) ==
  /\ conn' = [conn EXCEPT ![h][k] =
                IF phase[h] = "serving" THEN [NoConn EXCEPT !.st = "open"] ELSE NoConn]
  /\ slots' = [slots EXCEPT ![h] = IF phase[h] = "serving" THEN @ ELSE @ + 1]

(* The answers that say nothing was recorded: every place taken, a full    *)
(* queue, a lock timeout, a section or a database that refused.            *)
Certain == {"busy", "refused", "closed"}

Answered(h, k, what) ==
  refused' = IF what \in Certain
             THEN refused \cup {[host |-> h, n |-> conn[h][k].req]} ELSE refused

(* The handler is dropped, and a result it had not picked up with it.      *)
HandlerDropped(h, k) ==
  work' = [work EXCEPT ![h] = [w \in Work |->
             IF conn[h][k].work = w /\ @[w].pc = "finished" THEN Idle ELSE @[w]]]

---------------------------------------------------------------------------
(* The accept loop: a slot first, then a connection.                       *)
AcquireSlot(h) ==
  /\ phase[h] = "serving"
  /\ acceptor[h] = "acquiring"
  /\ slots[h] > 0
  /\ slots' = [slots EXCEPT ![h] = @ - 1]
  /\ acceptor' = [acceptor EXCEPT ![h] = "accepting"]
  /\ UNCHANGED <<storeVars, phase, conn, taken, sent, refused>>

Accept(h, k) ==
  /\ phase[h] = "serving"
  /\ acceptor[h] = "accepting"
  /\ conn[h][k].st = "none"
  /\ conn' = [conn EXCEPT ![h][k].st = "open"]
  /\ acceptor' = [acceptor EXCEPT ![h] = "acquiring"]
  /\ UNCHANGED <<storeVars, phase, slots, taken, sent, refused>>

(* accept failed: the slot is dropped and the loop goes round.             *)
AcceptFailed(h) ==
  /\ phase[h] = "serving"
  /\ acceptor[h] = "accepting"
  /\ acceptor' = [acceptor EXCEPT ![h] = "acquiring"]
  /\ slots' = [slots EXCEPT ![h] = @ + 1]
  /\ UNCHANGED <<storeVars, phase, conn, taken, sent, refused>>

(* An idle connection ends: the client closes it, its headers are late, or *)
(* the stop closes it. One with a request in progress ends when its client *)
(* goes away; the handler is dropped and its work goes on.                 *)
Hangup(h, k) ==
  /\ Live(h)
  /\ conn[h][k].st # "none"
  /\ HandlerDropped(h, k)
  /\ conn' = [conn EXCEPT ![h][k] = NoConn]
  /\ slots' = [slots EXCEPT ![h] = @ + 1]
  /\ UNCHANGED <<db, lock, link, closed, queue, actor, phase, acceptor, taken, sent, refused>>

SendRequest(h, k) ==
  /\ phase[h] = "serving"
  /\ conn[h][k].st = "open"
  /\ sent[h] < MaxRequests
  /\ sent' = [sent EXCEPT ![h] = @ + 1]
  /\ conn' = [conn EXCEPT ![h][k] = [st |-> "handling", work |-> NoWork, req |-> sent[h] + 1]]
  /\ UNCHANGED <<storeVars, phase, acceptor, slots, taken, refused>>

---------------------------------------------------------------------------
(* Blocking::take: one more place while fewer than cap are taken.          *)
MayTake(h) == taken[h] < Cap[h]

(* Work items no thread runs and no handler waits for: a bound of the      *)
(* model, for a thread is spawned for each.                                *)
Unused(h) == {w \in Work : work[h][w].pc = "idle"}

(* off_the_executor: a place and a blocking thread for the work, or 503.   *)
TakePlace(h, k) ==
  /\ Live(h)
  /\ conn[h][k].st = "handling"
  /\ MayTake(h)
  /\ Unused(h) # {}
  /\ LET w == CHOOSE x \in Unused(h) : TRUE IN
       /\ work' = [work EXCEPT ![h][w] =
                     [Idle EXCEPT !.pc = "ready", !.req = [host |-> h, n |-> conn[h][k].req]]]
       /\ conn' = [conn EXCEPT ![h][k].st = "waiting", ![h][k].work = w]
  /\ taken' = [taken EXCEPT ![h] = @ + 1]
  /\ UNCHANGED <<db, lock, link, closed, queue, actor, phase, acceptor, slots, sent, refused>>

Busy(h, k) ==
  /\ Live(h)
  /\ conn[h][k].st = "handling"
  /\ ~MayTake(h)
  /\ Answered(h, k, "busy")
  /\ AfterAnswer(h, k)
  /\ UNCHANGED <<storeVars, phase, acceptor, taken, sent>>

(* The deadline passes while the handler waits: 503 now, the work goes on  *)
(* and keeps its place.                                                    *)
PlaceBackAtDeadline(h, k) ==   \* mutant: the place is the request's, not the work's
  taken' = [taken EXCEPT ![h] = IF conn[h][k].st = "waiting" THEN @ - 1 ELSE @]
PlaceAtDeadline(h, k) == UNCHANGED taken

Deadline(h, k) ==
  /\ Live(h)
  /\ InProgress(h, k)
  /\ PlaceAtDeadline(h, k)
  /\ HandlerDropped(h, k)
  /\ Answered(h, k, "timeout")
  /\ AfterAnswer(h, k)
  /\ UNCHANGED <<db, lock, link, closed, queue, actor, phase, acceptor, sent>>

Awaited(h, w) == \E k \in Conn : conn[h][k].work = w

(* The work returns, or panics after its record landed and unwinds: its    *)
(* place goes back before its result is seen. A result nobody waits for    *)
(* any more is dropped with the task.                                      *)
FinishWork(h, w) ==
  /\ work[h][w].pc = "ended"
  /\ taken' = [taken EXCEPT ![h] = @ - 1]
  /\ \E out \in {work[h][w].out, "panicked"} :
       work' = [work EXCEPT ![h][w] =
                  IF Awaited(h, w) THEN [Idle EXCEPT !.pc = "finished", !.out = out] ELSE Idle]
  /\ UNCHANGED <<db, lock, link, closed, queue, actor, phase, acceptor, slots, conn, sent, refused>>

Respond(h, k) ==
  /\ Live(h)
  /\ conn[h][k].st = "waiting"
  /\ LET w == conn[h][k].work IN
       /\ work[h][w].pc = "finished"
       /\ Answered(h, k, work[h][w].out)
       /\ work' = [work EXCEPT ![h][w] = Idle]
  /\ AfterAnswer(h, k)
  /\ UNCHANGED <<db, lock, link, closed, queue, actor, phase, acceptor, taken, sent>>

---------------------------------------------------------------------------
(* SIGTERM: the accept loop ends and drops a slot it holds.                *)
Stop(h) ==
  /\ phase[h] = "serving"
  /\ phase' = [phase EXCEPT ![h] = "draining"]
  /\ slots' = [slots EXCEPT ![h] = IF acceptor[h] = "accepting" THEN @ + 1 ELSE @]
  /\ acceptor' = [acceptor EXCEPT ![h] = "stopped"]
  /\ UNCHANGED <<storeVars, conn, taken, sent, refused>>

(* run returns: every connection ended, or the grace period is over and    *)
(* the runtime drops the connections' tasks.                               *)
DrainedOnly(h) == \A k \in Conn : conn[h][k].st = "none"   \* mutant: no grace period
DrainedOrOver(h) == TRUE

StopServing(h) ==
  /\ phase[h] = "draining"
  /\ DrainedOrOver(h)
  /\ phase' = [phase EXCEPT ![h] = "dropping"]
  /\ conn' = [conn EXCEPT ![h] = [k \in Conn |-> NoConn]]
  /\ work' = [work EXCEPT ![h] = [w \in Work |->
                IF @[w].pc = "finished" THEN Idle ELSE @[w]]]
  /\ slots' = [slots EXCEPT ![h] = Slots]
  /\ UNCHANGED <<db, lock, link, closed, queue, actor, acceptor, taken, sent, refused>>

(* The runtime's drop waits for every blocking thread; the store is        *)
(* dropped with the last of them.                                          *)
Exit(h) ==
  /\ phase[h] = "dropping"
  /\ \A w \in Work : work[h][w].pc = "idle"
  /\ DropStore(h)
  /\ phase' = [phase EXCEPT ![h] = "exited"]
  /\ UNCHANGED <<acceptor, slots, conn, taken, sent, refused>>

StoreStep(h) ==
  /\ \/ ActorStep(h)
     \/ \E w \in Work : CallerStep(h, w)
     \/ LoseLink(h)
  /\ UNCHANGED serverVars

ServerStep(h) ==
  \/ AcquireSlot(h) \/ AcceptFailed(h) \/ Stop(h) \/ StopServing(h) \/ Exit(h)
  \/ \E k \in Conn : \/ Accept(h, k) \/ Hangup(h, k) \/ SendRequest(h, k)
                     \/ TakePlace(h, k) \/ Busy(h, k) \/ Deadline(h, k) \/ Respond(h, k)
  \/ \E w \in Work : FinishWork(h, w)

Done == (\A h \in Host : phase[h] = "exited") /\ UNCHANGED vars

PeerStep == (PeerLocks \/ PeerCommits) /\ UNCHANGED serverVars

Next == Done \/ PeerStep \/ \E h \in Host : StoreStep(h) \/ ServerStep(h)

Spec == Init /\ [][Next]_vars

(* Fairness: the scheduler runs every thread, the database answers every   *)
(* call or cancels it, and the timers fire. Clients, signals and faults    *)
(* owe nothing.                                                            *)
Fairness ==
  \A h \in Host :
    /\ WF_vars(ActorStep(h) /\ UNCHANGED serverVars)
    /\ \A w \in Work : /\ WF_vars(CallerStep(h, w) /\ UNCHANGED serverVars)
                       /\ WF_vars(FinishWork(h, w))
    /\ \A k \in Conn : WF_vars(TakePlace(h, k) \/ Busy(h, k) \/ Deadline(h, k) \/ Respond(h, k))
    /\ WF_vars(StopServing(h))
    /\ WF_vars(Exit(h))

FairSpec == Spec /\ Fairness

---------------------------------------------------------------------------
TypeOK ==
  /\ StoreTypeOK
  /\ phase \in [Host -> {"serving", "draining", "dropping", "exited"}]
  /\ acceptor \in [Host -> {"acquiring", "accepting", "stopped"}]
  /\ slots \in [Host -> 0 .. Slots]
  /\ conn \in [Host -> [Conn -> Connection]]
  /\ taken \in [Host -> Nat] /\ \A h \in Host : taken[h] <= Cap[h]
  /\ sent \in [Host -> 0 .. MaxRequests]
  /\ refused \subseteq Request
  /\ \A h \in Host : \A k \in Conn :
       conn[h][k].st = "waiting" <=> conn[h][k].work # NoWork

(* Capacity is neither leaked nor handed out twice, whatever times out,    *)
(* panics, hangs up or fails to accept: the places taken are the blocking  *)
(* threads still running work (a request's place outlives its deadline),   *)
(* and every slot is free, held by the accept loop or by one connection.   *)
CapacityConserved ==
  \A h \in Host :
    /\ taken[h] = Cardinality({w \in Work : work[h][w].pc \notin {"idle", "finished"}})
    /\ slots[h] + (IF acceptor[h] = "accepting" THEN 1 ELSE 0)
         + Cardinality({k \in Conn : conn[h][k].st # "none"}) = Slots

(* What a client may conclude from its answer, across hosts and faults: a  *)
(* refusal by a full pool, a full queue, a lock timeout, the section or    *)
(* the database means no record, now or later; only a timeout, a panic and *)
(* a lost COMMIT leave it open, and even then one request never has two.   *)
AnswersAreTrue ==
  /\ \A r \in db.records : r.req \notin refused
  /\ \A r, s \in db.records : r.req = s.req => r = s

(* Nobody waits for ever on anybody: a blocking thread's work ends,        *)
(* whatever becomes of its section (not loaded, refused, panicked, lost),  *)
(* and so its place is free again.                                         *)
WorkIsOver == \A h \in Host : \A w \in Work : work[h][w].pc # "idle" ~> work[h][w].pc = "idle"

(* A stop completes once the database answers: connections end within the  *)
(* grace period, the blocking threads end, the actor is joined.            *)
StopCompletes == \A h \in Host : phase[h] = "draining" ~> phase[h] = "exited"

\* Places, slots and the queue stay within their limits and none is lost
\* (Blocking::take and the drop of a Place, run's semaphore, enqueue).
CapacitySound == TypeOK /\ CapacityConserved

\* What an answer tells its client about the ledger, and an operator about the
\* store's health, is so (within, run_with_shard, note_closed).
AnswersSound == AnswersAreTrue /\ FailureIsSeen
=============================================================================
