--------------------------- MODULE MissionsProofs ---------------------------
(* Proofs about Missions, for every set of missions, expiries and requests. *)
EXTENDS Missions, FiniteSetTheorems, SequenceTheorems, TLAPS

-----------------------------------------------------------------------------
(* The inductive invariants. *)

\* Whether a decision ends an exchange of that semantic.
Ends(semantic, what) ==
    \/ semantic = "deny_on_first_deny" /\ what # "allow"
    \/ semantic = "permit_on_first_permit" /\ what = "allow"

\* Where a request is tells what it is, and what it still has to do.
Placed(q) ==
    /\ q.pc \in {"clock", "status", "register", "mark", "bind"} => q.todo # <<>>
    /\ q.pc = "record" /\ q.kind # "decide" => q.todo # <<>>
    /\ q.pc \in {"status", "register", "mark"} => q.kind # "decide"
    /\ q.pc = "register" => q.kind = "approve"
    /\ q.pc = "mark" => q.kind = "terminate"
    /\ q.pc \in {"bind", "settle", "done"} => q.kind = "decide"

\* What an exchange has decided and not recorded: its settled part grows to the
\* whole before it is recorded.
Batched(q) ==
    /\ \A k \in DOMAIN q.decided :
           /\ q.decided[k] \in DOMAIN q.answers
           /\ q.answers[q.decided[k]].what # "undecided"
           /\ \A l \in DOMAIN q.decided : q.decided[k] = q.decided[l] => k = l
    /\ q.settled <= Len(q.decided)
    /\ q.pc = "settle" => q.settled < Len(q.decided)
    /\ q.pc = "record" /\ q.kind = "decide" =>
           q.settled = Len(q.decided) /\ q.decided # <<>>
    /\ q.pc \notin {"settle", "record"} \/ q.kind # "decide" => q.settled = 0
    /\ q.pc = "done" => q.decided = <<>>

\* How far an exchange has gone, by its semantic.
Stopped(q) ==
    /\ q.semantic # "execute_all" =>
           /\ \A k \in DOMAIN q.decided : q.decided[k] = Len(q.answers)
           /\ q.pc \in {"clock", "bind"} => q.decided = <<>>
    /\ \A i \in DOMAIN q.answers : Ends(q.semantic, q.answers[i].what) =>
           i = Len(q.answers) /\ q.pc \notin {"clock", "bind"}
    /\ q.pc \in {"settle", "record"} /\ q.kind = "decide" /\ q.semantic = "execute_all"
           => q.todo = <<>>
    /\ q.pc = "done" =>
           /\ q.answers # <<>>
           /\ q.todo # <<>> => Ends(q.semantic, q.answers[Len(q.answers)].what)

Shape(q) == Placed(q) /\ Batched(q) /\ Stopped(q)

\* Types, and the shape of every request.
ShapeInv == TypeOK /\ \A r \in Req : Shape(req[r])

\* A request that is about to register has its approval durably recorded.
ApprovalIsRecorded ==
    \A r \in Req : req[r].pc = "register" =>
        \E i \in 1..durable : ledger[i].what = "approve" /\ ledger[i].mission = Subject(r)

\* The clock a request reads is no older than the request, no request outlives
\* Patience, and an Allow is under a mission that expires after it began.
Timely(q) ==
    /\ q.pc # "idle" => q.since <= now /\ now <= q.since + Patience
    /\ q.now_s <= now
    /\ q.pc \notin {"idle", "clock"} => q.since <= q.now_s
    /\ \A i \in DOMAIN q.answers :
           q.answers[i].what = "allow" => q.since < Expiry[q.answers[i].mission]

\* A mission that ended for good is a tombstone until nothing that began while
\* it could be approved or decided under is still in progress.
Tombstone(map, m) ==
    \/ map[m] = "terminated"
    \/ map[m] = "none" /\ Expiry[m] + Retention <= now

\* It is one in every content the registry file may have after a power loss.
EndedInv ==
    /\ disk \in stable
    /\ \A r \in Req : Timely(req[r])
    /\ \A m \in ended : \A map \in stable \cup {disk, view} : Tombstone(map, m)

\* The ledger records a taken termination of m.
TakenTermination(m) ==
    \E i \in 1..Len(ledger) :
        ledger[i].what = "terminate" /\ ledger[i].held /\ ledger[i].mission = m

\* What a request q, of r, has settled to an Allow has no termination on the
\* ledger yet, and none gets there while r holds the ledger's mutex.
Cleared(r, q) ==
    /\ q.pc = "record" /\ q.kind = "terminate" /\ q.held => Head(q.todo) \in ended
    /\ q.pc = "record" /\ q.kind = "decide" => lock = {r}
    /\ q.pc = "settle" /\ q.settled > 0 => lock = {r}
    /\ \A k \in 1..q.settled :
           q.answers[q.decided[k]].what = "allow" =>
               ~TakenTermination(q.answers[q.decided[k]].mission)

SettledInv ==
    /\ NoAllowAfterTakenTermination
    /\ \A m \in Mission : TakenTermination(m) => m \in ended
    /\ \A r \in Req : Cleared(r, req[r])

\* Every decision of an exchange is still to be recorded, or durably on the
\* ledger as it will be served.
Served(q) ==
    \A i \in DOMAIN q.answers : q.answers[i].what # "undecided" =>
        \/ \E k \in DOMAIN q.decided : q.decided[k] = i
        \/ /\ q.answers[i].at \in 1..durable
           /\ ledger[q.answers[i].at].what = q.answers[i].what
           /\ ledger[q.answers[i].at].mission = q.answers[i].mission

RecordedInv == \A r \in Req : Served(req[r])

-----------------------------------------------------------------------------
(* The shape of a request. *)

\* A sequence with an element added holds what it held, and the element.
LEMMA AppendFacts ==
    ASSUME NEW S, NEW s \in Seq(S), NEW x \in S
    PROVE  /\ Append(s, x) \in Seq(S)
           /\ Append(s, x) # <<>>
           /\ Len(Append(s, x)) = Len(s) + 1
           /\ Append(s, x)[Len(s) + 1] = x
           /\ \A i \in 1..Len(s) : Append(s, x)[i] = s[i]
  OBVIOUS

\* A request that is not in progress is well shaped.
LEMMA IdleShape == Idle \in Request /\ Shape(Idle)
  <1>1. Idle \in Request
    BY DEF Idle, Request
  <1>2. Placed(Idle) /\ Batched(Idle) /\ Stopped(Idle)
    BY DEF Idle, Placed, Batched, Stopped
  <1>. QED BY <1>1, <1>2 DEF Shape

\* So is one that has just begun.
LEMMA BeginShape ==
    ASSUME NEW kind \in {"approve", "terminate", "decide"},
           NEW semantic \in {"execute_all", "deny_on_first_deny", "permit_on_first_permit"},
           NEW items \in Seq(Mission), items # <<>>, NEW t \in Nat
    PROVE  LET q == [Idle EXCEPT !.pc = "clock", !.kind = kind, !.semantic = semantic,
                                 !.todo = items, !.since = t]
           IN  q \in Request /\ Shape(q)
  <1>. DEFINE q == [Idle EXCEPT !.pc = "clock", !.kind = kind, !.semantic = semantic,
                                !.todo = items, !.since = t]
  <1>1. q \in Request
    BY IdleShape DEF Request
  <1>2. Placed(q) /\ Batched(q) /\ Stopped(q)
    BY DEF Idle, Placed, Batched, Stopped
  <1>. QED BY <1>1, <1>2 DEF Shape

\* A request that has read the clock is where its kind goes next.
LEMMA ClockShape ==
    ASSUME NEW q \in Request, Shape(q), q.pc = "clock", NEW t \in Nat
    PROVE  LET a == [q EXCEPT !.pc = AfterClock(q.kind), !.now_s = t]
           IN  a \in Request /\ Shape(a)
  <1>. DEFINE p == AfterClock(q.kind)
              a == [q EXCEPT !.pc = p, !.now_s = t]
  <1>1. p = IF q.kind = "decide" THEN "bind" ELSE "status"
    BY DEF AfterClock
  <1>2. p \in {"bind", "status"}
    BY <1>1
  <1>. HIDE DEF p
  <1>3. a \in Request
    BY <1>2 DEF Request
  <1>4. a.pc = p /\ a.kind = q.kind /\ a.todo = q.todo /\ a.semantic = q.semantic
        /\ a.answers = q.answers /\ a.decided = q.decided /\ a.settled = q.settled
    BY DEF Request
  <1>. HIDE DEF a
  <1>5. Placed(a)
    BY <1>1, <1>4 DEF Shape, Placed
  <1>6. Batched(a)
    BY <1>2, <1>4 DEF Shape, Batched
  <1>7. Stopped(a)
    BY <1>1, <1>4 DEF Shape, Stopped
  <1>. QED BY <1>3, <1>5, <1>6, <1>7 DEF Shape, a, p

\* An approval that is recorded goes on to register.
LEMMA ApprovedShape ==
    ASSUME NEW q \in Request, Shape(q), q.pc = "record", q.kind = "approve"
    PROVE  LET a == [q EXCEPT !.pc = "register"] IN a \in Request /\ Shape(a)
  <1>. DEFINE a == [q EXCEPT !.pc = "register"]
  <1>1. a \in Request
    BY DEF Request
  <1>2. a.pc = "register" /\ a.kind = q.kind /\ a.todo = q.todo /\ a.semantic = q.semantic
        /\ a.answers = q.answers /\ a.decided = q.decided /\ a.settled = q.settled
    BY DEF Request
  <1>. HIDE DEF a
  <1>3. Placed(a) /\ Batched(a)
    BY <1>2 DEF Shape, Placed, Batched
  <1>4. Stopped(a)
    BY <1>2 DEF Shape, Stopped
  <1>. QED BY <1>1, <1>3, <1>4 DEF Shape, a

\* A termination that is marked goes on to record.
LEMMA MarkedShape ==
    ASSUME NEW q \in Request, Shape(q), q.pc = "mark", NEW held \in BOOLEAN
    PROVE  LET a == [q EXCEPT !.pc = "record", !.held = held] IN a \in Request /\ Shape(a)
  <1>. DEFINE a == [q EXCEPT !.pc = "record", !.held = held]
  <1>1. a \in Request
    BY DEF Request
  <1>2. a.pc = "record" /\ a.kind = q.kind /\ a.todo = q.todo /\ a.semantic = q.semantic
        /\ a.answers = q.answers /\ a.decided = q.decided /\ a.settled = q.settled
    BY DEF Request
  <1>. HIDE DEF a
  <1>0. q.kind = "terminate" /\ q.todo # <<>>
    BY DEF Shape, Placed
  <1>3. Placed(a)
    BY <1>0, <1>2 DEF Placed
  <1>5. Batched(a)
    BY <1>0, <1>2 DEF Shape, Batched
  <1>4. Stopped(a)
    BY <1>2 DEF Shape, Placed, Stopped
  <1>. QED BY <1>1, <1>3, <1>4, <1>5 DEF Shape, a

\* An answer appended to an exchange keeps its earlier answers.
LEMMA AnsweredFields ==
    ASSUME NEW q \in Request, q.todo # <<>>, NEW m \in Mission,
           NEW what \in {"allow", "deny", "undecided"}
    PROVE  LET a == Answered(q, what, m)
               n == Len(q.answers)
           IN  /\ a \in Request
               /\ Len(a.answers) = n + 1
               /\ a.answers[n + 1] = [what |-> what, mission |-> m, at |-> 0]
               /\ \A i \in 1..n : a.answers[i] = q.answers[i]
               /\ a.todo = Tail(q.todo)
               /\ a.pc = q.pc /\ a.kind = q.kind /\ a.semantic = q.semantic
               /\ a.settled = q.settled /\ a.since = q.since /\ a.now_s = q.now_s
               /\ a.decided = IF what = "undecided" THEN q.decided
                              ELSE Append(q.decided, n + 1)
  <1>. DEFINE x == [what |-> what, mission |-> m, at |-> 0]
  <1>1. x \in Answer
    BY DEF Answer
  <1>2. q.answers \in Seq(Answer) /\ q.todo \in Seq(Mission) /\ q.decided \in Seq(Nat)
    BY DEF Request
  <1>3. Tail(q.todo) \in Seq(Mission)
    BY <1>2
  <1>4. Append(q.answers, x) \in Seq(Answer)
    BY <1>1, <1>2
  <1>5. Append(q.decided, Len(q.answers) + 1) \in Seq(Nat)
    BY <1>2
  <1>6. Answered(q, what, m) \in Request
    BY <1>3, <1>4, <1>5 DEF Answered, Request
  <1>7. /\ Len(Append(q.answers, x)) = Len(q.answers) + 1
        /\ Append(q.answers, x)[Len(q.answers) + 1] = x
        /\ \A i \in 1..Len(q.answers) : Append(q.answers, x)[i] = q.answers[i]
    BY <1>1, <1>2
  <1>. HIDE DEF x
  <1>8. Answered(q, what, m) =
          [q EXCEPT !.todo = Tail(q.todo),
                    !.answers = Append(q.answers, x),
                    !.decided = IF what = "undecided" THEN q.decided
                                ELSE Append(q.decided, Len(q.answers) + 1)]
    BY DEF Answered, x
  <1>. QED BY <1>6, <1>7, <1>8 DEF Request, x

\* Stops looks at the last answer only.
LEMMA StopsIsEnds ==
    ASSUME NEW semantic, NEW answers
    PROVE  Stops(semantic, answers) <=> Ends(semantic, answers[Len(answers)].what)
  BY DEF Stops, Ends

\* An exchange that has bound an item is well shaped, wherever it goes next.
LEMMA BindShape ==
    ASSUME NEW q \in Request, Shape(q), q.pc = "bind", NEW m \in Mission,
           NEW what \in {"allow", "deny", "undecided"}
    PROVE  LET a == Answered(q, what, m)
               alone == what # "undecided" /\ a.semantic # "execute_all"
               b == [a EXCEPT !.pc = IF alone THEN "settle" ELSE Onward(a)]
           IN  b \in Request /\ Shape(b)
  <1>. DEFINE a == Answered(q, what, m)
              n == Len(q.answers)
              alone == what # "undecided" /\ a.semantic # "execute_all"
              b == [a EXCEPT !.pc = IF alone THEN "settle" ELSE Onward(a)]
  <1>0. q.todo # <<>> /\ q.kind = "decide" /\ q.settled = 0
    BY DEF Shape, Placed, Batched
  <1>1. /\ a \in Request
        /\ Len(a.answers) = n + 1
        /\ a.answers[n + 1] = [what |-> what, mission |-> m, at |-> 0]
        /\ \A i \in 1..n : a.answers[i] = q.answers[i]
        /\ a.todo = Tail(q.todo)
        /\ a.kind = q.kind /\ a.semantic = q.semantic /\ a.settled = q.settled
        /\ a.decided = IF what = "undecided" THEN q.decided ELSE Append(q.decided, n + 1)
    BY <1>0, AnsweredFields
  <1>. HIDE DEF a
  <1>2. Stops(a.semantic, a.answers) <=> Ends(q.semantic, what)
    BY <1>1, StopsIsEnds
  <1>3. b.pc \in {"clock", "settle", "done"} /\ b \in Request
    BY <1>1 DEF Onward, Request
  <1>4. /\ b.todo = a.todo /\ b.answers = a.answers /\ b.decided = a.decided
        /\ b.kind = "decide" /\ b.semantic = q.semantic /\ b.settled = 0
    BY <1>0, <1>1 DEF Request
  <1>5. /\ b.pc = "clock" => /\ ~alone /\ a.todo # <<>> /\ ~Ends(q.semantic, what)
        /\ b.pc = "settle" => /\ a.decided # <<>>
                              /\ alone \/ a.todo = <<>> \/ Ends(q.semantic, what)
        /\ b.pc = "done" => /\ a.decided = <<>>
                            /\ a.todo = <<>> \/ Ends(q.semantic, what)
    <2>0. q.decided \in Seq(Nat) /\ n \in Nat
      BY DEF Request
    <2>1. alone => a.decided # <<>>
      <3>1. Append(q.decided, n + 1) # <<>>
        BY <2>0, AppendFacts
      <3>. QED BY <3>1, <1>1
    <2>2. b.pc = IF alone THEN "settle" ELSE Onward(a)
      BY <1>1 DEF Request
    <2>. QED BY <2>1, <2>2, <1>1, <1>2 DEF Onward
  <1>6. q.answers \in Seq(Answer) /\ q.decided \in Seq(Nat) /\ n \in Nat
        /\ DOMAIN q.answers = 1..n /\ DOMAIN a.answers = 1..(n + 1)
        /\ a.decided \in Seq(Nat)
    BY <1>1 DEF Request
  <1>7. ASSUME NEW k \in DOMAIN a.decided
        PROVE  \/ k \in DOMAIN q.decided /\ a.decided[k] = q.decided[k]
               \/ /\ k = Len(q.decided) + 1 /\ a.decided[k] = n + 1
                  /\ what # "undecided"
    BY <1>1, <1>6, AppendFacts
  <1>8. \A k \in DOMAIN q.decided : q.decided[k] \in 1..n
    BY <1>6 DEF Shape, Batched
  <1>. HIDE DEF b, alone, n
  <1>9. Placed(b)
    BY <1>3, <1>4, <1>5 DEF Placed
  <1>10. Batched(b)
    <2>1. ASSUME NEW k \in DOMAIN b.decided
          PROVE  /\ b.decided[k] \in DOMAIN b.answers
                 /\ b.answers[b.decided[k]].what # "undecided"
                 /\ \A l \in DOMAIN b.decided : b.decided[k] = b.decided[l] => k = l
      <3>0. \A j \in DOMAIN q.decided :
                /\ q.answers[q.decided[j]].what # "undecided"
                /\ \A l \in DOMAIN q.decided : q.decided[j] = q.decided[l] => j = l
        BY DEF Shape, Batched
      <3>1. b.decided[k] \in DOMAIN b.answers /\ b.answers[b.decided[k]].what # "undecided"
        <4>1. CASE k \in DOMAIN q.decided /\ a.decided[k] = q.decided[k]
          <5>1. q.decided[k] \in 1..n /\ q.decided[k] \in 1..(n + 1)
            BY <4>1, <1>6, <1>8
          <5>2. a.answers[q.decided[k]] = q.answers[q.decided[k]]
            BY <5>1, <1>1
          <5>. QED BY <4>1, <5>1, <5>2, <3>0, <1>4, <1>6
        <4>2. CASE a.decided[k] = n + 1 /\ what # "undecided"
          BY <4>2, <1>1, <1>4, <1>6
        <4>. QED BY <4>1, <4>2, <1>4, <1>7
      <3>2. ASSUME NEW l \in DOMAIN b.decided, b.decided[k] = b.decided[l] PROVE k = l
        <4>1. l \in DOMAIN a.decided /\ k \in DOMAIN a.decided
          BY <1>4
        <4>2. \A j \in DOMAIN q.decided : q.decided[j] # n + 1
          BY <1>6, <1>8
        <4>. QED BY <3>0, <3>2, <4>1, <4>2, <1>4, <1>7
      <3>. QED BY <3>1, <3>2
    <2>2. Len(b.decided) \in Nat /\ (b.decided # <<>> => 0 < Len(b.decided))
      BY <1>4, <1>6
    <2>. QED BY <2>1, <2>2, <1>3, <1>4, <1>5 DEF Batched
  <1>11. Stopped(b)
    <2>1. q.semantic # "execute_all" => q.decided = <<>>
      BY DEF Shape, Stopped
    <2>2. ASSUME b.semantic # "execute_all"
          PROVE  /\ \A k \in DOMAIN b.decided : b.decided[k] = Len(b.answers)
                 /\ b.pc \in {"clock", "bind"} => b.decided = <<>>
      BY <2>1, <2>2, <1>1, <1>3, <1>4, <1>5, <1>6, <1>7 DEF alone
    <2>3. \A i \in 1..n : ~Ends(q.semantic, q.answers[i].what)
      BY <1>6 DEF Shape, Stopped
    <2>4. \A i \in 1..n : ~Ends(b.semantic, b.answers[i].what)
      BY <2>3, <1>1, <1>4
    <2>5. Ends(b.semantic, b.answers[n + 1].what) <=> Ends(q.semantic, what)
      BY <1>1, <1>4
    <2>6. ASSUME NEW i \in DOMAIN b.answers, Ends(b.semantic, b.answers[i].what)
          PROVE  i = Len(b.answers) /\ b.pc \notin {"clock", "bind"}
      BY <2>4, <2>5, <2>6, <1>1, <1>3, <1>4, <1>5, <1>6
    <2>7. b.semantic = "execute_all" => ~alone /\ ~Ends(q.semantic, what)
      BY <1>1, <1>4 DEF alone, Ends
    <2>8. b.pc = "settle" /\ b.semantic = "execute_all" => b.todo = <<>>
      BY <2>7, <1>4, <1>5
    <2>9. b.pc = "done" => b.answers # <<>> /\ Len(b.answers) = n + 1
      BY <1>1, <1>4, <1>6
    <2>. QED BY <2>2, <2>5, <2>6, <2>8, <2>9, <1>3, <1>4, <1>5 DEF Stopped
  <1>. QED BY <1>3, <1>9, <1>10, <1>11 DEF Shape, b, a, alone

\* A request with its answers and its place replaced is a request.
LEMMA SettledRequest ==
    ASSUME NEW q \in Request, NEW answers \in Seq(Answer), NEW settled \in Nat,
           NEW pc \in {"settle", "record"}
    PROVE  [q EXCEPT !.settled = settled, !.answers = answers, !.pc = pc] \in Request
  BY DEF Request

\* A request with its answers replaced and nothing left to record is a request.
LEMMA LandedRequest ==
    ASSUME NEW q \in Request, NEW answers \in Seq(Answer)
    PROVE  [q EXCEPT !.decided = <<>>, !.settled = 0, !.answers = answers] \in Request
  <1>1. <<>> \in Seq(Nat)
    OBVIOUS
  <1>. QED BY <1>1 DEF Request

\* Settling may only turn an Allow into a Deny.
LEMMA SettledFields ==
    ASSUME NEW x \in Answer
    PROVE  /\ Settled(x) \in Answer
           /\ Settled(x).mission = x.mission /\ Settled(x).at = x.at
           /\ Settled(x).what = "undecided" <=> x.what = "undecided"
           /\ Settled(x).what = "allow" => x.what = "allow" /\ view[x.mission] # "terminated"
  BY DEF Settled, Answer

\* The exchange with its next decision settled.
SettleNext(q) ==
    [q EXCEPT !.settled = @ + 1,
              !.answers[Unsettled(q)] = Settled(q.answers[Unsettled(q)]),
              !.pc = IF q.settled + 1 < Len(q.decided) THEN "settle" ELSE "record"]

\* What settling one decision changes in the exchange.
LEMMA SettleFields ==
    ASSUME NEW q \in Request, Shape(q), q.pc = "settle"
    PROVE  LET b == SettleNext(q)
               i == q.decided[q.settled + 1]
           IN  /\ b \in Request
               /\ q.settled + 1 \in DOMAIN q.decided
               /\ i \in DOMAIN q.answers
               /\ DOMAIN b.answers = DOMAIN q.answers /\ Len(b.answers) = Len(q.answers)
               /\ \A j \in DOMAIN q.answers :
                      b.answers[j] = IF j = i THEN Settled(q.answers[j]) ELSE q.answers[j]
               /\ b.settled = q.settled + 1
               /\ b.decided = q.decided /\ b.todo = q.todo /\ b.kind = q.kind
               /\ b.semantic = q.semantic /\ b.since = q.since /\ b.now_s = q.now_s
               /\ b.held = q.held
               /\ b.pc = IF q.settled + 1 < Len(q.decided) THEN "settle" ELSE "record"
  <1>. DEFINE i == q.decided[q.settled + 1]
              c == [q.answers EXCEPT ![i] = Settled(q.answers[i])]
              p == IF q.settled + 1 < Len(q.decided) THEN "settle" ELSE "record"
  <1>1. q.answers \in Seq(Answer) /\ q.decided \in Seq(Nat) /\ q.settled \in Nat
    BY DEF Request
  <1>2. q.settled < Len(q.decided)
    BY DEF Shape, Batched
  <1>3. q.settled + 1 \in DOMAIN q.decided
    BY <1>1, <1>2
  <1>4. i \in DOMAIN q.answers
    BY <1>3 DEF Shape, Batched
  <1>5. q.answers[i] \in Answer
    BY <1>1, <1>4
  <1>6. Settled(q.answers[i]) \in Answer
    BY <1>5, SettledFields
  <1>7. c \in Seq(Answer) /\ DOMAIN c = DOMAIN q.answers /\ Len(c) = Len(q.answers)
    BY <1>1, <1>4, <1>6
  <1>8. \A j \in DOMAIN q.answers :
            c[j] = IF j = i THEN Settled(q.answers[j]) ELSE q.answers[j]
    BY <1>4
  <1>. HIDE DEF i, c, p
  <1>9. SettleNext(q) = [q EXCEPT !.settled = q.settled + 1, !.answers = c, !.pc = p]
    BY DEF SettleNext, Unsettled, i, c, p, Request
  <1>10. p \in {"settle", "record"}
    BY DEF p
  <1>11. SettleNext(q) \in Request
    <2>1. q.settled + 1 \in Nat
      BY <1>1
    <2>2. [q EXCEPT !.settled = q.settled + 1, !.answers = c, !.pc = p] \in Request
      BY <2>1, <1>7, <1>10, SettledRequest, Zenon
    <2>. QED BY <2>2, <1>9
  <1>. QED BY <1>3, <1>4, <1>7, <1>8, <1>9, <1>11 DEF Request, i, p

\* An exchange that has settled a decision is well shaped.
LEMMA SettleShape ==
    ASSUME NEW q \in Request, Shape(q), q.pc = "settle"
    PROVE  Shape(SettleNext(q))
  <1>. DEFINE b == SettleNext(q)
              i == q.decided[q.settled + 1]
  <1>1. /\ b \in Request
        /\ q.settled + 1 \in DOMAIN q.decided
        /\ i \in DOMAIN q.answers
        /\ DOMAIN b.answers = DOMAIN q.answers /\ Len(b.answers) = Len(q.answers)
        /\ \A j \in DOMAIN q.answers :
               b.answers[j] = IF j = i THEN Settled(q.answers[j]) ELSE q.answers[j]
        /\ b.settled = q.settled + 1
        /\ b.decided = q.decided /\ b.todo = q.todo /\ b.kind = q.kind
        /\ b.semantic = q.semantic
        /\ b.pc = IF q.settled + 1 < Len(q.decided) THEN "settle" ELSE "record"
    BY SettleFields
  <1>2. q.answers \in Seq(Answer) /\ q.decided \in Seq(Nat) /\ q.settled \in Nat
    BY DEF Request
  <1>3. \A j \in DOMAIN q.answers : q.answers[j] \in Answer
    BY <1>2
  <1>4. \A j \in DOMAIN q.answers :
            b.answers[j].what = "undecided" <=> q.answers[j].what = "undecided"
    BY <1>1, <1>3, SettledFields
  <1>. HIDE DEF b, i
  <1>5. Placed(b)
    BY <1>1 DEF Shape, Placed
  <1>6. Batched(b)
    <2>1. q.settled < Len(q.decided) /\ Len(q.decided) \in Nat
      BY <1>2 DEF Shape, Batched
    <2>2. /\ b.settled <= Len(b.decided)
          /\ b.pc = "settle" => b.settled < Len(b.decided)
          /\ b.pc = "record" => b.settled = Len(b.decided) /\ b.decided # <<>>
          /\ b.pc \in {"settle", "record"}
      BY <2>1, <1>1, <1>2
    <2>3. ASSUME NEW k \in DOMAIN b.decided
          PROVE  /\ b.decided[k] \in DOMAIN b.answers
                 /\ b.answers[b.decided[k]].what # "undecided"
                 /\ \A l \in DOMAIN b.decided : b.decided[k] = b.decided[l] => k = l
      <3>1. /\ q.decided[k] \in DOMAIN q.answers
            /\ q.answers[q.decided[k]].what # "undecided"
            /\ \A l \in DOMAIN q.decided : q.decided[k] = q.decided[l] => k = l
        BY <1>1 DEF Shape, Batched
      <3>. QED BY <3>1, <1>1, <1>4
    <2>4. b.kind = "decide"
      BY <1>1 DEF Shape, Placed
    <2>. QED BY <2>2, <2>3, <2>4 DEF Batched
  <1>7. ASSUME NEW j \in DOMAIN b.answers, Ends(b.semantic, b.answers[j].what)
        PROVE  j = Len(b.answers)
    <2>1. CASE j = i
      <3>1. q.semantic # "execute_all"
        BY <1>1, <1>7 DEF Ends
      <3>. QED BY <2>1, <3>1, <1>1 DEF Shape, Stopped, i
    <2>2. CASE j # i
      BY <2>2, <1>1, <1>7 DEF Shape, Stopped
    <2>. QED BY <2>1, <2>2
  <1>8. Stopped(b)
    <2>1. b.pc \in {"settle", "record"}
      BY <1>1
    <2>2. q.kind = "decide"
      BY DEF Shape, Placed
    <2>. QED BY <2>1, <2>2, <1>1, <1>7 DEF Shape, Stopped
  <1>. QED BY <1>5, <1>6, <1>8 DEF Shape, b

\* What recording its decisions changes in the exchange.
LEMMA LandedFields ==
    ASSUME NEW q \in Request, ledger \in Seq(Event)
    PROVE  LET a == Landed(q) IN
           /\ a \in Request
           /\ DOMAIN a.answers = DOMAIN q.answers /\ Len(a.answers) = Len(q.answers)
           /\ \A i \in DOMAIN q.answers :
                  /\ a.answers[i].what = q.answers[i].what
                  /\ a.answers[i].mission = q.answers[i].mission
                  /\ \/ \E k \in DOMAIN q.decided :
                            q.decided[k] = i /\ a.answers[i].at = Len(ledger) + k
                     \/ /\ ~\E k \in DOMAIN q.decided : q.decided[k] = i
                        /\ a.answers[i].at = q.answers[i].at
           /\ a.decided = <<>> /\ a.settled = 0
           /\ a.todo = q.todo /\ a.kind = q.kind /\ a.semantic = q.semantic
           /\ a.since = q.since /\ a.now_s = q.now_s /\ a.held = q.held /\ a.pc = q.pc
  <1>. DEFINE Num(i) == CHOOSE k \in DOMAIN q.decided : q.decided[k] = i
              Holds(i) == \E k \in DOMAIN q.decided : q.decided[k] = i
              Put(i) == IF Holds(i) THEN [q.answers[i] EXCEPT !.at = Len(ledger) + Num(i)]
                        ELSE q.answers[i]
              c == [i \in DOMAIN q.answers |-> Put(i)]
  <1>1. q.answers \in Seq(Answer) /\ q.decided \in Seq(Nat) /\ Len(ledger) \in Nat
    BY DEF Request
  <1>2. \A i \in DOMAIN q.answers : q.answers[i] \in Answer
    BY <1>1
  <1>3. \A i : Holds(i) => Num(i) \in DOMAIN q.decided /\ q.decided[Num(i)] = i
    OBVIOUS
  <1>4. \A k \in DOMAIN q.decided : k \in Nat
    BY <1>1
  <1>. HIDE DEF Num
  <1>5. ASSUME NEW i \in DOMAIN q.answers
        PROVE  /\ Put(i) \in Answer
               /\ Put(i).what = q.answers[i].what /\ Put(i).mission = q.answers[i].mission
               /\ Put(i).at = IF Holds(i) THEN Len(ledger) + Num(i) ELSE q.answers[i].at
    <2>1. CASE Holds(i)
      <3>1. Len(ledger) + Num(i) \in Nat
        BY <2>1, <1>1, <1>3, <1>4
      <3>. QED BY <2>1, <3>1, <1>2 DEF Answer
    <2>2. CASE ~Holds(i)
      BY <2>2, <1>2
    <2>. QED BY <2>1, <2>2
  <1>. HIDE DEF Put, Holds
  <1>6. c \in Seq(Answer) /\ DOMAIN c = DOMAIN q.answers /\ Len(c) = Len(q.answers)
    BY <1>1, <1>5
  <1>7. \A i \in DOMAIN q.answers : c[i] = Put(i)
    OBVIOUS
  <1>. HIDE DEF c
  <1>8. Landed(q) = [q EXCEPT !.decided = <<>>, !.settled = 0, !.answers = c]
    BY DEF Landed, c, Put, Holds, Num
  <1>9. Landed(q) \in Request
    BY <1>6, <1>8, LandedRequest
  <1>10. \A i \in DOMAIN q.answers :
            \/ \E k \in DOMAIN q.decided : q.decided[k] = i /\ c[i].at = Len(ledger) + k
            \/ /\ ~\E k \in DOMAIN q.decided : q.decided[k] = i
               /\ c[i].at = q.answers[i].at
    BY <1>3, <1>5, <1>7 DEF Holds
  <1>11. \A i \in DOMAIN q.answers :
            c[i].what = q.answers[i].what /\ c[i].mission = q.answers[i].mission
    BY <1>5, <1>7
  <1>12. /\ Landed(q).answers = c /\ Landed(q).decided = <<>> /\ Landed(q).settled = 0
         /\ Landed(q).todo = q.todo /\ Landed(q).kind = q.kind
         /\ Landed(q).semantic = q.semantic /\ Landed(q).since = q.since
         /\ Landed(q).now_s = q.now_s /\ Landed(q).held = q.held /\ Landed(q).pc = q.pc
    BY <1>8 DEF Request
  <1>. QED BY <1>6, <1>9, <1>10, <1>11, <1>12

\* An exchange that has recorded what it decided is well shaped.
LEMMA LandedShape ==
    ASSUME NEW q \in Request, Shape(q), q.pc = "record", q.kind = "decide",
           ledger \in Seq(Event)
    PROVE  LET a == Landed(q)
               b == [a EXCEPT !.pc = Onward(a)]
           IN  b \in Request /\ Shape(b)
  <1>. DEFINE a == Landed(q)
              b == [a EXCEPT !.pc = Onward(a)]
  <1>1. /\ a \in Request
        /\ DOMAIN a.answers = DOMAIN q.answers /\ Len(a.answers) = Len(q.answers)
        /\ \A i \in DOMAIN q.answers : a.answers[i].what = q.answers[i].what
        /\ a.decided = <<>> /\ a.settled = 0
        /\ a.todo = q.todo /\ a.kind = q.kind /\ a.semantic = q.semantic
    BY LandedFields
  <1>. HIDE DEF a
  <1>2. Stops(a.semantic, a.answers) <=> Ends(a.semantic, a.answers[Len(a.answers)].what)
    BY StopsIsEnds
  <1>3. \/ /\ b.pc = "clock" /\ a.todo # <<>>
           /\ ~Ends(a.semantic, a.answers[Len(a.answers)].what)
        \/ /\ b.pc = "done"
           /\ a.todo # <<>> => Ends(a.semantic, a.answers[Len(a.answers)].what)
    <2>1. b.pc = Onward(a)
      BY <1>1 DEF Request
    <2>. QED BY <2>1, <1>1, <1>2 DEF Onward
  <1>4. /\ b \in Request
        /\ b.answers = a.answers /\ b.decided = <<>> /\ b.settled = 0
        /\ b.todo = q.todo /\ b.kind = "decide" /\ b.semantic = q.semantic
    BY <1>1, <1>3 DEF Request
  <1>5. a.answers # <<>> /\ q.answers \in Seq(Answer) /\ a.answers \in Seq(Answer)
    <2>1. q.answers \in Seq(Answer) /\ a.answers \in Seq(Answer) /\ q.decided \in Seq(Nat)
      BY <1>1 DEF Request
    <2>2. q.decided # <<>>
      BY DEF Shape, Batched
    <2>3. 1 \in DOMAIN q.decided
      BY <2>1, <2>2
    <2>4. q.decided[1] \in DOMAIN q.answers
      BY <2>3 DEF Shape, Batched
    <2>. QED BY <2>1, <2>4, <1>1
  <1>. HIDE DEF b
  <1>6. Placed(b)
    BY <1>1, <1>3, <1>4 DEF Placed
  <1>7. Batched(b)
    BY <1>3, <1>4 DEF Batched
  <1>8. Stopped(b)
    <2>1. ASSUME NEW i \in DOMAIN b.answers, Ends(b.semantic, b.answers[i].what)
          PROVE  i = Len(b.answers) /\ b.pc \notin {"clock", "bind"}
      <3>1. i = Len(b.answers)
        BY <2>1, <1>1, <1>4 DEF Shape, Stopped
      <3>. QED BY <2>1, <3>1, <1>1, <1>3, <1>4
    <2>. QED BY <2>1, <1>1, <1>3, <1>4, <1>5 DEF Stopped
  <1>. QED BY <1>4, <1>6, <1>7, <1>8 DEF Shape, a, b

-----------------------------------------------------------------------------
(* What the steps of the registry and of the ledger do. *)

\* Sweeping, registering and marking build registries.
LEMMA RegistryType ==
    ASSUME NEW map \in Registry, NEW m \in Mission, NEW t \in Nat
    PROVE  /\ Swept(map, t) \in Registry
           /\ Registered(map, m, t) \in Registry
           /\ Marked(map, m) \in Registry
  BY DEF Registry, Status, Swept, Registered, Marked

\* A write of the registry, successful or not, leaves in each place what was
\* there or the new map.
LEMMA WriteFacts ==
    ASSUME NEW map, NEW dirty \in BOOLEAN, Written(map, dirty) \/ WriteFailed(map, dirty)
    PROVE  /\ disk' \in {disk, map} /\ view' \in {view, map}
           /\ stable' \subseteq stable \cup {map}
           /\ stable # {} => stable' # {}
           /\ disk \in stable => disk' \in stable'
  BY DEF Written, WriteFailed, Renamed, registry

\* An append, successful or not, keeps what the ledger held and adds a prefix
\* of the events; one that succeeds adds them all, durably.
LEMMA AppendedFacts ==
    ASSUME NEW events \in Seq(Event), ledger \in Seq(Event), durable \in 0..Len(ledger),
           failed \in BOOLEAN, Recorded(events) \/ RecordFailed(events)
    PROVE  /\ ledger' \in Seq(Event) /\ failed' \in BOOLEAN
           /\ durable' \in durable..Len(ledger')
           /\ Len(ledger) <= Len(ledger')
           /\ Len(ledger') <= Len(ledger) + Len(events)
           /\ \A i \in 1..Len(ledger) : ledger'[i] = ledger[i]
           /\ \A k \in 1..(Len(ledger') - Len(ledger)) :
                  ledger'[Len(ledger) + k] = events[k]
           /\ Recorded(events) => /\ Len(ledger') = Len(ledger) + Len(events)
                                  /\ durable' = Len(ledger')
  <1>. DEFINE n == Len(ledger)
  <1>1. n \in Nat /\ Len(events) \in Nat /\ durable \in Nat
    OBVIOUS
  <1>2. CASE Recorded(events)
    <2>1. ledger' = ledger \o events /\ durable' = Len(ledger') /\ failed' = failed
      BY <1>2 DEF Recorded
    <2>. QED BY <1>1, <2>1
  <1>3. CASE RecordFailed(events)
    <2>0. PICK k \in 0..(IF failed THEN 0 ELSE Len(events)) :
              ledger' = ledger \o SubSeq(events, 1, k)
      BY <1>3 DEF RecordFailed
    <2>1. k \in 0..Len(events)
      BY <2>0, <1>1
    <2>2. /\ SubSeq(events, 1, k) \in Seq(Event) /\ Len(SubSeq(events, 1, k)) = k
          /\ \A i \in 1..k : SubSeq(events, 1, k)[i] = events[i]
      BY <2>1, <1>1
    <2>3. failed' = TRUE /\ durable' = durable
      BY <1>3 DEF RecordFailed
    <2>. DEFINE s == SubSeq(events, 1, k)
    <2>. HIDE DEF s
    <2>4. s \in Seq(Event) /\ Len(s) = k /\ k \in Nat /\ k <= Len(events)
          /\ ledger' = ledger \o s /\ \A i \in 1..k : s[i] = events[i]
      BY <2>0, <2>1, <2>2, <1>1 DEF s
    <2>6. Len(ledger') = n + k /\ ledger' \in Seq(Event)
      <3>1. Len(ledger \o s) = Len(ledger) + Len(s) /\ ledger \o s \in Seq(Event)
        BY <2>4, ConcatProperties
      <3>. QED BY <3>1, <2>4
    <2>7. \A i \in 1..n : ledger'[i] = ledger[i]
      BY <2>4
    <2>8. \A i \in 1..k : ledger'[n + i] = events[i]
      BY <2>4, <1>1
    <2>9. ~Recorded(events)
      BY <1>3 DEF RecordFailed, Recorded
    <2>. QED BY <2>3, <2>4, <2>6, <2>7, <2>8, <2>9, <1>1
  <1>. QED BY <1>2, <1>3

\* The events of each kind of append.
LEMMA EventTypes ==
    ASSUME NEW m \in Mission, NEW held \in BOOLEAN
    PROVE  /\ <<[what |-> "approve", mission |-> m, held |-> FALSE]>> \in Seq(Event)
           /\ <<[what |-> "terminate", mission |-> m, held |-> held]>> \in Seq(Event)
  BY DEF Event

\* What an exchange has decided is a sequence of events.
LEMMA DecidedEvents ==
    ASSUME NEW q \in Request, Shape(q)
    PROVE  LET events == [k \in DOMAIN q.decided |-> EventOf(q.answers[q.decided[k]])]
           IN  events \in Seq(Event) /\ Len(events) = Len(q.decided)
  <1>1. q.answers \in Seq(Answer) /\ q.decided \in Seq(Nat)
    BY DEF Request
  <1>2. ASSUME NEW k \in DOMAIN q.decided
        PROVE  EventOf(q.answers[q.decided[k]]) \in Event
    <2>1. q.decided[k] \in DOMAIN q.answers /\ q.answers[q.decided[k]].what # "undecided"
      BY DEF Shape, Batched
    <2>2. q.answers[q.decided[k]] \in Answer
      BY <1>1, <2>1
    <2>. QED BY <2>1, <2>2 DEF EventOf, Answer, Event
  <1>. QED BY <1>1, <1>2

-----------------------------------------------------------------------------
(* Types, and the shape of every request. *)

\* A step that moves one request to a well-shaped value keeps every request so.
LEMMA ReqKept ==
    ASSUME ShapeInv, NEW r \in Req, NEW q \in Request, Shape(q),
           req' = [req EXCEPT ![r] = q]
    PROVE  /\ req' \in [Req -> Request] /\ \A x \in Req : Shape(req'[x])
           /\ req'[r] = q /\ \A x \in Req : x # r => req'[x] = req[x]
  BY DEF ShapeInv, TypeOK

\* The mutex is held by a request that settles or records, or by none.
LEMMA LockHeld ==
    ASSUME NEW r \in Req, NEW f
    PROVE  /\ f[r].pc \in {"settle", "record"} =>
                 {r} \in SUBSET {x \in Req : f[x].pc \in {"settle", "record"}}
           /\ {} \in SUBSET {x \in Req : f[x].pc \in {"settle", "record"}}
           /\ Cardinality({r}) <= 1 /\ Cardinality({}) <= 1
  <1>1. Cardinality({r}) = 1 /\ Cardinality({}) = 0
    BY FS_Singleton, FS_EmptySet
  <1>. QED BY <1>1

\* A step of a request that does not hold the mutex leaves its holder in place.
LEMMA LockKept ==
    ASSUME ShapeInv, NEW r \in Req, lock' = lock,
           req[r].pc \notin {"settle", "record"} \/ lock = {},
           \A x \in Req : x # r => req'[x] = req[x]
    PROVE  /\ lock' \in SUBSET {x \in Req : req'[x].pc \in {"settle", "record"}}
           /\ Cardinality(lock') <= 1
  BY DEF ShapeInv, TypeOK

\* A step of one request that touches neither the registry nor the ledger.
LEMMA QuietStep ==
    ASSUME ShapeInv, NEW r \in Req, NEW q \in Request, Shape(q),
           req' = [req EXCEPT ![r] = q],
           req[r].pc \notin {"settle", "record"},
           UNCHANGED <<now, registry, log, lock, ended>>
    PROVE  ShapeInv'
  <1>1. /\ req' \in [Req -> Request] /\ \A x \in Req : Shape(req'[x])
        /\ req'[r] = q /\ \A x \in Req : x # r => req'[x] = req[x]
    BY ReqKept
  <1>2. /\ lock' \in SUBSET {x \in Req : req'[x].pc \in {"settle", "record"}}
        /\ Cardinality(lock') <= 1
    BY <1>1, LockKept
  <1>. QED BY <1>1, <1>2 DEF ShapeInv, TypeOK, registry, log

\* The subject of a request that still has something to do is a mission.
LEMMA SubjectType ==
    ASSUME ShapeInv, NEW r \in Req, req[r].todo # <<>>
    PROVE  Subject(r) \in Mission
  <1>1. req[r].todo \in Seq(Mission)
    BY DEF ShapeInv, TypeOK, Request
  <1>. QED BY <1>1 DEF Subject

\* Whether the termination a request marks has its tombstone on disk for good.
HeldForGood(r) ==
    /\ disk[Subject(r)] # "none"
    /\ MarkDirty(r) \/ \A old \in stable : old[Subject(r)] = "terminated"

\* What a request that registers or marks writes is a registry.
LEMMA WrittenType ==
    ASSUME ShapeInv, NEW r \in Req, req[r].pc \in {"register", "mark"}
    PROVE  /\ Subject(r) \in Mission /\ req[r].now_s \in Nat
           /\ Registering(r) \in Registry /\ Marking(r) \in Registry
           /\ RegisterDirty(r) \in BOOLEAN /\ MarkDirty(r) \in BOOLEAN
           /\ HeldForGood(r) \in BOOLEAN
  <1>1. req[r] \in Request /\ Shape(req[r]) /\ disk \in Registry
    BY DEF ShapeInv, TypeOK
  <1>2. Subject(r) \in Mission /\ req[r].now_s \in Nat
    BY <1>1, SubjectType DEF Shape, Placed, Request
  <1>3. Registering(r) \in Registry /\ Marking(r) \in Registry
    BY <1>1, <1>2, RegistryType DEF Registering, Marking
  <1>. QED BY <1>2, <1>3 DEF RegisterDirty, MarkDirty, HeldForGood

\* A mark ends its mission for good when it leaves a tombstone in every content
\* the file may have.
LEMMA MarkFacts ==
    ASSUME ShapeInv, NEW r \in Req, Mark(r)
    PROVE  /\ req[r].pc = "mark" /\ UNCHANGED <<now, log, lock>>
           /\ ended' \in SUBSET Mission
           /\ \/ /\ Written(Marking(r), MarkDirty(r))
                 /\ req' = [req EXCEPT ![r] =
                        [req[r] EXCEPT !.pc = "record", !.held = HeldForGood(r)]]
                 /\ ended' = IF HeldForGood(r) THEN ended \cup {Subject(r)} ELSE ended
              \/ /\ WriteFailed(Marking(r), MarkDirty(r))
                 /\ req' = [req EXCEPT ![r] = Idle]
                 /\ ended' = ended
  <1>1. req[r].pc = "mark" /\ UNCHANGED <<now, log, lock>>
    BY DEF Mark
  <1>2. Subject(r) \in Mission /\ ended \in SUBSET Mission
    BY <1>1, WrittenType DEF ShapeInv, TypeOK
  <1>3. \/ /\ Written(Marking(r), MarkDirty(r))
           /\ req' = [req EXCEPT ![r] =
                  [req[r] EXCEPT !.pc = "record", !.held = HeldForGood(r)]]
           /\ ended' = IF HeldForGood(r) THEN ended \cup {Subject(r)} ELSE ended
        \/ /\ WriteFailed(Marking(r), MarkDirty(r))
           /\ req' = [req EXCEPT ![r] = Idle]
           /\ ended' = ended
    BY DEF Mark, HeldForGood
  <1>4. ended' \in SUBSET Mission
    BY <1>2, <1>3
  <1>. QED BY <1>1, <1>3, <1>4

\* A kill within a write leaves the map that was renamed into place, and no
\* request in progress.
LEMMA KillFacts ==
    ASSUME ShapeInv, NEW r \in Req, KilledInWrite(r)
    PROVE  /\ UNCHANGED <<now, ledger, durable, ended>>
           /\ req' = [x \in Req |-> Idle] /\ lock' = {} /\ failed' = FALSE
           /\ \/ req[r].pc = "register" /\ Renamed(Registering(r))
              \/ req[r].pc = "mark" /\ Renamed(Marking(r))
           /\ \E map \in Registry : Renamed(map)
  <1>1. \/ req[r].pc = "register" /\ Renamed(Registering(r))
        \/ req[r].pc = "mark" /\ Renamed(Marking(r))
    BY DEF KilledInWrite
  <1>2. \E map \in Registry : Renamed(map)
    BY <1>1, WrittenType
  <1>. QED BY <1>1, <1>2 DEF KilledInWrite, Restarted

\* Every step keeps the types and the shape of every request.
LEMMA ShapeStep == ShapeInv /\ [Next]_vars => ShapeInv'
  <1>. SUFFICES ASSUME ShapeInv, [Next]_vars PROVE ShapeInv'
    OBVIOUS
  <1>0. /\ \A r \in Req : req[r] \in Request /\ Shape(req[r])
        /\ now \in Nat /\ disk \in Registry /\ view \in Registry
        /\ ledger \in Seq(Event) /\ durable \in 0..Len(ledger) /\ failed \in BOOLEAN
    BY DEF ShapeInv, TypeOK
  <1>1. ASSUME NEW r \in Req, NEW m \in Mission, NEW kind \in {"approve", "terminate"},
               Begin(r, kind, "execute_all", <<m>>)
        PROVE  ShapeInv'
    <2>1. <<m>> \in Seq(Mission) /\ <<m>> # <<>>
      OBVIOUS
    <2>. DEFINE q == [Idle EXCEPT !.pc = "clock", !.kind = kind, !.semantic = "execute_all",
                                  !.todo = <<m>>, !.since = now]
    <2>2. q \in Request /\ Shape(q)
      BY <2>1, <1>0, BeginShape, Zenon
    <2>3. req' = [req EXCEPT ![r] = q] /\ req[r].pc = "idle"
          /\ UNCHANGED <<now, registry, log, lock, ended>>
      BY <1>1 DEF Begin
    <2>. HIDE DEF q
    <2>. QED BY <2>2, <2>3, QuietStep
  <1>2. ASSUME NEW r \in Req, NEW n \in 1..MaxItems, NEW semantic \in Semantics(n),
               NEW items \in [1..n -> Mission], Begin(r, "decide", semantic, items)
        PROVE  ShapeInv'
    <2>1. items \in Seq(Mission) /\ items # <<>>
      BY MissionBoundAssumption
    <2>2. semantic \in {"execute_all", "deny_on_first_deny", "permit_on_first_permit"}
      BY SemanticAssumption DEF Semantics
    <2>. DEFINE q == [Idle EXCEPT !.pc = "clock", !.kind = "decide", !.semantic = semantic,
                                  !.todo = items, !.since = now]
    <2>3. q \in Request /\ Shape(q)
      BY <2>1, <2>2, <1>0, BeginShape, Zenon
    <2>4. req' = [req EXCEPT ![r] = q] /\ req[r].pc = "idle"
          /\ UNCHANGED <<now, registry, log, lock, ended>>
      BY <1>2 DEF Begin
    <2>. HIDE DEF q
    <2>. QED BY <2>3, <2>4, QuietStep
  <1>3. ASSUME NEW r \in Req, ReadClock(r) PROVE ShapeInv'
    <2>. DEFINE a == [req[r] EXCEPT !.pc = AfterClock(req[r].kind), !.now_s = now]
                q == IF req[r].kind = "approve" /\ Expiry[Subject(r)] <= now THEN Idle ELSE a
    <2>0. req[r].pc = "clock"
      BY <1>3 DEF ReadClock
    <2>1. a \in Request /\ Shape(a)
      BY <2>0, <1>0, ClockShape, Zenon
    <2>2. q \in Request /\ Shape(q)
      BY <2>1, IdleShape
    <2>3. req' = [req EXCEPT ![r] = q] /\ req[r].pc = "clock"
          /\ UNCHANGED <<now, registry, log, lock, ended>>
      BY <1>3 DEF ReadClock
    <2>. HIDE DEF q
    <2>. QED BY <2>2, <2>3, QuietStep
  <1>4. ASSUME NEW r \in Req, RegistryUnreadable(r) \/ Respond(r) PROVE ShapeInv'
    BY <1>4, IdleShape, QuietStep DEF RegistryUnreadable, Respond
  <1>5. ASSUME NEW r \in Req, ApproveStatus(r) PROVE ShapeInv'
    <2>. DEFINE a == [req[r] EXCEPT !.pc = "record"]
                q == IF view[Subject(r)] = "terminated" THEN Idle ELSE a
    <2>1. a \in Request /\ Placed(a) /\ Batched(a) /\ Stopped(a)
      BY <1>0, <1>5 DEF ApproveStatus, Request, Shape, Placed, Batched, Stopped
    <2>2. q \in Request /\ Shape(q)
      BY <2>1, IdleShape DEF Shape
    <2>3. req' = [req EXCEPT ![r] = q] /\ req[r].pc = "status"
          /\ UNCHANGED <<now, registry, log, lock, ended>>
      BY <1>5 DEF ApproveStatus
    <2>. HIDE DEF q
    <2>. QED BY <2>2, <2>3, QuietStep
  <1>6. ASSUME NEW r \in Req, TerminateStatus(r) PROVE ShapeInv'
    <2>. DEFINE a == [req[r] EXCEPT !.pc = "mark"]
                q == IF view[Subject(r)] = "none" THEN Idle ELSE a
    <2>1. a \in Request /\ Placed(a) /\ Batched(a) /\ Stopped(a)
      BY <1>0, <1>6 DEF TerminateStatus, Request, Shape, Placed, Batched, Stopped
    <2>2. q \in Request /\ Shape(q)
      BY <2>1, IdleShape DEF Shape
    <2>3. req' = [req EXCEPT ![r] = q] /\ req[r].pc = "status"
          /\ UNCHANGED <<now, registry, log, lock, ended>>
      BY <1>6 DEF TerminateStatus
    <2>. HIDE DEF q
    <2>. QED BY <2>2, <2>3, QuietStep
  <1>7. ASSUME NEW r \in Req, ApproveRecord(r) \/ TerminateRecord(r) PROVE ShapeInv'
    <2>1. req[r].pc = "record" /\ req[r].kind # "decide" /\ lock = {} /\ lock' = lock
          /\ UNCHANGED <<now, registry, ended>>
      BY <1>7 DEF ApproveRecord, TerminateRecord
    <2>2. Subject(r) \in Mission /\ req[r].held \in BOOLEAN
      BY <2>1, <1>0, SubjectType DEF Shape, Placed, Request
    <2>3. PICK events \in Seq(Event) : Recorded(events) \/ RecordFailed(events)
      BY <2>2, <1>7, EventTypes DEF ApproveRecord, TerminateRecord
    <2>4. ledger' \in Seq(Event) /\ failed' \in BOOLEAN /\ durable' \in durable..Len(ledger')
      BY <2>3, <1>0, AppendedFacts
    <2>. DEFINE a == [req[r] EXCEPT !.pc = "register"]
    <2>5. req[r].kind = "approve" => a \in Request /\ Shape(a)
      BY <2>1, <1>0, ApprovedShape, Zenon
    <2>6. \/ req' = [req EXCEPT ![r] = Idle]
          \/ req[r].kind = "approve" /\ req' = [req EXCEPT ![r] = a]
      BY <1>7 DEF ApproveRecord, TerminateRecord
    <2>. HIDE DEF a
    <2>7. PICK q \in Request : Shape(q) /\ req' = [req EXCEPT ![r] = q]
      BY <2>5, <2>6, IdleShape
    <2>8. /\ req' \in [Req -> Request] /\ \A x \in Req : Shape(req'[x])
          /\ \A x \in Req : x # r => req'[x] = req[x]
      BY <2>7, ReqKept
    <2>9. /\ lock' \in SUBSET {x \in Req : req'[x].pc \in {"settle", "record"}}
          /\ Cardinality(lock') <= 1
      BY <2>1, <2>8, LockKept
    <2>. QED BY <2>1, <2>4, <2>8, <2>9, <1>0 DEF ShapeInv, TypeOK, registry
  <1>8. ASSUME NEW r \in Req, Register(r) \/ Mark(r) PROVE ShapeInv'
    <2>1. req[r].pc \in {"register", "mark"} /\ lock' = lock /\ UNCHANGED <<now, log>>
      BY <1>8 DEF Register, Mark
    <2>2. \/ Register(r) /\ (Written(Registering(r), RegisterDirty(r))
                               \/ WriteFailed(Registering(r), RegisterDirty(r)))
          \/ Mark(r) /\ (Written(Marking(r), MarkDirty(r))
                           \/ WriteFailed(Marking(r), MarkDirty(r)))
      BY <1>8 DEF Register, Mark
    <2>3. PICK map \in Registry, dirty \in BOOLEAN :
              Written(map, dirty) \/ WriteFailed(map, dirty)
      BY <2>1, <2>2, WrittenType
    <2>4. disk' \in Registry /\ view' \in Registry
          /\ stable' \in SUBSET Registry /\ stable' # {}
      BY <2>3, WriteFacts DEF ShapeInv, TypeOK
    <2>5. ended' \in SUBSET Mission
      BY <1>8, MarkFacts DEF Register, ShapeInv, TypeOK
    <2>. DEFINE a == [req[r] EXCEPT !.pc = "record", !.held = HeldForGood(r)]
    <2>6. req[r].pc = "mark" => a \in Request /\ Shape(a)
      <3>1. HeldForGood(r) \in BOOLEAN
        BY <2>1, WrittenType
      <3>. QED BY <3>1, <1>0, MarkedShape, Zenon
    <2>7. \/ req' = [req EXCEPT ![r] = Idle]
          \/ req[r].pc = "mark" /\ req' = [req EXCEPT ![r] = a]
      <3>1. CASE Register(r)
        BY <3>1 DEF Register
      <3>2. CASE Mark(r)
        BY <3>2, MarkFacts
      <3>. QED BY <1>8, <3>1, <3>2
    <2>. HIDE DEF a
    <2>8. PICK q \in Request : Shape(q) /\ req' = [req EXCEPT ![r] = q]
      BY <2>6, <2>7, IdleShape
    <2>9. /\ req' \in [Req -> Request] /\ \A x \in Req : Shape(req'[x])
          /\ \A x \in Req : x # r => req'[x] = req[x]
      BY <2>8, ReqKept
    <2>10. /\ lock' \in SUBSET {x \in Req : req'[x].pc \in {"settle", "record"}}
           /\ Cardinality(lock') <= 1
      BY <2>1, <2>9, LockKept
    <2>. QED BY <2>1, <2>4, <2>5, <2>9, <2>10, <1>0 DEF ShapeInv, TypeOK, log
  <1>9. ASSUME NEW r \in Req, Bind(r) PROVE ShapeInv'
    <2>1. req[r].pc = "bind" /\ UNCHANGED <<now, registry, log, lock, ended>>
      BY <1>9 DEF Bind
    <2>2. Subject(r) \in Mission
      BY <2>1, <1>0, SubjectType DEF Shape, Placed
    <2>. DEFINE a(what) == Answered(req[r], what, Subject(r))
                b(what) == [a(what) EXCEPT !.pc =
                    IF what # "undecided" /\ a(what).semantic # "execute_all"
                    THEN "settle" ELSE Onward(a(what))]
    <2>3. PICK what \in {"allow", "deny", "undecided"} : req' = [req EXCEPT ![r] = b(what)]
      BY <1>9 DEF Bind
    <2>4. b(what) \in Request /\ Shape(b(what))
      BY <2>1, <2>2, <1>0, BindShape, Zenon
    <2>. HIDE DEF b
    <2>. QED BY <2>1, <2>3, <2>4, QuietStep
  <1>10. ASSUME NEW r \in Req, Settle(r) PROVE ShapeInv'
    <2>1. req' = [req EXCEPT ![r] = SettleNext(req[r])] /\ req[r].pc = "settle"
          /\ lock' = {r} /\ UNCHANGED <<now, registry, log, ended>>
      BY <1>10 DEF Settle, SettleNext
    <2>2. SettleNext(req[r]) \in Request /\ Shape(SettleNext(req[r]))
          /\ SettleNext(req[r]).pc \in {"settle", "record"}
      BY <2>1, <1>0, SettleFields, SettleShape
    <2>3. req' \in [Req -> Request] /\ \A x \in Req : Shape(req'[x])
          /\ req'[r] = SettleNext(req[r])
      BY <2>1, <2>2, ReqKept
    <2>4. lock' \in SUBSET {x \in Req : req'[x].pc \in {"settle", "record"}}
          /\ Cardinality(lock') <= 1
      BY <2>1, <2>2, <2>3, LockHeld
    <2>. QED BY <2>1, <2>3, <2>4 DEF ShapeInv, TypeOK, registry, log
  <1>11. ASSUME NEW r \in Req, SettleFailed(r) PROVE ShapeInv'
    <2>1. req' = [req EXCEPT ![r] = Idle] /\ lock' = {}
          /\ UNCHANGED <<now, registry, log, ended>>
      BY <1>11 DEF SettleFailed
    <2>2. req' \in [Req -> Request] /\ \A x \in Req : Shape(req'[x])
      BY <2>1, IdleShape, ReqKept
    <2>. QED BY <2>1, <2>2, LockHeld DEF ShapeInv, TypeOK, registry, log
  <1>12. ASSUME NEW r \in Req, DecideRecord(r) PROVE ShapeInv'
    <2>1. req[r].pc = "record" /\ req[r].kind = "decide" /\ lock' = {}
          /\ UNCHANGED <<now, registry, ended>>
      BY <1>12 DEF DecideRecord
    <2>. DEFINE events == [k \in DOMAIN req[r].decided |->
                               EventOf(req[r].answers[req[r].decided[k]])]
                b == [Landed(req[r]) EXCEPT !.pc = Onward(Landed(req[r]))]
    <2>2. events \in Seq(Event)
      BY <1>0, DecidedEvents
    <2>3. Recorded(events) \/ RecordFailed(events)
      BY <1>12 DEF DecideRecord
    <2>4. req' = [req EXCEPT ![r] = b] \/ req' = [req EXCEPT ![r] = Idle]
      BY <1>12 DEF DecideRecord
    <2>5. b \in Request /\ Shape(b)
      BY <2>1, <1>0, LandedShape, Zenon
    <2>. HIDE DEF events, b
    <2>6. ledger' \in Seq(Event) /\ failed' \in BOOLEAN /\ durable' \in durable..Len(ledger')
      BY <2>2, <2>3, <1>0, AppendedFacts
    <2>7. req' \in [Req -> Request] /\ \A x \in Req : Shape(req'[x])
      BY <2>4, <2>5, IdleShape, ReqKept
    <2>8. Cardinality(lock') <= 1
      BY <2>1, FS_EmptySet
    <2>. QED BY <2>1, <2>6, <2>7, <2>8, <1>0 DEF ShapeInv, TypeOK, registry
  <1>13. ASSUME Tick PROVE ShapeInv'
    BY <1>13 DEF Tick, ShapeInv, TypeOK, registry, log
  <1>14. ASSUME Restart PROVE ShapeInv'
    <2>1. req' = [r \in Req |-> Idle] /\ lock' = {} /\ failed' = FALSE /\ view' = disk
          /\ UNCHANGED <<now, disk, stable, ledger, durable, ended>>
      BY <1>14 DEF Restart, Restarted
    <2>2. req' \in [Req -> Request] /\ \A x \in Req : Shape(req'[x])
      BY <2>1, IdleShape
    <2>3. Cardinality(lock') <= 1
      BY <2>1, FS_EmptySet
    <2>. QED BY <2>1, <2>2, <2>3 DEF ShapeInv, TypeOK
  <1>15. ASSUME PowerLoss PROVE ShapeInv'
    <2>1. req' = [r \in Req |-> Idle] /\ lock' = {} /\ failed' = FALSE
          /\ disk' \in stable /\ stable' = {disk'} /\ view' = disk' /\ UNCHANGED <<now, ended>>
          /\ durable' = Len(ledger')
      BY <1>15 DEF PowerLoss, Restarted
    <2>2. req' \in [Req -> Request] /\ \A x \in Req : Shape(req'[x])
      BY <2>1, IdleShape
    <2>3. Cardinality(lock') <= 1
      BY <2>1, FS_EmptySet
    <2>4. PICK n \in durable..Len(ledger) : ledger' = SubSeq(ledger, 1, n)
      BY <1>15 DEF PowerLoss
    <2>5. ledger' \in Seq(Event)
      BY <2>4, <1>0
    <2>6. durable' \in 0..Len(ledger')
      BY <2>1, <2>5
    <2>. QED BY <2>1, <2>2, <2>3, <2>5, <2>6 DEF ShapeInv, TypeOK
  <1>16. ASSUME NEW r \in Req, KilledInWrite(r) PROVE ShapeInv'
    <2>1. req' = [x \in Req |-> Idle] /\ lock' = {} /\ failed' = FALSE
          /\ UNCHANGED <<now, ledger, durable, ended>>
      BY <1>16, KillFacts
    <2>2. PICK map \in Registry : Renamed(map)
      BY <1>16, KillFacts
    <2>3. disk' \in Registry /\ view' \in Registry
          /\ stable' \in SUBSET Registry /\ stable' # {}
      BY <2>2 DEF Renamed, ShapeInv, TypeOK
    <2>4. req' \in [Req -> Request] /\ \A x \in Req : Shape(req'[x])
      BY <2>1, IdleShape
    <2>5. Cardinality(lock') <= 1
      BY <2>1, FS_EmptySet
    <2>. QED BY <2>1, <2>3, <2>4, <2>5 DEF ShapeInv, TypeOK
  <1>17. ASSUME UNCHANGED vars PROVE ShapeInv'
    BY <1>17 DEF vars, ShapeInv, TypeOK
  <1>. QED
    BY <1>1, <1>2, <1>3, <1>4, <1>5, <1>6, <1>7, <1>8, <1>9, <1>10, <1>11, <1>12, <1>13,
       <1>14, <1>15, <1>16, <1>17
       DEF Next, Step

\* In the initial states no request is in progress.
LEMMA ShapeInit == Init => ShapeInv
  <1>. SUFFICES ASSUME Init PROVE ShapeInv
    OBVIOUS
  <1>1. req \in [Req -> Request] /\ \A r \in Req : Shape(req[r])
    BY IdleShape DEF Init
  <1>2. Cardinality(lock) <= 1
    BY FS_EmptySet DEF Init
  <1>3. ledger \in Seq(Event) /\ durable \in 0..Len(ledger)
    BY DEF Init
  <1>4. disk \in Registry /\ view \in Registry /\ stable \in SUBSET Registry /\ stable # {}
    BY DEF Init, Registry, Status
  <1>. QED BY <1>1, <1>2, <1>3, <1>4 DEF Init, ShapeInv, TypeOK

-----------------------------------------------------------------------------
(* What is live is recorded. *)

\* The steps of a request that write neither the registry nor the ledger.
Quiet(r) ==
    \/ \E kind, semantic, items : Begin(r, kind, semantic, items)
    \/ ReadClock(r) \/ RegistryUnreadable(r) \/ ApproveStatus(r) \/ TerminateStatus(r)
    \/ Bind(r) \/ Settle(r) \/ SettleFailed(r) \/ Respond(r)

\* Every step is a quiet one, an append, a write of the registry or a fault.
LEMMA StepKinds ==
    ASSUME Next
    PROVE  \/ \E r \in Req : Quiet(r)
           \/ \E r \in Req : ApproveRecord(r) \/ TerminateRecord(r) \/ DecideRecord(r)
           \/ \E r \in Req : Register(r) \/ Mark(r) \/ KilledInWrite(r)
           \/ Tick \/ Restart \/ PowerLoss
  BY DEF Next, Step, Quiet

\* A quiet step moves one request, never to the point of registering.
LEMMA QuietFacts ==
    ASSUME ShapeInv, NEW r \in Req, Quiet(r)
    PROVE  /\ UNCHANGED <<now, registry, log, ended>>
           /\ \A x \in Req : x # r => req'[x] = req[x]
           /\ req'[r].pc # "register"
           /\ req[r].pc \notin {"register", "mark"}
  <1>0. req \in [Req -> Request]
    BY DEF ShapeInv, TypeOK
  <1>1. ASSUME NEW kind, NEW semantic, NEW items, Begin(r, kind, semantic, items)
        PROVE  req'[r].pc = "clock" /\ req[r].pc = "idle"
    BY <1>0, <1>1 DEF Begin, Idle
  <1>2. ASSUME ReadClock(r) PROVE req'[r].pc \in {"idle", "bind", "status"}
    BY <1>0, <1>2 DEF ReadClock, AfterClock, Idle, Request
  <1>3. ASSUME RegistryUnreadable(r) \/ SettleFailed(r) \/ Respond(r)
        PROVE  req'[r].pc = "idle"
    BY <1>0, <1>3 DEF RegistryUnreadable, SettleFailed, Respond, Idle
  <1>4. ASSUME ApproveStatus(r) \/ TerminateStatus(r)
        PROVE  req'[r].pc \in {"idle", "record", "mark"}
    BY <1>0, <1>4 DEF ApproveStatus, TerminateStatus, Idle, Request
  <1>5. ASSUME Bind(r) PROVE req'[r].pc \in {"clock", "settle", "done"}
    <2>. DEFINE a(what) == Answered(req[r], what, Subject(r))
                p(what) == IF what # "undecided" /\ a(what).semantic # "execute_all"
                           THEN "settle" ELSE Onward(a(what))
    <2>1. PICK what : req' = [req EXCEPT ![r] = [a(what) EXCEPT !.pc = p(what)]]
      BY <1>5 DEF Bind
    <2>2. p(what) \in {"clock", "settle", "done"}
      BY DEF Onward
    <2>3. [a(what) EXCEPT !.pc = p(what)].pc = p(what)
      BY <1>0 DEF Answered, Request
    <2>. HIDE DEF a, p
    <2>. QED BY <1>0, <2>1, <2>2, <2>3
  <1>6. ASSUME Settle(r) PROVE req'[r].pc \in {"settle", "record"}
    BY <1>0, <1>6 DEF Settle, Request
  <1>7. UNCHANGED <<now, registry, log, ended>> /\ \A x \in Req : x # r => req'[x] = req[x]
    BY <1>0 DEF Quiet, Begin, ReadClock, RegistryUnreadable, ApproveStatus, TerminateStatus,
                Bind, Settle, SettleFailed, Respond
  <1>8. req[r].pc \notin {"register", "mark"}
    BY DEF Quiet, Begin, ReadClock, RegistryUnreadable, ApproveStatus, TerminateStatus,
           Bind, Settle, SettleFailed, Respond
  <1>. QED BY <1>1, <1>2, <1>3, <1>4, <1>5, <1>6, <1>7, <1>8 DEF Quiet

\* The mission's approval is durably on the ledger.
Approved(m) ==
    \E i \in 1..durable : ledger[i].what = "approve" /\ ledger[i].mission = m

\* What is durable stays.
LEMMA ApprovedKept ==
    ASSUME NEW m, Approved(m), durable \in Nat, durable' \in Nat, durable <= durable',
           \A i \in 1..durable : ledger'[i] = ledger[i]
    PROVE  Approved(m)'
  BY DEF Approved

\* A sweep, a mark and a registration make at most the registered mission live.
LEMMA LiveMaps ==
    ASSUME NEW map \in Registry, NEW m \in Mission, NEW x \in Mission, NEW t
    PROVE  /\ Swept(map, t)[x] = "active" => map[x] = "active"
           /\ Swept(Marked(map, m), t)[x] = "active" => map[x] = "active"
           /\ Registered(map, m, t)[x] = "active" => map[x] = "active" \/ x = m
  BY DEF Registry, Status, Swept, Marked, Registered

RegisterInv == LiveIsRecorded /\ ApprovalIsRecorded

\* No step makes a mission live whose approval is not durably recorded.
LEMMA RegisterStep == ShapeInv /\ ShapeInv' /\ RegisterInv /\ [Next]_vars => RegisterInv'
  <1>. SUFFICES ASSUME ShapeInv, ShapeInv', RegisterInv, [Next]_vars PROVE RegisterInv'
    OBVIOUS
  <1>0. /\ ledger \in Seq(Event) /\ durable \in 0..Len(ledger) /\ failed \in BOOLEAN
        /\ Len(ledger) \in Nat /\ durable \in Nat /\ disk \in Registry /\ view \in Registry
        /\ stable \in SUBSET Registry
        /\ req \in [Req -> Request]
        /\ \A r \in Req : req[r] \in Request /\ Shape(req[r])
    BY DEF ShapeInv, TypeOK
  <1>1. /\ \A map \in stable \cup {disk, view} : \A m \in Mission :
               map[m] = "active" => Approved(m)
        /\ \A r \in Req : req[r].pc = "register" => Approved(Subject(r))
    BY DEF RegisterInv, LiveIsRecorded, ApprovalIsRecorded, Approved
  <1>2. ASSUME UNCHANGED <<ledger, durable>> PROVE \A m : Approved(m)' <=> Approved(m)
    BY <1>2 DEF Approved
  <1>. DEFINE Lives == \A map \in stable' \cup {disk', view'} : \A m \in Mission :
                           map[m] = "active" => Approved(m)'
              Approves == \A r \in Req : req'[r].pc = "register" => Approved(Subject(r))'
  <1>3. SUFFICES Lives /\ Approves
    BY DEF RegisterInv, LiveIsRecorded, ApprovalIsRecorded, Approved
  <1>4. ASSUME NEW r \in Req, Quiet(r) PROVE Lives /\ Approves
    <2>1. UNCHANGED <<ledger, durable, disk, view, stable>>
      BY <1>4, QuietFacts DEF registry, log
    <2>2. /\ req'[r].pc # "register"
          /\ \A x \in Req : x # r => req'[x] = req[x]
      BY <1>4, QuietFacts
    <2>3. Lives
      BY <2>1, <1>1, <1>2
    <2>4. Approves
      BY <2>1, <2>2, <1>1, <1>2 DEF Subject
    <2>. QED BY <2>3, <2>4
  <1>5. ASSUME NEW r \in Req, NEW events \in Seq(Event),
               Recorded(events) \/ RecordFailed(events), UNCHANGED registry,
               \A x \in Req : x # r => req'[x] = req[x],
               req'[r].pc = "register" => Approved(Subject(r))'
        PROVE  Lives /\ Approves
    <2>1. /\ durable' \in durable..Len(ledger') /\ ledger' \in Seq(Event)
          /\ \A i \in 1..Len(ledger) : ledger'[i] = ledger[i]
      BY <1>0, <1>5, AppendedFacts
    <2>0. Len(ledger') \in Nat /\ durable <= Len(ledger)
      BY <2>1, <1>0
    <2>2. durable' \in Nat /\ durable <= durable' /\ \A i \in 1..durable : ledger'[i] = ledger[i]
      BY <2>0, <2>1, <1>0
    <2>3. \A m : Approved(m) => Approved(m)'
      BY <2>2, <1>0, ApprovedKept
    <2>4. Lives
      BY <2>3, <1>1, <1>5 DEF registry
    <2>5. Approves
      BY <2>3, <1>1, <1>5 DEF Subject
    <2>. QED BY <2>4, <2>5
  <1>6. ASSUME NEW r \in Req, ApproveRecord(r) PROVE Lives /\ Approves
    <2>. DEFINE event == [what |-> "approve", mission |-> Subject(r), held |-> FALSE]
                events == <<event>>
    <2>1. req[r].pc = "record" /\ req[r].kind = "approve" /\ UNCHANGED registry
      BY <1>6 DEF ApproveRecord
    <2>2. Subject(r) \in Mission
      BY <2>1, <1>0, SubjectType DEF Shape, Placed
    <2>3. events \in Seq(Event) /\ Len(events) = 1 /\ events[1] = event
      BY <2>2, EventTypes
    <2>4. \/ Recorded(events) /\ req' = [req EXCEPT ![r].pc = "register"]
          \/ RecordFailed(events) /\ req' = [req EXCEPT ![r] = Idle]
      BY <1>6 DEF ApproveRecord
    <2>. HIDE DEF events
    <2>5. CASE Recorded(events) /\ req' = [req EXCEPT ![r].pc = "register"]
      <3>1. /\ Len(ledger') = Len(ledger) + 1 /\ durable' = Len(ledger')
            /\ ledger'[Len(ledger) + 1] = events[1]
        <4>1. /\ Len(ledger') = Len(ledger) + Len(events) /\ durable' = Len(ledger')
              /\ \A k \in 1..(Len(ledger') - Len(ledger)) : ledger'[Len(ledger) + k] = events[k]
          BY <1>0, <2>3, <2>5, AppendedFacts
        <4>2. Len(ledger') - Len(ledger) = 1
          BY <4>1, <2>3, <1>0
        <4>3. Len(ledger') = Len(ledger) + 1 /\ durable' = Len(ledger')
          BY <4>1, <2>3
        <4>4. 1 \in 1..(Len(ledger') - Len(ledger))
          BY <4>2
        <4>5. ledger'[Len(ledger) + 1] = events[1]
          BY <4>1, <4>4
        <4>. QED BY <4>3, <4>5
      <3>2. Subject(r)' = Subject(r)
        BY <1>0, <2>5 DEF Subject, Request
      <3>3. Approved(Subject(r))'
        BY <3>1, <3>2, <2>3, <1>0 DEF Approved
      <3>4. \A x \in Req : x # r => req'[x] = req[x]
        BY <2>5, <1>0
      <3>. QED BY <1>5, <2>1, <2>3, <2>5, <3>3, <3>4
    <2>6. CASE RecordFailed(events) /\ req' = [req EXCEPT ![r] = Idle]
      <3>1. req'[r].pc = "idle" /\ \A x \in Req : x # r => req'[x] = req[x]
        BY <2>6, <1>0 DEF Idle
      <3>. QED BY <1>5, <2>1, <2>3, <2>6, <3>1
    <2>. QED BY <2>4, <2>5, <2>6
  <1>7. ASSUME NEW r \in Req, TerminateRecord(r) PROVE Lives /\ Approves
    <2>1. req[r].pc = "record" /\ req[r].kind = "terminate" /\ UNCHANGED registry
          /\ req' = [req EXCEPT ![r] = Idle]
      BY <1>7 DEF TerminateRecord
    <2>2. Subject(r) \in Mission /\ req[r].held \in BOOLEAN
      BY <2>1, <1>0, SubjectType DEF Shape, Placed, Request
    <2>3. PICK events \in Seq(Event) : Recorded(events) \/ RecordFailed(events)
      BY <2>2, <1>7, EventTypes DEF TerminateRecord
    <2>4. req'[r].pc = "idle" /\ \A x \in Req : x # r => req'[x] = req[x]
      BY <2>1, <1>0 DEF Idle
    <2>. QED BY <1>5, <2>1, <2>3, <2>4
  <1>8. ASSUME NEW r \in Req, DecideRecord(r) PROVE Lives /\ Approves
    <2>. DEFINE events == [k \in DOMAIN req[r].decided |->
                               EventOf(req[r].answers[req[r].decided[k]])]
                p == Onward(Landed(req[r]))
    <2>1. events \in Seq(Event)
      BY <1>0, DecidedEvents
    <2>2. (Recorded(events) \/ RecordFailed(events)) /\ UNCHANGED registry
      BY <1>8 DEF DecideRecord
    <2>3. \/ req' = [req EXCEPT ![r] = [Landed(req[r]) EXCEPT !.pc = p]]
          \/ req' = [req EXCEPT ![r] = Idle]
      BY <1>8 DEF DecideRecord
    <2>4. p # "register"
      BY DEF Onward
    <2>5. Landed(req[r]) \in Request
      BY <1>0, LandedFields
    <2>. HIDE DEF events, p
    <2>6. [Landed(req[r]) EXCEPT !.pc = p].pc = p
      BY <2>5 DEF Request
    <2>7. req'[r].pc # "register" /\ \A x \in Req : x # r => req'[x] = req[x]
      <3>1. CASE req' = [req EXCEPT ![r] = Idle]
        BY <3>1, <1>0 DEF Idle
      <3>2. CASE req' = [req EXCEPT ![r] = [Landed(req[r]) EXCEPT !.pc = p]]
        <4>1. req'[r] = [Landed(req[r]) EXCEPT !.pc = p] /\ \A x \in Req : x # r => req'[x] = req[x]
          BY <3>2, <1>0, Zenon
        <4>. QED BY <4>1, <2>4, <2>6
      <3>. QED BY <2>3, <3>1, <3>2
    <2>. QED BY <1>5, <2>1, <2>2, <2>7
  <1>maps. /\ \A r \in Req : req[r].pc = "register" =>
                \A m \in Mission : Registering(r)[m] = "active" =>
                    disk[m] = "active" \/ Approved(m)
         /\ \A r \in Req : req[r].pc = "mark" =>
                \A m \in Mission : Marking(r)[m] = "active" => disk[m] = "active"
    <2>1. ASSUME NEW r \in Req, req[r].pc = "register", NEW m \in Mission,
                 Registering(r)[m] = "active"
          PROVE  disk[m] = "active" \/ Approved(m)
      <3>1. Subject(r) \in Mission
        BY <2>1, WrittenType
      <3>. QED BY <2>1, <3>1, <1>0, <1>1, LiveMaps DEF Registering
    <2>2. ASSUME NEW r \in Req, req[r].pc = "mark", NEW m \in Mission,
                 Marking(r)[m] = "active"
          PROVE  disk[m] = "active"
      <3>1. Subject(r) \in Mission
        BY <2>2, WrittenType
      <3>. QED BY <2>2, <3>1, <1>0, LiveMaps DEF Marking
    <2>. QED BY <2>1, <2>2
  <1>9. ASSUME NEW r \in Req, NEW map \in Registry, NEW dirty \in BOOLEAN,
               Written(map, dirty) \/ WriteFailed(map, dirty), UNCHANGED log,
               \A m \in Mission : map[m] = "active" => disk[m] = "active" \/ Approved(m),
               req'[r].pc # "register", \A x \in Req : x # r => req'[x] = req[x]
        PROVE  Lives /\ Approves
    <2>1. /\ disk' \in {disk, map} /\ view' \in {view, map}
          /\ stable' \subseteq stable \cup {map}
      BY <1>9, WriteFacts
    <2>2. UNCHANGED <<ledger, durable>>
      BY <1>9 DEF log
    <2>3. Lives
      BY <2>1, <2>2, <1>1, <1>2, <1>9
    <2>4. Approves
      BY <2>2, <1>1, <1>2, <1>9 DEF Subject
    <2>. QED BY <2>3, <2>4
  <1>10. ASSUME NEW r \in Req, Register(r) PROVE Lives /\ Approves
    <2>. DEFINE map == Registering(r)
                dirty == RegisterDirty(r)
    <2>1. req[r].pc = "register" /\ req' = [req EXCEPT ![r] = Idle] /\ UNCHANGED log
          /\ (Written(map, dirty) \/ WriteFailed(map, dirty))
      BY <1>10 DEF Register
    <2>2. map \in Registry /\ dirty \in BOOLEAN
      BY <2>1, WrittenType
    <2>3. \A m \in Mission : map[m] = "active" => disk[m] = "active" \/ Approved(m)
      BY <2>1, <1>maps
    <2>4. req'[r].pc # "register" /\ \A x \in Req : x # r => req'[x] = req[x]
      BY <2>1, <1>0 DEF Idle
    <2>. HIDE DEF map, dirty
    <2>. QED BY <1>9, <2>1, <2>2, <2>3, <2>4
  <1>11. ASSUME NEW r \in Req, Mark(r) PROVE Lives /\ Approves
    <2>. DEFINE map == Marking(r)
                dirty == MarkDirty(r)
                h == HeldForGood(r)
    <2>1. req[r].pc = "mark" /\ UNCHANGED log
          /\ (Written(map, dirty) \/ WriteFailed(map, dirty))
          /\ \/ req' = [req EXCEPT ![r] = [req[r] EXCEPT !.pc = "record", !.held = h]]
             \/ req' = [req EXCEPT ![r] = Idle]
      BY <1>11, MarkFacts
    <2>2. map \in Registry /\ dirty \in BOOLEAN
      BY <2>1, WrittenType
    <2>3. \A m \in Mission : map[m] = "active" => disk[m] = "active"
      BY <2>1, <1>maps
    <2>. HIDE DEF h
    <2>4. req'[r].pc # "register" /\ \A x \in Req : x # r => req'[x] = req[x]
      <3>1. CASE req' = [req EXCEPT ![r] = Idle]
        BY <3>1, <1>0 DEF Idle
      <3>2. CASE req' = [req EXCEPT ![r] = [req[r] EXCEPT !.pc = "record", !.held = h]]
        BY <3>2, <1>0 DEF Request
      <3>. QED BY <2>1, <3>1, <3>2
    <2>. HIDE DEF map, dirty
    <2>. QED BY <1>9, <2>1, <2>2, <2>3, <2>4
  <1>12. ASSUME Tick PROVE Lives /\ Approves
    BY <1>1, <1>2, <1>12 DEF Tick, registry, log, Subject
  <1>13. ASSUME Restart PROVE Lives /\ Approves
    <2>1. UNCHANGED <<disk, stable, ledger, durable>> /\ view' = disk
          /\ req' = [r \in Req |-> Idle]
      BY <1>13 DEF Restart, Restarted
    <2>. QED BY <2>1, <1>1, <1>2 DEF Idle
  <1>14. ASSUME PowerLoss PROVE Lives /\ Approves
    <2>1. /\ disk' \in stable /\ stable' = {disk'} /\ view' = disk'
          /\ req' = [r \in Req |-> Idle] /\ durable' = Len(ledger')
      BY <1>14 DEF PowerLoss, Restarted
    <2>2. PICK n \in durable..Len(ledger) : ledger' = SubSeq(ledger, 1, n)
      BY <1>14 DEF PowerLoss
    <2>3. durable' = n /\ \A i \in 1..durable : ledger'[i] = ledger[i]
      BY <2>1, <2>2, <1>0
    <2>4. \A m : Approved(m) => Approved(m)'
      BY <2>2, <2>3, <1>0, ApprovedKept
    <2>5. Lives
      BY <2>1, <2>4, <1>1
    <2>6. Approves
      BY <2>1 DEF Idle
    <2>. QED BY <2>5, <2>6
  <1>15. ASSUME NEW r \in Req, KilledInWrite(r) PROVE Lives /\ Approves
    <2>1. UNCHANGED <<ledger, durable>> /\ req' = [x \in Req |-> Idle]
      BY <1>15, KillFacts
    <2>2. PICK map : /\ Renamed(map)
                     /\ \A m \in Mission : map[m] = "active" => disk[m] = "active" \/ Approved(m)
      BY <1>maps, <1>15, KillFacts
    <2>3. disk' = map /\ view' = map /\ stable' \subseteq stable \cup {map}
      BY <2>2 DEF Renamed
    <2>4. Lives
      BY <2>1, <2>2, <2>3, <1>1, <1>2
    <2>5. Approves
      BY <2>1 DEF Idle
    <2>. QED BY <2>4, <2>5
  <1>16. ASSUME UNCHANGED vars PROVE Lives /\ Approves
    BY <1>1, <1>2, <1>16 DEF vars, Subject
  <1>. HIDE DEF Lives, Approves
  <1>. QED
    BY <1>4, <1>6, <1>7, <1>8, <1>10, <1>11, <1>12, <1>13, <1>14, <1>15, <1>16, StepKinds

\* What the registry shows live, on disk, in a read or after a power loss, is
\* durably recorded as approved, for every set of missions, requests and faults
\* (approve_now records before it registers).
THEOREM RegistryAlwaysSound == Spec => []RegistrySound
  <1>1. Init => RegisterInv
    BY DEF Init, RegisterInv, LiveIsRecorded, ApprovalIsRecorded, Idle
  <1>2. ShapeInv /\ RegisterInv => RegistrySound
    BY DEF ShapeInv, RegisterInv, RegistrySound
  <1>. QED BY <1>1, <1>2, ShapeInit, ShapeStep, RegisterStep, PTL DEF Spec

-----------------------------------------------------------------------------
(* What ended stays ended. *)

\* A request that is not in progress is timely.
LEMMA IdleTimely == ASSUME now \in Nat PROVE Timely(Idle)
  BY DEF Timely, Idle

\* A request in progress stays so while its times stay and no answer becomes an
\* Allow.
LEMMA TimelyKept ==
    ASSUME NEW q \in Request, NEW b \in Request, Timely(q),
           q.pc \notin {"idle", "clock"}, b.since = q.since, b.now_s = q.now_s,
           \A i \in DOMAIN b.answers : b.answers[i].what = "allow" =>
               /\ i \in DOMAIN q.answers /\ q.answers[i].what = "allow"
               /\ b.answers[i].mission = q.answers[i].mission
    PROVE  Timely(b)
  BY DEF Timely

\* An exchange that binds an item to an Allow does so under a mission that has
\* not expired by the clock it read.
LEMMA BindTimely ==
    ASSUME NEW q \in Request, q.todo # <<>>, q.pc = "bind", Timely(q), NEW m \in Mission,
           NEW what \in {"allow", "deny", "undecided"},
           what = "allow" => Expiry[m] > q.now_s,
           NEW b \in Request, b.since = q.since, b.now_s = q.now_s,
           b.answers = Answered(q, what, m).answers
    PROVE  Timely(b)
  <1>. DEFINE n == Len(q.answers)
  <1>0. LET c == Answered(q, what, m).answers IN
        /\ Len(c) = n + 1
        /\ c[n + 1] = [what |-> what, mission |-> m, at |-> 0]
        /\ \A i \in 1..n : c[i] = q.answers[i]
    BY AnsweredFields
  <1>1. /\ Len(b.answers) = n + 1
        /\ b.answers[n + 1] = [what |-> what, mission |-> m, at |-> 0]
        /\ \A i \in 1..n : b.answers[i] = q.answers[i]
    BY <1>0
  <1>2. q.answers \in Seq(Answer) /\ b.answers \in Seq(Answer) /\ n \in Nat
        /\ q.since \in Nat /\ q.now_s \in Nat
    BY DEF Request
  <1>3. Expiry[m] \in Nat
    BY ExpiryAssumption
  <1>4. q.since <= now /\ now <= q.since + Patience /\ q.now_s <= now /\ q.since <= q.now_s
    BY DEF Timely
  <1>5. ASSUME NEW i \in DOMAIN b.answers, b.answers[i].what = "allow"
        PROVE  b.since < Expiry[b.answers[i].mission]
    <2>1. CASE i = n + 1
      BY <2>1, <1>1, <1>2, <1>3, <1>4, <1>5
    <2>2. CASE i # n + 1
      <3>1. i \in 1..n /\ i \in DOMAIN q.answers
        BY <2>2, <1>1, <1>2
      <3>. QED BY <3>1, <1>1, <1>5 DEF Timely
    <2>. QED BY <2>1, <2>2
  <1>. QED BY <1>4, <1>5 DEF Timely

\* A quiet step leaves the request it moves timely.
LEMMA QuietTimely ==
    ASSUME ShapeInv, ShapeInv', NEW r \in Req, Quiet(r), Timely(req[r])
    PROVE  Timely(req'[r])
  <1>0. now \in Nat /\ req \in [Req -> Request] /\ req[r] \in Request /\ Shape(req[r])
        /\ req'[r] \in Request /\ Patience \in Nat \ {0}
    BY PatienceAssumption DEF ShapeInv, TypeOK
  <1>1. ASSUME NEW kind, NEW semantic, NEW items, Begin(r, kind, semantic, items)
        PROVE  Timely(req'[r])
    <2>1. req'[r].since = now /\ req'[r].now_s = 0 /\ req'[r].answers = <<>>
          /\ req'[r].pc = "clock"
      BY <1>0, <1>1 DEF Begin, Idle
    <2>. QED BY <2>1, <1>0 DEF Timely
  <1>2. ASSUME ReadClock(r) PROVE Timely(req'[r])
    <2>1. CASE req'[r] = Idle
      BY <2>1, <1>0, IdleTimely
    <2>2. CASE req'[r] # Idle
      <3>1. req'[r] = [req[r] EXCEPT !.pc = AfterClock(req[r].kind), !.now_s = now]
            /\ req[r].pc = "clock"
        BY <2>2, <1>0, <1>2 DEF ReadClock
      <3>2. req'[r].since = req[r].since /\ req'[r].now_s = now
            /\ req'[r].answers = req[r].answers
        BY <3>1, <1>0 DEF Request
      <3>. QED BY <3>1, <3>2, <1>0 DEF Timely
    <2>. QED BY <2>1, <2>2
  <1>3. ASSUME RegistryUnreadable(r) \/ SettleFailed(r) \/ Respond(r)
        PROVE  Timely(req'[r])
    <2>1. req'[r] = Idle
      BY <1>0, <1>3 DEF RegistryUnreadable, SettleFailed, Respond
    <2>. QED BY <2>1, <1>0, IdleTimely
  <1>4. ASSUME ApproveStatus(r) \/ TerminateStatus(r) PROVE Timely(req'[r])
    <2>1. CASE req'[r] = Idle
      BY <2>1, <1>0, IdleTimely
    <2>2. CASE req'[r] # Idle
      <3>1. PICK p : req'[r] = [req[r] EXCEPT !.pc = p]
        BY <2>2, <1>0, <1>4 DEF ApproveStatus, TerminateStatus
      <3>2. req'[r].since = req[r].since /\ req'[r].now_s = req[r].now_s
            /\ req'[r].answers = req[r].answers
        BY <3>1, <1>0 DEF Request
      <3>3. req[r].pc = "status"
        BY <1>4 DEF ApproveStatus, TerminateStatus
      <3>. QED BY <3>2, <3>3, <1>0, TimelyKept
    <2>. QED BY <2>1, <2>2
  <1>5. ASSUME Bind(r) PROVE Timely(req'[r])
    <2>. DEFINE a(what) == Answered(req[r], what, Subject(r))
                p(what) == IF what # "undecided" /\ a(what).semantic # "execute_all"
                           THEN "settle" ELSE Onward(a(what))
    <2>1. PICK what \in {"allow", "deny", "undecided"} :
              /\ req' = [req EXCEPT ![r] = [a(what) EXCEPT !.pc = p(what)]]
              /\ what = "allow" => Expiry[Subject(r)] > req[r].now_s
      BY <1>5 DEF Bind
    <2>2. req[r].pc = "bind" /\ req[r].todo # <<>>
      BY <1>0, <1>5 DEF Bind, Shape, Placed
    <2>3. Subject(r) \in Mission
      BY <2>2, SubjectType
    <2>4. a(what) \in Request /\ a(what).since = req[r].since /\ a(what).now_s = req[r].now_s
      BY <2>2, <2>3, <1>0, AnsweredFields
    <2>. HIDE DEF a, p
    <2>5. req'[r] = [a(what) EXCEPT !.pc = p(what)]
      BY <2>1, <1>0
    <2>6. req'[r].since = req[r].since /\ req'[r].now_s = req[r].now_s
          /\ req'[r].answers = a(what).answers
      BY <2>4, <2>5 DEF Request
    <2>. QED BY <2>1, <2>2, <2>3, <2>6, <1>0, BindTimely DEF a
  <1>6. ASSUME Settle(r) PROVE Timely(req'[r])
    <2>1. req' = [req EXCEPT ![r] = SettleNext(req[r])] /\ req[r].pc = "settle"
      BY <1>6 DEF Settle, SettleNext
    <2>2. req'[r] = SettleNext(req[r])
      BY <2>1, <1>0, Zenon
    <2>3. /\ DOMAIN req'[r].answers = DOMAIN req[r].answers
          /\ \A j \in DOMAIN req[r].answers :
                 \/ req'[r].answers[j] = Settled(req[r].answers[j])
                 \/ req'[r].answers[j] = req[r].answers[j]
          /\ req'[r].since = req[r].since /\ req'[r].now_s = req[r].now_s
      BY <2>1, <2>2, <1>0, SettleFields
    <2>4. \A j \in DOMAIN req[r].answers : req[r].answers[j] \in Answer
      BY <1>0 DEF Request
    <2>5. ASSUME NEW i \in DOMAIN req'[r].answers, req'[r].answers[i].what = "allow"
          PROVE  /\ i \in DOMAIN req[r].answers /\ req[r].answers[i].what = "allow"
                 /\ req'[r].answers[i].mission = req[r].answers[i].mission
      BY <2>3, <2>4, <2>5, SettledFields
    <2>. QED BY <2>1, <2>3, <2>5, <1>0, TimelyKept
  <1>. QED BY <1>1, <1>2, <1>3, <1>4, <1>5, <1>6 DEF Quiet

\* A sweep at a time the clock has passed keeps a tombstone, or drops it when
\* no request can register or decide under the mission any more.
LEMMA SweptTombstone ==
    ASSUME now \in Nat, NEW map \in Registry, NEW m \in Mission, NEW t \in Nat, t <= now,
           Tombstone(map, m)
    PROVE  Tombstone(Swept(map, t), m)
  <1>1. Expiry[m] \in Nat /\ Retention \in Nat
    BY ExpiryAssumption, PatienceAssumption
  <1>. QED BY <1>1 DEF Tombstone, Swept, Retained

\* A registration that is still in progress does not bring back what ended.
LEMMA RegisteredTombstone ==
    ASSUME now \in Nat, NEW map \in Registry, NEW m \in Mission, NEW s \in Mission,
           NEW t \in Nat, t <= now, now <= t + Retention, Tombstone(map, m)
    PROVE  Tombstone(Registered(map, s, t), m)
  <1>1. Expiry[m] \in Nat /\ Retention \in Nat
    BY ExpiryAssumption, PatienceAssumption
  <1>2. Tombstone(Swept(map, t), m)
    BY SweptTombstone
  <1>3. Swept(map, t)[m] = "none" => Expiry[m] <= t
    BY <1>1, <1>2 DEF Tombstone
  <1>4. Swept(map, t) \in Registry
    BY RegistryType
  <1>5. Registered(map, s, t)[m] = Swept(map, t)[m]
    BY <1>1, <1>3, <1>4 DEF Registered, Registry
  <1>. QED BY <1>2, <1>5 DEF Tombstone

\* Every step keeps requests timely and the tombstones of what ended.
LEMMA EndedStep == ShapeInv /\ ShapeInv' /\ EndedInv /\ [Next]_vars => EndedInv'
  <1>. SUFFICES ASSUME ShapeInv, ShapeInv', EndedInv, [Next]_vars PROVE EndedInv'
    OBVIOUS
  <1>0. /\ now \in Nat /\ disk \in Registry /\ view \in Registry
        /\ stable \in SUBSET Registry /\ ended \subseteq Mission
        /\ req \in [Req -> Request] /\ req' \in [Req -> Request]
        /\ \A r \in Req : req[r] \in Request /\ Shape(req[r])
        /\ \A r \in Req : req'[r] \in Request
        /\ ledger \in Seq(Event)
    BY DEF ShapeInv, TypeOK
  <1>1. /\ disk \in stable
        /\ \A r \in Req : Timely(req[r])
        /\ \A m \in ended : \A map \in stable \cup {disk, view} : Tombstone(map, m)
    BY DEF EndedInv
  <1>3. ASSUME now' = now
        PROVE  /\ \A q : Timely(q)' <=> Timely(q)
               /\ \A map, m : Tombstone(map, m)' <=> Tombstone(map, m)
    BY <1>3 DEF Timely, Tombstone
  <1>. DEFINE Kept == \A m \in ended' :
                          \A map \in stable' \cup {disk', view'} : Tombstone(map, m)
  <1>4. ASSUME now' = now, disk' \in stable', \A r \in Req : Timely(req'[r]), Kept
        PROVE  EndedInv'
    <2>1. \A r \in Req : Timely(req[r])'
      BY <1>4 DEF Timely
    <2>2. ASSUME NEW m \in ended', NEW map \in stable' \cup {disk', view'}
          PROVE  Tombstone(map, m)'
      BY <1>4 DEF Tombstone
    <2>3. (\A m \in ended : \A map \in stable \cup {disk, view} : Tombstone(map, m))'
      BY <2>2
    <2>. QED BY <2>1, <2>3, <1>4 DEF EndedInv
  <1>5. ASSUME NEW r \in Req, Quiet(r) PROVE EndedInv'
    <2>1. /\ now' = now /\ UNCHANGED <<disk, view, stable, ended>>
          /\ \A x \in Req : x # r => req'[x] = req[x]
      BY <1>5, QuietFacts DEF registry
    <2>2. Timely(req'[r])
      BY <1>1, <1>5, QuietTimely
    <2>3. \A x \in Req : Timely(req'[x])
      BY <2>1, <2>2, <1>1
    <2>. QED BY <2>1, <2>3, <1>1, <1>4
  <1>6. ASSUME NEW r \in Req, ApproveRecord(r) \/ TerminateRecord(r) \/ DecideRecord(r)
        PROVE  EndedInv'
    <2>1. UNCHANGED <<now, disk, view, stable, ended>> /\ req[r].pc = "record"
      BY <1>6 DEF ApproveRecord, TerminateRecord, DecideRecord, registry
    <2>. DEFINE a == [req[r] EXCEPT !.pc = "register"]
                l == Landed(req[r])
                b == [l EXCEPT !.pc = Onward(l)]
    <2>2. \/ req' = [req EXCEPT ![r] = Idle]
          \/ req' = [req EXCEPT ![r] = a]
          \/ req' = [req EXCEPT ![r] = b]
      BY <1>6 DEF ApproveRecord, TerminateRecord, DecideRecord
    <2>3. l \in Request /\ DOMAIN l.answers = DOMAIN req[r].answers
          /\ l.since = req[r].since /\ l.now_s = req[r].now_s
          /\ \A i \in DOMAIN req[r].answers :
                 /\ l.answers[i].what = req[r].answers[i].what
                 /\ l.answers[i].mission = req[r].answers[i].mission
      BY <1>0, LandedFields
    <2>. HIDE DEF l
    <2>4. a.since = req[r].since /\ a.now_s = req[r].now_s /\ a.answers = req[r].answers
      BY <1>0 DEF Request
    <2>5. b.since = l.since /\ b.now_s = l.now_s /\ b.answers = l.answers
      BY <2>3 DEF Request
    <2>. HIDE DEF a, b
    <2>6. /\ req'[r] = Idle \/ req'[r] = a \/ req'[r] = b
          /\ \A x \in Req : x # r => req'[x] = req[x]
      BY <2>2, <1>0
    <2>7. Timely(req'[r])
      <3>1. CASE req'[r] = Idle
        BY <3>1, <1>0, IdleTimely
      <3>2. CASE req'[r] = a
        BY <3>2, <2>1, <2>4, <1>0, <1>1, TimelyKept
      <3>3. CASE req'[r] = b
        <4>1. b \in Request /\ b.since = req[r].since /\ b.now_s = req[r].now_s
          BY <3>3, <2>3, <2>5, <1>0
        <4>2. \A i \in DOMAIN b.answers :
                 /\ i \in DOMAIN req[r].answers /\ b.answers[i].what = req[r].answers[i].what
                 /\ b.answers[i].mission = req[r].answers[i].mission
          BY <2>3, <2>5
        <4>. QED BY <3>3, <4>1, <4>2, <2>1, <1>0, <1>1, TimelyKept
      <3>. QED BY <2>6, <3>1, <3>2, <3>3
    <2>8. \A x \in Req : Timely(req'[x])
      BY <2>6, <2>7, <1>1
    <2>. QED BY <2>1, <2>8, <1>1, <1>4
  <1>7. ASSUME NEW r \in Req, req[r].pc \in {"register", "mark"}
        PROVE  /\ Subject(r) \in Mission /\ req[r].now_s \in Nat
               /\ req[r].now_s <= now /\ now <= req[r].now_s + Retention
    <2>1. Subject(r) \in Mission
      BY <1>0, <1>7, SubjectType DEF Shape, Placed
    <2>2. Timely(req[r]) /\ req[r] \in Request
      BY <1>0, <1>1
    <2>3. req[r].now_s \in Nat /\ req[r].since \in Nat
      BY <2>2 DEF Request
    <2>4. req[r].now_s <= now /\ req[r].since <= req[r].now_s /\ now <= req[r].since + Patience
      BY <2>2, <1>7 DEF Timely
    <2>5. Patience \in Nat /\ Retention \in Nat /\ Patience <= Retention
      BY PatienceAssumption
    <2>. QED BY <2>1, <2>3, <2>4, <2>5, <1>0
  \* What a request writes keeps the tombstones, and a mark adds one.
  <1>written. /\ \A r \in Req : req[r].pc = "register" =>
                     \A m \in ended : Tombstone(Registering(r), m)
              /\ \A r \in Req : req[r].pc = "mark" =>
                     /\ \A m \in ended : Tombstone(Marking(r), m)
                     /\ disk[Subject(r)] # "none" => Tombstone(Marking(r), Subject(r))
    <2>1. ASSUME NEW r \in Req, req[r].pc = "register", NEW m \in ended
          PROVE  Tombstone(Registering(r), m)
      BY <2>1, <1>0, <1>1, <1>7, RegisteredTombstone DEF Registering
    <2>2. ASSUME NEW r \in Req, req[r].pc = "mark"
          PROVE  /\ \A m \in ended : Tombstone(Marking(r), m)
                 /\ disk[Subject(r)] # "none" => Tombstone(Marking(r), Subject(r))
      <3>. DEFINE s == Subject(r)
      <3>1. s \in Mission /\ req[r].now_s \in Nat /\ req[r].now_s <= now
        BY <2>2, <1>7
      <3>2. Marked(disk, s) \in Registry
        BY <3>1, <1>0, RegistryType
      <3>3. \A m \in ended : Tombstone(Marked(disk, s), m)
        BY <1>0, <1>1, <3>1 DEF Marked, Tombstone, Registry, Status
      <3>4. disk[s] # "none" => Tombstone(Marked(disk, s), s)
        BY <1>0, <3>1 DEF Marked, Tombstone, Registry, Status
      <3>5. ASSUME NEW m \in Mission, Tombstone(Marked(disk, s), m)
            PROVE  Tombstone(Marking(r), m)
        BY <3>1, <3>2, <3>5, <1>0, SweptTombstone DEF Marking
      <3>. QED BY <3>1, <3>3, <3>4, <3>5, <1>0
    <2>. QED BY <2>1, <2>2
  <1>8. ASSUME NEW r \in Req, Register(r) PROVE EndedInv'
    <2>. DEFINE map == Registering(r)
                dirty == RegisterDirty(r)
    <2>1. req[r].pc = "register" /\ req' = [req EXCEPT ![r] = Idle]
          /\ UNCHANGED <<now, ended>> /\ (Written(map, dirty) \/ WriteFailed(map, dirty))
      BY <1>8 DEF Register
    <2>2. \A m \in ended : Tombstone(map, m)
      BY <2>1, <1>written
    <2>3. dirty \in BOOLEAN
      BY <2>1, WrittenType
    <2>. HIDE DEF map, dirty
    <2>4. /\ disk' \in {disk, map} /\ view' \in {view, map}
          /\ stable' \subseteq stable \cup {map} /\ disk' \in stable'
      BY <2>1, <2>3, <1>1, WriteFacts
    <2>5. \A x \in Req : Timely(req'[x])
      BY <2>1, <1>0, <1>1, IdleTimely
    <2>6. Kept
      BY <2>1, <2>2, <2>4, <1>1
    <2>. QED BY <2>1, <2>4, <2>5, <2>6, <1>4
  <1>9. ASSUME NEW r \in Req, Mark(r) PROVE EndedInv'
    <2>. DEFINE s == Subject(r)
                map == Marking(r)
                dirty == MarkDirty(r)
                h == HeldForGood(r)
                marked == [req[r] EXCEPT !.pc = "record", !.held = h]
    <2>1. /\ req[r].pc = "mark" /\ now' = now
          /\ \/ /\ Written(map, dirty)
                /\ req' = [req EXCEPT ![r] = marked]
                /\ ended' = IF h THEN ended \cup {s} ELSE ended
             \/ /\ WriteFailed(map, dirty)
                /\ req' = [req EXCEPT ![r] = Idle]
                /\ ended' = ended
      BY <1>9, MarkFacts
    <2>2. dirty \in BOOLEAN
      BY <2>1, WrittenType
    <2>3. \A m \in ended : Tombstone(map, m)
      BY <2>1, <1>written
    <2>4. h => /\ Tombstone(map, s)
               /\ ~dirty => \A old \in stable : Tombstone(old, s)
      BY <2>1, <1>written DEF HeldForGood, Tombstone
    <2>5. \A x \in Req : Timely(req'[x])
      <3>1. CASE req' = [req EXCEPT ![r] = Idle]
        BY <3>1, <1>0, <1>1, IdleTimely
      <3>2. CASE req' = [req EXCEPT ![r] = marked]
        <4>1. req'[r].since = req[r].since /\ req'[r].now_s = req[r].now_s
              /\ req'[r].answers = req[r].answers
          BY <3>2, <1>0 DEF Request
        <4>2. Timely(req'[r])
          BY <4>1, <2>1, <1>0, <1>1, TimelyKept
        <4>3. \A x \in Req : x # r => req'[x] = req[x]
          BY <3>2, <1>0
        <4>. QED BY <4>2, <4>3, <1>1
      <3>. QED BY <2>1, <3>1, <3>2
    <2>. HIDE DEF s, map, dirty, h, marked
    <2>6. CASE Written(map, dirty)
               /\ ended' = IF h THEN ended \cup {s} ELSE ended
      <3>1. CASE dirty
        <4>1. disk' = map /\ view' = map /\ stable' = {map}
          BY <2>6, <3>1 DEF Written
        <4>2. Kept
          BY <4>1, <2>3, <2>4, <2>6
        <4>. QED BY <4>1, <4>2, <2>1, <2>5, <1>4
      <3>2. CASE ~dirty
        <4>1. disk' = disk /\ view' = map /\ stable' = stable
          BY <2>6, <3>2 DEF Written
        <4>2. ASSUME NEW m \in ended', NEW x \in stable' \cup {disk', view'}
              PROVE  Tombstone(x, m)
          <5>1. x \in stable \/ x = map
            BY <4>1, <4>2, <1>1
          <5>2. m \in ended \/ (h /\ m = s)
            BY <4>2, <2>6
          <5>. QED BY <5>1, <5>2, <2>3, <2>4, <3>2, <1>1
        <4>. QED BY <4>1, <4>2, <2>1, <2>5, <1>1, <1>4
      <3>. QED BY <2>2, <3>1, <3>2
    <2>7. CASE WriteFailed(map, dirty) /\ ended' = ended
      <3>1. /\ disk' \in {disk, map} /\ view' \in {view, map}
            /\ stable' \subseteq stable \cup {map} /\ disk' \in stable'
        BY <2>7, <2>2, <1>1, WriteFacts
      <3>2. Kept
        BY <3>1, <2>3, <2>7, <1>1
      <3>. QED BY <3>1, <3>2, <2>1, <2>5, <1>4
    <2>. QED BY <2>1, <2>6, <2>7
  <1>10. ASSUME Tick PROVE EndedInv'
    <2>1. now' = now + 1 /\ UNCHANGED <<disk, view, stable, req, ended>>
          /\ \A r \in Req : req[r].pc # "idle" => now < req[r].since + Patience
      BY <1>10 DEF Tick, registry
    <2>2. Patience \in Nat /\ Retention \in Nat
      BY PatienceAssumption
    <2>3. ASSUME NEW r \in Req PROVE Timely(req[r])'
      <3>1. Timely(req[r]) /\ req[r].since \in Nat /\ req[r].now_s \in Nat
        BY <1>0, <1>1 DEF Request
      <3>. QED BY <3>1, <2>1, <2>2, <1>0 DEF Timely
    <2>4. ASSUME NEW m \in ended', NEW map \in stable' \cup {disk', view'}
          PROVE  Tombstone(map, m)'
      <3>1. Tombstone(map, m) /\ m \in Mission
        BY <2>1, <2>4, <1>0, <1>1
      <3>2. Expiry[m] \in Nat
        BY <3>1, ExpiryAssumption
      <3>. QED BY <3>1, <3>2, <2>1, <2>2, <1>0 DEF Tombstone
    <2>5. (\A m \in ended : \A map \in stable \cup {disk, view} : Tombstone(map, m))'
      BY <2>4
    <2>. QED BY <2>1, <2>3, <2>5, <1>1 DEF EndedInv
  <1>11. ASSUME Restart \/ PowerLoss PROVE EndedInv'
    <2>1. /\ now' = now /\ ended' = ended /\ req' = [r \in Req |-> Idle]
          /\ disk' \in stable /\ view' = disk' /\ disk' \in stable' /\ stable' \subseteq stable
      BY <1>1, <1>11 DEF Restart, PowerLoss, Restarted
    <2>2. \A x \in Req : Timely(req'[x])
      BY <2>1, <1>0, IdleTimely
    <2>3. Kept
      BY <2>1, <1>1
    <2>. QED BY <2>1, <2>2, <2>3, <1>4
  <1>13. ASSUME NEW r \in Req, KilledInWrite(r) PROVE EndedInv'
    <2>1. now' = now /\ ended' = ended /\ req' = [x \in Req |-> Idle]
      BY <1>13, KillFacts
    <2>2. PICK map : Renamed(map) /\ \A m \in ended : Tombstone(map, m)
      BY <1>13, <1>written, KillFacts
    <2>3. disk' = map /\ view' = map /\ map \in stable' /\ stable' \subseteq stable \cup {map}
      BY <2>2 DEF Renamed
    <2>4. \A x \in Req : Timely(req'[x])
      BY <2>1, <1>0, IdleTimely
    <2>5. Kept
      BY <2>1, <2>2, <2>3, <1>1
    <2>. QED BY <2>1, <2>3, <2>4, <2>5, <1>4
  <1>12. ASSUME UNCHANGED vars PROVE EndedInv'
    <2>1. Kept
      BY <1>1, <1>12 DEF vars
    <2>. QED BY <2>1, <1>1, <1>4, <1>12 DEF vars
  <1>. QED
    BY <1>5, <1>6, <1>8, <1>9, <1>10, <1>11, <1>12, <1>13, StepKinds

\* The tombstones are kept from the start on.
LEMMA EndedInit == Init => EndedInv
  <1>. SUFFICES ASSUME Init PROVE EndedInv
    OBVIOUS
  <1>1. \A r \in Req : Timely(req[r])
    BY IdleTimely DEF Init
  <1>. QED BY <1>1 DEF Init, EndedInv

\* A mission ended with a tombstone on disk for good is never live again, for
\* every expiry, retention, number of requests and set of faults, wherever the
\* process is killed (mission_entry_retained keeps the tombstone past the
\* expiry).
THEOREM EndedNeverRevives == Spec => []NeverRevives
  <1>1. EndedInv => NeverRevives
    BY DEF EndedInv, Tombstone, NeverRevives
  <1>. QED BY <1>1, EndedInit, EndedStep, ShapeInit, ShapeStep, PTL DEF Spec

-----------------------------------------------------------------------------
(* No Allow follows a termination that was taken. *)

\* While the mutex is free or another's, a request has settled nothing.
LEMMA NothingSettled ==
    ASSUME NEW r \in Req, NEW q \in Request, Shape(q), Cleared(r, q), lock # {r}
    PROVE  q.settled = 0 /\ ~(q.pc = "record" /\ q.kind = "decide")
  <1>1. q.settled \in Nat
    BY DEF Request
  <1>2. ~(q.pc = "record" /\ q.kind = "decide")
    BY DEF Cleared
  <1>3. q.pc = "settle" => ~(q.settled > 0)
    BY DEF Cleared
  <1>. QED BY <1>1, <1>2, <1>3 DEF Shape, Batched

\* Nothing that can still be an Allow is under a mission whose termination is
\* recorded, unless the registry shows the mission terminated.
LEMMA TerminationIsSeen ==
    ASSUME now \in Nat, NEW q \in Request, Timely(q), q.pc = "settle",
           NEW i \in DOMAIN q.answers, q.answers[i].what = "allow",
           NEW m \in Mission, q.answers[i].mission = m, Tombstone(view, m)
    PROVE  view[m] = "terminated"
  <1>1. Expiry[m] \in Nat /\ Retention \in Nat /\ Patience \in Nat /\ Patience <= Retention
    BY ExpiryAssumption, PatienceAssumption
  <1>2. q.since \in Nat
    BY DEF Request
  <1>3. q.since < Expiry[m] /\ now <= q.since + Patience
    BY DEF Timely
  <1>. QED BY <1>1, <1>2, <1>3 DEF Tombstone

\* The decision an exchange settles is cleared with those before it.
LEMMA SettleClears ==
    ASSUME ShapeInv, EndedInv, SettledInv, NEW r \in Req, Settle(r)
    PROVE  Cleared(r, req[r])'
  <1>. DEFINE q == req[r]
              b == SettleNext(q)
              i == q.decided[q.settled + 1]
  <1>0. now \in Nat /\ req \in [Req -> Request] /\ q \in Request /\ Shape(q) /\ Timely(q)
        /\ Cleared(r, q)
    BY DEF ShapeInv, TypeOK, EndedInv, SettledInv
  <1>1. q.pc = "settle" /\ lock' = {r} /\ UNCHANGED <<ledger, ended>>
        /\ req' = [req EXCEPT ![r] = b]
    BY DEF Settle, SettleNext, log
  <1>2. req'[r] = b
    BY <1>0, <1>1, Zenon
  <1>3. /\ q.settled + 1 \in DOMAIN q.decided
        /\ i \in DOMAIN q.answers
        /\ \A j \in DOMAIN q.answers :
               b.answers[j] = IF j = i THEN Settled(q.answers[j]) ELSE q.answers[j]
        /\ b.settled = q.settled + 1 /\ b.decided = q.decided /\ b.kind = q.kind
    BY <1>0, <1>1, SettleFields
  <1>4. q.settled \in Nat /\ q.kind = "decide" /\ q.decided \in Seq(Nat)
        /\ \A j \in DOMAIN q.answers : q.answers[j] \in Answer
    BY <1>0, <1>1 DEF Request, Shape, Placed
  <1>5. \A m : TakenTermination(m)' <=> TakenTermination(m)
    BY <1>1 DEF TakenTermination
  <1>. HIDE DEF b
  <1>6. ASSUME NEW k \in 1..b.settled, b.answers[b.decided[k]].what = "allow"
        PROVE  ~TakenTermination(b.answers[b.decided[k]].mission)
    <2>0. k \in 1..(q.settled + 1) /\ k \in DOMAIN q.decided
      BY <1>3, <1>4
    <2>1. CASE k = q.settled + 1
      <3>. DEFINE m == q.answers[i].mission
      <3>1. q.answers[i] \in Answer /\ b.answers[i] = Settled(q.answers[i])
        BY <1>3, <1>4
      <3>2. m \in Mission /\ b.answers[b.decided[k]].mission = m
        BY <3>1, <2>1, <1>3, SettledFields DEF Answer
      <3>3. q.answers[i].what = "allow" /\ view[m] # "terminated"
        BY <3>1, <2>1, <1>3, <1>6, SettledFields
      <3>4. ~Tombstone(view, m)
        BY <3>2, <3>3, <1>0, <1>1, <1>3, TerminationIsSeen
      <3>5. m \notin ended
        BY <3>4 DEF EndedInv
      <3>. QED BY <3>2, <3>5 DEF SettledInv
    <2>2. CASE k # q.settled + 1
      <3>1. k \in 1..q.settled
        BY <2>0, <2>2, <1>4
      <3>2. q.decided[k] \in DOMAIN q.answers /\ q.decided[k] # i
        BY <2>0, <2>2, <1>0, <1>3 DEF Shape, Batched
      <3>3. b.answers[b.decided[k]] = q.answers[q.decided[k]]
        BY <3>2, <1>3
      <3>. QED BY <3>1, <3>3, <1>0, <1>6 DEF Cleared
    <2>. QED BY <2>1, <2>2
  <1>7. req'[r].kind = "decide"
    BY <1>2, <1>3, <1>4
  <1>8. \A k \in 1..req'[r].settled :
            req'[r].answers[req'[r].decided[k]].what = "allow" =>
                ~TakenTermination(req'[r].answers[req'[r].decided[k]].mission)
    BY <1>2, <1>6
  <1>9. \A k \in 1..req'[r].settled :
            req'[r].answers[req'[r].decided[k]].what = "allow" =>
                ~(TakenTermination(req[r].answers[req[r].decided[k]].mission))'
    BY <1>8, <1>1 DEF TakenTermination
  <1>. QED BY <1>1, <1>7, <1>9 DEF Cleared

\* Where an append leaves the terminations and the Allows.
LEMMA AppendClears ==
    ASSUME ledger \in Seq(Event), durable \in 0..Len(ledger), failed \in BOOLEAN,
           NEW events \in Seq(Event), Recorded(events) \/ RecordFailed(events),
           NoAllowAfterTakenTermination,
           \A k \in DOMAIN events : events[k].what = "allow" =>
               ~TakenTermination(events[k].mission),
           Len(events) # 1 => \A k \in DOMAIN events : events[k].what # "terminate"
    PROVE  /\ NoAllowAfterTakenTermination'
           /\ \A m : TakenTermination(m)' => TakenTermination(m)
                  \/ \E k \in DOMAIN events :
                        /\ events[k].what = "terminate" /\ events[k].held
                        /\ events[k].mission = m
  <1>. DEFINE n == Len(ledger)
  <1>1. /\ n \in Nat /\ Len(ledger') \in Nat /\ n <= Len(ledger')
        /\ Len(ledger') <= n + Len(events) /\ Len(events) \in Nat
        /\ DOMAIN events = 1..Len(events)
    <2>1. ledger' \in Seq(Event) /\ n <= Len(ledger') /\ Len(ledger') <= n + Len(events)
      BY AppendedFacts
    <2>. QED BY <2>1
  <1>2. /\ \A i \in 1..n : ledger'[i] = ledger[i]
        /\ \A k \in 1..(Len(ledger') - n) : ledger'[n + k] = events[k]
    BY AppendedFacts
  <1>3. ASSUME NEW i \in 1..Len(ledger'), i \notin 1..n
        PROVE  i - n \in DOMAIN events /\ ledger'[i] = events[i - n]
    <2>1. i - n \in 1..(Len(ledger') - n) /\ n + (i - n) = i
      BY <1>1, <1>3
    <2>2. ledger'[n + (i - n)] = events[i - n]
      BY <2>1, <1>2
    <2>. QED BY <2>1, <2>2, <1>1
  <1>4. ASSUME NEW i \in 1..Len(ledger'), NEW j \in (i + 1)..Len(ledger'),
               ledger'[i].what = "terminate", ledger'[i].held,
               ledger'[j].what = "allow", ledger'[j].mission = ledger'[i].mission
        PROVE  FALSE
    <2>0. j \in 1..Len(ledger') /\ i < j
      BY <1>1
    <2>1. CASE j \in 1..n
      <3>1. i \in 1..n /\ j \in (i + 1)..n
        BY <2>0, <2>1, <1>1
      <3>. QED BY <3>1, <2>1, <1>2, <1>4 DEF NoAllowAfterTakenTermination, FollowedByAllow
    <2>2. CASE j \notin 1..n /\ i \in 1..n
      <3>1. TakenTermination(ledger'[i].mission)
        BY <2>2, <1>2, <1>4 DEF TakenTermination
      <3>2. j - n \in DOMAIN events /\ ledger'[j] = events[j - n]
        BY <2>0, <2>2, <1>3
      <3>. QED BY <3>1, <3>2, <1>4
    <2>3. CASE j \notin 1..n /\ i \notin 1..n
      <3>1. i - n \in DOMAIN events /\ ledger'[i] = events[i - n]
            /\ j - n \in DOMAIN events /\ ledger'[j] = events[j - n]
        BY <2>0, <2>3, <1>3
      <3>2. Len(events) = 1
        BY <3>1, <1>4
      <3>3. i - n = 1 /\ j - n = 1
        BY <3>1, <3>2, <1>1
      <3>. QED BY <3>3, <2>0, <1>1
    <2>. QED BY <2>1, <2>2, <2>3
  <1>5. NoAllowAfterTakenTermination'
    BY <1>4 DEF NoAllowAfterTakenTermination, FollowedByAllow
  <1>6. ASSUME NEW m, TakenTermination(m)'
        PROVE  TakenTermination(m)
               \/ \E k \in DOMAIN events :
                     /\ events[k].what = "terminate" /\ events[k].held
                     /\ events[k].mission = m
    <2>1. PICK i \in 1..Len(ledger') :
              ledger'[i].what = "terminate" /\ ledger'[i].held /\ ledger'[i].mission = m
      BY <1>6 DEF TakenTermination
    <2>2. CASE i \in 1..n
      BY <2>1, <2>2, <1>2 DEF TakenTermination
    <2>3. CASE i \notin 1..n
      BY <2>1, <2>3, <1>3
    <2>. QED BY <2>2, <2>3
  <1>. QED BY <1>5, <1>6

\* Every step keeps what is settled to an Allow clear of recorded terminations.
LEMMA SettledStep ==
    ShapeInv /\ ShapeInv' /\ EndedInv /\ SettledInv /\ [Next]_vars => SettledInv'
  <1>. SUFFICES ASSUME ShapeInv, ShapeInv', EndedInv, SettledInv, [Next]_vars
                PROVE  SettledInv'
    OBVIOUS
  <1>0. /\ req \in [Req -> Request] /\ req' \in [Req -> Request]
        /\ \A r \in Req : req[r] \in Request /\ Shape(req[r])
        /\ \A r \in Req : req'[r] \in Request /\ Shape(req'[r])
        /\ ledger \in Seq(Event) /\ durable \in 0..Len(ledger) /\ failed \in BOOLEAN
        /\ Len(ledger) \in Nat
    BY DEF ShapeInv, TypeOK
  <1>1. /\ NoAllowAfterTakenTermination
        /\ \A m \in Mission : TakenTermination(m) => m \in ended
        /\ \A r \in Req : Cleared(r, req[r])
    BY DEF SettledInv
  <1>2. ASSUME UNCHANGED ledger
        PROVE  /\ NoAllowAfterTakenTermination'
               /\ \A m : TakenTermination(m)' <=> TakenTermination(m)
    BY <1>1, <1>2 DEF NoAllowAfterTakenTermination, FollowedByAllow, TakenTermination
  <1>3. ASSUME NEW x \in Req, req'[x] = req[x], lock # {x} \/ UNCHANGED <<ledger, lock>>,
               ended \subseteq ended'
        PROVE  Cleared(x, req[x])'
    <2>1. CASE lock # {x}
      <3>1. req[x].settled = 0 /\ ~(req[x].pc = "record" /\ req[x].kind = "decide")
        BY <2>1, <1>0, <1>1, NothingSettled
      <3>2. /\ req[x].pc = "record" /\ req[x].kind = "terminate" /\ req[x].held
                  => Head(req[x].todo) \in ended'
        BY <1>1, <1>3 DEF Cleared
      <3>. QED BY <3>1, <3>2, <1>3 DEF Cleared
    <2>2. CASE UNCHANGED <<ledger, lock>>
      BY <2>2, <1>1, <1>3 DEF Cleared, TakenTermination
    <2>. QED BY <1>3, <2>1, <2>2
  <1>4. ASSUME NEW r \in Req, req'[r].settled = 0,
               req'[r].pc # "record" \/ req'[r].kind = "approve"
        PROVE  Cleared(r, req[r])'
    BY <1>4, <1>0 DEF Cleared, Shape, Batched
  <1>5. ASSUME NEW r \in Req, Quiet(r) PROVE SettledInv'
    <2>1. ledger' = ledger /\ ended' = ended
          /\ \A x \in Req : x # r => req'[x] = req[x]
      BY <1>5, QuietFacts DEF log
    <2>2. \A x \in Req : x # r => (lock # {x} \/ lock' = lock)
      BY <1>5 DEF Quiet, Begin, ReadClock, RegistryUnreadable, ApproveStatus,
                  TerminateStatus, Bind, Settle, SettleFailed, Respond
    <2>3. \A x \in Req : x # r => Cleared(x, req[x])'
      BY <2>1, <2>2, <1>3
    <2>4. Cleared(r, req[r])'
      <3>1. CASE Settle(r)
        BY <3>1, SettleClears
      <3>2. ASSUME NEW kind, NEW semantic, NEW items, Begin(r, kind, semantic, items)
            PROVE  Cleared(r, req[r])'
        <4>1. req'[r].settled = 0 /\ req'[r].pc = "clock"
          BY <3>2, <1>0 DEF Begin, Idle
        <4>. QED BY <4>1, <1>4
      <3>3. CASE ReadClock(r)
        <4>1. req'[r].pc \in {"idle", "bind", "status"}
          BY <3>3, <1>0 DEF ReadClock, AfterClock, Idle, Request
        <4>2. req'[r].settled = 0
          BY <4>1, <1>0 DEF Shape, Batched
        <4>. QED BY <4>1, <4>2, <1>4
      <3>4. CASE RegistryUnreadable(r) \/ SettleFailed(r) \/ Respond(r)
        <4>1. req'[r].settled = 0 /\ req'[r].pc = "idle"
          BY <3>4, <1>0 DEF RegistryUnreadable, SettleFailed, Respond, Idle
        <4>. QED BY <4>1, <1>4
      <3>5. CASE ApproveStatus(r)
        <4>1. req'[r].pc = "idle" \/ (req'[r].pc = "record" /\ req'[r].kind = "approve")
          BY <3>5, <1>0 DEF ApproveStatus, Idle, Request
        <4>2. req'[r].settled = 0
          BY <4>1, <1>0 DEF Shape, Batched
        <4>. QED BY <4>1, <4>2, <1>4
      <3>6. CASE TerminateStatus(r)
        <4>1. req'[r].pc \in {"idle", "mark"}
          BY <3>6, <1>0 DEF TerminateStatus, Idle, Request
        <4>2. req'[r].settled = 0
          BY <4>1, <1>0 DEF Shape, Batched
        <4>. QED BY <4>1, <4>2, <1>4
      <3>7. CASE Bind(r)
        <4>. DEFINE a(what) == Answered(req[r], what, Subject(r))
                    p(what) == IF what # "undecided" /\ a(what).semantic # "execute_all"
                               THEN "settle" ELSE Onward(a(what))
        <4>1. PICK what \in {"allow", "deny", "undecided"} :
                  req' = [req EXCEPT ![r] = [a(what) EXCEPT !.pc = p(what)]]
          BY <3>7 DEF Bind
        <4>2. req[r].pc = "bind" /\ req[r].todo # <<>> /\ req[r].settled = 0
          BY <3>7, <1>0 DEF Bind, Shape, Placed, Batched
        <4>3. a(what) \in Request /\ a(what).settled = 0
          BY <4>2, <1>0, SubjectType, AnsweredFields
        <4>4. p(what) # "record"
          BY DEF Onward
        <4>. HIDE DEF a, p
        <4>5. req'[r] = [a(what) EXCEPT !.pc = p(what)]
          BY <4>1, <1>0
        <4>6. req'[r].settled = 0 /\ req'[r].pc # "record"
          BY <4>3, <4>4, <4>5 DEF Request
        <4>. QED BY <4>6, <1>4
      <3>. QED BY <1>5, <3>1, <3>2, <3>3, <3>4, <3>5, <3>6, <3>7 DEF Quiet
    <2>. QED BY <2>1, <2>3, <2>4, <1>1, <1>2 DEF SettledInv
  <1>6. ASSUME NEW r \in Req, NEW events \in Seq(Event),
               Recorded(events) \/ RecordFailed(events), ended' = ended,
               \A x \in Req : x # r => req'[x] = req[x] /\ lock # {x},
               req'[r].settled = 0, req'[r].pc # "record",
               \A k \in DOMAIN events : events[k].what = "allow" =>
                   ~TakenTermination(events[k].mission),
               Len(events) # 1 => \A k \in DOMAIN events : events[k].what # "terminate",
               \A k \in DOMAIN events : events[k].what = "terminate" /\ events[k].held
                   => events[k].mission \in ended
        PROVE  SettledInv'
    <2>1. /\ NoAllowAfterTakenTermination'
          /\ \A m : TakenTermination(m)' => TakenTermination(m)
                 \/ \E k \in DOMAIN events :
                       /\ events[k].what = "terminate" /\ events[k].held
                       /\ events[k].mission = m
      BY <1>0, <1>1, <1>6, AppendClears
    <2>2. \A m \in Mission : TakenTermination(m)' => m \in ended'
      BY <2>1, <1>1, <1>6
    <2>3. \A x \in Req : x # r => Cleared(x, req[x])'
      BY <1>3, <1>6
    <2>4. Cleared(r, req[r])'
      BY <1>4, <1>6
    <2>. QED BY <2>1, <2>2, <2>3, <2>4 DEF SettledInv
  <1>7. ASSUME NEW r \in Req, ApproveRecord(r) PROVE SettledInv'
    <2>. DEFINE e == [what |-> "approve", mission |-> Subject(r), held |-> FALSE]
    <2>1. req[r].pc = "record" /\ req[r].kind = "approve" /\ lock = {} /\ ended' = ended
      BY <1>7 DEF ApproveRecord
    <2>2. Subject(r) \in Mission /\ req[r].settled = 0
      BY <2>1, <1>0, SubjectType DEF Shape, Placed, Batched
    <2>3. <<e>> \in Seq(Event) /\ (Recorded(<<e>>) \/ RecordFailed(<<e>>))
      BY <2>2, <1>7, EventTypes DEF ApproveRecord
    <2>4. req'[r].settled = 0 /\ req'[r].pc # "record"
          /\ \A x \in Req : x # r => req'[x] = req[x]
      BY <2>2, <1>0, <1>7 DEF ApproveRecord, Idle, Request
    <2>5. \A k \in DOMAIN <<e>> : <<e>>[k].what = "approve"
      OBVIOUS
    <2>. HIDE DEF e
    <2>. QED BY <2>1, <2>3, <2>4, <2>5, <1>6
  <1>8. ASSUME NEW r \in Req, TerminateRecord(r) PROVE SettledInv'
    <2>. DEFINE e == [what |-> "terminate", mission |-> Subject(r), held |-> req[r].held]
    <2>1. req[r].pc = "record" /\ req[r].kind = "terminate" /\ lock = {} /\ ended' = ended
          /\ req' = [req EXCEPT ![r] = Idle]
      BY <1>8 DEF TerminateRecord
    <2>2. Subject(r) \in Mission /\ req[r].held \in BOOLEAN
      BY <2>1, <1>0, SubjectType DEF Shape, Placed, Request
    <2>3. <<e>> \in Seq(Event) /\ (Recorded(<<e>>) \/ RecordFailed(<<e>>))
      BY <2>2, <1>8, EventTypes DEF TerminateRecord
    <2>4. req'[r].settled = 0 /\ req'[r].pc # "record"
          /\ \A x \in Req : x # r => req'[x] = req[x]
      BY <2>1, <1>0 DEF Idle
    <2>5. req[r].held => Subject(r) \in ended
      BY <2>1, <1>1 DEF Cleared, Subject
    <2>6. Len(<<e>>) = 1 /\ \A k \in DOMAIN <<e>> :
              <<e>>[k].what = "terminate" /\ <<e>>[k].held = req[r].held
              /\ <<e>>[k].mission = Subject(r)
      OBVIOUS
    <2>. HIDE DEF e
    <2>. QED BY <2>1, <2>3, <2>4, <2>5, <2>6, <1>6
  <1>9. ASSUME NEW r \in Req, DecideRecord(r) PROVE SettledInv'
    <2>. DEFINE q == req[r]
                events == [k \in DOMAIN q.decided |-> EventOf(q.answers[q.decided[k]])]
                b == [Landed(q) EXCEPT !.pc = Onward(Landed(q))]
    <2>1. q.pc = "record" /\ q.kind = "decide" /\ lock = {r} /\ ended' = ended
          /\ (Recorded(events) \/ RecordFailed(events))
          /\ (req' = [req EXCEPT ![r] = b] \/ req' = [req EXCEPT ![r] = Idle])
      BY <1>9 DEF DecideRecord
    <2>2. events \in Seq(Event) /\ DOMAIN events = DOMAIN q.decided
      BY <1>0, DecidedEvents
    <2>3. q.settled = Len(q.decided) /\ q.decided \in Seq(Nat)
      BY <2>1, <1>0 DEF Shape, Batched, Request
    <2>4. \A k \in DOMAIN q.decided : q.answers[q.decided[k]].what = "allow" =>
              ~TakenTermination(q.answers[q.decided[k]].mission)
      <3>1. DOMAIN q.decided = 1..q.settled
        BY <2>3
      <3>2. Cleared(r, q)
        BY <1>1
      <3>. QED BY <3>1, <3>2 DEF Cleared
    <2>5. \A k \in DOMAIN events : events[k].what = "allow" =>
              ~TakenTermination(events[k].mission)
      BY <2>4 DEF EventOf
    <2>6. \A k \in DOMAIN events : events[k].what # "terminate"
      <3>1. ASSUME NEW k \in DOMAIN q.decided
            PROVE  q.answers[q.decided[k]].what # "terminate"
        <4>1. q.answers[q.decided[k]] \in Answer
          BY <1>0 DEF Shape, Batched, Request
        <4>. QED BY <4>1 DEF Answer
      <3>. QED BY <3>1 DEF EventOf
    <2>7. Landed(q) \in Request /\ Landed(q).settled = 0
      BY <1>0, LandedFields
    <2>8. b.settled = 0 /\ b.pc # "record"
      <3>1. b.settled = Landed(q).settled /\ b.pc = Onward(Landed(q))
        BY <2>7 DEF Request
      <3>. QED BY <3>1, <2>7 DEF Onward
    <2>. HIDE DEF b, events
    <2>9. req'[r].settled = 0 /\ req'[r].pc # "record"
          /\ \A x \in Req : x # r => req'[x] = req[x]
      BY <2>1, <2>8, <1>0 DEF Idle
    <2>. QED BY <2>1, <2>2, <2>5, <2>6, <2>9, <1>6
  <1>10. ASSUME NEW r \in Req, Register(r) \/ Mark(r) PROVE SettledInv'
    <2>. DEFINE h == HeldForGood(r)
                a == [req[r] EXCEPT !.pc = "record", !.held = h]
    <2>1. /\ UNCHANGED <<ledger, lock>> /\ ended \subseteq ended'
          /\ req[r].pc \in {"register", "mark"}
          /\ \/ req' = [req EXCEPT ![r] = Idle]
             \/ /\ req[r].pc = "mark" /\ req' = [req EXCEPT ![r] = a]
                /\ h => Subject(r) \in ended'
      <3>1. CASE Register(r)
        BY <3>1 DEF Register, log
      <3>2. CASE Mark(r)
        BY <3>2, MarkFacts DEF log
      <3>. QED BY <1>10, <3>1, <3>2
    <2>2. \A x \in Req : x # r => req'[x] = req[x]
      BY <2>1, <1>0
    <2>3. \A x \in Req : x # r => Cleared(x, req[x])'
      BY <2>1, <2>2, <1>3
    <2>4. Cleared(r, req[r])'
      <3>1. CASE req' = [req EXCEPT ![r] = Idle]
        <4>1. req'[r].settled = 0 /\ req'[r].pc = "idle"
          BY <3>1, <1>0 DEF Idle
        <4>. QED BY <4>1, <1>4
      <3>2. CASE /\ req[r].pc = "mark" /\ req' = [req EXCEPT ![r] = a]
                 /\ h => Subject(r) \in ended'
        <4>1. req'[r].pc = "record" /\ req'[r].kind = req[r].kind /\ req'[r].held = h
              /\ req'[r].todo = req[r].todo /\ req'[r].settled = req[r].settled
          BY <3>2, <1>0 DEF Request
        <4>2. req[r].kind = "terminate" /\ req[r].settled = 0
          BY <3>2, <1>0 DEF Shape, Placed, Batched
        <4>. HIDE DEF h, a
        <4>. QED BY <3>2, <4>1, <4>2 DEF Cleared, Subject
      <3>. QED BY <2>1, <3>1, <3>2
    <2>5. \A m \in Mission : TakenTermination(m)' => m \in ended'
      BY <2>1, <1>1, <1>2
    <2>. QED BY <2>1, <2>3, <2>4, <2>5, <1>2 DEF SettledInv
  <1>11. ASSUME Tick PROVE SettledInv'
    <2>1. UNCHANGED <<ledger, lock, req>> /\ ended' = ended
      BY <1>11 DEF Tick, log
    <2>2. \A x \in Req : Cleared(x, req[x])'
      BY <2>1, <1>3
    <2>. QED BY <2>1, <2>2, <1>1, <1>2 DEF SettledInv
  <1>12. ASSUME Restart \/ PowerLoss \/ \E r \in Req : KilledInWrite(r) PROVE SettledInv'
    <2>1. req' = [r \in Req |-> Idle] /\ ended' = ended
      BY <1>12, KillFacts DEF Restart, PowerLoss, Restarted
    <2>2. \A x \in Req : Cleared(x, req[x])'
      BY <2>1, <1>4 DEF Idle
    <2>3. PICK n \in 0..Len(ledger) : ledger' = ledger \/ ledger' = SubSeq(ledger, 1, n)
      <3>1. CASE PowerLoss
        BY <3>1, <1>0 DEF PowerLoss
      <3>2. CASE ~PowerLoss
        BY <3>2, <1>0, <1>12, KillFacts DEF Restart
      <3>. QED BY <3>1, <3>2
    <2>4. Len(ledger') \in 0..Len(ledger) /\ \A i \in 1..Len(ledger') : ledger'[i] = ledger[i]
      BY <2>3, <1>0
    <2>5. \A m : TakenTermination(m)' => TakenTermination(m)
      BY <2>4, <1>0 DEF TakenTermination
    <2>6. ASSUME NEW i \in 1..Len(ledger'), NEW j \in (i + 1)..Len(ledger'),
                 ledger'[i].what = "terminate", ledger'[i].held,
                 ledger'[j].what = "allow", ledger'[j].mission = ledger'[i].mission
          PROVE  FALSE
      <3>1. i \in 1..Len(ledger) /\ j \in (i + 1)..Len(ledger) /\ j \in 1..Len(ledger')
        BY <2>4, <1>0
      <3>. QED BY <3>1, <2>4, <2>6, <1>1 DEF NoAllowAfterTakenTermination, FollowedByAllow
    <2>7. NoAllowAfterTakenTermination'
      BY <2>6 DEF NoAllowAfterTakenTermination, FollowedByAllow
    <2>. QED BY <2>1, <2>2, <2>5, <2>7, <1>1 DEF SettledInv
  <1>13. ASSUME UNCHANGED vars PROVE SettledInv'
    <2>1. UNCHANGED <<ledger, lock, req>> /\ ended' = ended
      BY <1>13 DEF vars
    <2>2. \A x \in Req : Cleared(x, req[x])'
      BY <2>1, <1>3
    <2>. QED BY <2>1, <2>2, <1>1, <1>2 DEF SettledInv
  <1>. QED
    BY <1>5, <1>7, <1>8, <1>9, <1>10, <1>11, <1>12, <1>13, StepKinds

\* No Allow under a mission follows, in the ledger, a termination that ended it
\* for good, for every interleaving of any number of requests (settle, under the
\* ledger's mutex), set of faults and place the process is killed at.
THEOREM NoAllowFollowsTermination == Spec => []NoAllowAfterTakenTermination
  <1>1. Init => SettledInv
    BY DEF Init, SettledInv, NoAllowAfterTakenTermination, TakenTermination, Cleared, Idle
  <1>2. SettledInv => NoAllowAfterTakenTermination
    BY DEF SettledInv
  <1>. QED
    BY <1>1, <1>2, EndedInit, EndedStep, SettledStep, ShapeInit, ShapeStep, PTL DEF Spec

-----------------------------------------------------------------------------
(* What an exchange answers is what it recorded. *)

\* An exchange is served from the same records as before when it keeps its
\* answers and the ledger keeps what is durable.
LEMMA ServedKept ==
    ASSUME NEW r \in Req, Served(req[r]),
           req'[r].answers = req[r].answers, req'[r].decided = req[r].decided,
           durable \in Nat, durable' \in Nat, durable <= durable',
           \A i \in 1..durable : ledger'[i] = ledger[i]
    PROVE  Served(req[r])'
  <1>1. ASSUME NEW i \in DOMAIN req'[r].answers, req'[r].answers[i].what # "undecided"
        PROVE  \/ \E k \in DOMAIN req'[r].decided : req'[r].decided[k] = i
               \/ /\ req'[r].answers[i].at \in 1..durable'
                  /\ ledger'[req'[r].answers[i].at].what = req'[r].answers[i].what
                  /\ ledger'[req'[r].answers[i].at].mission = req'[r].answers[i].mission
    <2>1. \/ \E k \in DOMAIN req[r].decided : req[r].decided[k] = i
          \/ /\ req[r].answers[i].at \in 1..durable
             /\ ledger[req[r].answers[i].at].what = req[r].answers[i].what
             /\ ledger[req[r].answers[i].at].mission = req[r].answers[i].mission
      BY <1>1 DEF Served
    <2>2. 1..durable \subseteq 1..durable'
      OBVIOUS
    <2>. QED BY <2>1, <2>2
  <1>. QED BY <1>1 DEF Served

\* A quiet step leaves the exchange it moves served from its records.
LEMMA QuietServed ==
    ASSUME ShapeInv, NEW r \in Req, Quiet(r), Served(req[r])
    PROVE  Served(req[r])'
  <1>0. /\ req \in [Req -> Request] /\ req[r] \in Request /\ Shape(req[r])
        /\ ledger \in Seq(Event) /\ durable \in 0..Len(ledger) /\ durable \in Nat
    BY DEF ShapeInv, TypeOK
  <1>1. UNCHANGED <<ledger, durable>>
    BY QuietFacts DEF log
  <1>2. ASSUME req'[r].answers = <<>> PROVE Served(req[r])'
    BY <1>2 DEF Served
  <1>3. ASSUME req'[r].answers = req[r].answers, req'[r].decided = req[r].decided
        PROVE  Served(req[r])'
    BY <1>0, <1>1, <1>3, ServedKept
  <1>4. ASSUME NEW kind, NEW semantic, NEW items, Begin(r, kind, semantic, items)
        PROVE  Served(req[r])'
    <2>1. req'[r].answers = <<>>
      BY <1>0, <1>4 DEF Begin, Idle
    <2>. QED BY <2>1, <1>2
  <1>5. CASE ReadClock(r)
    <2>1. \/ req'[r].answers = <<>>
          \/ req'[r].answers = req[r].answers /\ req'[r].decided = req[r].decided
      BY <1>0, <1>5 DEF ReadClock, Idle, Request
    <2>. QED BY <2>1, <1>2, <1>3
  <1>6. CASE RegistryUnreadable(r) \/ SettleFailed(r) \/ Respond(r)
    <2>1. req'[r].answers = <<>>
      BY <1>0, <1>6 DEF RegistryUnreadable, SettleFailed, Respond, Idle
    <2>. QED BY <2>1, <1>2
  <1>7. CASE ApproveStatus(r) \/ TerminateStatus(r)
    <2>1. \/ req'[r].answers = <<>>
          \/ req'[r].answers = req[r].answers /\ req'[r].decided = req[r].decided
      BY <1>0, <1>7 DEF ApproveStatus, TerminateStatus, Idle, Request
    <2>. QED BY <2>1, <1>2, <1>3
  <1>8. CASE Bind(r)
    <2>. DEFINE a(what) == Answered(req[r], what, Subject(r))
                p(what) == IF what # "undecided" /\ a(what).semantic # "execute_all"
                           THEN "settle" ELSE Onward(a(what))
                n == Len(req[r].answers)
    <2>1. PICK what \in {"allow", "deny", "undecided"} :
              req' = [req EXCEPT ![r] = [a(what) EXCEPT !.pc = p(what)]]
      BY <1>8 DEF Bind
    <2>2. req[r].todo # <<>>
      BY <1>0, <1>8 DEF Bind, Shape, Placed
    <2>3. /\ a(what) \in Request
          /\ Len(a(what).answers) = n + 1
          /\ a(what).answers[n + 1] = [what |-> what, mission |-> Subject(r), at |-> 0]
          /\ \A i \in 1..n : a(what).answers[i] = req[r].answers[i]
          /\ a(what).decided = IF what = "undecided" THEN req[r].decided
                               ELSE Append(req[r].decided, n + 1)
      <3>1. Subject(r) \in Mission
        BY <2>2, SubjectType
      <3>. QED BY <3>1, <2>2, <1>0, AnsweredFields
    <2>. HIDE DEF a, p
    <2>4. req'[r] = [a(what) EXCEPT !.pc = p(what)]
      BY <2>1, <1>0
    <2>5. req'[r].answers = a(what).answers /\ req'[r].decided = a(what).decided
      BY <2>3, <2>4 DEF Request
    <2>6. n \in Nat /\ DOMAIN req[r].answers = 1..n /\ req[r].decided \in Seq(Nat)
          /\ DOMAIN a(what).answers = 1..(n + 1)
      BY <1>0, <2>3 DEF Request
    <2>7. \A k \in DOMAIN req[r].decided :
              k \in DOMAIN a(what).decided /\ a(what).decided[k] = req[r].decided[k]
      BY <2>3, <2>6, AppendFacts
    <2>8. what # "undecided" => \E k \in DOMAIN a(what).decided : a(what).decided[k] = n + 1
      <3>1. /\ Append(req[r].decided, n + 1) \in Seq(Nat)
            /\ Len(Append(req[r].decided, n + 1)) = Len(req[r].decided) + 1
            /\ Append(req[r].decided, n + 1)[Len(req[r].decided) + 1] = n + 1
        BY <2>6, AppendFacts
      <3>2. Len(req[r].decided) + 1 \in DOMAIN Append(req[r].decided, n + 1)
        BY <3>1, <2>6
      <3>. QED BY <3>1, <3>2, <2>3
    <2>. HIDE DEF n
    <2>9. ASSUME NEW i \in DOMAIN req'[r].answers, req'[r].answers[i].what # "undecided"
          PROVE  \/ \E k \in DOMAIN req'[r].decided : req'[r].decided[k] = i
                 \/ /\ req'[r].answers[i].at \in 1..durable'
                    /\ ledger'[req'[r].answers[i].at].what = req'[r].answers[i].what
                    /\ ledger'[req'[r].answers[i].at].mission = req'[r].answers[i].mission
      <3>1. CASE i = n + 1
        BY <3>1, <2>3, <2>5, <2>8, <2>9
      <3>2. CASE i # n + 1
        <4>1. i \in DOMAIN req[r].answers /\ req'[r].answers[i] = req[r].answers[i]
          BY <3>2, <2>3, <2>5, <2>6
        <4>. QED BY <4>1, <2>5, <2>7, <2>9, <1>1 DEF Served
      <3>. QED BY <3>1, <3>2
    <2>. QED BY <2>9 DEF Served
  <1>9. CASE Settle(r)
    <2>1. req' = [req EXCEPT ![r] = SettleNext(req[r])] /\ req[r].pc = "settle"
      BY <1>9 DEF Settle, SettleNext
    <2>2. req'[r] = SettleNext(req[r])
      BY <2>1, <1>0, Zenon
    <2>3. /\ req[r].settled + 1 \in DOMAIN req[r].decided
          /\ DOMAIN req'[r].answers = DOMAIN req[r].answers
          /\ \A j \in DOMAIN req[r].answers : j # req[r].decided[req[r].settled + 1] =>
                 req'[r].answers[j] = req[r].answers[j]
          /\ req'[r].decided = req[r].decided
      BY <2>1, <2>2, <1>0, SettleFields
    <2>4. ASSUME NEW i \in DOMAIN req'[r].answers, req'[r].answers[i].what # "undecided"
          PROVE  \/ \E k \in DOMAIN req'[r].decided : req'[r].decided[k] = i
                 \/ /\ req'[r].answers[i].at \in 1..durable'
                    /\ ledger'[req'[r].answers[i].at].what = req'[r].answers[i].what
                    /\ ledger'[req'[r].answers[i].at].mission = req'[r].answers[i].mission
      <3>1. CASE i = req[r].decided[req[r].settled + 1]
        BY <3>1, <2>3
      <3>2. CASE i # req[r].decided[req[r].settled + 1]
        BY <3>2, <2>3, <2>4, <1>1 DEF Served
      <3>. QED BY <3>1, <3>2
    <2>. QED BY <2>4 DEF Served
  <1>. QED BY <1>4, <1>5, <1>6, <1>7, <1>8, <1>9 DEF Quiet

\* Every step keeps what was decided to be recorded, or recorded as answered.
LEMMA RecordedStep == ShapeInv /\ ShapeInv' /\ RecordedInv /\ [Next]_vars => RecordedInv'
  <1>. SUFFICES ASSUME ShapeInv, ShapeInv', RecordedInv, [Next]_vars PROVE RecordedInv'
    OBVIOUS
  <1>0. /\ req \in [Req -> Request] /\ req' \in [Req -> Request]
        /\ \A r \in Req : req[r] \in Request /\ Shape(req[r])
        /\ ledger \in Seq(Event) /\ durable \in 0..Len(ledger) /\ failed \in BOOLEAN
        /\ Len(ledger) \in Nat /\ durable \in Nat
    BY DEF ShapeInv, TypeOK
  <1>1. \A r \in Req : Served(req[r])
    BY DEF RecordedInv
  <1>2. SUFFICES \A r \in Req : Served(req[r])'
    BY DEF RecordedInv
  <1>3. ASSUME NEW r \in Req, req'[r].answers = <<>> PROVE Served(req[r])'
    BY <1>3 DEF Served
  <1>4. ASSUME UNCHANGED <<ledger, durable>>, NEW r \in Req,
               req'[r].answers = req[r].answers, req'[r].decided = req[r].decided
        PROVE  Served(req[r])'
    BY <1>0, <1>1, <1>4, ServedKept
  <1>5. ASSUME NEW r \in Req, Quiet(r) PROVE \A x \in Req : Served(req[x])'
    <2>1. UNCHANGED <<ledger, durable>> /\ \A x \in Req : x # r => req'[x] = req[x]
      BY <1>5, QuietFacts DEF log
    <2>2. \A x \in Req : x # r => Served(req[x])'
      BY <2>1, <1>4
    <2>3. Served(req[r])'
      BY <1>1, <1>5, QuietServed
    <2>. QED BY <2>2, <2>3
  <1>6. ASSUME NEW r \in Req, NEW events \in Seq(Event),
               Recorded(events) \/ RecordFailed(events)
        PROVE  /\ durable' \in Nat /\ durable <= durable'
               /\ \A i \in 1..durable : ledger'[i] = ledger[i]
               /\ \A x \in Req : req'[x] = req[x] => Served(req[x])'
    <2>1. /\ durable' \in durable..Len(ledger') /\ ledger' \in Seq(Event)
          /\ \A i \in 1..Len(ledger) : ledger'[i] = ledger[i]
      BY <1>0, <1>6, AppendedFacts
    <2>2. Len(ledger') \in Nat /\ durable <= Len(ledger)
      BY <2>1, <1>0
    <2>3. durable' \in Nat /\ durable <= durable' /\ \A i \in 1..durable : ledger'[i] = ledger[i]
      BY <2>1, <2>2, <1>0
    <2>4. \A x \in Req : req'[x] = req[x] => Served(req[x])'
      BY <2>3, <1>0, <1>1, ServedKept
    <2>. QED BY <2>3, <2>4
  <1>7. ASSUME NEW r \in Req, ApproveRecord(r) \/ TerminateRecord(r)
        PROVE  \A x \in Req : Served(req[x])'
    <2>1. req[r].pc = "record" /\ req[r].kind # "decide"
      BY <1>7 DEF ApproveRecord, TerminateRecord
    <2>2. Subject(r) \in Mission /\ req[r].held \in BOOLEAN
      BY <2>1, <1>0, SubjectType DEF Shape, Placed, Request
    <2>3. PICK events \in Seq(Event) : Recorded(events) \/ RecordFailed(events)
      BY <2>2, <1>7, EventTypes DEF ApproveRecord, TerminateRecord
    <2>4. /\ \A x \in Req : x # r => req'[x] = req[x]
          /\ \/ req'[r].answers = <<>>
             \/ req'[r].answers = req[r].answers /\ req'[r].decided = req[r].decided
      <3>1. \/ req' = [req EXCEPT ![r] = Idle]
            \/ req' = [req EXCEPT ![r].pc = "register"]
        BY <1>7, Zenon DEF ApproveRecord, TerminateRecord
      <3>2. CASE req' = [req EXCEPT ![r] = Idle]
        BY <3>2, <1>0 DEF Idle
      <3>3. CASE req' = [req EXCEPT ![r].pc = "register"]
        BY <3>3, <1>0 DEF Request
      <3>. QED BY <3>1, <3>2, <3>3
    <2>5. Served(req[r])'
      BY <2>3, <2>4, <1>0, <1>1, <1>3, <1>6, ServedKept
    <2>. QED BY <2>3, <2>4, <2>5, <1>6
  <1>8. ASSUME NEW r \in Req, DecideRecord(r) PROVE \A x \in Req : Served(req[x])'
    <2>. DEFINE q == req[r]
                events == [k \in DOMAIN q.decided |-> EventOf(q.answers[q.decided[k]])]
                l == Landed(q)
                b == [l EXCEPT !.pc = Onward(l)]
                n == Len(ledger)
    <2>1. \/ Recorded(events) /\ req' = [req EXCEPT ![r] = b]
          \/ RecordFailed(events) /\ req' = [req EXCEPT ![r] = Idle]
      BY <1>8 DEF DecideRecord
    <2>2. events \in Seq(Event) /\ Len(events) = Len(q.decided)
      BY <1>0, DecidedEvents
    <2>3. \A x \in Req : x # r => req'[x] = req[x]
      BY <2>1, <1>0, Zenon
    <2>4. \A k \in DOMAIN q.decided :
              /\ events[k].what = q.answers[q.decided[k]].what
              /\ events[k].mission = q.answers[q.decided[k]].mission
      BY DEF EventOf
    <2>5. /\ l \in Request /\ l.decided = <<>>
          /\ DOMAIN l.answers = DOMAIN q.answers
          /\ \A i \in DOMAIN q.answers :
                 /\ l.answers[i].what = q.answers[i].what
                 /\ l.answers[i].mission = q.answers[i].mission
                 /\ \/ \E k \in DOMAIN q.decided :
                           q.decided[k] = i /\ l.answers[i].at = n + k
                    \/ /\ ~\E k \in DOMAIN q.decided : q.decided[k] = i
                       /\ l.answers[i].at = q.answers[i].at
      BY <1>0, LandedFields
    <2>. HIDE DEF l
    <2>6. b.answers = l.answers /\ b.decided = <<>>
      BY <2>5 DEF Request
    <2>. HIDE DEF events, b
    <2>7. CASE RecordFailed(events) /\ req' = [req EXCEPT ![r] = Idle]
      <3>1. req'[r].answers = <<>>
        BY <2>7, <1>0 DEF Idle
      <3>. QED BY <3>1, <2>2, <2>3, <2>7, <1>3, <1>6
    <2>8. CASE Recorded(events) /\ req' = [req EXCEPT ![r] = b]
      <3>1. req'[r].answers = l.answers /\ req'[r].decided = <<>>
        BY <2>6, <2>8, <1>0
      <3>2. /\ durable' = Len(ledger') /\ Len(ledger') = n + Len(q.decided)
            /\ \A k \in 1..(Len(ledger') - n) : ledger'[n + k] = events[k]
        BY <2>2, <2>8, <1>0, AppendedFacts
      <3>3. q.decided \in Seq(Nat) /\ Len(q.decided) \in Nat /\ DOMAIN q.decided = 1..Len(q.decided)
        BY <1>0 DEF Request
      <3>4. Len(ledger') - n = Len(q.decided)
        BY <3>2, <3>3, <1>0
      <3>5. \A k \in DOMAIN q.decided : n + k \in 1..durable' /\ ledger'[n + k] = events[k]
        BY <3>2, <3>3, <3>4, <1>0
      <3>6. durable <= durable' /\ durable' \in Nat /\ \A i \in 1..durable : ledger'[i] = ledger[i]
        BY <2>2, <2>8, <1>6
      <3>7. ASSUME NEW i \in DOMAIN req'[r].answers, req'[r].answers[i].what # "undecided"
            PROVE  /\ req'[r].answers[i].at \in 1..durable'
                   /\ ledger'[req'[r].answers[i].at].what = req'[r].answers[i].what
                   /\ ledger'[req'[r].answers[i].at].mission = req'[r].answers[i].mission
        <4>1. i \in DOMAIN q.answers /\ l.answers[i].what = q.answers[i].what
              /\ l.answers[i].mission = q.answers[i].mission
          BY <3>1, <3>7, <2>5
        <4>2. CASE \E k \in DOMAIN q.decided : q.decided[k] = i /\ l.answers[i].at = n + k
          <5>1. PICK k \in DOMAIN q.decided : q.decided[k] = i /\ l.answers[i].at = n + k
            BY <4>2
          <5>2. ledger'[n + k] = events[k] /\ n + k \in 1..durable'
            BY <3>5
          <5>3. events[k].what = q.answers[i].what /\ events[k].mission = q.answers[i].mission
            BY <5>1, <2>4
          <5>. QED BY <5>1, <5>2, <5>3, <4>1, <3>1
        <4>3. CASE /\ ~\E k \in DOMAIN q.decided : q.decided[k] = i
                   /\ l.answers[i].at = q.answers[i].at
          <5>1. /\ q.answers[i].at \in 1..durable
                /\ ledger[q.answers[i].at].what = q.answers[i].what
                /\ ledger[q.answers[i].at].mission = q.answers[i].mission
            BY <4>1, <4>3, <3>1, <3>7, <1>1 DEF Served
          <5>2. 1..durable \subseteq 1..durable'
            BY <3>6, <1>0
          <5>. QED BY <5>1, <5>2, <4>1, <4>3, <3>1, <3>6
        <4>. QED BY <4>1, <4>2, <4>3, <2>5
      <3>8. Served(req[r])'
        BY <3>7 DEF Served
      <3>. QED BY <3>8, <2>2, <2>3, <2>8, <1>6
    <2>. QED BY <2>1, <2>7, <2>8
  <1>9. ASSUME NEW r \in Req, Register(r) \/ Mark(r) PROVE \A x \in Req : Served(req[x])'
    <2>. DEFINE h == HeldForGood(r)
    <2>1. /\ UNCHANGED <<ledger, durable>>
          /\ \/ req' = [req EXCEPT ![r] = Idle]
             \/ req' = [req EXCEPT ![r] = [req[r] EXCEPT !.pc = "record", !.held = h]]
      BY <1>9, MarkFacts DEF Register, log
    <2>. HIDE DEF h
    <2>2. /\ \A x \in Req : x # r => req'[x] = req[x]
          /\ \/ req'[r].answers = <<>>
             \/ req'[r].answers = req[r].answers /\ req'[r].decided = req[r].decided
      <3>1. CASE req' = [req EXCEPT ![r] = Idle]
        BY <3>1, <1>0 DEF Idle
      <3>2. CASE req' = [req EXCEPT ![r] = [req[r] EXCEPT !.pc = "record", !.held = h]]
        BY <3>2, <1>0 DEF Request
      <3>. QED BY <2>1, <3>1, <3>2
    <2>. QED BY <2>1, <2>2, <1>3, <1>4
  <1>10. ASSUME Tick \/ UNCHANGED vars PROVE \A x \in Req : Served(req[x])'
    BY <1>4, <1>10 DEF Tick, vars, log
  <1>11. ASSUME Restart \/ PowerLoss \/ \E r \in Req : KilledInWrite(r)
         PROVE  \A x \in Req : Served(req[x])'
    <2>1. req' = [r \in Req |-> Idle]
      BY <1>11, KillFacts DEF Restart, PowerLoss, Restarted
    <2>. QED BY <2>1, <1>3 DEF Idle
  <1>. QED
    BY <1>5, <1>7, <1>8, <1>9, <1>10, <1>11, StepKinds

\* An exchange that is done stops where its semantic says.
LEMMA DoneStops ==
    ASSUME NEW q \in Request, Shape(q), q.pc = "done"
    PROVE  LET stopped == {i \in DOMAIN q.answers :
                               Stops(q.semantic, SubSeq(q.answers, 1, i))}
           IN  /\ stopped \subseteq {Len(q.answers)}
               /\ q.todo # <<>> => stopped # {}
  <1>1. q.answers \in Seq(Answer)
    BY DEF Request
  <1>2. ASSUME NEW i \in DOMAIN q.answers
        PROVE  Stops(q.semantic, SubSeq(q.answers, 1, i)) <=> Ends(q.semantic, q.answers[i].what)
    <2>1. Len(SubSeq(q.answers, 1, i)) = i /\ SubSeq(q.answers, 1, i)[i] = q.answers[i]
      BY <1>1
    <2>. QED BY <2>1, StopsIsEnds
  <1>3. q.answers # <<>> /\ (q.todo # <<>> => Ends(q.semantic, q.answers[Len(q.answers)].what))
        /\ \A i \in DOMAIN q.answers : Ends(q.semantic, q.answers[i].what) => i = Len(q.answers)
    BY DEF Shape, Stopped
  <1>4. Len(q.answers) \in DOMAIN q.answers
    BY <1>1, <1>3
  <1>. QED BY <1>2, <1>3, <1>4

\* What an exchange answers is durably recorded as it is served, and it stops
\* where its semantic says, for exchanges of any length and whatever is settled
\* under them (evaluate_all, record_decisions).
THEOREM ExchangesAlwaysSound == Spec => []ExchangesSound
  <1>1. Init => RecordedInv
    BY DEF Init, RecordedInv, Served, Idle
  <1>2. ASSUME ShapeInv, RecordedInv PROVE ExchangesSound
    <2>1. \A r \in Req : req[r] \in Request /\ Shape(req[r])
      BY <1>2 DEF ShapeInv, TypeOK
    <2>2. ServedAsRecorded
      <3>1. \A r \in Req : req[r].pc = "done" => req[r].decided = <<>>
        BY <2>1 DEF Shape, Batched
      <3>. QED BY <3>1, <1>2 DEF RecordedInv, Served, ServedAsRecorded
    <2>3. ShortCircuits
      BY <2>1, DoneStops DEF ShortCircuits
    <2>. QED BY <2>2, <2>3 DEF ExchangesSound
  <1>. QED BY <1>1, <1>2, ShapeInit, ShapeStep, RecordedStep, PTL DEF Spec

=============================================================================
