-------------------------- MODULE AuthorityProofs --------------------------
(***************************************************************************)
(* Theorems of Authority, for every set of models, requests and Missions.  *)
(***************************************************************************)
EXTENDS Authority, FiniteSetTheorems, SequenceTheorems, WellFoundedInduction, TLAPS

---------------------------------------------------------------------------
(***************************************************************************)
(* The policy suite.                                                       *)
(***************************************************************************)

\* Whatever Kernel::check allows satisfies the nine guards of the suite.
LEMMA CheckSatisfiesSuite ==
    ASSUME NEW dir, NEW s, NEW action, NEW r, NEW ctx, Check(dir, s, action, r, ctx)
    PROVE  Suite(dir, s.id, action, r.id, ctx)
BY DEF Check, Permitted, Forbidden, Suite

\* An entry that allows was checked on the flags it carries, at this time.
LEMMA EntrySatisfiesSuite ==
    ASSUME NEW req, DecisionEntry(req).decision
    PROVE  LET e == DecisionEntry(req) IN
           Suite(kernel, e.subject, e.action, e.resource, [now |-> now, flags |-> e.flags])
<1> DEFINE bind == BindMission(require, req.subject.id, req.action, req.mission)
           flags == FlagsAfter(bind, req.action, req.flags)
           ctx == Prune(Declared(req.action), [now |-> now, flags |-> flags])
           e == DecisionEntry(req)
<1> HIDE DEF bind, flags
<1>1. Check(kernel, Typed(req.subject), req.action, Typed(req.resource), ctx)
  BY DEF DecisionEntry, bind, flags
<1>2. ctx = [now |-> now, flags |-> flags \cap Declared(req.action)]
  BY DEF Prune
<1>3. e.flags = ctx.flags /\ e.subject = req.subject.id
      /\ e.action = req.action /\ e.resource = req.resource.id
  BY DEF DecisionEntry, bind, flags
<1>4. ctx = [now |-> now, flags |-> e.flags]
  BY <1>2, <1>3
<1>5. Typed(req.subject).id = req.subject.id /\ Typed(req.resource).id = req.resource.id
  BY DEF Typed
<1> QED
  BY <1>1, <1>3, <1>4, <1>5, CheckSatisfiesSuite

\* No action but Decide leaves a decision in reply.
LEMMA OnlyDecideAnswers ==
    ASSUME Next, reply'.op = "decide"
    PROVE  \E req \in Decisions : Decide(req)
<1>1. ASSUME NEW list, NEW mission, Deploy(list, mission) PROVE FALSE
  BY <1>1 DEF Deploy, Idle
<1>2. ASSUME NEW b, Admit(b) PROVE FALSE
  BY <1>2 DEF Admit, Idle
<1>3. ASSUME NEW asked, NEW mission, Mint(asked, mission) PROVE FALSE
  BY <1>3 DEF Mint
<1>4. ASSUME NEW asked, Exchange(asked) PROVE FALSE
  BY <1>3, <1>4 DEF Exchange
<1>5. ASSUME NEW h, NEW asked, IssueUnderMission(h, asked) PROVE FALSE
  BY <1>3, <1>5 DEF IssueUnderMission
<1>6. ASSUME NEW m, Approve(m) \/ Terminate(m) PROVE FALSE
  BY <1>6 DEF Approve, Terminate, Idle
<1>7. ASSUME NEW req, Search(req) PROVE FALSE
  BY <1>7 DEF Search
<1>8. ~Tick /\ ~Respond
  BY DEF Tick, Respond, Idle
<1> QED
  BY <1>1, <1>2, <1>4, <1>5, <1>6, <1>7, <1>8 DEF Next

\* Every decision ever answered as an allow satisfies the suite in the model
\* and at the time it is answered in (decern-proof's statements, here of the
\* server's decisions, Mission rules and pruning included).
THEOREM AllowsAlwaysSatisfySuite == Spec => []AllowsSatisfySuite
<1>1. Init => AllowsSatisfySuite
  BY DEF Init, AllowsSatisfySuite, Idle
<1>2. AllowsSatisfySuite /\ [Next]_vars => AllowsSatisfySuite'
  <2> SUFFICES ASSUME AllowsSatisfySuite, [Next]_vars PROVE AllowsSatisfySuite'
    OBVIOUS
  <2>1. CASE UNCHANGED vars
    BY <2>1 DEF vars, AllowsSatisfySuite
  <2>2. CASE Next
    <3> SUFFICES ASSUME reply'.op = "decide", reply'.entry.decision
                 PROVE  LET e == reply'.entry IN
                        Suite(kernel', e.subject, e.action, e.resource,
                              [now |-> now', flags |-> e.flags])
      BY DEF AllowsSatisfySuite
    <3>1. PICK req \in Decisions : Decide(req)
      BY <2>2, OnlyDecideAnswers
    <3>2. reply'.entry = DecisionEntry(req) /\ kernel' = kernel /\ now' = now
      BY <3>1 DEF Decide
    <3> QED
      BY <3>2, EntrySatisfiesSuite
  <2> QED
    BY <2>1, <2>2
<1> QED
  BY <1>1, <1>2, PTL DEF Spec

---------------------------------------------------------------------------
(***************************************************************************)
(* Minting under Missions.                                                 *)
(***************************************************************************)

\* A badge bound to a Mission carries only scopes its approval names.
BadgesAttenuate ==
    \A b \in badges : b.mission # NoMission => b.scopes \subseteq b.mission.s256.tools

LiveMint ==
    reply.op = "mint" /\ reply.ok /\ reply.mission # NoMission =>
        LET m == reply.mission.s256 IN m \in DOMAIN registry /\ ~registry[m].terminated

\* What the minting rests on: nothing changes the registry while the answer of
\* a mint is outstanding.
MintInv == BadgesAttenuate /\ LiveMint

\* A badge minted under a Mission keeps what BadgesAttenuate says of all of them
\* (exchange's clamp over the Mission's tools).
LEMMA MintKeepsBadges ==
    ASSUME BadgesAttenuate, NEW asked, NEW mission, Mint(asked, mission),
           mission # NoMission => asked.scopes \subseteq mission.s256.tools
    PROVE  BadgesAttenuate'
<1> DEFINE b == Badge(asked, mission)
<1>1. b.mission = mission /\ b.scopes \subseteq asked.scopes
  BY DEF Badge, Clamp, Intersected
<1>2. badges' \subseteq badges \cup {b}
  BY DEF Mint
<1> HIDE DEF b
<1>3. b.mission # NoMission => b.scopes \subseteq b.mission.s256.tools
  BY <1>1
<1> QED
  BY <1>2, <1>3 DEF BadgesAttenuate

\* Every action of the server keeps MintInv, a replaced model included.
LEMMA MintInvInductive == MintInv /\ [Next]_vars => MintInv'
<1> SUFFICES ASSUME MintInv, [Next]_vars PROVE MintInv'
  OBVIOUS
<1>1. CASE UNCHANGED vars
  BY <1>1 DEF vars, MintInv, BadgesAttenuate, LiveMint
<1>2. ASSUME NEW asked \in Mintings, Exchange(asked) PROVE MintInv'
  <2>1. Mint(asked, NoMission)
    BY <1>2 DEF Exchange
  <2>2. BadgesAttenuate'
    BY <2>1, MintKeepsBadges DEF MintInv
  <2>3. reply'.mission = NoMission
    BY <2>1 DEF Mint
  <2> QED
    BY <2>2, <2>3 DEF MintInv, LiveMint
<1>3. ASSUME NEW h \in handles, NEW want \in Mintings, IssueUnderMission(h, want)
      PROVE  MintInv'
  <2> DEFINE asked == [delegator |-> h.mission.approver, sub |-> want.sub,
                       scopes |-> Intersected(want.scopes, h.mission.tools),
                       expiry |-> h.mission.expiry, entitled |-> {}]
             mission == [approver |-> h.mission.approver, s256 |-> h.mission]
  <2>1. Mint(asked, mission) /\ UnderMission(h)
    BY <1>3 DEF IssueUnderMission
  <2>2. asked.scopes \subseteq mission.s256.tools
    BY DEF Intersected
  <2>3. BadgesAttenuate'
    BY <2>1, <2>2, MintKeepsBadges DEF MintInv
  <2>4. reply'.mission.s256 = h.mission /\ registry' = registry
    BY <2>1 DEF Mint
  <2>5. h.mission \in DOMAIN registry /\ ~registry[h.mission].terminated
    BY <2>1 DEF UnderMission
  <2> QED
    BY <2>3, <2>4, <2>5 DEF MintInv, LiveMint
<1>4. ASSUME badges' = badges, reply'.op # "mint" PROVE MintInv'
  BY <1>4 DEF MintInv, BadgesAttenuate, LiveMint
<1>5. ASSUME Next, ~\E asked \in Mintings : Exchange(asked),
             ~\E h \in handles, want \in Mintings : IssueUnderMission(h, want)
      PROVE  badges' = badges /\ reply'.op # "mint"
  <2>1. ASSUME NEW list, NEW mission, Deploy(list, mission)
        PROVE  badges' = badges /\ reply'.op # "mint"
    BY <2>1 DEF Deploy, Idle
  <2>2. ASSUME NEW b, Admit(b) PROVE badges' = badges /\ reply'.op # "mint"
    BY <2>2 DEF Admit, Idle
  <2>3. ASSUME NEW m, Approve(m) \/ Terminate(m)
        PROVE  badges' = badges /\ reply'.op # "mint"
    BY <2>3 DEF Approve, Terminate, Idle
  <2>4. ASSUME NEW req, Decide(req) \/ Search(req)
        PROVE  badges' = badges /\ reply'.op # "mint"
    BY <2>4 DEF Decide, Search
  <2>5. ASSUME Tick \/ Respond PROVE badges' = badges /\ reply'.op # "mint"
    BY <2>5 DEF Tick, Respond, Idle
  <2> QED
    BY <1>5, <2>1, <2>2, <2>3, <2>4, <2>5 DEF Next
<1> QED
  BY <1>1, <1>2, <1>3, <1>4, <1>5

\* No token is ever minted under a Mission that has ended, by whichever handle,
\* and none carries a scope outside its approval (issue_under_mission).
THEOREM AlwaysMintsUnderLiveMissions == Spec => []MintsUnderLiveMissions
<1>1. Init => MintInv
  BY DEF Init, MintInv, BadgesAttenuate, LiveMint, Idle
<1>2. MintInv => MintsUnderLiveMissions
  BY DEF MintInv, BadgesAttenuate, LiveMint, MintsUnderLiveMissions
<1> QED
  BY <1>1, <1>2, MintInvInductive, PTL DEF Spec
---------------------------------------------------------------------------
(***************************************************************************)
(* Search and evaluation.                                                  *)
(***************************************************************************)

\* What a search may ask about: no Mission, the caller's flags as they are.
Asked(req) ==
    [caller |-> req.caller, subject |-> req.subject, action |-> req.action,
     resource |-> req.resource, flags |-> req.flags, mission |-> NoMission,
     about |-> None, describes |-> FALSE, challenge |-> NoChallenge, fault |-> "none"]

\* A decision without a Mission, where none is required: money is refused, the
\* rest is checked on the caller's own flags.
LEMMA DecidedWithoutMission ==
    ASSUME ~require, NEW req, req.mission = NoMission
    PROVE  DecisionEntry(req).decision <=>
             /\ req.action # "MoveMoney"
             /\ Check(kernel, Typed(req.subject), req.action, Typed(req.resource),
                      Prune(Declared(req.action), [now |-> now, flags |-> req.flags]))
<1> DEFINE bind == BindMission(require, req.subject.id, req.action, req.mission)
<1>1. CASE req.action = "MoveMoney"
  <2>1. bind = "deny"
    BY <1>1 DEF BindMission
  <2> QED
    BY <1>1, <2>1 DEF DecisionEntry
<1>2. CASE req.action # "MoveMoney"
  <2>1. bind = "none"
    BY <1>2 DEF BindMission
  <2> HIDE DEF bind
  <2>2. FlagsAfter(bind, req.action, req.flags) = req.flags
    BY <2>1 DEF FlagsAfter
  <2> QED
    BY <1>2, <2>1, <2>2 DEF DecisionEntry, bind
<1> QED
  BY <1>1, <1>2

LEMMA RefusedIsMoney ==
    ASSUME NEW action
    PROVE  RefusedWithoutMission(action) <=> action = "MoveMoney"
BY DEF RefusedWithoutMission, BindMission

LEMMA EnumerateAgrees ==
    ASSUME NEW req \in Searches, SearchRefusal(req) = "ok"
    PROVE  Enumerate(req) =
             CASE req.for = "subject" ->
                    {p \in DOMAIN kernel.principals :
                       DecisionEntry([Asked(req) EXCEPT !.subject.id = p]).decision}
               [] req.for = "resource" ->
                    {r \in DOMAIN kernel.resources :
                       DecisionEntry([Asked(req) EXCEPT !.resource.id = r]).decision}
               [] req.for = "action" ->
                    {a \in Actions : DecisionEntry([Asked(req) EXCEPT !.action = a]).decision}
<1>1. ~require /\ req.mission = NoMission
  BY DEF SearchRefusal
<1>2. /\ req.for \in {"subject", "resource", "action"}
      /\ req.subject = [type |-> req.subject.type, id |-> req.subject.id]
      /\ req.resource = [type |-> req.resource.type, id |-> req.resource.id]
  BY RequestsAssumption
<1> DEFINE ctx == [now |-> now, flags |-> req.flags]
           s == Typed(req.subject)
           r == Typed(req.resource)
           pruned == Prune(Declared(req.action), ctx)
           subjects == {p \in DOMAIN kernel.principals :
                          DecisionEntry([Asked(req) EXCEPT !.subject.id = p]).decision}
           resources == {x \in DOMAIN kernel.resources :
                           DecisionEntry([Asked(req) EXCEPT !.resource.id = x]).decision}
           actions == {a \in Actions : DecisionEntry([Asked(req) EXCEPT !.action = a]).decision}
<1>3. s.type = ModelType(req.subject.type) /\ r.type = ModelType(req.resource.type)
      /\ s.id = req.subject.id /\ r.id = req.resource.id
  BY DEF Typed
<1>4. CASE req.for = "subject"
  <2>1. ASSUME NEW p
        PROVE  DecisionEntry([Asked(req) EXCEPT !.subject.id = p]).decision <=>
                 /\ req.action # "MoveMoney"
                 /\ Check(kernel, [type |-> s.type, id |-> p], req.action, r, pruned)
    <3> DEFINE q == [Asked(req) EXCEPT !.subject.id = p]
    <3>1. /\ q.mission = NoMission /\ q.action = req.action /\ q.flags = req.flags
          /\ q.resource = req.resource
          /\ q.subject.type = req.subject.type /\ q.subject.id = p
      BY <1>2 DEF Asked
    <3>2. Typed(q.subject) = [type |-> s.type, id |-> p]
      BY <3>1, <1>3 DEF Typed
    <3> HIDE DEF q, s
    <3> QED
      BY <1>1, <3>1, <3>2, DecidedWithoutMission DEF q
  <2>2. ASSUME NEW p, Check(kernel, [type |-> s.type, id |-> p], req.action, r, pruned)
        PROVE  s.type = "Principal" /\ r.id \in DOMAIN kernel.resources
    BY <2>2 DEF Check
  <2>3. Enumerate(req) =
          IF ~(r.id \in DOMAIN kernel.resources /\ s.type = "Principal") THEN {}
          ELSE IF req.action = "MoveMoney" THEN {}
          ELSE {p \in DOMAIN kernel.principals :
                  Check(kernel, [type |-> "Principal", id |-> p], req.action, r, pruned)}
    BY <1>4, RefusedIsMoney DEF Enumerate, SearchSubjects
  <2>4. Enumerate(req) = subjects
    <3> HIDE DEF s, r, pruned
    <3>1. \A p : p \in subjects <=> /\ p \in DOMAIN kernel.principals /\ req.action # "MoveMoney"
                                    /\ Check(kernel, [type |-> s.type, id |-> p], req.action, r, pruned)
      BY <2>1
    <3>2. \A p : p \in Enumerate(req) <=>
                   /\ r.id \in DOMAIN kernel.resources /\ s.type = "Principal"
                   /\ req.action # "MoveMoney" /\ p \in DOMAIN kernel.principals
                   /\ Check(kernel, [type |-> "Principal", id |-> p], req.action, r, pruned)
      BY <2>3
    <3> HIDE DEF subjects
    <3>3. \A p : p \in subjects <=> p \in Enumerate(req)
      BY <3>1, <3>2, <2>2
    <3>4. subjects \subseteq Enumerate(req) /\ Enumerate(req) \subseteq subjects
      BY <3>3
    <3> QED
      BY <3>4
  <2> QED
    BY <1>4, <2>4
<1>5. CASE req.for = "resource"
  <2>1. ASSUME NEW x
        PROVE  DecisionEntry([Asked(req) EXCEPT !.resource.id = x]).decision <=>
                 /\ req.action # "MoveMoney"
                 /\ Check(kernel, s, req.action, [type |-> r.type, id |-> x], pruned)
    <3> DEFINE q == [Asked(req) EXCEPT !.resource.id = x]
    <3>1. /\ q.mission = NoMission /\ q.action = req.action /\ q.flags = req.flags
          /\ q.subject = req.subject
          /\ q.resource.type = req.resource.type /\ q.resource.id = x
      BY <1>2 DEF Asked
    <3>2. Typed(q.resource) = [type |-> r.type, id |-> x]
      BY <3>1, <1>3 DEF Typed
    <3> HIDE DEF q, r
    <3> QED
      BY <1>1, <3>1, <3>2, DecidedWithoutMission DEF q
  <2>2. ASSUME NEW x, Check(kernel, s, req.action, [type |-> r.type, id |-> x], pruned)
        PROVE  r.type = "Resource" /\ Known(kernel, s.id)
    BY <2>2 DEF Check
  <2>3. Enumerate(req) =
          IF ~(Known(kernel, s.id) /\ r.type = "Resource") THEN {}
          ELSE IF req.action = "MoveMoney" THEN {}
          ELSE {x \in DOMAIN kernel.resources :
                  Check(kernel, s, req.action, [type |-> "Resource", id |-> x], pruned)}
    BY <1>5, RefusedIsMoney DEF Enumerate, SearchResources
  <2>4. Enumerate(req) = resources
    <3> HIDE DEF s, r, pruned
    <3>1. \A x : x \in resources <=> /\ x \in DOMAIN kernel.resources /\ req.action # "MoveMoney"
                                     /\ Check(kernel, s, req.action, [type |-> r.type, id |-> x], pruned)
      BY <2>1
    <3>2. \A x : x \in Enumerate(req) <=>
                   /\ Known(kernel, s.id) /\ r.type = "Resource"
                   /\ req.action # "MoveMoney" /\ x \in DOMAIN kernel.resources
                   /\ Check(kernel, s, req.action, [type |-> "Resource", id |-> x], pruned)
      BY <2>3
    <3> HIDE DEF resources
    <3>3. \A x : x \in resources <=> x \in Enumerate(req)
      BY <3>1, <3>2, <2>2
    <3>4. resources \subseteq Enumerate(req) /\ Enumerate(req) \subseteq resources
      BY <3>3
    <3> QED
      BY <3>4
  <2> QED
    BY <1>5, <2>4
<1>6. CASE req.for = "action"
  <2>1. ASSUME NEW a
        PROVE  DecisionEntry([Asked(req) EXCEPT !.action = a]).decision <=>
                 a # "MoveMoney" /\ Check(kernel, s, a, r, Prune(Declared(a), ctx))
    <3> DEFINE q == [Asked(req) EXCEPT !.action = a]
    <3>1. /\ q.mission = NoMission /\ q.action = a /\ q.flags = req.flags
          /\ q.subject = req.subject /\ q.resource = req.resource
      BY DEF Asked
    <3> HIDE DEF q
    <3> QED
      BY <1>1, <3>1, DecidedWithoutMission DEF q
  <2>2. ASSUME NEW a, Check(kernel, s, a, r, Prune(Declared(a), ctx))
        PROVE  /\ r.id \in DOMAIN kernel.resources /\ Known(kernel, s.id)
               /\ s.type = "Principal" /\ r.type = "Resource"
    BY <2>2 DEF Check
  <2>3. Enumerate(req) =
          IF ~(/\ r.id \in DOMAIN kernel.resources /\ Known(kernel, s.id)
               /\ s.type = "Principal" /\ r.type = "Resource") THEN {}
          ELSE {a \in SearchActions(kernel, s, r, ctx) : a # "MoveMoney"}
    BY <1>6, RefusedIsMoney DEF Enumerate
  <2>4. Enumerate(req) = actions
    <3> HIDE DEF s, r
    <3>1. \A a : a \in actions <=> /\ a \in Actions /\ a # "MoveMoney"
                                   /\ Check(kernel, s, a, r, Prune(Declared(a), ctx))
      BY <2>1
    <3>2. \A a : a \in Enumerate(req) <=>
                   /\ r.id \in DOMAIN kernel.resources /\ Known(kernel, s.id)
                   /\ s.type = "Principal" /\ r.type = "Resource"
                   /\ a # "MoveMoney" /\ a \in Actions
                   /\ Check(kernel, s, a, r, Prune(Declared(a), ctx))
      BY <2>3 DEF SearchActions
    <3> HIDE DEF actions
    <3>3. \A a : a \in actions <=> a \in Enumerate(req)
      BY <3>1, <3>2, <2>2
    <3>4. actions \subseteq Enumerate(req) /\ Enumerate(req) \subseteq actions
      BY <3>3
    <3> QED
      BY <3>4
  <2> QED
    BY <1>6, <2>4
<1> QED
  BY <1>2, <1>4, <1>5, <1>6

\* What the property says of an answer to a search.
AgreesWith(req, found) ==
    found = CASE req.for = "subject" ->
                   {p \in DOMAIN kernel.principals :
                      DecisionEntry([Asked(req) EXCEPT !.subject.id = p]).decision}
              [] req.for = "resource" ->
                   {r \in DOMAIN kernel.resources :
                      DecisionEntry([Asked(req) EXCEPT !.resource.id = r]).decision}
              [] req.for = "action" ->
                   {a \in Actions : DecisionEntry([Asked(req) EXCEPT !.action = a]).decision}

\* No action but Search leaves a search in reply.
LEMMA OnlySearchAnswers ==
    ASSUME Next, reply'.op = "search"
    PROVE  \E req \in Searches : Search(req)
<1>1. ASSUME NEW list, NEW mission, Deploy(list, mission) PROVE FALSE
  BY <1>1 DEF Deploy, Idle
<1>2. ASSUME NEW b, Admit(b) PROVE FALSE
  BY <1>2 DEF Admit, Idle
<1>3. ASSUME NEW asked, NEW mission, Mint(asked, mission) PROVE FALSE
  BY <1>3 DEF Mint
<1>4. ASSUME NEW asked, Exchange(asked) PROVE FALSE
  BY <1>3, <1>4 DEF Exchange
<1>5. ASSUME NEW h, NEW asked, IssueUnderMission(h, asked) PROVE FALSE
  BY <1>3, <1>5 DEF IssueUnderMission
<1>6. ASSUME NEW m, Approve(m) \/ Terminate(m) PROVE FALSE
  BY <1>6 DEF Approve, Terminate, Idle
<1>7. ASSUME NEW req, Decide(req) PROVE FALSE
  BY <1>7 DEF Decide
<1>8. ~Tick /\ ~Respond
  BY DEF Tick, Respond, Idle
<1> QED
  BY <1>1, <1>2, <1>4, <1>5, <1>6, <1>7, <1>8 DEF Next

\* A decision is a function of the kernel, the registry, the clock and whether
\* a Mission is required, so what leaves them alone leaves every decision alone.
LEMMA DecisionsUnmoved ==
    ASSUME UNCHANGED <<kernel, require, registry, now>>, NEW req
    PROVE  DecisionEntry(req)'.decision = DecisionEntry(req).decision
<1>1. ASSUME NEW subject, NEW action, NEW mission
      PROVE  Bound(subject, action, mission)' = Bound(subject, action, mission)
  BY DEF Bound, Stands
<1>2. BindMission(require, req.subject.id, req.action, req.mission)'
        = BindMission(require, req.subject.id, req.action, req.mission)
  BY <1>1 DEF BindMission
<1> QED
  BY <1>2 DEF DecisionEntry

LEMMA AgreementUnmoved ==
    ASSUME UNCHANGED <<kernel, require, registry, now>>, NEW req, NEW found
    PROVE  AgreesWith(req, found)' <=> AgreesWith(req, found)
BY DecisionsUnmoved DEF AgreesWith, Asked

\* Search and evaluation agree in every reachable state, whatever the model in
\* force, the Mission rule and the pruning (search.rs enumerates with
\* search_subjects, search_resources and search_actions; decide.rs evaluates).
THEOREM SearchAlwaysAgrees == Spec => []SearchAgreesWithDecisions
<1>0. SearchAgreesWithDecisions <=> (reply.op = "search" => AgreesWith(reply.req, reply.found))
  BY DEF SearchAgreesWithDecisions, AgreesWith, Asked
<1>1. Init => SearchAgreesWithDecisions
  BY DEF Init, SearchAgreesWithDecisions, Idle
<1>2. SearchAgreesWithDecisions /\ [Next]_vars => SearchAgreesWithDecisions'
  <2> SUFFICES ASSUME SearchAgreesWithDecisions, [Next]_vars, reply'.op = "search"
               PROVE  AgreesWith(reply.req, reply.found)'
    BY DEF SearchAgreesWithDecisions, AgreesWith, Asked
  <2>1. CASE UNCHANGED vars
    <3>1. AgreesWith(reply.req, reply.found)
      BY <2>1, <1>0 DEF vars
    <3>2. AgreesWith(reply.req, reply.found)' <=> AgreesWith(reply.req, reply.found)
      BY <2>1, DecisionsUnmoved DEF vars, AgreesWith, Asked
    <3> QED
      BY <3>1, <3>2
  <2>2. CASE Next
    <3>1. PICK req \in Searches : Search(req)
      BY <2>2, OnlySearchAnswers
    <3>2. /\ UNCHANGED <<kernel, require, registry, now>>
          /\ SearchRefusal(req) = "ok"
          /\ reply'.req = req /\ reply'.found = Enumerate(req)
      BY <3>1 DEF Search
    <3>3. AgreesWith(req, Enumerate(req))
      BY <3>2, EnumerateAgrees DEF AgreesWith
    <3>4. PICK found : found = Enumerate(req)
      OBVIOUS
    <3>5. AgreesWith(req, found)'
      BY <3>2, <3>3, <3>4, AgreementUnmoved
    <3> QED
      BY <3>2, <3>4, <3>5 DEF AgreesWith, Asked
  <2> QED
    BY <2>1, <2>2
<1> QED
  BY <1>1, <1>2, PTL DEF Spec

---------------------------------------------------------------------------
(***************************************************************************)
(* Walking the edges.  Induction over the natural numbers, for a set of    *)
(* them, then what a path is: a chain of distinct nodes, each led to by    *)
(* the one before it.                                                      *)
(***************************************************************************)

Below == {p \in Nat \X Nat : p[1] < p[2]}

LEMMA SetInduction ==
    ASSUME NEW S \in SUBSET Nat, 0 \in S, \A n \in S : n + 1 \in S
    PROVE  \A n \in Nat : n \in S
<1> DEFINE T == Nat \ S
<1> SUFFICES ASSUME T # {} PROVE FALSE
  OBVIOUS
<1>1. T \subseteq Nat /\ IsWellFoundedOn(Below, Nat)
  BY NatLessThanWellFounded DEF OpToRel, Below
<1>2. \E x \in T : \A y \in T : <<y, x>> \notin Below
  <2> HIDE DEF T
  <2> QED
    BY <1>1, WFMin
<1>3. PICK x \in T : \A y \in T : <<y, x>> \notin Below
  BY <1>2
<1>4. x \in Nat /\ x # 0
  OBVIOUS
<1>5. x - 1 \in Nat /\ <<x - 1, x>> \in Below
  BY <1>4 DEF Below
<1>6. x - 1 \in S
  BY <1>3, <1>5
<1> QED
  BY <1>4, <1>6

\* x has an edge to follow.
Leads(edge, x) == x \in DOMAIN edge /\ edge[x] # None

Nodes(edge, id) == {id} \cup DOMAIN edge \cup {edge[x] : x \in DOMAIN edge}

\* A step of the walk, and f as the walk's first n steps.
Stepped(edge, s) ==
    LET at == Seqs!Last(s) IN
    IF at \in DOMAIN edge /\ edge[at] # None /\ edge[at] \notin Seqs!ToSet(s)
      THEN Append(s, edge[at]) ELSE s

Walks(f, edge, id, n) ==
    f = [k \in 0..n |-> IF k = 0 THEN <<id>> ELSE Stepped(edge, f[k - 1])]

Chain(edge, id, s) ==
    /\ s \in Seq(Nodes(edge, id)) /\ Len(s) >= 1 /\ s[1] = id
    /\ \A i \in 1..Len(s) : i + 1 \in 1..Len(s) => Leads(edge, s[i]) /\ s[i + 1] = edge[s[i]]
    /\ \A i, j \in 1..Len(s) : s[i] = s[j] => i = j

LEMMA WalksExist ==
    ASSUME NEW edge, NEW id
    PROVE  \A n \in Nat : \E f : Walks(f, edge, id, n)
<1> DEFINE S == {n \in Nat : \E f : Walks(f, edge, id, n)}
<1>1. 0 \in S
  <2> DEFINE f == [k \in 0..0 |-> IF k = 0 THEN <<id>> ELSE Stepped(edge, <<>>)]
  <2>1. Walks(f, edge, id, 0)
    BY DEF Walks
  <2> QED
    BY <2>1
<1>2. ASSUME NEW n \in S PROVE n + 1 \in S
  <2>1. PICK f : Walks(f, edge, id, n)
    OBVIOUS
  <2> DEFINE g == [k \in 0..(n + 1) |-> IF k <= n THEN f[k] ELSE Stepped(edge, f[n])]
  <2>2. n \in Nat
    OBVIOUS
  <2>3. \A k \in 0..n : f[k] = IF k = 0 THEN <<id>> ELSE Stepped(edge, f[k - 1])
    BY <2>1 DEF Walks
  <2>4. \A k \in 0..(n + 1) : g[k] = IF k = 0 THEN <<id>> ELSE Stepped(edge, g[k - 1])
    <3> SUFFICES ASSUME NEW k \in 0..(n + 1)
                 PROVE  g[k] = IF k = 0 THEN <<id>> ELSE Stepped(edge, g[k - 1])
      OBVIOUS
    <3>1. CASE k = 0
      BY <3>1, <2>2, <2>3
    <3>2. CASE k \in 1..n
      <4>1. g[k] = f[k] /\ g[k - 1] = f[k - 1]
        BY <3>2, <2>2
      <4> QED
        BY <4>1, <3>2, <2>2, <2>3
    <3>3. CASE k = n + 1
      <4>1. g[k] = Stepped(edge, f[n]) /\ g[k - 1] = f[n]
        BY <3>3, <2>2
      <4> QED
        BY <4>1, <3>3, <2>2
    <3> QED
      BY <3>1, <3>2, <3>3, <2>2
  <2>5. Walks(g, edge, id, n + 1)
    BY <2>4 DEF Walks
  <2> QED
    BY <2>2, <2>5
<1>3. S \in SUBSET Nat
  OBVIOUS
<1>4. \A n \in Nat : n \in S
  <2> HIDE DEF S
  <2> QED
    BY <1>1, <1>2, <1>3, SetInduction
<1> QED
  BY <1>4

\* f is the walk that Path takes, in n steps.
WalkOf(f, edge, id, n) ==
    /\ Path(edge, id) = f[n]
    /\ f[0] = <<id>>
    /\ \A k \in 1..n : f[k] = Stepped(edge, f[k - 1])

LEMMA PathWalks ==
    ASSUME NEW edge, NEW id, IsFiniteSet(DOMAIN edge), NEW N, N = Cardinality(DOMAIN edge)
    PROVE  \E f : WalkOf(f, edge, id, N)
<1> DEFINE f == CHOOSE g : Walks(g, edge, id, N)
<1>1. N \in Nat
  BY FS_CardinalityType
<1>2. Walks(f, edge, id, N)
  BY <1>1, WalksExist
<1>3. Path(edge, id) = f[N]
  BY DEF Path, Walks, Stepped
<1> HIDE DEF f
<1>4. f[0] = <<id>> /\ \A k \in 1..N : f[k] = Stepped(edge, f[k - 1])
  BY <1>1, <1>2 DEF Walks
<1> QED
  BY <1>3, <1>4 DEF WalkOf

LEMMA SteppedChain ==
    ASSUME NEW edge, NEW id, NEW s, Chain(edge, id, s)
    PROVE  Chain(edge, id, Stepped(edge, s)) /\ Len(Stepped(edge, s)) <= Len(s) + 1
<1> DEFINE x == edge[Seqs!Last(s)]
           t == Append(s, x)
<1>1. s \in Seq(Nodes(edge, id)) /\ Len(s) \in Nat /\ Len(s) >= 1 /\ Seqs!Last(s) = s[Len(s)]
  BY DEF Chain, Seqs!Last
<1>2. CASE Leads(edge, Seqs!Last(s)) /\ x \notin Seqs!ToSet(s)
  <2>1. Stepped(edge, s) = t
    BY <1>2 DEF Stepped, Leads
  <2>2. x \in Nodes(edge, id)
    BY <1>2 DEF Leads, Nodes
  <2>3. \A i \in 1..Len(s) : s[i] # x
    BY <1>1, <1>2 DEF Seqs!ToSet
  <2> HIDE DEF x
  <2>4. t \in Seq(Nodes(edge, id)) /\ Len(t) = Len(s) + 1
    BY <1>1, <2>2
  <2>5. t[Len(s) + 1] = x /\ \A i \in 1..Len(s) : t[i] = s[i]
    BY <1>1, <2>2
  <2> HIDE DEF t
  <2>6. t[1] = id
    BY <1>1, <2>5 DEF Chain
  <2>7. ASSUME NEW i \in 1..Len(t), i + 1 \in 1..Len(t)
        PROVE  Leads(edge, t[i]) /\ t[i + 1] = edge[t[i]]
    <3>1. CASE i = Len(s)
      BY <3>1, <2>5, <1>1, <1>2 DEF x
    <3>2. CASE i + 1 \in 1..Len(s)
      <4>1. i \in 1..Len(s) /\ t[i] = s[i] /\ t[i + 1] = s[i + 1]
        BY <3>2, <2>5, <1>1
      <4> QED
        BY <4>1, <3>2 DEF Chain
    <3> QED
      BY <3>1, <3>2, <2>4, <1>1, <2>7
  <2>8. ASSUME NEW i \in 1..Len(t), NEW j \in 1..Len(t), t[i] = t[j]
        PROVE  i = j
    <3>1. (i \in 1..Len(s) \/ i = Len(s) + 1) /\ (j \in 1..Len(s) \/ j = Len(s) + 1)
      BY <2>4, <1>1
    <3> QED
      BY <3>1, <2>3, <2>5, <2>8 DEF Chain
  <2>9. Chain(edge, id, t)
    BY <2>4, <2>6, <2>7, <2>8, <1>1 DEF Chain
  <2> QED
    BY <2>1, <2>4, <2>9, <1>1
<1>3. CASE ~(Leads(edge, Seqs!Last(s)) /\ x \notin Seqs!ToSet(s))
  <2>1. Stepped(edge, s) = s
    BY <1>3 DEF Stepped, Leads
  <2> QED
    BY <2>1, <1>1
<1> QED
  BY <1>2, <1>3

\* A path is a chain, of at most one node more than there are edges.
LEMMA PathIsChain ==
    ASSUME NEW edge, NEW id, IsFiniteSet(DOMAIN edge)
    PROVE  /\ Chain(edge, id, Path(edge, id))
           /\ Len(Path(edge, id)) <= Cardinality(DOMAIN edge) + 1
<1>0. PICK N : N = Cardinality(DOMAIN edge)
  OBVIOUS
<1>1. N \in Nat
  BY <1>0, FS_CardinalityType
<1>7. PICK f : WalkOf(f, edge, id, N)
  BY <1>0, PathWalks
<1>2. /\ Path(edge, id) = f[N] /\ f[0] = <<id>>
      /\ \A k \in 1..N : f[k] = Stepped(edge, f[k - 1])
  BY <1>7 DEF WalkOf
<1> DEFINE S == {k \in Nat : k <= N => Chain(edge, id, f[k]) /\ Len(f[k]) <= k + 1}
<1>3. 0 \in S
  <2>1. <<id>> \in Seq(Nodes(edge, id)) /\ Len(<<id>>) = 1 /\ <<id>>[1] = id
    BY DEF Nodes
  <2>2. \A i, j \in 1..1 : i = j /\ i + 1 \notin 1..1
    OBVIOUS
  <2>3. Chain(edge, id, <<id>>)
    BY <2>1, <2>2 DEF Chain
  <2>4. Chain(edge, id, f[0]) /\ Len(f[0]) <= 0 + 1
    BY <1>2, <2>1, <2>3
  <2> QED
    BY <2>4
<1>4. ASSUME NEW k \in S PROVE k + 1 \in S
  <2> SUFFICES ASSUME k + 1 <= N
               PROVE  Chain(edge, id, f[k + 1]) /\ Len(f[k + 1]) <= k + 1 + 1
    OBVIOUS
  <2>1. Chain(edge, id, f[k]) /\ Len(f[k]) <= k + 1 /\ k + 1 \in 1..N
    BY <1>1
  <2>2. f[k + 1] = Stepped(edge, f[k])
    BY <1>2, <2>1
  <2>3. Chain(edge, id, f[k + 1]) /\ Len(f[k + 1]) <= Len(f[k]) + 1
    BY <2>1, <2>2, SteppedChain
  <2>4. Len(f[k]) \in Nat /\ Len(f[k + 1]) \in Nat
    BY <2>1, <2>3 DEF Chain
  <2> QED
    BY <2>1, <2>3, <2>4
<1>5. S \in SUBSET Nat
  OBVIOUS
<1>6. \A k \in Nat : k \in S
  <2> HIDE DEF S
  <2> QED
    BY <1>3, <1>4, <1>5, SetInduction
<1> QED
  BY <1>0, <1>1, <1>2, <1>6

\* s is what the walk along w has met in its first n nodes.
PrefixOf(s, w, n) ==
    /\ Len(s) = IF n <= Len(w) THEN n ELSE Len(w)
    /\ \A i \in 1..Len(s) : s[i] = w[i]

LEMMA SteppedPrefix ==
    ASSUME NEW edge, NEW id, NEW w, Chain(edge, id, w), ~Leads(edge, w[Len(w)]),
           NEW s \in Seq(Nodes(edge, id)), NEW n \in Nat, n >= 1, PrefixOf(s, w, n)
    PROVE  /\ Stepped(edge, s) \in Seq(Nodes(edge, id))
           /\ PrefixOf(Stepped(edge, s), w, n + 1)
<1>1. /\ w \in Seq(Nodes(edge, id)) /\ Len(w) \in Nat /\ Len(w) >= 1 /\ Len(s) \in Nat
      /\ Len(s) >= 1 /\ Len(s) <= Len(w) /\ Seqs!Last(s) = w[Len(s)]
  BY DEF Chain, PrefixOf, Seqs!Last
<1>2. CASE n < Len(w)
  <2>1. Len(s) = n /\ n \in 1..Len(w) /\ n + 1 \in 1..Len(w)
    BY <1>1, <1>2 DEF PrefixOf
  <2> DEFINE x == w[n + 1]
  <2>2. Leads(edge, Seqs!Last(s)) /\ edge[Seqs!Last(s)] = x
    BY <1>1, <2>1 DEF Chain
  <2>3. x \notin Seqs!ToSet(s)
    <3>1. \A i \in 1..Len(s) : i \in 1..Len(w) /\ i # n + 1
      BY <2>1, <1>1
    <3>2. \A i \in 1..Len(s) : s[i] # x
      BY <3>1, <2>1 DEF PrefixOf, Chain
    <3> QED
      BY <3>2, <1>1 DEF Seqs!ToSet
  <2>4. Stepped(edge, s) = Append(s, x)
    BY <2>2, <2>3 DEF Stepped, Leads
  <2>5. x \in Nodes(edge, id)
    BY <1>1, <2>1
  <2> HIDE DEF x
  <2> DEFINE t == Append(s, x)
  <2>6. t \in Seq(Nodes(edge, id)) /\ Len(t) = n + 1
    BY <2>1, <2>5
  <2>7. t[n + 1] = x /\ \A i \in 1..n : t[i] = s[i]
    BY <2>1, <2>5
  <2> HIDE DEF t
  <2>8. \A i \in 1..Len(t) : t[i] = w[i]
    <3>1. \A i \in 1..Len(t) : i \in 1..n \/ i = n + 1
      BY <2>6
    <3> QED
      BY <3>1, <2>1, <2>7 DEF PrefixOf, x
  <2>9. PrefixOf(t, w, n + 1)
    BY <2>1, <2>6, <2>8 DEF PrefixOf
  <2> QED
    BY <2>4, <2>6, <2>9 DEF t
<1>3. CASE ~(n < Len(w))
  <2>1. Len(s) = Len(w)
    BY <1>1, <1>3 DEF PrefixOf
  <2>2. Stepped(edge, s) = s
    BY <2>1, <1>1 DEF Stepped, Leads
  <2>3. PrefixOf(s, w, n + 1)
    BY <2>1, <1>1, <1>3 DEF PrefixOf
  <2> QED
    BY <2>2, <2>3
<1> QED
  BY <1>2, <1>3

\* A chain that ends where there is no edge is the path, if the walk is long
\* enough to take it.
LEMMA ChainIsPath ==
    ASSUME NEW edge, NEW id, IsFiniteSet(DOMAIN edge), NEW w, Chain(edge, id, w),
           ~Leads(edge, w[Len(w)]), Len(w) <= Cardinality(DOMAIN edge) + 1
    PROVE  Path(edge, id) = w
<1>0. PICK N : N = Cardinality(DOMAIN edge)
  OBVIOUS
<1>1. N \in Nat /\ w \in Seq(Nodes(edge, id)) /\ Len(w) \in Nat /\ Len(w) <= N + 1 /\ Len(w) >= 1
  BY <1>0, FS_CardinalityType DEF Chain
<1>2. PICK f : WalkOf(f, edge, id, N)
  BY <1>0, PathWalks
<1>3. /\ Path(edge, id) = f[N] /\ f[0] = <<id>>
      /\ \A k \in 1..N : f[k] = Stepped(edge, f[k - 1])
  BY <1>2 DEF WalkOf
<1> DEFINE S == {k \in Nat : k <= N => f[k] \in Seq(Nodes(edge, id)) /\ PrefixOf(f[k], w, k + 1)}
<1>4. 0 \in S
  <2>1. <<id>> \in Seq(Nodes(edge, id)) /\ Len(<<id>>) = 1 /\ <<id>>[1] = id
    BY DEF Nodes
  <2>2. w[1] = id
    BY DEF Chain
  <2>3. PrefixOf(<<id>>, w, 0 + 1)
    BY <1>1, <2>1, <2>2 DEF PrefixOf
  <2>4. f[0] \in Seq(Nodes(edge, id)) /\ PrefixOf(f[0], w, 0 + 1)
    BY <1>3, <2>1, <2>3
  <2> QED
    BY <2>4
<1>5. ASSUME NEW k \in S PROVE k + 1 \in S
  <2> SUFFICES ASSUME k + 1 <= N
               PROVE  f[k + 1] \in Seq(Nodes(edge, id)) /\ PrefixOf(f[k + 1], w, k + 1 + 1)
    OBVIOUS
  <2>1. /\ f[k] \in Seq(Nodes(edge, id)) /\ PrefixOf(f[k], w, k + 1)
        /\ k + 1 \in 1..N /\ k + 1 \in Nat /\ k + 1 >= 1
    BY <1>1
  <2>2. f[k + 1] = Stepped(edge, f[k])
    BY <1>3, <2>1
  <2> QED
    BY <2>1, <2>2, SteppedPrefix
<1>6. S \in SUBSET Nat
  OBVIOUS
<1>7. \A k \in Nat : k \in S
  <2> HIDE DEF S
  <2> QED
    BY <1>4, <1>5, <1>6, SetInduction
<1>8. f[N] \in Seq(Nodes(edge, id)) /\ PrefixOf(f[N], w, N + 1)
  BY <1>1, <1>7
<1>9. Len(f[N]) = Len(w) /\ \A i \in 1..Len(w) : f[N][i] = w[i]
  BY <1>1, <1>8 DEF PrefixOf
<1> QED
  BY <1>1, <1>3, <1>8, <1>9, SeqEqual

\* The nodes met from id, id among them.
Met(edge, id) == Seqs!ToSet(Path(edge, id))

\* They are closed under the edges, when the walk ends...
LEMMA MetClosed ==
    ASSUME NEW edge, NEW id, IsFiniteSet(DOMAIN edge), ~OnCycle(edge, id),
           NEW x \in Met(edge, id), Leads(edge, x)
    PROVE  edge[x] \in Met(edge, id)
<1> DEFINE p == Path(edge, id)
<1>1. Chain(edge, id, p)
  BY PathIsChain
<1>2. ~Leads(edge, p[Len(p)])
  BY DEF OnCycle, Leads, Seqs!Last
<1>3. Met(edge, id) = {p[i] : i \in DOMAIN p}
  BY DEF Met, Seqs!ToSet
<1> HIDE DEF p
<1>4. p \in Seq(Nodes(edge, id)) /\ Len(p) \in Nat /\ DOMAIN p = 1..Len(p)
  BY <1>1 DEF Chain
<1>5. PICK i \in 1..Len(p) : x = p[i]
  BY <1>3, <1>4
<1>6. i + 1 \in 1..Len(p)
  BY <1>2, <1>4, <1>5
<1>7. edge[x] = p[i + 1]
  BY <1>1, <1>5, <1>6 DEF Chain
<1> QED
  BY <1>3, <1>4, <1>6, <1>7

\* ... and they are the least such nodes.
LEMMA MetLeast ==
    ASSUME NEW edge, NEW id, IsFiniteSet(DOMAIN edge), NEW T, id \in T,
           \A x \in T : Leads(edge, x) => edge[x] \in T
    PROVE  Met(edge, id) \subseteq T
<1> DEFINE p == Path(edge, id)
           S == {n \in Nat : n + 1 \in 1..Len(p) => p[n + 1] \in T}
<1>1. Chain(edge, id, p)
  BY PathIsChain
<1>2. Met(edge, id) = {p[i] : i \in DOMAIN p}
  BY DEF Met, Seqs!ToSet
<1> HIDE DEF p
<1>3. p \in Seq(Nodes(edge, id)) /\ Len(p) \in Nat /\ DOMAIN p = 1..Len(p) /\ p[1] = id
  BY <1>1 DEF Chain
<1>4. 0 \in S
  BY <1>3
<1>5. ASSUME NEW n \in S PROVE n + 1 \in S
  <2> SUFFICES ASSUME n + 1 + 1 \in 1..Len(p) PROVE p[n + 1 + 1] \in T
    OBVIOUS
  <2>1. n + 1 \in 1..Len(p) /\ p[n + 1] \in T
    BY <1>3
  <2>2. Leads(edge, p[n + 1]) /\ p[n + 1 + 1] = edge[p[n + 1]]
    BY <1>1, <2>1 DEF Chain
  <2> QED
    BY <2>1, <2>2
<1>6. S \in SUBSET Nat
  OBVIOUS
<1>7. \A n \in Nat : n \in S
  <2> HIDE DEF S
  <2> QED
    BY <1>4, <1>5, <1>6, SetInduction
<1>8. \A i \in 1..Len(p) : p[i] \in T
  <2> SUFFICES ASSUME NEW i \in 1..Len(p) PROVE p[i] \in T
    OBVIOUS
  <2>1. i - 1 \in S /\ i - 1 + 1 = i
    BY <1>3, <1>7
  <2> QED
    BY <2>1
<1> QED
  BY <1>2, <1>3, <1>8

\* The first is id, and the rest are not.
LEMMA MetSplit ==
    ASSUME NEW edge, NEW id, IsFiniteSet(DOMAIN edge)
    PROVE  /\ Met(edge, id) = {id} \cup Seqs!ToSet(Tail(Path(edge, id)))
           /\ id \in Met(edge, id)
           /\ id \notin Seqs!ToSet(Tail(Path(edge, id)))
           /\ Seqs!Last(Path(edge, id)) \in Met(edge, id)
<1> DEFINE p == Path(edge, id)
<1>1. Chain(edge, id, p)
  BY PathIsChain
<1> HIDE DEF p
<1>2. p \in Seq(Nodes(edge, id)) /\ Len(p) \in Nat /\ Len(p) >= 1 /\ p # <<>> /\ p[1] = id
  BY <1>1 DEF Chain
<1>3. /\ Tail(p) \in Seq(Nodes(edge, id)) /\ Len(Tail(p)) = Len(p) - 1
      /\ \A i \in 1..(Len(p) - 1) : Tail(p)[i] = p[i + 1]
  BY <1>2
<1>4. Seqs!ToSet(Tail(p)) = {p[i + 1] : i \in 1..(Len(p) - 1)}
  <2>1. DOMAIN Tail(p) = 1..(Len(p) - 1)
    BY <1>2, <1>3
  <2> QED
    BY <1>3, <2>1 DEF Seqs!ToSet
<1>5. Seqs!ToSet(p) = {p[i] : i \in 1..Len(p)}
  BY <1>2 DEF Seqs!ToSet
<1>6. Seqs!ToSet(p) = {id} \cup Seqs!ToSet(Tail(p))
  <2>1. ASSUME NEW i \in 1..Len(p) PROVE p[i] \in {id} \cup Seqs!ToSet(Tail(p))
    <3>1. CASE i = 1
      BY <3>1, <1>2
    <3>2. CASE i # 1
      <4>1. i - 1 \in 1..(Len(p) - 1) /\ p[i] = p[i - 1 + 1]
        BY <3>2, <1>2
      <4> QED
        BY <4>1, <1>4
    <3> QED
      BY <3>1, <3>2
  <2>2. ASSUME NEW i \in 1..(Len(p) - 1) PROVE p[i + 1] \in Seqs!ToSet(p)
    <3>1. i + 1 \in 1..Len(p)
      BY <1>2
    <3> QED
      BY <3>1, <1>5
  <2>3. id \in Seqs!ToSet(p)
    <3>1. 1 \in 1..Len(p)
      BY <1>2
    <3> QED
      BY <3>1, <1>2, <1>5
  <2> QED
    BY <2>1, <2>2, <2>3, <1>4, <1>5
<1>7. ASSUME NEW i \in 1..(Len(p) - 1) PROVE p[i + 1] # id
  <2>1. 1 \in 1..Len(p) /\ i + 1 \in 1..Len(p) /\ i + 1 # 1
    BY <1>2
  <2> QED
    BY <2>1, <1>1 DEF Chain
<1>8. Seqs!Last(p) \in Seqs!ToSet(p)
  <2>1. Len(p) \in 1..Len(p)
    BY <1>2
  <2> QED
    BY <2>1, <1>5 DEF Seqs!Last
<1> QED
  BY <1>4, <1>6, <1>7, <1>8 DEF Met, p

\* What is met beyond id is met from where its edge leads.
LEMMA MetBeyond ==
    ASSUME NEW edge, NEW id, IsFiniteSet(DOMAIN edge)
    PROVE  \A x \in Seqs!ToSet(Tail(Path(edge, id))) :
             Leads(edge, id) /\ (~OnCycle(edge, edge[id]) => x \in Met(edge, edge[id]))
<1> DEFINE p == Path(edge, id)
           T == Met(edge, edge[id])
           S == {n \in Nat : n + 2 \in 1..Len(p) => p[n + 2] \in T}
<1>1. Chain(edge, id, p)
  BY PathIsChain
<1> HIDE DEF p
<1>2. p \in Seq(Nodes(edge, id)) /\ Len(p) \in Nat /\ Len(p) >= 1 /\ p # <<>> /\ p[1] = id
  BY <1>1 DEF Chain
<1>3. Seqs!ToSet(Tail(p)) = {p[i + 1] : i \in 1..(Len(p) - 1)}
  <2>1. DOMAIN Tail(p) = 1..(Len(p) - 1) /\ \A i \in 1..(Len(p) - 1) : Tail(p)[i] = p[i + 1]
    BY <1>2
  <2> QED
    BY <2>1 DEF Seqs!ToSet
<1> SUFFICES ASSUME NEW i \in 1..(Len(p) - 1)
             PROVE  Leads(edge, id) /\ (~OnCycle(edge, edge[id]) => p[i + 1] \in T)
  BY <1>3 DEF p
<1>4. 1 \in 1..Len(p) /\ 1 + 1 \in 1..Len(p)
  BY <1>2
<1>5. Leads(edge, id) /\ p[2] = edge[id]
  BY <1>1, <1>2, <1>4 DEF Chain
<1> SUFFICES ASSUME ~OnCycle(edge, edge[id]) PROVE p[i + 1] \in T
  BY <1>5
<1>6. \A x \in T : Leads(edge, x) => edge[x] \in T
  BY MetClosed
<1>7. edge[id] \in T
  BY MetSplit
<1> HIDE DEF T
<1>8. 0 \in S
  BY <1>5, <1>7
<1>9. ASSUME NEW n \in S PROVE n + 1 \in S
  <2> SUFFICES ASSUME n + 1 + 2 \in 1..Len(p) PROVE p[n + 1 + 2] \in T
    OBVIOUS
  <2>1. n + 2 \in 1..Len(p) /\ p[n + 2] \in T /\ n + 2 + 1 = n + 1 + 2
    BY <1>2
  <2>2. Leads(edge, p[n + 2]) /\ p[n + 1 + 2] = edge[p[n + 2]]
    BY <1>1, <2>1 DEF Chain
  <2> QED
    BY <2>1, <2>2, <1>6
<1>10. S \in SUBSET Nat
  OBVIOUS
<1>11. \A n \in Nat : n \in S
  <2> HIDE DEF S
  <2> QED
    BY <1>8, <1>9, <1>10, SetInduction
<1>12. i - 1 \in S /\ i - 1 + 2 = i + 1 /\ i + 1 \in 1..Len(p)
  BY <1>2, <1>11
<1> QED
  BY <1>12

---------------------------------------------------------------------------
(***************************************************************************)
(* A directory that validates: what a principal's chain of delegators is.  *)
(***************************************************************************)

\* What a directory in force is: valid, finite, with typed principals.
ValidDirectory(dir) ==
    /\ IsFiniteSet(DOMAIN dir.principals)
    /\ None \notin DOMAIN dir.principals
    /\ \A p \in DOMAIN dir.principals :
         /\ dir.principals[p].expiry \in Int /\ dir.principals[p].expiry <= MaxLong
         /\ "revoked" \in DOMAIN dir.principals[p]
    /\ Validate(dir)

\* A principal, and those it delegates from.
Line(dir, id) == Met(Delegator(dir), id)

LEMMA DelegatorFacts ==
    ASSUME NEW dir, ValidDirectory(dir)
    PROVE  /\ DOMAIN Delegator(dir) = DOMAIN dir.principals
           /\ IsFiniteSet(DOMAIN Delegator(dir))
           /\ \A x \in DOMAIN dir.principals :
                /\ Delegator(dir)[x] = dir.principals[x].delegator
                /\ ~OnCycle(Delegator(dir), x)
                /\ Leads(Delegator(dir), x) <=> dir.principals[x].delegator # None
                /\ dir.principals[x].delegator # None =>
                     /\ dir.principals[x].delegator \in DOMAIN dir.principals
                     /\ Within(dir.principals[x], dir.principals[dir.principals[x].delegator])
BY DEF ValidDirectory, Validate, Attenuates, Acyclic, Delegator, Leads, Known

LEMMA WithinTransitive ==
    ASSUME NEW p, NEW q, NEW r, p.expiry \in Int, q.expiry \in Int, r.expiry \in Int,
           Within(p, q), Within(q, r)
    PROVE  Within(p, r)
BY DEF Within

\* Attenuation carries up the whole line.
LEMMA LineAttenuates ==
    ASSUME NEW dir, ValidDirectory(dir), NEW id \in DOMAIN dir.principals
    PROVE  \A x \in Line(dir, id) : /\ x \in DOMAIN dir.principals
                                    /\ Within(dir.principals[id], dir.principals[x])
<1> DEFINE P == dir.principals
           edge == Delegator(dir)
           T == {x \in DOMAIN P : Within(P[id], P[x])}
<1>1. id \in T
  BY DEF ValidDirectory, Within
<1>2. ASSUME NEW x \in T, Leads(edge, x) PROVE edge[x] \in T
  <2>1. /\ edge[x] \in DOMAIN P /\ Within(P[x], P[edge[x]]) /\ Within(P[id], P[x])
    BY <1>2, DelegatorFacts
  <2>2. P[id].expiry \in Int /\ P[x].expiry \in Int /\ P[edge[x]].expiry \in Int
    BY <2>1 DEF ValidDirectory
  <2>3. PICK p, q, r : p = P[id] /\ q = P[x] /\ r = P[edge[x]]
    OBVIOUS
  <2>4. Within(p, r)
    BY <2>1, <2>2, <2>3, WithinTransitive
  <2> QED
    BY <2>1, <2>3, <2>4
<1>3. IsFiniteSet(DOMAIN edge)
  BY DelegatorFacts
<1> HIDE DEF T, edge
<1>4. Met(edge, id) \subseteq T
  BY <1>1, <1>2, <1>3, MetLeast
<1> QED
  BY <1>4 DEF Line, T, edge

\* The line is id and its ancestors; it is closed under delegation, and ends
\* at a principal that delegates from no one.
LEMMA LineFacts ==
    ASSUME NEW dir, ValidDirectory(dir), NEW id \in DOMAIN dir.principals
    PROVE  /\ Line(dir, id) = {id} \cup Seqs!ToSet(AncestorsOf(dir, id))
           /\ id \in Line(dir, id)
           /\ id \notin Seqs!ToSet(AncestorsOf(dir, id))
           /\ \A x \in Line(dir, id) :
                dir.principals[x].delegator # None => dir.principals[x].delegator \in Line(dir, id)
           /\ LET root == Seqs!Last(Path(Delegator(dir), id)) IN
              root \in Line(dir, id) /\ dir.principals[root].delegator = None
<1> DEFINE edge == Delegator(dir)
           root == Seqs!Last(Path(edge, id))
<1>1. IsFiniteSet(DOMAIN edge) /\ ~OnCycle(edge, id) /\ DOMAIN edge = DOMAIN dir.principals
  BY DelegatorFacts
<1>2. \A x \in DOMAIN dir.principals :
        /\ edge[x] = dir.principals[x].delegator
        /\ Leads(edge, x) <=> dir.principals[x].delegator # None
  BY DelegatorFacts
<1>3. \A x \in Line(dir, id) : x \in DOMAIN dir.principals
  BY LineAttenuates
<1>4. ~Leads(edge, root)
  BY <1>1 DEF OnCycle, Leads
<1> HIDE DEF edge, root
<1>5. \A x \in Met(edge, id) : Leads(edge, x) => edge[x] \in Met(edge, id)
  BY <1>1, MetClosed
<1>6. /\ Met(edge, id) = {id} \cup Seqs!ToSet(Tail(Path(edge, id)))
      /\ id \in Met(edge, id) /\ id \notin Seqs!ToSet(Tail(Path(edge, id)))
      /\ Seqs!Last(Path(edge, id)) \in Met(edge, id)
  BY <1>1, MetSplit
<1>7. Line(dir, id) = Met(edge, id) /\ AncestorsOf(dir, id) = Tail(Path(edge, id))
  BY DEF Line, AncestorsOf, edge
<1>8. root \in Line(dir, id) /\ dir.principals[root].delegator = None
  BY <1>2, <1>3, <1>4, <1>6, <1>7 DEF root
<1> QED
  BY <1>2, <1>3, <1>5, <1>6, <1>7, <1>8 DEF root, edge

LEMMA RevokedInLine ==
    ASSUME NEW dir, ValidDirectory(dir), NEW id \in DOMAIN dir.principals
    PROVE  Revoked(dir, id) <=> \E a \in Line(dir, id) : dir.principals[a].revoked
BY LineFacts, LineAttenuates DEF Revoked, Known

\* A delegator's line is the rest of its delegate's.
LEMMA LineBeyond ==
    ASSUME NEW dir, ValidDirectory(dir), NEW id \in DOMAIN dir.principals,
           dir.principals[id].delegator # None
    PROVE  LET d == dir.principals[id].delegator IN
           /\ Line(dir, d) \subseteq Line(dir, id)
           /\ Seqs!ToSet(AncestorsOf(dir, id)) \subseteq Line(dir, d)
<1> DEFINE edge == Delegator(dir)
<1>1. PICK d : d = dir.principals[id].delegator
  OBVIOUS
<1>2. d \in DOMAIN dir.principals /\ edge[id] = d /\ ~OnCycle(edge, d) /\ IsFiniteSet(DOMAIN edge)
  BY <1>1, DelegatorFacts
<1>3. /\ d \in Met(edge, id)
      /\ \A x \in Met(edge, id) : Leads(edge, x) => edge[x] \in Met(edge, id)
  <2>1. id \in Met(edge, id)
    BY <1>2, MetSplit
  <2>2. \A x \in Met(edge, id) : Leads(edge, x) => edge[x] \in Met(edge, id)
    BY DelegatorFacts, MetClosed
  <2>3. Leads(edge, id)
    BY DelegatorFacts
  <2> QED
    BY <2>1, <2>2, <2>3, <1>2
<1>4. Met(edge, d) \subseteq Met(edge, id)
  BY <1>2, <1>3, MetLeast
<1>5. \A x \in Seqs!ToSet(Tail(Path(edge, id))) : x \in Met(edge, d)
  BY <1>2, MetBeyond
<1> QED
  BY <1>1, <1>4, <1>5 DEF Line, AncestorsOf

LEMMA NoLineBeyondRoot ==
    ASSUME NEW dir, ValidDirectory(dir), NEW id \in DOMAIN dir.principals,
           dir.principals[id].delegator = None
    PROVE  Seqs!ToSet(AncestorsOf(dir, id)) = {}
<1> DEFINE edge == Delegator(dir)
<1>1. IsFiniteSet(DOMAIN edge) /\ ~Leads(edge, id)
  BY DelegatorFacts
<1>2. \A x \in Seqs!ToSet(Tail(Path(edge, id))) : Leads(edge, id)
  BY <1>1, MetBeyond
<1> QED
  BY <1>1, <1>2 DEF AncestorsOf

\* What a principal is allowed on a resource of one of its ancestors, its
\* delegator is allowed too.
LEMMA DelegatorAllowed ==
    ASSUME NEW dir, ValidDirectory(dir), NEW s, NEW action, NEW r, NEW ctx,
           Check(dir, [type |-> "Principal", id |-> s], action,
                 [type |-> "Resource", id |-> r], ctx),
           dir.resources[r].owner \in Seqs!ToSet(AncestorsOf(dir, s))
    PROVE  Check(dir, [type |-> "Principal", id |-> dir.principals[s].delegator], action,
                 [type |-> "Resource", id |-> r], ctx)
<1> DEFINE P == dir.principals
           res == dir.resources[r]
<1>1. PICK d : d = P[s].delegator
  OBVIOUS
<1>2. /\ s \in DOMAIN P /\ r \in DOMAIN dir.resources /\ action \in Actions
      /\ ctx.now \in 0..MaxLong /\ ctx.flags \subseteq Declared(action)
      /\ Permitted(dir, s, action, r, ctx) /\ ~Forbidden(dir, s, action, r, ctx)
  BY DEF Check, Known
<1>3. d # None
  BY <1>1, <1>2, NoLineBeyondRoot
<1>4. d \in DOMAIN P /\ Within(P[s], P[d])
  BY <1>1, <1>2, <1>3, DelegatorFacts
<1>5. Line(dir, d) \subseteq Line(dir, s) /\ res.owner \in Line(dir, d)
  BY <1>1, <1>2, <1>3, LineBeyond
<1>6. res.owner # s
  BY <1>2, LineFacts
<1>7. Reaches(dir, d, r)
  BY <1>4, <1>5, LineFacts DEF Reaches
<1>8. ~Revoked(dir, d)
  <2>1. ~Revoked(dir, s)
    BY <1>2 DEF Forbidden
  <2> QED
    BY <2>1, <1>2, <1>4, <1>5, RevokedInLine
<1>9. P[s].expiry \in Int /\ P[d].expiry \in Int /\ ctx.now \in Int
  BY <1>2, <1>4 DEF ValidDirectory
<1>10. Permitted(dir, d, action, r, ctx)
  BY <1>2, <1>4, <1>7, <1>9 DEF Permitted, Within
<1>11. ~Forbidden(dir, d, action, r, ctx)
  BY <1>2, <1>4, <1>6, <1>8, <1>9, <1>10 DEF Forbidden, Within, Permitted
<1> QED
  BY <1>1, <1>2, <1>4, <1>10, <1>11 DEF Check, Known

---------------------------------------------------------------------------
(***************************************************************************)
(* The blast radius of a revocation.                                       *)
(***************************************************************************)

\* The delegates, in id's tenant, of those in S; one round of the search; and f
\* as its first n rounds.
DelegatesOf(dir, id, S) ==
    {c \in DOMAIN dir.principals : /\ dir.principals[c].tenant = dir.principals[id].tenant
                                   /\ dir.principals[c].delegator \in S}

Grown(dir, id, S) == S \cup DelegatesOf(dir, id, S)

Rounds(f, dir, id, n) ==
    f = [k \in 0..n |-> IF k = 0 THEN {id} ELSE Grown(dir, id, f[k - 1])]

LEMMA RoundsExist ==
    ASSUME NEW dir, NEW id
    PROVE  \A n \in Nat : \E f : Rounds(f, dir, id, n)
<1> DEFINE S == {n \in Nat : \E f : Rounds(f, dir, id, n)}
<1>1. 0 \in S
  <2> DEFINE f == [k \in 0..0 |-> IF k = 0 THEN {id} ELSE Grown(dir, id, {})]
  <2>1. Rounds(f, dir, id, 0)
    BY DEF Rounds
  <2> QED
    BY <2>1
<1>2. ASSUME NEW n \in S PROVE n + 1 \in S
  <2>1. PICK f : Rounds(f, dir, id, n)
    OBVIOUS
  <2> DEFINE g == [k \in 0..(n + 1) |-> IF k <= n THEN f[k] ELSE Grown(dir, id, f[n])]
  <2>2. n \in Nat
    OBVIOUS
  <2>3. \A k \in 0..n : f[k] = IF k = 0 THEN {id} ELSE Grown(dir, id, f[k - 1])
    BY <2>1 DEF Rounds
  <2>4. \A k \in 0..(n + 1) : g[k] = IF k = 0 THEN {id} ELSE Grown(dir, id, g[k - 1])
    <3> SUFFICES ASSUME NEW k \in 0..(n + 1)
                 PROVE  g[k] = IF k = 0 THEN {id} ELSE Grown(dir, id, g[k - 1])
      OBVIOUS
    <3>1. CASE k = 0
      BY <3>1, <2>2, <2>3
    <3>2. CASE k \in 1..n
      <4>1. g[k] = f[k] /\ g[k - 1] = f[k - 1]
        BY <3>2, <2>2
      <4> QED
        BY <4>1, <3>2, <2>2, <2>3
    <3>3. CASE k = n + 1
      <4>1. g[k] = Grown(dir, id, f[n]) /\ g[k - 1] = f[n]
        BY <3>3, <2>2
      <4> QED
        BY <4>1, <3>3, <2>2
    <3> QED
      BY <3>1, <3>2, <3>3, <2>2
  <2>5. Rounds(g, dir, id, n + 1)
    BY <2>4 DEF Rounds
  <2> QED
    BY <2>2, <2>5
<1>3. S \in SUBSET Nat
  OBVIOUS
<1>4. \A n \in Nat : n \in S
  <2> HIDE DEF S
  <2> QED
    BY <1>1, <1>2, <1>3, SetInduction
<1> QED
  BY <1>4

\* f is the search DescendantsOf makes, in n rounds.
SearchOf(f, dir, id, n) ==
    /\ DescendantsOf(dir, id) = f[n] \ {id}
    /\ f[0] = {id}
    /\ \A k \in 1..n : f[k] = Grown(dir, id, f[k - 1])

LEMMA DescendantsSearched ==
    ASSUME NEW dir, IsFiniteSet(DOMAIN dir.principals), NEW id \in DOMAIN dir.principals,
           NEW N, N = Cardinality(DOMAIN dir.principals)
    PROVE  \E f : SearchOf(f, dir, id, N)
<1> DEFINE f == CHOOSE g : Rounds(g, dir, id, N)
<1>1. N \in Nat
  BY FS_CardinalityType
<1>2. Rounds(f, dir, id, N)
  BY <1>1, RoundsExist
<1>3. DescendantsOf(dir, id) = f[N] \ {id}
  BY DEF DescendantsOf, Rounds, Grown, DelegatesOf, Known
<1> HIDE DEF f
<1>4. \A k \in 0..N : f[k] = IF k = 0 THEN {id} ELSE Grown(dir, id, f[k - 1])
  BY <1>2 DEF Rounds
<1>5. f[0] = {id}
  BY <1>1, <1>4
<1>6. \A k \in 1..N : f[k] = Grown(dir, id, f[k - 1])
  BY <1>1, <1>4
<1> QED
  BY <1>3, <1>5, <1>6 DEF SearchOf

\* The descendants of a principal are those it is an ancestor of.
LEMMA DescendantsExact ==
    ASSUME NEW dir, ValidDirectory(dir), NEW id \in DOMAIN dir.principals
    PROVE  /\ DescendantsOf(dir, id) \subseteq DOMAIN dir.principals
           /\ \A q \in DOMAIN dir.principals :
                id \in Line(dir, q) <=> q = id \/ q \in DescendantsOf(dir, id)
<1> DEFINE P == dir.principals
<1>0. PICK N : N = Cardinality(DOMAIN P)
  OBVIOUS
<1>1. N \in Nat
  BY <1>0, FS_CardinalityType DEF ValidDirectory
<1>2. PICK f : SearchOf(f, dir, id, N)
  BY <1>0, DescendantsSearched DEF ValidDirectory
<1>3. /\ DescendantsOf(dir, id) = f[N] \ {id} /\ f[0] = {id}
      /\ \A k \in 1..N : f[k] = Grown(dir, id, f[k - 1])
  BY <1>2 DEF SearchOf
<1>4. f[N] \subseteq {q \in DOMAIN P : id \in Line(dir, q)}
  <2> DEFINE S == {k \in Nat : k <= N => f[k] \subseteq {q \in DOMAIN P : id \in Line(dir, q)}}
  <2>1. 0 \in S
    BY <1>3, LineFacts
  <2>2. ASSUME NEW k \in S PROVE k + 1 \in S
    <3> SUFFICES ASSUME k + 1 <= N, NEW c \in f[k + 1] PROVE c \in DOMAIN P /\ id \in Line(dir, c)
      OBVIOUS
    <3>1. k + 1 \in 1..N /\ k + 1 - 1 = k /\ \A q \in f[k] : q \in DOMAIN P /\ id \in Line(dir, q)
      BY <1>1
    <3>2. c \in f[k] \/ c \in DelegatesOf(dir, id, f[k])
      BY <3>1, <1>3 DEF Grown
    <3>3. CASE c \in DelegatesOf(dir, id, f[k])
      <4>1. c \in DOMAIN P /\ P[c].delegator \in f[k]
        BY <3>3 DEF DelegatesOf
      <4>2. P[c].delegator # None /\ id \in Line(dir, P[c].delegator)
        BY <4>1, <3>1 DEF ValidDirectory
      <4> QED
        BY <4>1, <4>2, LineBeyond
    <3> QED
      BY <3>1, <3>2, <3>3
  <2>3. S \in SUBSET Nat
    OBVIOUS
  <2>4. \A k \in Nat : k \in S
    <3> HIDE DEF S
    <3> QED
      BY <2>1, <2>2, <2>3, SetInduction
  <2> QED
    BY <2>4, <1>1
<1>5. ASSUME NEW q \in DOMAIN P, id \in Line(dir, q) PROVE q \in f[N]
  <2> DEFINE edge == Delegator(dir)
             p == Path(edge, q)
  <2>1. Chain(edge, q, p) /\ Len(p) <= N + 1
    BY <1>0, DelegatorFacts, PathIsChain
  <2>2. Line(dir, q) = {p[i] : i \in DOMAIN p}
    BY DEF Line, Met, Seqs!ToSet
  <2> HIDE DEF p
  <2>3. /\ p \in Seq(Nodes(edge, q)) /\ Len(p) \in Nat /\ DOMAIN p = 1..Len(p) /\ p[1] = q
    BY <2>1 DEF Chain
  <2>4. PICK j \in 1..Len(p) : p[j] = id
    BY <1>5, <2>2, <2>3
  <2>5. ASSUME NEW i \in 1..Len(p), i + 1 \in 1..Len(p)
        PROVE  p[i] \in DOMAIN P /\ P[p[i]].delegator = p[i + 1] /\ P[p[i]].tenant = P[id].tenant
    <3>1. p[i] \in DOMAIN P /\ Within(P[q], P[p[i]]) /\ Within(P[q], P[id])
      BY <1>5, <2>2, <2>3, LineAttenuates
    <3>2. p[i + 1] = edge[p[i]]
      BY <2>1, <2>5 DEF Chain
    <3> QED
      BY <3>1, <3>2, DelegatorFacts DEF Within
  <2> DEFINE S == {k \in Nat : k <= N => \A m \in 0..k : m < j => p[j - m] \in f[k]}
  <2>6. 0 \in S
    BY <2>4, <1>3
  <2>7. ASSUME NEW k \in S PROVE k + 1 \in S
    <3> SUFFICES ASSUME k + 1 <= N, NEW m \in 0..(k + 1), m < j PROVE p[j - m] \in f[k + 1]
      OBVIOUS
    <3>1. k \in Nat /\ k + 1 \in 1..N /\ k + 1 - 1 = k /\ \A l \in 0..k : l < j => p[j - l] \in f[k]
      BY <1>1
    <3>2. f[k + 1] = f[k] \cup DelegatesOf(dir, id, f[k])
      BY <3>1, <1>3 DEF Grown
    <3>3. CASE m \in 0..k
      BY <3>1, <3>2, <3>3
    <3>4. CASE m = k + 1
      <4>1. p[j - k] \in f[k]
        BY <3>1, <3>4
      <4>2. j - m \in 1..Len(p) /\ j - m + 1 = j - k /\ j - k \in 1..Len(p)
        BY <2>3, <3>1, <3>4
      <4>3. p[j - m] \in DelegatesOf(dir, id, f[k])
        BY <4>1, <4>2, <2>5 DEF DelegatesOf
      <4> QED
        BY <4>3, <3>2
    <3> QED
      BY <3>1, <3>3, <3>4
  <2>8. S \in SUBSET Nat
    OBVIOUS
  <2>9. \A k \in Nat : k \in S
    <3> HIDE DEF S
    <3> QED
      BY <2>6, <2>7, <2>8, SetInduction
  <2>10. PICK m : m = j - 1
    OBVIOUS
  <2>11. m \in 0..N /\ m < j /\ j - m = 1
    BY <2>1, <2>3, <2>10, <1>1
  <2>12. \A l \in 0..N : l < j => p[j - l] \in f[N]
    BY <2>9, <1>1
  <2>13. p[j - m] \in f[N]
    BY <2>11, <2>12
  <2> QED
    BY <2>3, <2>11, <2>13
<1>6. id \in Line(dir, id)
  BY LineFacts
<1> QED
  BY <1>3, <1>4, <1>5, <1>6

\* Revoking a principal revokes it, its descendants, and no one else.
LEMMA RevocationExact ==
    ASSUME NEW dir, ValidDirectory(dir), "principals" \in DOMAIN dir,
           NEW p \in DOMAIN dir.principals
    PROVE  LET after == [dir EXCEPT !.principals[p].revoked = TRUE] IN
           {q \in DOMAIN dir.principals : Revoked(after, q)} =
             {p} \cup DescendantsOf(dir, p) \cup {q \in DOMAIN dir.principals : Revoked(dir, q)}
<1> DEFINE P == dir.principals
<1>1. PICK after : after = [dir EXCEPT !.principals[p].revoked = TRUE]
  OBVIOUS
<1>2. after.principals = [P EXCEPT ![p].revoked = TRUE]
  BY <1>1
<1>3. /\ DOMAIN after.principals = DOMAIN P
      /\ \A x \in DOMAIN P : after.principals[x].delegator = P[x].delegator
      /\ \A x \in DOMAIN P : after.principals[x].revoked <=> (x = p \/ P[x].revoked)
  <2>1. "revoked" \in DOMAIN P[p]
    BY DEF ValidDirectory
  <2>2. ASSUME NEW x \in DOMAIN P
        PROVE  after.principals[x] = IF x = p THEN [P[p] EXCEPT !.revoked = TRUE] ELSE P[x]
    BY <1>2
  <2>3. PICK t : t = [P[p] EXCEPT !.revoked = TRUE]
    OBVIOUS
  <2>4. t.revoked = TRUE /\ t.delegator = P[p].delegator
    BY <2>1, <2>3
  <2> QED
    BY <1>2, <2>2, <2>3, <2>4
<1>4. Delegator(after) = Delegator(dir)
  BY <1>3 DEF Delegator
<1>5. ASSUME NEW q \in DOMAIN P
      PROVE  Revoked(after, q) <=> p \in Line(dir, q) \/ Revoked(dir, q)
  <2>1. AncestorsOf(after, q) = AncestorsOf(dir, q)
    BY <1>4 DEF AncestorsOf
  <2>2. Revoked(after, q) <=> \E a \in Line(dir, q) : a \in DOMAIN P /\ after.principals[a].revoked
    BY <2>1, <1>3, LineFacts DEF Revoked, Known
  <2> QED
    BY <2>2, <1>3, RevokedInLine, LineAttenuates
<1>6. \A q \in DescendantsOf(dir, p) : q \in DOMAIN P
  BY DescendantsExact
<1>7. \A q \in DOMAIN P : p \in Line(dir, q) <=> q = p \/ q \in DescendantsOf(dir, p)
  BY DescendantsExact
<1> QED
  BY <1>1, <1>5, <1>6, <1>7

---------------------------------------------------------------------------
(***************************************************************************)
(* Admission.  A new agent below a principal of a valid directory leaves   *)
(* it valid, so what is minted inside its delegator is never refused.      *)
(***************************************************************************)

\* edge2 has one edge more, from n to d.
Extends(edge2, edge, n, d) ==
    edge2 = [x \in DOMAIN edge \cup {n} |-> IF x = n THEN d ELSE edge[x]]

\* A chain stays one where a node that nothing leads to is added.
LEMMA ChainExtended ==
    ASSUME NEW edge, NEW id \in DOMAIN edge, NEW n, n \notin DOMAIN edge, NEW d,
           NEW edge2, Extends(edge2, edge, n, d),
           NEW w, Chain(edge, id, w), \A i \in 1..Len(w) : w[i] \in DOMAIN edge
    PROVE  /\ Chain(edge2, id, w)
           /\ ~Leads(edge, w[Len(w)]) => ~Leads(edge2, w[Len(w)])
<1>1. DOMAIN edge2 = DOMAIN edge \cup {n} /\ \A x \in DOMAIN edge : edge2[x] = edge[x]
  BY DEF Extends
<1>2. Nodes(edge, id) \subseteq Nodes(edge2, id)
  BY <1>1 DEF Nodes
<1>3. w \in Seq(Nodes(edge, id)) /\ Len(w) \in Nat /\ Len(w) >= 1 /\ w[1] = id
  BY DEF Chain
<1>4. w \in Seq(Nodes(edge2, id))
  BY <1>2, <1>3, SeqMonotonic
<1>5. \A x \in DOMAIN edge : Leads(edge2, x) <=> Leads(edge, x)
  BY <1>1 DEF Leads
<1>6. ASSUME NEW i \in 1..Len(w), i + 1 \in 1..Len(w)
      PROVE  Leads(edge2, w[i]) /\ w[i + 1] = edge2[w[i]]
  <2>1. Leads(edge, w[i]) /\ w[i + 1] = edge[w[i]]
    BY <1>6 DEF Chain
  <2> QED
    BY <2>1, <1>1, <1>5
<1>7. \A i, j \in 1..Len(w) : w[i] = w[j] => i = j
  BY DEF Chain
<1>8. Chain(edge2, id, w)
  BY <1>3, <1>4, <1>6, <1>7 DEF Chain
<1>9. Len(w) \in 1..Len(w)
  BY <1>3
<1> QED
  BY <1>5, <1>8, <1>9

LEMMA ExtendedAcyclic ==
    ASSUME NEW edge, IsFiniteSet(DOMAIN edge), Acyclic(edge), None \notin DOMAIN edge,
           \A x \in DOMAIN edge : edge[x] # None => edge[x] \in DOMAIN edge,
           NEW n, n \notin DOMAIN edge, NEW d \in DOMAIN edge,
           NEW edge2, Extends(edge2, edge, n, d)
    PROVE  Acyclic(edge2)
<1>1. DOMAIN edge2 = DOMAIN edge \cup {n} /\ edge2[n] = d
  BY DEF Extends
<1>2. PICK N : N = Cardinality(DOMAIN edge)
  OBVIOUS
<1>3. N \in Nat /\ IsFiniteSet(DOMAIN edge2) /\ Cardinality(DOMAIN edge2) = N + 1
  BY <1>1, <1>2, FS_CardinalityType, FS_AddElement
<1>4. ASSUME NEW x \in DOMAIN edge
      PROVE  LET w == Path(edge, x) IN
             /\ Chain(edge, x, w) /\ Len(w) <= N + 1 /\ ~Leads(edge, w[Len(w)])
             /\ \A i \in 1..Len(w) : w[i] \in DOMAIN edge
  <2> DEFINE w == Path(edge, x)
  <2>1. Chain(edge, x, w) /\ Len(w) <= N + 1
    BY <1>2, PathIsChain
  <2>2. ~Leads(edge, w[Len(w)])
    BY DEF Acyclic, OnCycle, Leads, Seqs!Last
  <2>3. Met(edge, x) \subseteq DOMAIN edge
    BY MetLeast DEF Leads
  <2>4. Met(edge, x) = {w[i] : i \in DOMAIN w}
    BY DEF Met, Seqs!ToSet
  <2> HIDE DEF w
  <2>5. w \in Seq(Nodes(edge, x))
    BY <2>1 DEF Chain
  <2> QED
    BY <2>1, <2>2, <2>3, <2>4, <2>5 DEF w
<1>5. ASSUME NEW x, NEW w, Chain(edge2, x, w), ~Leads(edge2, w[Len(w)]), Len(w) <= N + 2
      PROVE  ~OnCycle(edge2, x)
  <2>1. Path(edge2, x) = w
    BY <1>3, <1>5, ChainIsPath
  <2> QED
    BY <2>1, <1>5 DEF OnCycle, Leads, Seqs!Last
<1>6. ASSUME NEW x \in DOMAIN edge PROVE ~OnCycle(edge2, x)
  <2>1. PICK w : w = Path(edge, x)
    OBVIOUS
  <2>2. /\ Chain(edge, x, w) /\ Len(w) <= N + 1 /\ ~Leads(edge, w[Len(w)])
        /\ \A i \in 1..Len(w) : w[i] \in DOMAIN edge
    BY <1>4, <2>1
  <2>3. Chain(edge2, x, w) /\ ~Leads(edge2, w[Len(w)])
    BY <2>2, ChainExtended
  <2>4. Len(w) <= N + 2
    BY <2>2, <1>3 DEF Chain
  <2> QED
    BY <2>3, <2>4, <1>5
<1>7. ~OnCycle(edge2, n)
  <2>1. PICK w : w = Path(edge, d)
    OBVIOUS
  <2>2. /\ Chain(edge, d, w) /\ Len(w) <= N + 1 /\ ~Leads(edge, w[Len(w)])
        /\ \A i \in 1..Len(w) : w[i] \in DOMAIN edge
    BY <1>4, <2>1
  <2>3. Chain(edge2, d, w) /\ ~Leads(edge2, w[Len(w)])
    BY <2>2, ChainExtended
  <2>4. /\ w \in Seq(Nodes(edge2, d)) /\ Len(w) \in Nat /\ Len(w) >= 1 /\ w[1] = d
        /\ \A i \in 1..Len(w) : w[i] # n
    BY <2>2, <2>3 DEF Chain
  <2>5. Nodes(edge2, d) \subseteq Nodes(edge2, n) /\ n \in Nodes(edge2, n)
    BY <1>1 DEF Nodes
  <2>6. w \in Seq(Nodes(edge2, n)) /\ <<n>> \in Seq(Nodes(edge2, n))
    <3>1. w \in Seq(Nodes(edge2, n))
      BY <2>4, <2>5, SeqMonotonic
    <3> QED
      BY <3>1, <2>5
  <2> DEFINE v == <<n>> \o w
  <2>7. /\ v \in Seq(Nodes(edge2, n)) /\ Len(v) = Len(w) + 1 /\ v[1] = n
        /\ \A i \in 1..Len(w) : v[i + 1] = w[i]
    BY <2>4, <2>6
  <2> HIDE DEF v
  <2>8. \A i \in 2..Len(v) : i - 1 \in 1..Len(w) /\ v[i] = w[i - 1]
    <3> SUFFICES ASSUME NEW i \in 2..Len(v) PROVE i - 1 \in 1..Len(w) /\ v[i] = w[i - 1]
      OBVIOUS
    <3>1. i - 1 \in 1..Len(w) /\ i - 1 + 1 = i
      BY <2>4, <2>7
    <3> QED
      BY <3>1, <2>7
  <2>9. \A i \in 1..Len(v) : i = 1 \/ i \in 2..Len(v)
    BY <2>4, <2>7
  <2>10. ASSUME NEW i \in 1..Len(v), i + 1 \in 1..Len(v)
         PROVE  Leads(edge2, v[i]) /\ v[i + 1] = edge2[v[i]]
    <3>1. CASE i = 1
      <4>1. v[i] = n /\ v[i + 1] = d
        BY <3>1, <2>4, <2>7
      <4>2. d # None
        OBVIOUS
      <4> QED
        BY <4>1, <4>2, <1>1 DEF Leads
    <3>2. CASE i \in 2..Len(v)
      <4>1. i - 1 \in 1..Len(w) /\ i - 1 + 1 = i /\ i \in 1..Len(w)
        BY <3>2, <2>4, <2>7, <2>10
      <4>2. v[i] = w[i - 1] /\ v[i + 1] = w[i]
        BY <4>1, <3>2, <2>7, <2>8
      <4>3. Leads(edge2, w[i - 1]) /\ w[i] = edge2[w[i - 1]]
        BY <4>1, <2>3 DEF Chain
      <4> QED
        BY <4>2, <4>3
    <3> QED
      BY <3>1, <3>2, <2>9
  <2>11. ASSUME NEW i \in 1..Len(v), NEW j \in 1..Len(v), v[i] = v[j] PROVE i = j
    <3>1. CASE i \in 2..Len(v) /\ j \in 2..Len(v)
      <4>1. i - 1 \in 1..Len(w) /\ j - 1 \in 1..Len(w) /\ w[i - 1] = w[j - 1]
        BY <3>1, <2>8, <2>11
      <4>2. i - 1 = j - 1
        BY <4>1, <2>3 DEF Chain
      <4> QED
        BY <4>2
    <3>2. \A k \in 2..Len(v) : v[k] # n
      BY <2>4, <2>8
    <3> QED
      BY <3>1, <3>2, <2>7, <2>9, <2>11
  <2>12. Chain(edge2, n, v)
    <3>1. Len(v) >= 1
      BY <2>4, <2>7
    <3> QED
      BY <3>1, <2>7, <2>10, <2>11 DEF Chain
  <2>13. ~Leads(edge2, v[Len(v)])
    BY <2>3, <2>4, <2>7
  <2>14. Len(v) <= N + 2
    BY <1>3, <2>2, <2>4, <2>7
  <2> QED
    BY <2>12, <2>13, <2>14, <1>5
<1> QED
  BY <1>1, <1>6, <1>7 DEF Acyclic

\* ShapesAssumption, of a model: each entity has an id, each principal a typed
\* expiry and a revoked.
WellShaped(list) ==
    /\ list \in Seq({list[i] : i \in DOMAIN list})
    /\ \A i \in DOMAIN list :
         /\ list[i].id # None
         /\ list[i].type = "Principal" =>
              /\ "revoked" \in DOMAIN list[i].attrs
              /\ list[i].attrs.expiry \in Int /\ list[i].attrs.expiry <= MaxLong

\* longer is list and e after it.
Longer(longer, list, e) ==
    \E n : /\ n \notin DOMAIN list
           /\ DOMAIN longer = DOMAIN list \cup {n}
           /\ longer[n] = e
           /\ \A i \in DOMAIN list : longer[i] = list[i]

LEMMA AppendIsLonger ==
    ASSUME NEW list, WellShaped(list), NEW e
    PROVE  Longer(Append(list, e), list, e)
<1>1. PICK S : S = {list[i] : i \in DOMAIN list} \cup {e}
  OBVIOUS
<1>2. list \in Seq(S)
  <2>1. PICK R : R = {list[i] : i \in DOMAIN list}
    OBVIOUS
  <2>2. R \subseteq S /\ list \in Seq(R)
    BY <1>1, <2>1 DEF WellShaped
  <2> QED
    BY <2>2, SeqMonotonic
<1>3. e \in S
  BY <1>1
<1>4. PICK longer : longer = Append(list, e)
  OBVIOUS
<1>5. /\ Len(list) \in Nat /\ DOMAIN list = 1..Len(list)
      /\ longer \in Seq(S) /\ Len(longer) = Len(list) + 1
      /\ longer[Len(list) + 1] = e /\ \A i \in 1..Len(list) : longer[i] = list[i]
  BY <1>2, <1>3, <1>4, AppendProperties
<1>6. DOMAIN longer = 1..(Len(list) + 1)
  BY <1>5
<1>7. Len(list) + 1 \notin 1..Len(list) /\ 1..(Len(list) + 1) = 1..Len(list) \cup {Len(list) + 1}
  BY <1>5
<1> QED
  BY <1>4, <1>5, <1>6, <1>7 DEF Longer

LEMMA AppendWellShaped ==
    ASSUME NEW list, WellShaped(list), NEW e, e.id # None, e.type = "Principal",
           "revoked" \in DOMAIN e.attrs, e.attrs.expiry \in Int, e.attrs.expiry <= MaxLong
    PROVE  WellShaped(Append(list, e))
<1>1. PICK longer : longer = Append(list, e)
  OBVIOUS
<1>2. Longer(longer, list, e)
  BY <1>1, AppendIsLonger
<1>3. \A i \in DOMAIN longer : longer[i] = e \/ \E j \in DOMAIN list : longer[i] = list[j]
  BY <1>2 DEF Longer
<1>4. \A i \in DOMAIN longer :
         /\ longer[i].id # None
         /\ longer[i].type = "Principal" =>
              /\ "revoked" \in DOMAIN longer[i].attrs
              /\ longer[i].attrs.expiry \in Int /\ longer[i].attrs.expiry <= MaxLong
  <2> SUFFICES ASSUME NEW i \in DOMAIN longer
               PROVE  /\ longer[i].id # None
                      /\ longer[i].type = "Principal" =>
                           /\ "revoked" \in DOMAIN longer[i].attrs
                           /\ longer[i].attrs.expiry \in Int /\ longer[i].attrs.expiry <= MaxLong
    OBVIOUS
  <2>1. CASE longer[i] = e
    BY <2>1
  <2>2. CASE \E j \in DOMAIN list : longer[i] = list[j]
    <3>1. PICK j \in DOMAIN list : longer[i] = list[j]
      BY <2>2
    <3> QED
      BY <3>1 DEF WellShaped
  <2> QED
    BY <1>3, <2>1, <2>2
<1>5. longer \in Seq({longer[i] : i \in DOMAIN longer})
  <2>1. PICK R, S : R = {list[i] : i \in DOMAIN list} /\ S = {longer[i] : i \in DOMAIN longer}
    OBVIOUS
  <2>2. R \subseteq S /\ e \in S
    BY <1>2, <2>1 DEF Longer
  <2>3. list \in Seq(R)
    BY <2>1 DEF WellShaped
  <2>4. list \in Seq(S)
    BY <2>2, <2>3, SeqMonotonic
  <2>5. longer \in Seq(S)
    BY <1>1, <2>2, <2>4, AppendProperties
  <2> QED
    BY <2>1, <2>5
<1> QED
  BY <1>1, <1>4, <1>5 DEF WellShaped

\* A table has the attributes of each entity of its type, by id.
LEMMA TableFacts ==
    ASSUME NEW list, Parses(list), NEW type
    PROVE  LET t == Table(list, type) IN
           /\ t = [id \in DOMAIN t |-> t[id]]
           /\ \A i \in DOMAIN list : list[i].type = type =>
                list[i].id \in DOMAIN t /\ t[list[i].id] = list[i].attrs
           /\ \A id \in DOMAIN t : \E i \in DOMAIN list :
                list[i].type = type /\ list[i].id = id /\ t[id] = list[i].attrs
<1> DEFINE at == {i \in DOMAIN list : list[i].type = type}
           t == Table(list, type)
<1>1. /\ DOMAIN t = {list[i].id : i \in at}
      /\ \A id \in {list[i].id : i \in at} : t[id] = list[CHOOSE i \in at : list[i].id = id].attrs
      /\ t = [id \in DOMAIN t |-> t[id]]
  BY DEF Table
<1> HIDE DEF t
<1>2. ASSUME NEW i \in at PROVE list[i].id \in DOMAIN t /\ t[list[i].id] = list[i].attrs
  <2>1. PICK id : id = list[i].id
    OBVIOUS
  <2>2. PICK j : j = CHOOSE k \in at : list[k].id = id
    OBVIOUS
  <2>3. j \in at /\ list[j].id = id
    BY <2>1, <2>2
  <2>4. j = i
    BY <2>1, <2>3 DEF Parses
  <2> QED
    BY <1>1, <2>1, <2>2, <2>4
<1>3. \A id \in DOMAIN t : \E i \in at : list[i].id = id /\ t[id] = list[i].attrs
  BY <1>1, <1>2
<1> QED
  BY <1>1, <1>2, <1>3 DEF t

\* What one more entity adds to the tables.
LEMMA TableLonger ==
    ASSUME NEW list, Parses(list), NEW longer, Parses(longer), NEW e, Longer(longer, list, e),
           NEW type
    PROVE  LET t == Table(list, type)
               u == Table(longer, type)
           IN  /\ \A id \in DOMAIN t : id \in DOMAIN u /\ u[id] = t[id]
               /\ \A id \in DOMAIN u : id \in DOMAIN t \/ (e.type = type /\ id = e.id)
               /\ e.type = type => e.id \in DOMAIN u /\ u[e.id] = e.attrs
<1>1. PICK t, u : t = Table(list, type) /\ u = Table(longer, type)
  OBVIOUS
<1>2. /\ t = [id \in DOMAIN t |-> t[id]]
      /\ \A i \in DOMAIN list : list[i].type = type =>
           list[i].id \in DOMAIN t /\ t[list[i].id] = list[i].attrs
      /\ \A id \in DOMAIN t : \E i \in DOMAIN list :
           list[i].type = type /\ list[i].id = id /\ t[id] = list[i].attrs
  BY <1>1, TableFacts
<1>3. /\ u = [id \in DOMAIN u |-> u[id]]
      /\ \A i \in DOMAIN longer : longer[i].type = type =>
           longer[i].id \in DOMAIN u /\ u[longer[i].id] = longer[i].attrs
      /\ \A id \in DOMAIN u : \E i \in DOMAIN longer :
           longer[i].type = type /\ longer[i].id = id /\ u[id] = longer[i].attrs
  BY <1>1, TableFacts
<1>4. PICK n : /\ n \notin DOMAIN list /\ DOMAIN longer = DOMAIN list \cup {n} /\ longer[n] = e
               /\ \A i \in DOMAIN list : longer[i] = list[i]
  BY DEF Longer
<1>5. ASSUME NEW id \in DOMAIN t PROVE id \in DOMAIN u /\ u[id] = t[id]
  <2>1. PICK i \in DOMAIN list : list[i].type = type /\ list[i].id = id /\ t[id] = list[i].attrs
    BY <1>2
  <2>2. i \in DOMAIN longer /\ longer[i] = list[i]
    BY <1>4
  <2> QED
    BY <1>3, <2>1, <2>2
<1>6. ASSUME NEW id \in DOMAIN u, id \notin DOMAIN t PROVE e.type = type /\ id = e.id
  <2>1. PICK i \in DOMAIN longer : longer[i].type = type /\ longer[i].id = id
    BY <1>3
  <2>2. i \notin DOMAIN list
    BY <1>2, <1>4, <1>6, <2>1
  <2> QED
    BY <1>4, <2>1, <2>2
<1>7. e.type = type => e.id \in DOMAIN u /\ u[e.id] = e.attrs
  BY <1>3, <1>4
<1> QED
  BY <1>1, <1>5, <1>6, <1>7

LEMMA TableUnchanged ==
    ASSUME NEW list, Parses(list), NEW longer, Parses(longer), NEW e, Longer(longer, list, e),
           NEW type, e.type # type
    PROVE  Table(longer, type) = Table(list, type)
<1>1. PICK t, u : t = Table(list, type) /\ u = Table(longer, type)
  OBVIOUS
<1>2. t = [id \in DOMAIN t |-> t[id]] /\ u = [id \in DOMAIN u |-> u[id]]
  BY <1>1, TableFacts
<1>3. /\ \A id \in DOMAIN t : id \in DOMAIN u /\ u[id] = t[id]
      /\ \A id \in DOMAIN u : id \in DOMAIN t
  BY <1>1, TableLonger
<1>4. DOMAIN t = DOMAIN u
  BY <1>3
<1>5. t = u
  BY <1>2, <1>3, <1>4
<1> QED
  BY <1>1, <1>5

LEMMA TableFinite ==
    ASSUME NEW list, WellShaped(list), NEW type
    PROVE  IsFiniteSet(DOMAIN Table(list, type))
<1> DEFINE at == {i \in DOMAIN list : list[i].type = type}
<1>1. PICK R : R = {list[i] : i \in DOMAIN list}
  OBVIOUS
<1>2. list \in Seq(R)
  BY <1>1 DEF WellShaped
<1>3. Len(list) \in Nat /\ DOMAIN list = 1..Len(list)
  BY <1>2
<1>4. IsFiniteSet(DOMAIN list)
  BY <1>3, FS_Interval
<1>5. IsFiniteSet(at)
  BY <1>4, FS_Subset
<1>6. IsFiniteSet({list[i].id : i \in at})
  <2>1. PICK f : f = [i \in at |-> list[i].id]
    OBVIOUS
  <2>2. PICK T : T = {list[i].id : i \in at}
    OBVIOUS
  <2>3. f \in Surjection(at, T)
    <3>1. f \in [at -> T] /\ \A t \in T : \E i \in at : f[i] = t
      BY <2>1, <2>2
    <3> QED
      BY <3>1 DEF Surjection
  <2> HIDE DEF at
  <2>4. IsFiniteSet(T)
    BY <1>5, <2>3, FS_Surjection
  <2> QED
    BY <2>2, <2>4
<1> QED
  BY <1>6 DEF Table

LEMMA ParseFields ==
    ASSUME NEW list
    PROVE  /\ Parse(list).principals = Table(list, "Principal")
           /\ Parse(list).resources = Table(list, "Resource")
           /\ Parse(list).orgs = Table(list, "Organization")
           /\ "principals" \in DOMAIN Parse(list)
BY DEF Parse

\* A model that loads parses to a valid directory.
LEMMA LoadedIsValid ==
    ASSUME NEW list, WellShaped(list), Loads(list)
    PROVE  /\ ValidDirectory(Parse(list))
           /\ \A p \in DOMAIN Parse(list).principals : Parse(list).principals[p].tenant # ""
<1>1. PICK t : t = Parse(list).principals
  OBVIOUS
<1>2. t = Table(list, "Principal") /\ Parses(list) /\ Validate(Parse(list))
  BY <1>1, ParseFields DEF Loads
<1>3. IsFiniteSet(DOMAIN t)
  BY <1>2, TableFinite
<1>4. ASSUME NEW id \in DOMAIN t
      PROVE  /\ id # None /\ t[id].tenant # "" /\ "revoked" \in DOMAIN t[id]
             /\ t[id].expiry \in Int /\ t[id].expiry <= MaxLong
  <2>1. PICK i \in DOMAIN list : /\ list[i].type = "Principal" /\ list[i].id = id
                                 /\ t[id] = list[i].attrs
    BY <1>2, TableFacts
  <2>2. Readable(list[i])
    BY <1>2 DEF Parses
  <2> QED
    BY <2>1, <2>2 DEF WellShaped, Readable
<1> QED
  BY <1>1, <1>2, <1>3, <1>4 DEF ValidDirectory

\* What clamp_delegation makes of an agent: a new name, below a principal that
\* is known, with no more than it has, and not yet over.
BadgeInside(dir, b) ==
    /\ b.kind = "Agent"
    /\ b.id # None /\ ~Known(dir, b.id) /\ Known(dir, b.delegator)
    /\ b.expiry \in Int /\ b.expiry >= 0
    /\ b.tenant = dir.principals[b.delegator].tenant
    /\ b.expiry <= dir.principals[b.delegator].expiry
    /\ b.scopes \subseteq dir.principals[b.delegator].scopes

LEMMA AdmissionParses ==
    ASSUME NEW list, WellShaped(list), Loads(list), NEW b, BadgeInside(Parse(list), b)
    PROVE  Parses(Append(list, AgentOf(b)))
<1>1. PICK e, longer : e = AgentOf(b) /\ longer = Append(list, e)
  OBVIOUS
<1>2. Longer(longer, list, e)
  BY <1>1, AppendIsLonger
<1>3. PICK n : /\ n \notin DOMAIN list /\ DOMAIN longer = DOMAIN list \cup {n} /\ longer[n] = e
               /\ \A i \in DOMAIN list : longer[i] = list[i]
  BY <1>2 DEF Longer
<1>4. /\ e.shape = "ok" /\ e.type = "Principal" /\ e.id = b.id
      /\ e.attrs.tenant = b.tenant /\ e.attrs.expiry = b.expiry
  BY <1>1 DEF AgentOf
<1>5. b.tenant # ""
  BY LoadedIsValid DEF BadgeInside, Known
<1>6. Readable(e)
  BY <1>4, <1>5 DEF Readable, BadgeInside
<1>7. Parses(list) /\ Parse(list).principals = Table(list, "Principal")
  BY ParseFields DEF Loads
<1>8. \A i \in DOMAIN list : list[i].type = "Principal" => list[i].id # b.id
  <2>1. \A i \in DOMAIN list : list[i].type = "Principal" =>
          list[i].id \in DOMAIN Table(list, "Principal")
    BY <1>7, TableFacts
  <2> QED
    BY <2>1, <1>7 DEF BadgeInside, Known
<1>9. \A i \in DOMAIN longer : Readable(longer[i])
  BY <1>3, <1>6, <1>7 DEF Parses
<1>10. ASSUME NEW i \in DOMAIN longer, NEW j \in DOMAIN longer,
              longer[i].type = longer[j].type, longer[i].id = longer[j].id
       PROVE  i = j
  <2>1. CASE i \in DOMAIN list /\ j \in DOMAIN list
    BY <2>1, <1>3, <1>7, <1>10 DEF Parses
  <2>2. CASE i = n /\ j = n
    BY <2>2
  <2>3. CASE i = n /\ j \in DOMAIN list
    BY <2>3, <1>3, <1>4, <1>8, <1>10
  <2>4. CASE j = n /\ i \in DOMAIN list
    BY <2>4, <1>3, <1>4, <1>8, <1>10
  <2> QED
    BY <1>3, <2>1, <2>2, <2>3, <2>4
<1> QED
  BY <1>1, <1>9, <1>10 DEF Parses

\* The directory with the agent in it.
LEMMA AdmittedDirectory ==
    ASSUME NEW list, WellShaped(list), Loads(list), NEW b, BadgeInside(Parse(list), b)
    PROVE  LET dir == Parse(list)
               next == Parse(Append(list, AgentOf(b)))
           IN  /\ next.resources = dir.resources /\ next.orgs = dir.orgs
               /\ DOMAIN next.principals = DOMAIN dir.principals \cup {b.id}
               /\ \A p \in DOMAIN dir.principals : next.principals[p] = dir.principals[p]
               /\ next.principals[b.id] = AgentOf(b).attrs
<1>1. PICK e, longer : e = AgentOf(b) /\ longer = Append(list, e)
  OBVIOUS
<1>2. Longer(longer, list, e) /\ Parses(list) /\ Parses(longer)
  BY <1>1, AppendIsLonger, AdmissionParses DEF Loads
<1>3. e.type = "Principal" /\ e.id = b.id
  BY <1>1 DEF AgentOf
<1>4. /\ Table(longer, "Resource") = Table(list, "Resource")
      /\ Table(longer, "Organization") = Table(list, "Organization")
  <2>1. ASSUME NEW type, type # "Principal" PROVE Table(longer, type) = Table(list, type)
    <3>1. e.type # type
      BY <1>3, <2>1
    <3> QED
      BY <1>2, <3>1, TableUnchanged
  <2> QED
    BY <2>1
<1>5. PICK t : t = Table(list, "Principal")
  OBVIOUS
<1>6. PICK u : u = Table(longer, "Principal")
  OBVIOUS
<1>8. /\ \A id \in DOMAIN t : id \in DOMAIN u /\ u[id] = t[id]
      /\ \A id \in DOMAIN u : id \in DOMAIN t \/ id = b.id
      /\ b.id \in DOMAIN u /\ u[b.id] = e.attrs
  BY <1>2, <1>3, <1>5, <1>6, TableLonger
<1>7. t = Parse(list).principals /\ b.id \notin DOMAIN t
  BY <1>5, ParseFields DEF BadgeInside, Known
<1>9. DOMAIN u = DOMAIN t \cup {b.id}
  BY <1>8
<1>10. PICK next : next = Parse(longer)
  OBVIOUS
<1>11. /\ next.principals = u /\ next.resources = Parse(list).resources
       /\ next.orgs = Parse(list).orgs
  BY <1>4, <1>6, <1>10, ParseFields
<1> QED
  BY <1>1, <1>7, <1>8, <1>9, <1>10, <1>11

\* The load-time validator finds nothing to refuse in it.
LEMMA AdmissionLoads ==
    ASSUME NEW list, WellShaped(list), Loads(list), NEW b, BadgeInside(Parse(list), b)
    PROVE  Loads(Append(list, AgentOf(b)))
<1>1. PICK dir, next, a : dir = Parse(list) /\ next = Parse(Append(list, AgentOf(b)))
                          /\ a = AgentOf(b).attrs
  OBVIOUS
<1>2. /\ next.resources = dir.resources /\ next.orgs = dir.orgs
      /\ DOMAIN next.principals = DOMAIN dir.principals \cup {b.id}
      /\ \A p \in DOMAIN dir.principals : next.principals[p] = dir.principals[p]
      /\ next.principals[b.id] = a
  BY <1>1, AdmittedDirectory
<1>3. /\ a.tenant = b.tenant /\ a.expiry = b.expiry /\ a.scopes = b.scopes
      /\ a.roles = {} /\ a.jurisdictions = {} /\ a.delegator = b.delegator /\ a.org = None
  BY <1>1 DEF AgentOf
<1>4. PICK d : d = b.delegator
  OBVIOUS
<1>5. /\ b.id # None /\ b.id \notin DOMAIN dir.principals /\ d \in DOMAIN dir.principals
      /\ Within(a, dir.principals[d]) /\ a.tenant = dir.principals[d].tenant
  BY <1>1, <1>3, <1>4 DEF BadgeInside, Known, Within
<1>6. Validate(dir) /\ ValidDirectory(dir)
  BY <1>1, LoadedIsValid DEF Loads
<1>7. Attenuates(next)
  <2> SUFFICES ASSUME NEW p \in DOMAIN next.principals, next.principals[p].delegator # None
               PROVE  LET q == next.principals[p].delegator IN
                      q \in DOMAIN next.principals /\ Within(next.principals[p], next.principals[q])
    BY DEF Attenuates, Known
  <2>1. CASE p = b.id
    BY <2>1, <1>2, <1>3, <1>4, <1>5
  <2>2. CASE p \in DOMAIN dir.principals
    <3>1. PICK q : q = dir.principals[p].delegator
      OBVIOUS
    <3>2. q # None /\ next.principals[p].delegator = q
      BY <3>1, <2>2, <1>2
    <3>3. q \in DOMAIN dir.principals /\ Within(dir.principals[p], dir.principals[q])
      BY <3>1, <3>2, <2>2, <1>6, DelegatorFacts
    <3> QED
      BY <3>2, <3>3, <2>2, <1>2
  <2> QED
    BY <2>1, <2>2, <1>2
<1>8. Acyclic(Delegator(next))
  <2>1. PICK edge, edge2 : edge = Delegator(dir) /\ edge2 = Delegator(next)
    OBVIOUS
  <2>2. /\ DOMAIN edge = DOMAIN dir.principals /\ IsFiniteSet(DOMAIN edge) /\ Acyclic(edge)
        /\ None \notin DOMAIN edge
        /\ \A x \in DOMAIN edge : edge[x] = dir.principals[x].delegator
        /\ \A x \in DOMAIN edge : edge[x] # None => edge[x] \in DOMAIN edge
    BY <2>1, <1>6, DelegatorFacts DEF Validate, ValidDirectory
  <2>3. edge2 = [x \in DOMAIN edge \cup {b.id} |-> IF x = b.id THEN d ELSE edge[x]]
    <3>1. edge2 = [x \in DOMAIN next.principals |-> next.principals[x].delegator]
      BY <2>1 DEF Delegator
    <3>2. \A x \in DOMAIN next.principals :
            next.principals[x].delegator = IF x = b.id THEN d ELSE edge[x]
      BY <2>2, <1>2, <1>3, <1>4, <1>5
    <3> QED
      BY <3>1, <3>2, <2>2, <1>2
  <2>4. Extends(edge2, edge, b.id, d)
    BY <2>3 DEF Extends
  <2>5. Acyclic(edge2)
    BY <2>2, <2>4, <1>5, ExtendedAcyclic
  <2> QED
    BY <2>1, <2>5
<1>9. PartiesExist(next)
  BY <1>2, <1>5, <1>6 DEF Validate, PartiesExist, Known
<1>10. NoReservedTenant(next)
  <2>1. /\ \A id \in DOMAIN dir.principals : dir.principals[id].tenant # RESERVED_TENANT
        /\ \A id \in DOMAIN dir.resources : dir.resources[id].tenant # RESERVED_TENANT
        /\ \A id \in DOMAIN dir.orgs : dir.orgs[id].tenant # RESERVED_TENANT
    BY <1>6 DEF Validate, NoReservedTenant
  <2>2. \A id \in DOMAIN next.principals : next.principals[id].tenant # RESERVED_TENANT
    BY <2>1, <1>2, <1>5
  <2> QED
    BY <2>1, <2>2, <1>2 DEF NoReservedTenant
<1>11. OrgsNest(next)
  BY <1>2, <1>6 DEF Validate, OrgsNest, InOrg
<1>12. MembersInOrg(next)
  <2>1. \A p \in DOMAIN next.principals : InOrg(next, next.principals[p].org, next.principals[p].tenant)
    BY <1>2, <1>3, <1>6 DEF Validate, MembersInOrg, InOrg
  <2>2. \A r \in DOMAIN dir.resources : Known(dir, dir.resources[r].owner)
    BY <1>6 DEF Validate, PartiesExist
  <2>3. \A r \in DOMAIN next.resources :
          LET res == next.resources[r] IN
          /\ InOrg(next, res.org, res.tenant)
          /\ (res.org # None /\ Known(next, res.owner)) =>
               next.principals[res.owner].org \in {None, res.org}
    BY <2>2, <1>2, <1>6 DEF Validate, MembersInOrg, InOrg, Known
  <2> QED
    BY <2>1, <2>3 DEF MembersInOrg
<1>13. Validate(next)
  BY <1>7, <1>8, <1>9, <1>10, <1>11, <1>12 DEF Validate
<1> QED
  BY <1>1, <1>13, AdmissionParses DEF Loads

---------------------------------------------------------------------------
(***************************************************************************)
(* The model in force, and what is held from those before it.              *)
(***************************************************************************)

\* The server runs on a model that loads, and on its directory.
ModelInv == WellShaped(model) /\ Loads(model) /\ kernel = Parse(model)

\* Badges and handles outlive models; what is held of them stays typed.
HeldInv ==
    /\ IsFiniteSet(badges) /\ Cardinality(badges) <= MaxBadges
    /\ \A b \in badges : b.id # None /\ b.expiry \in Int
    /\ handles \subseteq [mission : Missions, active : BOOLEAN]
    /\ \A m \in DOMAIN registry :
         "terminated" \in DOMAIN registry[m] /\ registry[m].terminated \in BOOLEAN
    /\ require \in BOOLEAN
    /\ now \in 0..MaxTime
    /\ reply.op \in {"idle", "mint", "decide", "search", "refused"}

LEMMA InitialModel == Init => ModelInv /\ HeldInv
<1> SUFFICES ASSUME Init PROVE ModelInv /\ HeldInv
  OBVIOUS
<1>1. ModelInv
  BY ShapesAssumption DEF Init, ModelInv, WellShaped
<1>2. IsFiniteSet(badges) /\ Cardinality(badges) <= MaxBadges
  BY AuthorityAssumption, FS_EmptySet DEF Init
<1>3. \A m \in DOMAIN registry :
         "terminated" \in DOMAIN registry[m] /\ registry[m].terminated \in BOOLEAN
  BY ShapesAssumption DEF Init
<1>4. now \in 0..MaxTime
  BY AuthorityAssumption DEF Init
<1>5. HeldInv
  BY <1>2, <1>3, <1>4 DEF Init, HeldInv, Idle
<1> QED
  BY <1>1, <1>5

LEMMA ModelInForce ==
    ASSUME ModelInv
    PROVE  ValidDirectory(kernel) /\ "principals" \in DOMAIN kernel
BY LoadedIsValid, ParseFields DEF ModelInv

LEMMA AdmitKeepsModel ==
    ASSUME ModelInv, HeldInv, NEW b \in badges \cup Foreign, Admit(b)
    PROVE  ModelInv'
<1> DEFINE e == AgentOf(b)
<1>1. b.id # None /\ b.expiry \in Int
  BY ShapesAssumption DEF HeldInv
<1>2. b.expiry <= MaxLong
  BY DEF Admit, Admits, Verifies
<1>3. /\ e.id = b.id /\ e.type = "Principal" /\ "revoked" \in DOMAIN e.attrs
      /\ e.attrs.expiry = b.expiry
  BY DEF AgentOf
<1>4. model' = Append(model, e) /\ Loads(Append(model, e)) /\ kernel' = Parse(model')
  BY DEF Admit, Admits
<1> HIDE DEF e
<1>5. WellShaped(Append(model, e))
  BY <1>1, <1>2, <1>3, AppendWellShaped DEF ModelInv
<1> QED
  BY <1>4, <1>5 DEF ModelInv

LEMMA ModelStep == ModelInv /\ HeldInv /\ [Next]_vars => ModelInv'
<1> SUFFICES ASSUME ModelInv, HeldInv, [Next]_vars PROVE ModelInv'
  OBVIOUS
<1>1. CASE UNCHANGED <<model, kernel>>
  BY <1>1 DEF ModelInv
<1>2. ASSUME NEW list \in Authored, NEW mission \in BOOLEAN, Deploy(list, mission)
      PROVE  ModelInv'
  <2>1. WellShaped(list)
    BY ShapesAssumption DEF WellShaped
  <2> QED
    BY <1>2, <2>1 DEF Deploy, ModelInv
<1>3. ASSUME NEW b \in badges \cup Foreign, Admit(b) PROVE ModelInv'
  BY <1>3, AdmitKeepsModel
<1>4. ASSUME NEW asked, NEW mission, Mint(asked, mission) PROVE ModelInv'
  BY <1>1, <1>4 DEF Mint
<1>5. ASSUME NEW asked, Exchange(asked) PROVE ModelInv'
  BY <1>4, <1>5 DEF Exchange
<1>6. ASSUME NEW h, NEW asked, IssueUnderMission(h, asked) PROVE ModelInv'
  BY <1>4, <1>6 DEF IssueUnderMission
<1>7. ASSUME NEW m, Approve(m) \/ Terminate(m) PROVE ModelInv'
  BY <1>1, <1>7 DEF Approve, Terminate
<1>8. ASSUME NEW req, Decide(req) \/ Search(req) PROVE ModelInv'
  BY <1>1, <1>8 DEF Decide, Search
<1>9. Tick \/ Respond \/ UNCHANGED vars => ModelInv'
  BY <1>1 DEF Tick, Respond, vars
<1> QED
  BY <1>2, <1>3, <1>5, <1>6, <1>7, <1>8, <1>9 DEF Next

\* What a mint asks for: a name that is not absent, an expiry that is a number.
MintKeepsHeld ==
    \A asked, mission :
        /\ asked.sub # None /\ asked.expiry \in Int /\ Cardinality(badges) < MaxBadges
        /\ Mint(asked, mission)
        => HeldInv'

LEMMA MintsHeld == ModelInv /\ HeldInv => MintKeepsHeld
<1> SUFFICES ASSUME ModelInv, HeldInv, NEW asked, NEW mission,
                    asked.sub # None, asked.expiry \in Int, Cardinality(badges) < MaxBadges,
                    Mint(asked, mission)
             PROVE  HeldInv'
  BY DEF MintKeepsHeld
<1> DEFINE b == Badge(asked, mission)
           ok == Exchangeable(asked, mission) /\ Admits(b)
<1>1. badges' = IF ok THEN badges \cup {b} ELSE badges
  BY DEF Mint
<1>2. /\ UNCHANGED <<model, kernel, require, handles, registry, now>>
      /\ reply'.op = "mint"
  BY DEF Mint
<1>3. b.id = asked.sub
  BY DEF Badge
<1>4. ok => b.expiry \in Int
  <2> SUFFICES ASSUME ok PROVE b.expiry \in Int
    OBVIOUS
  <2>1. asked.delegator \in DOMAIN kernel.principals
    BY DEF Exchangeable, Known
  <2>2. kernel.principals[asked.delegator].expiry \in Int
    BY <2>1, ModelInForce DEF ValidDirectory
  <2> QED
    BY <2>2 DEF Badge, Clamp
<1> HIDE DEF b, ok
<1>5. IsFiniteSet(badges') /\ Cardinality(badges') <= MaxBadges
  <2>1. IsFiniteSet(badges) /\ Cardinality(badges) \in Nat
    BY FS_CardinalityType DEF HeldInv
  <2>2. /\ IsFiniteSet(badges \cup {b})
        /\ Cardinality(badges \cup {b})
             = IF b \in badges THEN Cardinality(badges) ELSE Cardinality(badges) + 1
    BY <2>1, FS_AddElement
  <2>3. MaxBadges \in Nat
    BY AuthorityAssumption
  <2> QED
    BY <1>1, <2>1, <2>2, <2>3
<1>6. \A x \in badges' : x.id # None /\ x.expiry \in Int
  BY <1>1, <1>3, <1>4 DEF HeldInv
<1> QED
  BY <1>2, <1>5, <1>6 DEF HeldInv

\* The rows of the registry say whether they are over.
LEMMA SweptTyped ==
    \A r : (\A k \in DOMAIN r : "terminated" \in DOMAIN r[k] /\ r[k].terminated \in BOOLEAN)
           => \A k \in DOMAIN Swept(r) :
                "terminated" \in DOMAIN Swept(r)[k] /\ Swept(r)[k].terminated \in BOOLEAN
BY DEF Swept, Retained

LEMMA HeldStep == ModelInv /\ HeldInv /\ [Next]_vars => HeldInv'
<1> SUFFICES ASSUME ModelInv, HeldInv, [Next]_vars PROVE HeldInv'
  OBVIOUS
<1>1. CASE UNCHANGED <<badges, handles, registry, require, now>>
           /\ reply'.op \in {"idle", "mint", "decide", "search", "refused"}
  BY <1>1 DEF HeldInv
<1>2. ASSUME NEW list \in Authored, NEW mission \in BOOLEAN, Deploy(list, mission)
      PROVE  HeldInv'
  BY <1>2 DEF Deploy, HeldInv
<1>3. ASSUME NEW b, Admit(b) PROVE HeldInv'
  BY <1>3 DEF Admit, HeldInv
<1>4. ASSUME NEW asked \in Mintings, Exchange(asked) PROVE HeldInv'
  BY <1>4, ShapesAssumption, MintsHeld DEF Exchange, MintKeepsHeld
<1>5. ASSUME NEW h \in handles, NEW asked \in Mintings, IssueUnderMission(h, asked)
      PROVE  HeldInv'
  <2>1. PICK a, m : /\ a = [delegator |-> h.mission.approver, sub |-> asked.sub,
                            scopes |-> Intersected(asked.scopes, h.mission.tools),
                            expiry |-> h.mission.expiry, entitled |-> {}]
                    /\ m = [approver |-> h.mission.approver, s256 |-> h.mission]
    OBVIOUS
  <2>2. Mint(a, m) /\ Cardinality(badges) < MaxBadges
    BY <1>5, <2>1 DEF IssueUnderMission
  <2>3. h.mission \in Missions
    BY DEF HeldInv
  <2>4. a.sub # None /\ a.expiry \in Int
    BY <2>1, <2>3, ShapesAssumption
  <2> QED
    BY <2>2, <2>4, MintsHeld DEF MintKeepsHeld
<1>6. ASSUME NEW m \in Missions, Approve(m) PROVE HeldInv'
  <2>1. registry' = Register(m) /\ handles' = handles \cup {[mission |-> m, active |-> TRUE]}
        /\ UNCHANGED <<badges, require, now, reply>>
    BY <1>6 DEF Approve
  <2>2. handles' \subseteq [mission : Missions, active : BOOLEAN]
    <3>1. PICK h : h = [mission |-> m, active |-> TRUE]
      OBVIOUS
    <3>2. h \in [mission : Missions, active : BOOLEAN]
      BY <3>1
    <3>3. PICK H : H = [mission : Missions, active : BOOLEAN]
      OBVIOUS
    <3>4. handles \subseteq H /\ h \in H /\ handles' = handles \cup {h}
      BY <2>1, <3>1, <3>2, <3>3 DEF HeldInv
    <3> QED
      BY <3>3, <3>4
  <2>3. \A k \in DOMAIN registry' :
           "terminated" \in DOMAIN registry'[k] /\ registry'[k].terminated \in BOOLEAN
    <3>1. "terminated" \in DOMAIN Entry(m) /\ Entry(m).terminated = FALSE
      BY DEF Entry
    <3>2. \A k \in DOMAIN registry' :
             \/ registry'[k] = registry[k] /\ k \in Retained(registry)
             \/ registry'[k] = Entry(m)
      BY <2>1 DEF Register, Swept
    <3>3. Retained(registry) \subseteq DOMAIN registry
      BY DEF Retained
    <3> QED
      BY <3>1, <3>2, <3>3 DEF HeldInv
  <2> QED
    BY <2>1, <2>2, <2>3 DEF HeldInv
<1>7. ASSUME NEW m \in DOMAIN registry, Terminate(m) PROVE HeldInv'
  <2>1. PICK r : r = [registry EXCEPT ![m].terminated = TRUE]
    OBVIOUS
  <2>2. registry' = Swept(r) /\ UNCHANGED <<badges, require, now, reply>>
    BY <1>7, <2>1 DEF Terminate
  <2>3. PICK own \in SUBSET {h \in handles : h.mission = m /\ h.active} :
           handles' = (handles \ own) \cup {[h EXCEPT !.active = FALSE] : h \in own}
    BY <1>7 DEF Terminate
  <2>4. handles' \subseteq [mission : Missions, active : BOOLEAN]
    <3>1. \A h \in own : [h EXCEPT !.active = FALSE] \in [mission : Missions, active : BOOLEAN]
      BY <2>3 DEF HeldInv
    <3> QED
      BY <2>3, <3>1 DEF HeldInv
  <2>5. \A k \in DOMAIN r : "terminated" \in DOMAIN r[k] /\ r[k].terminated \in BOOLEAN
    <3>1. PICK row : row = [registry[m] EXCEPT !.terminated = TRUE]
      OBVIOUS
    <3>2. DOMAIN row = DOMAIN registry[m] /\ "terminated" \in DOMAIN registry[m]
      BY <3>1 DEF HeldInv
    <3>3. row.terminated = TRUE
      BY <3>1, <3>2
    <3>4. DOMAIN r = DOMAIN registry /\ \A k \in DOMAIN r : r[k] = IF k = m THEN row ELSE registry[k]
      BY <2>1, <3>1
    <3> QED
      BY <3>2, <3>3, <3>4 DEF HeldInv
  <2>6. \A k \in DOMAIN registry' :
           "terminated" \in DOMAIN registry'[k] /\ registry'[k].terminated \in BOOLEAN
    BY <2>2, <2>5, SweptTyped
  <2> QED
    BY <2>2, <2>4, <2>6 DEF HeldInv
<1>8. ASSUME NEW req, Decide(req) \/ Search(req) PROVE HeldInv'
  BY <1>1, <1>8 DEF Decide, Search
<1>9. Tick => HeldInv'
  <2> SUFFICES ASSUME Tick PROVE HeldInv'
    OBVIOUS
  <2>1. now' \in 0..MaxTime
    BY AuthorityAssumption DEF Tick, HeldInv
  <2> QED
    BY <2>1 DEF Tick, HeldInv
<1>10. Respond \/ UNCHANGED vars => HeldInv'
  BY DEF Respond, vars, Idle, HeldInv
<1> QED
  BY <1>2, <1>3, <1>4, <1>5, <1>6, <1>7, <1>8, <1>9, <1>10 DEF Next

---------------------------------------------------------------------------
(***************************************************************************)
(* What a decision, a search and a mint answer.                            *)
(***************************************************************************)

\* An entry, field by field; one that allows was checked as it is recorded.
LEMMA EntryFacts ==
    ASSUME NEW req, NEW e, e = DecisionEntry(req), NEW bind,
           bind = BindMission(require, req.subject.id, req.action, req.mission)
    PROVE  /\ e.subject = req.subject.id /\ e.action = req.action
           /\ e.mission = IF bind = "ok" THEN req.mission ELSE NoMission
           /\ e.sponsor = ResolveSponsor(req.subject.id)
           /\ e.shard = ResolveShard(req.subject.id)
           /\ e.about = Kept(req)
           /\ e.decision => /\ bind # "deny"
                            /\ Check(kernel, [type |-> "Principal", id |-> e.subject], e.action,
                                     [type |-> "Resource", id |-> e.resource],
                                     [now |-> now, flags |-> e.flags])
<1> DEFINE flags == FlagsAfter(bind, req.action, req.flags)
           ctx == Prune(Declared(req.action), [now |-> now, flags |-> flags])
<1> HIDE DEF flags
<1>1. /\ e.subject = req.subject.id /\ e.action = req.action /\ e.resource = req.resource.id
      /\ e.mission = IF bind = "ok" THEN req.mission ELSE NoMission
      /\ e.sponsor = ResolveSponsor(req.subject.id)
      /\ e.shard = ResolveShard(req.subject.id)
      /\ e.about = Kept(req)
      /\ e.flags = ctx.flags
  BY DEF DecisionEntry, flags
<1>2. ctx = [now |-> now, flags |-> e.flags]
  BY <1>1 DEF Prune
<1>3. ASSUME e.decision
      PROVE  bind # "deny" /\ Check(kernel, Typed(req.subject), req.action, Typed(req.resource), ctx)
  BY <1>3 DEF DecisionEntry, flags
<1>4. ASSUME e.decision
      PROVE  Check(kernel, [type |-> "Principal", id |-> e.subject], e.action,
                   [type |-> "Resource", id |-> e.resource], [now |-> now, flags |-> e.flags])
  <2>1. Check(kernel, Typed(req.subject), e.action, Typed(req.resource), [now |-> now, flags |-> e.flags])
    BY <1>1, <1>2, <1>3, <1>4
  <2>2. Typed(req.subject).type = "Principal" /\ Typed(req.resource).type = "Resource"
    BY <2>1 DEF Check
  <2>3. /\ Typed(req.subject) = [type |-> "Principal", id |-> e.subject]
        /\ Typed(req.resource) = [type |-> "Resource", id |-> e.resource]
    BY <2>2, <1>1 DEF Typed
  <2> QED
    BY <2>1, <2>3
<1> QED
  BY <1>1, <1>3, <1>4

\* DelegatorCouldToo, of an entry.
LEMMA DecidedDelegation ==
    ASSUME ModelInv, NEW req, NEW e, e = DecisionEntry(req), e.decision,
           OwnerOf(e.resource) \in Seqs!ToSet(AncestorsOf(kernel, e.subject))
    PROVE  Check(kernel, [type |-> "Principal", id |-> kernel.principals[e.subject].delegator],
                 e.action, [type |-> "Resource", id |-> e.resource],
                 [now |-> now, flags |-> e.flags])
<1>1. PICK s, r, ctx : s = e.subject /\ r = e.resource /\ ctx = [now |-> now, flags |-> e.flags]
  OBVIOUS
<1>2. Check(kernel, [type |-> "Principal", id |-> s], e.action, [type |-> "Resource", id |-> r], ctx)
  BY <1>1, EntryFacts
<1>3. kernel.resources[r].owner \in Seqs!ToSet(AncestorsOf(kernel, s))
  BY <1>1, <1>2 DEF OwnerOf, Check
<1> QED
  BY <1>1, <1>2, <1>3, ModelInForce, DelegatorAllowed

\* AllowedMissionsStand, of an entry.
MissionStands(e) ==
    /\ e.action = "MoveMoney" => e.mission # NoMission
    /\ e.mission # NoMission =>
         LET a == e.mission.approver IN
         /\ ~registry[e.mission.s256].terminated
         /\ a # e.subject
         /\ \A up \in {a} \cup Seqs!ToSet(AncestorsOf(kernel, a)) :
              LET p == kernel.principals[up] IN
              /\ p.tenant = kernel.principals[e.subject].tenant
              /\ ~p.revoked
              /\ now <= p.expiry
              /\ ScopeOf(e.action) \in p.scopes

LEMMA DecidedMissionStands ==
    ASSUME ModelInv, HeldInv, NEW req, NEW e, e = DecisionEntry(req), e.decision
    PROVE  MissionStands(e)
<1>1. PICK bind : bind = BindMission(require, req.subject.id, req.action, req.mission)
  OBVIOUS
<1>2. /\ e.subject = req.subject.id /\ e.action = req.action /\ bind # "deny"
      /\ e.mission = IF bind = "ok" THEN req.mission ELSE NoMission
  BY <1>1, EntryFacts
<1>3. bind = "none" => e.action # "MoveMoney"
  BY <1>1, <1>2 DEF BindMission
<1>4. \/ bind = "none"
      \/ bind = "ok" /\ req.mission # NoMission /\ Bound(e.subject, e.action, req.mission)
  BY <1>1, <1>2 DEF BindMission
<1>5. CASE bind = "none"
  BY <1>2, <1>3, <1>5 DEF MissionStands
<1>6. CASE bind = "ok" /\ req.mission # NoMission /\ Bound(e.subject, e.action, req.mission)
  <2>1. PICK a : a = e.mission.approver
    OBVIOUS
  <2>2. /\ ~registry[e.mission.s256].terminated /\ a # e.subject
        /\ a \in DOMAIN kernel.principals
        /\ kernel.principals[a].tenant = kernel.principals[e.subject].tenant
        /\ ~Revoked(kernel, a)
        /\ now <= kernel.principals[a].expiry
        /\ ScopeOf(e.action) \in kernel.principals[a].scopes
    BY <1>2, <1>6, <2>1 DEF Bound, Stands, Known
  <2>3. ASSUME NEW up \in {a} \cup Seqs!ToSet(AncestorsOf(kernel, a))
        PROVE  LET p == kernel.principals[up] IN
               /\ p.tenant = kernel.principals[e.subject].tenant
               /\ ~p.revoked
               /\ now <= p.expiry
               /\ ScopeOf(e.action) \in p.scopes
    <3>1. ValidDirectory(kernel)
      BY ModelInForce
    <3>2. up \in Line(kernel, a)
      BY <2>2, <3>1, LineFacts
    <3>3. up \in DOMAIN kernel.principals /\ Within(kernel.principals[a], kernel.principals[up])
      BY <2>2, <3>1, <3>2, LineAttenuates
    <3>4. ~kernel.principals[up].revoked
      BY <2>2, <3>1, <3>2, RevokedInLine
    <3>5. now \in Int /\ kernel.principals[a].expiry \in Int /\ kernel.principals[up].expiry \in Int
      BY <2>2, <3>1, <3>3 DEF HeldInv, ValidDirectory
    <3> QED
      BY <2>2, <3>3, <3>4, <3>5 DEF Within
  <2>4. e.mission # NoMission
    BY <1>2, <1>6
  <2> QED
    BY <2>1, <2>2, <2>3, <2>4 DEF MissionStands
<1> QED
  BY <1>4, <1>5, <1>6

\* SponsorAnswersForSubject, of an entry.
LEMMA DecidedSponsor ==
    ASSUME ModelInv, NEW req, NEW e, e = DecisionEntry(req), e.sponsor # None
    PROVE  LET root == kernel.principals[e.sponsor] IN
           /\ root.delegator = None
           /\ Within(kernel.principals[e.subject], root)
           /\ e.shard = root.tenant
<1>1. PICK s : s = e.subject
  OBVIOUS
<1>2. e.sponsor = ResolveSponsor(s) /\ e.shard = ResolveShard(s)
  BY <1>1, EntryFacts
<1>3. /\ s \in DOMAIN kernel.principals
      /\ e.sponsor = Seqs!Last(Path(Delegator(kernel), s))
      /\ e.shard = kernel.principals[s].tenant
  BY <1>2 DEF ResolveSponsor, ResolveShard, Known
<1>4. ValidDirectory(kernel)
  BY ModelInForce
<1>5. e.sponsor \in Line(kernel, s) /\ kernel.principals[e.sponsor].delegator = None
  BY <1>3, <1>4, LineFacts
<1>6. Within(kernel.principals[s], kernel.principals[e.sponsor])
  BY <1>3, <1>4, <1>5, LineAttenuates
<1> QED
  BY <1>1, <1>3, <1>5, <1>6 DEF Within

\* What is minted for a known delegator, under a new name and not yet over, is
\* admitted (ClampSatisfiesTheGate).
LEMMA ClampAdmits ==
    ASSUME ModelInv, HeldInv, NEW asked, NEW mission,
           asked.sub # None, asked.expiry \in Int,
           Known(kernel, asked.delegator), ~Known(kernel, asked.sub),
           now <= kernel.principals[asked.delegator].expiry, now <= asked.expiry
    PROVE  Admits(Badge(asked, mission))
<1>1. PICK b, d : b = Badge(asked, mission) /\ d = kernel.principals[asked.delegator]
  OBVIOUS
<1>2. /\ b.id = asked.sub /\ b.kind = "Agent" /\ b.tenant = d.tenant
      /\ b.scopes = asked.scopes \cap d.scopes
      /\ b.delegator = asked.delegator
      /\ b.expiry = IF asked.expiry < d.expiry THEN asked.expiry ELSE d.expiry
      /\ b.validFrom = now /\ b.validUntil = b.expiry /\ b.key = "ours"
  BY <1>1 DEF Badge, Clamp, Intersected
<1>3. ValidDirectory(kernel) /\ kernel = Parse(model) /\ WellShaped(model) /\ Loads(model)
  BY ModelInForce DEF ModelInv
<1>4. d.expiry \in Int /\ d.expiry <= MaxLong /\ asked.delegator # None
  BY <1>1, <1>3 DEF ValidDirectory, Known
<1>5. now \in Int /\ now >= 0
  BY AuthorityAssumption DEF HeldInv
<1>6. b.expiry \in Int /\ b.expiry <= MaxLong /\ now <= b.expiry /\ b.expiry <= d.expiry
  BY <1>1, <1>2, <1>4, MaxLongAssumption
<1>7. BadgeInside(kernel, b)
  BY <1>1, <1>2, <1>5, <1>6 DEF BadgeInside
<1>8. Loads(Append(model, AgentOf(b)))
  BY <1>3, <1>7, AdmissionLoads
<1>9. Verifies(b)
  BY <1>2, <1>5, <1>6 DEF Verifies
<1>10. Admissible(b)
  BY <1>2, <1>4 DEF Admissible
<1> QED
  BY <1>1, <1>8, <1>9, <1>10 DEF Admits

\* No action but Exchange and IssueUnderMission leaves a mint in reply.
LEMMA OnlyMintAnswers ==
    ASSUME HeldInv, Next, reply'.op = "mint"
    PROVE  \E asked, mission :
             asked.sub # None /\ asked.expiry \in Int /\ Mint(asked, mission)
<1>1. ASSUME NEW list, NEW mission, Deploy(list, mission) PROVE FALSE
  BY <1>1 DEF Deploy, Idle
<1>2. ASSUME NEW b, Admit(b) PROVE FALSE
  BY <1>2 DEF Admit, Idle
<1>3. ASSUME NEW asked \in Mintings, Exchange(asked)
      PROVE  asked.sub # None /\ asked.expiry \in Int /\ Mint(asked, NoMission)
  BY <1>3, ShapesAssumption DEF Exchange
<1>4. ASSUME NEW h \in handles, NEW asked \in Mintings, IssueUnderMission(h, asked)
      PROVE  \E a, mission : a.sub # None /\ a.expiry \in Int /\ Mint(a, mission)
  <2>1. PICK a, m : /\ a = [delegator |-> h.mission.approver, sub |-> asked.sub,
                            scopes |-> Intersected(asked.scopes, h.mission.tools),
                            expiry |-> h.mission.expiry, entitled |-> {}]
                    /\ m = [approver |-> h.mission.approver, s256 |-> h.mission]
    OBVIOUS
  <2>2. Mint(a, m)
    BY <1>4, <2>1 DEF IssueUnderMission
  <2>3. h.mission \in Missions
    BY DEF HeldInv
  <2>4. a.sub # None /\ a.expiry \in Int
    BY <2>1, <2>3, ShapesAssumption
  <2> QED
    BY <2>2, <2>4
<1>5. ASSUME NEW m, Approve(m) \/ Terminate(m) PROVE FALSE
  BY <1>5 DEF Approve, Terminate, Idle
<1>6. ASSUME NEW req, Decide(req) \/ Search(req) PROVE FALSE
  BY <1>6 DEF Decide, Search
<1>7. ~Tick /\ ~Respond
  BY DEF Tick, Respond, Idle
<1> QED
  BY <1>1, <1>2, <1>3, <1>4, <1>5, <1>6, <1>7 DEF Next

\* What is answered, while it is being answered.
AnswersInv ==
    /\ DelegatorCouldToo
    /\ ClampSatisfiesTheGate
    /\ AllowedMissionsStand
    /\ WorkloadsSpeakForThemselves
    /\ SponsorAnswersForSubject

LEMMA MissionStandsUnmoved ==
    ASSUME UNCHANGED <<kernel, registry, now>>, NEW e
    PROVE  MissionStands(e)' <=> MissionStands(e)
BY DEF MissionStands

LEMMA DecideAnswers ==
    ASSUME ModelInv, HeldInv, NEW req \in Decisions, Decide(req), reply'.op = "decide"
    PROVE  AnswersInv'
<1>1. PICK e : e = DecisionEntry(req)
  OBVIOUS
<1>2. /\ reply' = [op |-> "decide", entry |-> e, req |-> req] /\ Refusal(req) = "ok"
      /\ UNCHANGED <<model, kernel, require, badges, handles, registry, now>>
  BY <1>1 DEF Decide
<1>3. DelegatorCouldToo'
  <2> SUFFICES ASSUME e.decision, OwnerOf(e.resource)' \in Seqs!ToSet(AncestorsOf(kernel, e.subject))
               PROVE  Check(kernel, [type |-> "Principal", id |-> kernel.principals[e.subject].delegator],
                            e.action, [type |-> "Resource", id |-> e.resource],
                            [now |-> now, flags |-> e.flags])
    BY <1>2 DEF DelegatorCouldToo
  <2>1. OwnerOf(e.resource)' = OwnerOf(e.resource)
    BY <1>2 DEF OwnerOf
  <2> QED
    BY <1>1, <2>1, DecidedDelegation
<1>4. ClampSatisfiesTheGate'
  BY <1>2 DEF ClampSatisfiesTheGate
<1>5. AllowedMissionsStand'
  <2>1. e.decision => MissionStands(e)
    BY <1>1, DecidedMissionStands
  <2>2. e.decision => MissionStands(e)'
    BY <2>1, <1>2, MissionStandsUnmoved
  <2> QED
    BY <2>2, <1>2 DEF AllowedMissionsStand, MissionStands
<1>6. WorkloadsSpeakForThemselves'
  <2> SUFFICES ASSUME req.caller.bind = "self"
               PROVE  e.subject = req.caller.subject /\ e.about = None
    BY <1>2 DEF WorkloadsSpeakForThemselves
  <2>1. AdmitNamed(req)
    BY <1>2 DEF Refusal
  <2>2. req.caller.subject = req.subject.id /\ (req.about # None => req.caller.subject = req.about)
    BY <2>1, RequestsAssumption DEF AdmitNamed, MayName
  <2>3. Kept(req) = None
    BY <2>2 DEF Kept
  <2> QED
    BY <1>1, <2>2, <2>3, EntryFacts
<1>7. SponsorAnswersForSubject'
  <2>1. e.sponsor # None =>
          LET root == kernel.principals[e.sponsor] IN
          /\ root.delegator = None
          /\ Within(kernel.principals[e.subject], root)
          /\ e.shard = root.tenant
    BY <1>1, DecidedSponsor
  <2> QED
    BY <2>1, <1>2 DEF SponsorAnswersForSubject
<1> QED
  BY <1>3, <1>4, <1>5, <1>6, <1>7 DEF AnswersInv

LEMMA MintAnswers ==
    ASSUME ModelInv, HeldInv, NEW asked, NEW mission, asked.sub # None, asked.expiry \in Int,
           Mint(asked, mission)
    PROVE  AnswersInv'
<1>1. PICK ok : ok = (Exchangeable(asked, mission) /\ Admits(Badge(asked, mission)))
  OBVIOUS
<1>2. /\ reply' = [op |-> "mint", ok |-> ok, asked |-> asked, mission |-> mission]
      /\ UNCHANGED <<model, kernel, require, handles, registry, now>>
  BY <1>1 DEF Mint
<1>3. ClampSatisfiesTheGate'
  <2> SUFFICES ASSUME ~ok, Exchangeable(asked, mission), ~Known(kernel, asked.sub),
                      ~(now > kernel.principals[asked.delegator].expiry), ~(now > asked.expiry)
               PROVE  FALSE
    BY <1>2 DEF ClampSatisfiesTheGate, Exchangeable
  <2>1. Known(kernel, asked.delegator)
    BY DEF Exchangeable
  <2>2. kernel.principals[asked.delegator].expiry \in Int /\ now \in Int
    BY <2>1, ModelInForce DEF ValidDirectory, Known, HeldInv
  <2>3. Admits(Badge(asked, mission))
    BY <2>1, <2>2, ClampAdmits
  <2> QED
    BY <1>1, <2>3
<1>4. reply'.op = "mint"
  BY <1>2
<1> QED
  BY <1>3, <1>4 DEF AnswersInv, DelegatorCouldToo, AllowedMissionsStand,
       WorkloadsSpeakForThemselves, SponsorAnswersForSubject

LEMMA SearchAnswers ==
    ASSUME NEW req, Search(req), reply'.op = "search"
    PROVE  AnswersInv'
<1>1. reply'.req = req /\ SearchRefusal(req) = "ok"
  BY DEF Search
<1>2. req.caller.bind = "self" => req.for # "subject"
  BY <1>1 DEF SearchRefusal
<1> QED
  BY <1>1, <1>2 DEF AnswersInv, DelegatorCouldToo, ClampSatisfiesTheGate, AllowedMissionsStand,
       WorkloadsSpeakForThemselves, SponsorAnswersForSubject

LEMMA AnswersStep == ModelInv /\ HeldInv /\ HeldInv' /\ AnswersInv /\ [Next]_vars => AnswersInv'
<1> SUFFICES ASSUME ModelInv, HeldInv, HeldInv', AnswersInv, [Next]_vars PROVE AnswersInv'
  OBVIOUS
<1>1. CASE UNCHANGED vars
  BY <1>1 DEF vars, AnswersInv, DelegatorCouldToo, OwnerOf, ClampSatisfiesTheGate, Exchangeable,
       AllowedMissionsStand, WorkloadsSpeakForThemselves, SponsorAnswersForSubject
<1>2. CASE Next /\ reply'.op = "decide"
  BY <1>2, OnlyDecideAnswers, DecideAnswers
<1>3. CASE Next /\ reply'.op = "mint"
  BY <1>3, OnlyMintAnswers, MintAnswers
<1>4. CASE Next /\ reply'.op = "search"
  BY <1>4, OnlySearchAnswers, SearchAnswers
<1>5. CASE reply'.op \in {"idle", "refused"}
  BY <1>5 DEF AnswersInv, DelegatorCouldToo, ClampSatisfiesTheGate, AllowedMissionsStand,
       WorkloadsSpeakForThemselves, SponsorAnswersForSubject
<1>6. reply'.op \in {"idle", "mint", "decide", "search", "refused"}
  BY DEF HeldInv
<1> QED
  BY <1>1, <1>2, <1>3, <1>4, <1>5, <1>6

LEMMA AuthorityInvariant == Spec => [](ModelInv /\ HeldInv /\ AnswersInv)
<1>1. Init => ModelInv /\ HeldInv /\ AnswersInv
  <2>1. Init => AnswersInv
    BY DEF Init, Idle, AnswersInv, DelegatorCouldToo, ClampSatisfiesTheGate,
         AllowedMissionsStand, WorkloadsSpeakForThemselves, SponsorAnswersForSubject
  <2> QED
    BY <2>1, InitialModel
<1>2. ModelInv /\ HeldInv /\ AnswersInv /\ [Next]_vars => (ModelInv /\ HeldInv /\ AnswersInv)'
  BY ModelStep, HeldStep, AnswersStep
<1> QED
  BY <1>1, <1>2, PTL DEF Spec

\* In a valid directory attenuation is transitive, and the blast radius of a
\* revocation is exact.
LEMMA DirectorySound ==
    ModelInv => DelegationAttenuates /\ BlastRadiusIsExact
<1> SUFFICES ASSUME ModelInv PROVE DelegationAttenuates /\ BlastRadiusIsExact
  OBVIOUS
<1>1. ValidDirectory(kernel) /\ "principals" \in DOMAIN kernel
  BY ModelInForce
<1>2. DelegationAttenuates
  BY <1>1, LineFacts, LineAttenuates DEF DelegationAttenuates, Known
<1>3. BlastRadiusIsExact
  <2> SUFFICES ASSUME NEW p \in DOMAIN kernel.principals
               PROVE  LET after == [kernel EXCEPT !.principals[p].revoked = TRUE] IN
                      {q \in DOMAIN kernel.principals : Revoked(after, q)} =
                        {p} \cup DescendantsOf(kernel, p)
                            \cup {q \in DOMAIN kernel.principals : Revoked(kernel, q)}
    BY DEF BlastRadiusIsExact
  <2> QED
    BY <1>1, RevocationExact
<1> QED
  BY <1>2, <1>3

\* Delegation is sound in every reachable state, under every model the server is
\* restarted with: whatever was admitted, a delegate has no more than any of its
\* ancestors, revoking a principal takes exactly what is below it, its delegator
\* could do what it is allowed to through it, and what clamp_delegation mints
\* the load-time validator admits (graph.rs validate, ancestors_of,
\* descendants_of; exchange.rs clamp_delegation).
THEOREM DelegationAlwaysSound == Spec => []DelegationSound
<1>1. ModelInv /\ HeldInv /\ AnswersInv => DelegationSound
  <2> SUFFICES ASSUME ModelInv, HeldInv, AnswersInv PROVE DelegationSound
    OBVIOUS
  <2>1. TypeOK
    BY DEF ModelInv, HeldInv, TypeOK
  <2> QED
    BY <2>1, DirectorySound DEF AnswersInv, DelegationSound
<1> QED
  BY <1>1, AuthorityInvariant, PTL

\* Those a record names answer for it, in every reachable state: a decision
\* allowed under a Mission has an approver whose whole line stands now, a
\* workload speaks for itself, and the sponsor holds what the subject does
\* (mission.rs bound_mission, server lib.rs admit_named, kernel lib.rs
\* resolve_sponsor).
THEOREM AlwaysAccountable == Spec => []RecordsAccountable
<1>1. AnswersInv => RecordsAccountable
  BY DEF AnswersInv, RecordsAccountable
<1> QED
  BY <1>1, AuthorityInvariant, PTL

=============================================================================
