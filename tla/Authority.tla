----------------------------- MODULE Authority -----------------------------
(***************************************************************************)
(* Who may do what, over time: the identity crate's minting (exchange,     *)
(* approve, issue_under_mission, admit) and the server's evaluation and    *)
(* search, over a model an operator may replace between any two of them.   *)
(* What makes this hard is that every grant outlives the model it was      *)
(* given under: a badge, a Mission and its handle all wait while their     *)
(* delegator or approver is revoked, narrowed, moved or expired.           *)
(*                                                                         *)
(* Each handler is one step here; the module Missions has the             *)
(* interleavings inside approve, terminate and decide.  A Mission's s256   *)
(* is the Mission itself: the hash is taken to be without collisions, and  *)
(* the time of approval is not part of it.                                 *)
(***************************************************************************)
EXTENDS Kernel

CONSTANTS
    Authored,      \* the models an operator may start the server with
    Foreign,       \* badges presented that this deployment did not mint
    Missions,      \* the Missions approvers may ask for
    Mintings,      \* [delegator, sub, scopes, expiry, entitled]: exchanges asked for
    Decisions,     \* evaluation requests
    Searches,      \* search requests
    EarlierRows,   \* registries an earlier release may have left
    Alias,         \* --authzen-type-alias: request type -> model type
    Reserved,      \* the subject ids that begin with a reserved prefix
    StandingIssuers,   \* --standing-issuer-key
    MaxTime,
    MaxBadges

ASSUME AuthorityAssumption ==
    /\ MaxTime \in Nat /\ MaxBadges \in Nat
    /\ MaxTime <= MaxLong
    /\ \E list \in Authored : Loads(list)

\* The shapes of what is authored, minted and asked.  An expiry is an i64, and
\* None, which stands for an absent id, names nobody.
ASSUME ShapesAssumption ==
    /\ \A list \in Authored :
         /\ list \in Seq({list[i] : i \in DOMAIN list})
         /\ \A i \in DOMAIN list :
              /\ list[i].id # None
              /\ list[i].type = "Principal" =>
                   /\ "revoked" \in DOMAIN list[i].attrs
                   /\ list[i].attrs.expiry \in Int /\ list[i].attrs.expiry <= MaxLong
    /\ \A b \in Foreign : b.id # None /\ b.expiry \in Int
    /\ \A asked \in Mintings : asked.sub # None /\ asked.expiry \in Int
    /\ \A m \in Missions : m.expiry \in Int
    /\ \A rows \in EarlierRows : \A m \in DOMAIN rows :
         "terminated" \in DOMAIN rows[m] /\ rows[m].terminated \in BOOLEAN

\* An evaluation names its subject; a search is for one of three kinds.
ASSUME RequestsAssumption ==
    /\ \A req \in Decisions : req.subject.id # ""
    /\ \A req \in Searches :
         /\ req.for \in {"subject", "resource", "action"}
         /\ req.subject = [type |-> req.subject.type, id |-> req.subject.id]
         /\ req.resource = [type |-> req.resource.type, id |-> req.resource.id]

VARIABLES
    model,         \* the entities the server was started with
    kernel,        \* its parsed directory
    require,       \* --require-mission
    badges,        \* the badges minted and still held by someone
    handles,       \* the ApprovedMissions processes hold: [mission, active]
    registry,      \* s256 -> entry
    now,
    reply          \* the answer being returned, or Idle

vars == <<model, kernel, require, badges, handles, registry, now, reply>>

Idle == [op |-> "idle"]
NoMission == [approver |-> "", s256 |-> [approver |-> ""]]
NoChallenge == [given |-> FALSE]

---------------------------------------------------------------------------
(***************************************************************************)
(* The registry, as decern-store keeps it (Missions has its durability).   *)
(***************************************************************************)

\* An ended entry outlives its expiry by a retention far beyond MaxTime.
Retained(r) == {m \in DOMAIN r : r[m].terminated \/ r[m].expiry > now}

Swept(r) == [m \in Retained(r) |-> r[m]]

Entry(m) == [approver |-> m.approver, agent |-> m.agent, tools |-> m.tools,
             expiry |-> m.expiry, terminated |-> FALSE]

MayRegister(m) == ~(m \in DOMAIN registry /\ registry[m].terminated)

Register(m) ==
    IF m \in Retained(registry) THEN Swept(registry)
    ELSE [k \in Retained(registry) \cup {m} |->
            IF k = m THEN Entry(m) ELSE registry[k]]

---------------------------------------------------------------------------
(***************************************************************************)
(* Minting.                                                                *)
(***************************************************************************)

Intersected(asked, held) == asked \cap held

\* clamp_delegation: what was asked, inside what the delegator holds.
Clamp(d, asked) ==
    [scopes |-> Intersected(asked.scopes, d.scopes),
     expiry |-> IF asked.expiry < d.expiry THEN asked.expiry ELSE d.expiry]

Badge(asked, mission) ==
    LET d == kernel.principals[asked.delegator]
        c == Clamp(d, asked)
    IN  [id |-> asked.sub, kind |-> "Agent", tenant |-> d.tenant,
         scopes |-> c.scopes, delegator |-> asked.delegator, expiry |-> c.expiry,
         validFrom |-> now, validUntil |-> c.expiry, mission |-> mission, key |-> "ours"]

\* verify: the signature under the pinned key, then the window.
Verifies(b) ==
    /\ b.key = "ours"
    /\ b.validFrom <= now /\ now <= b.validUntil
    /\ b.expiry <= b.validUntil
    /\ b.expiry <= MaxLong

\* The entity admission adds: an agent with no role, no clearance, no
\* organisation, whatever its delegator has.
AgentOf(b) ==
    [type |-> "Principal", id |-> b.id, shape |-> "ok",
     attrs |-> [kind |-> b.kind, tenant |-> b.tenant, expiry |-> b.expiry,
                scopes |-> b.scopes, roles |-> {}, jurisdictions |-> {},
                delegator |-> b.delegator, org |-> None, revoked |-> FALSE]]

Admissible(b) ==
    /\ b.kind = "Agent"
    /\ b.delegator # None
    /\ ~Known(kernel, b.id)

Admits(b) == Verifies(b) /\ Admissible(b) /\ Loads(Append(model, AgentOf(b)))

Admit(b) ==
    /\ reply = Idle
    /\ Admits(b)
    /\ model' = Append(model, AgentOf(b))
    /\ kernel' = Parse(model')
    /\ UNCHANGED <<require, badges, handles, registry, now, reply>>

\* exchange, with the reserved prefixes its caller is entitled to and the
\* Mission the token is bound to.
Exchangeable(asked, mission) ==
    /\ asked.sub \notin Reserved \/ asked.sub \in asked.entitled
    /\ mission # NoMission => mission.approver = asked.delegator
    /\ Known(kernel, asked.delegator)

Mint(asked, mission) ==
    LET ok == Exchangeable(asked, mission) /\ Admits(Badge(asked, mission)) IN
    /\ reply' = [op |-> "mint", ok |-> ok, asked |-> asked, mission |-> mission]
    /\ badges' = IF ok THEN badges \cup {Badge(asked, mission)} ELSE badges
    /\ UNCHANGED <<model, kernel, require, handles, registry, now>>

Exchange(asked) ==
    /\ reply = Idle
    /\ Cardinality(badges) < MaxBadges
    /\ Mint(asked, NoMission)

\* approve, then record and register (approve_now).  A workload may name only
\* itself as the approver.
Approvable(m) ==
    /\ Known(kernel, m.approver)
    /\ m.approver # m.agent
    /\ ~Revoked(kernel, m.approver)
    /\ m.tools \subseteq kernel.principals[m.approver].scopes
    /\ m.expiry <= kernel.principals[m.approver].expiry
    /\ m.expiry > now
    /\ Known(kernel, m.agent)
    /\ kernel.principals[m.agent].tenant = kernel.principals[m.approver].tenant

Approve(m) ==
    /\ reply = Idle
    /\ Approvable(m)
    /\ MayRegister(m)
    /\ registry' = Register(m)
    /\ handles' = handles \cup {[mission |-> m, active |-> TRUE]}
    /\ UNCHANGED <<model, kernel, require, badges, now, reply>>

\* A termination in the registry, by the handle that approved it or by another
\* process: other handles keep the state they last saw.
Terminate(m) ==
    /\ reply = Idle
    /\ m \in DOMAIN registry
    /\ registry' = Swept([registry EXCEPT ![m].terminated = TRUE])
    /\ \E own \in SUBSET {h \in handles : h.mission = m /\ h.active} :
         handles' = (handles \ own) \cup {[h EXCEPT !.active = FALSE] : h \in own}
    /\ UNCHANGED <<model, kernel, require, badges, now, reply>>

\* issue_under_mission: the handle and the registry must agree that the
\* Mission is live, on its approver and on what was approved, then exchange
\* under the approver.
UnderHandleOnly(h) == h.active                    \* mutant: the registry is not asked

UnderMission(h) ==
    /\ h.active
    /\ h.mission \in DOMAIN registry
    /\ LET entry == registry[h.mission] IN
         /\ ~entry.terminated
         /\ entry.approver = h.mission.approver
         /\ entry.tools = h.mission.tools /\ entry.expiry = h.mission.expiry

IssueUnderMission(h, asked) ==
    /\ reply = Idle
    /\ Cardinality(badges) < MaxBadges
    /\ asked.sub \notin Reserved
    /\ UnderMission(h)
    /\ Mint([delegator |-> h.mission.approver, sub |-> asked.sub,
             scopes |-> Intersected(asked.scopes, h.mission.tools),
             expiry |-> h.mission.expiry, entitled |-> {}],
            [approver |-> h.mission.approver, s256 |-> h.mission])

---------------------------------------------------------------------------
(***************************************************************************)
(* Evaluation.  A request names a subject, an action and a resource; its   *)
(* context carries boolean flags, and may name a Mission, the party the    *)
(* decision is about, and a challenge.  describes says it carries          *)
(* properties of a party; fault is what the server finds wrong with it.    *)
(***************************************************************************)

ModelType(t) == IF t \in DOMAIN Alias THEN Alias[t] ELSE t

\* Bind::SelfOnly admits the caller's own name; the others admit any.
MayName(caller, id) == caller.bind = "self" => caller.subject = id

\* admit_named: the subject, then the decision subject, then descriptions.
AdmitNamed(req) ==
    /\ req.subject.id # "" => MayName(req.caller, req.subject.id)
    /\ req.about # None => MayName(req.caller, req.about)
    /\ req.describes => req.caller.bind # "self"

\* bound_mission, read against the kernel of this process at this decision.
Stands(e, action) ==
    /\ ~Revoked(kernel, e.approver)
    /\ now <= kernel.principals[e.approver].expiry
    /\ ScopeOf(action) \in kernel.principals[e.approver].scopes

BoundWhenApproved(subject, action, mission) ==     \* mutant: the approver's standing is not read again
    /\ mission.s256 \in DOMAIN registry
    /\ LET e == registry[mission.s256] IN
       /\ ~e.terminated /\ e.expiry > now
       /\ e.approver = mission.approver
       /\ e.agent = subject /\ e.approver # e.agent
       /\ ScopeOf(action) \in e.tools

Bound(subject, action, mission) ==
    /\ mission.s256 \in DOMAIN registry
    /\ LET e == registry[mission.s256] IN
       /\ ~e.terminated
       /\ e.expiry > now
       /\ e.approver = mission.approver
       /\ e.agent # ""
       /\ e.agent = subject
       /\ e.approver # e.agent
       /\ ScopeOf(action) # None
       /\ ScopeOf(action) \in e.tools
       /\ Known(kernel, e.approver) /\ Known(kernel, subject)
       /\ kernel.principals[e.approver].tenant = kernel.principals[subject].tenant
       /\ Stands(e, action)

\* bind_mission: none, bound, or a refusal that forces a Deny.
BindMission(required, subject, action, mission) ==
    CASE mission = NoMission /\ ~required /\ action # "MoveMoney" -> "none"
      [] mission # NoMission /\ Bound(subject, action, mission) -> "ok"
      [] OTHER -> "deny"

\* What each outcome leaves of the caller's approval flags.
Stripped(flags) == flags \ {"human_approved", "consent"}

FlagsAfter(bind, action, flags) ==
    CASE bind = "none" -> flags
      [] bind = "deny" -> Stripped(flags)
      [] bind = "ok" -> Stripped(flags) \cup
                        (IF action = "MoveMoney" THEN {"human_approved"} ELSE {})

OwnerOf(r) == IF r \in DOMAIN kernel.resources THEN kernel.resources[r].owner ELSE None

\* take_decision_subject: a handle the record does not already carry.
Kept(req) == IF req.about \in {req.subject.id, OwnerOf(req.resource.id)}
               THEN None ELSE req.about

\* challenge::verify_standing: what the bearer's token says is believed when an
\* issuer the operator configured signed it as such a token, in its time.
VerifyStanding(t) ==
    /\ t.alg = "EdDSA" /\ t.typ # "at+jwt" /\ ~t.crit
    /\ t.key \in StandingIssuers
    /\ now < t.exp /\ t.nbf <= now
    /\ t.complete

\* challenge::parse: its shape, its standing, and that both name one decision.
ParseChallenge(c) ==
    IF ~c.whole THEN "malformed_challenge"
    ELSE IF ~VerifyStanding(c.token) THEN "standing_not_proved"
    ELSE IF c.token.ref # c.ref THEN "challenge_not_bound_to_decision"
    ELSE "ok"

\* challenge::answer, on a standing that parse has proved.
Answer(req) ==
    LET about == IF Kept(req) # None THEN {Kept(req)}
                 ELSE {req.subject.id, OwnerOf(req.resource.id)}
    IN  IF req.challenge.token.subject \in about /\ req.challenge.onFacts
          THEN "challenge_classified" ELSE "affirm_prior_decision"

ResolveSponsor(id) ==
    IF Known(kernel, id) THEN Seqs!Last(Path(Delegator(kernel), id)) ELSE None

ResolveShard(id) ==
    IF Known(kernel, id) THEN kernel.principals[id].tenant ELSE RESERVED_TENANT

Typed(party) == [type |-> ModelType(party.type), id |-> party.id]

\* prepare, decide_prepared and record_of: the entry a decision is recorded
\* as, over the context the kernel saw.
DecisionEntry(req) ==
    LET bind == BindMission(require, req.subject.id, req.action, req.mission)
        ctx == Prune(Declared(req.action),
                     [now |-> now, flags |-> FlagsAfter(bind, req.action, req.flags)])
    IN  [decision |-> /\ bind # "deny"
                      /\ Check(kernel, Typed(req.subject), req.action, Typed(req.resource), ctx),
         subject |-> req.subject.id, action |-> req.action, resource |-> req.resource.id,
         flags |-> ctx.flags,
         mission |-> IF bind = "ok" THEN req.mission ELSE NoMission,
         sponsor |-> ResolveSponsor(req.subject.id),
         shard |-> ResolveShard(req.subject.id),
         about |-> Kept(req),
         challenge |-> IF req.challenge.given THEN Answer(req) ELSE None,
         by |-> req.caller]

\* decide_one's refusals, in order; a decision is served as recorded.
Refusal(req) ==
    IF ~AdmitNamed(req) THEN "caller_mismatch"
    ELSE IF req.fault = "name" THEN "name_too_large"
    ELSE IF req.fault = "clock" THEN "clock_unavailable"
    ELSE IF req.fault = "context" THEN "context_too_large"
    ELSE IF req.about # None /\ req.fault = "handle" THEN "decision_subject"
    ELSE IF req.challenge.given THEN ParseChallenge(req.challenge)
    ELSE "ok"

Decide(req) ==
    /\ reply = Idle
    /\ reply' = IF Refusal(req) = "ok"
                  THEN [op |-> "decide", entry |-> DecisionEntry(req), req |-> req]
                  ELSE [op |-> "refused", why |-> Refusal(req)]
    /\ UNCHANGED <<model, kernel, require, badges, handles, registry, now>>

---------------------------------------------------------------------------
(***************************************************************************)
(* Search.                                                                 *)
(***************************************************************************)

\* checked: what each kind of search requires of its request.
Checked(req) ==
    /\ req.fault \notin {"name", "page"}
    /\ req.for \in {"resource", "action"} => req.subject.id # ""
    /\ req.for \in {"subject", "action"} => req.resource.id # ""
    /\ (req.action = None) <=> (req.for = "action")

SearchRefusal(req) ==
    IF ~Checked(req) THEN "invalid_request"
    ELSE IF \/ req.for = "subject" /\ req.caller.bind = "self"
            \/ ~AdmitNamed([req EXCEPT !.subject.id = IF req.for = "subject" THEN "" ELSE @])
      THEN "caller_mismatch"
    ELSE IF require \/ req.mission # NoMission THEN "search_under_mission"
    ELSE IF req.fault = "clock" THEN "clock_unavailable"
    ELSE IF req.fault = "context" THEN "context_too_large"
    ELSE "ok"

RefusedWithoutMission(action) == BindMission(FALSE, "", action, NoMission) = "deny"

EnumerateUnfiltered(req) ==            \* mutant: the Mission rule is not applied to actions
    LET ctx == [now |-> now, flags |-> req.flags]
        s == Typed(req.subject)  r == Typed(req.resource)
    IN  CASE req.for = "action" -> SearchActions(kernel, s, r, ctx)
          [] req.for = "subject" -> SearchSubjects(kernel, req.action, r, Prune(Declared(req.action), ctx))
          [] OTHER -> SearchResources(kernel, s, req.action, Prune(Declared(req.action), ctx))

Enumerate(req) ==
    LET ctx == [now |-> now, flags |-> req.flags]
        s == Typed(req.subject)
        r == Typed(req.resource)
        pruned == Prune(Declared(req.action), ctx)
        known == /\ req.for # "resource" => r.id \in DOMAIN kernel.resources
                 /\ req.for # "subject" => Known(kernel, s.id)
                 /\ req.for # "resource" => s.type = "Principal"
                 /\ req.for # "subject" => r.type = "Resource"
    IN  IF ~known THEN {}
        ELSE IF req.for = "action"
          THEN {a \in SearchActions(kernel, s, r, ctx) : ~RefusedWithoutMission(a)}
        ELSE IF RefusedWithoutMission(req.action) THEN {}
        ELSE IF req.for = "subject" THEN SearchSubjects(kernel, req.action, r, pruned)
        ELSE SearchResources(kernel, s, req.action, pruned)

\* A search is one record, under the subject's shard, or the resource's tenant
\* when it names no subject.
SearchShard(req) ==
    IF req.for # "subject" THEN ResolveShard(req.subject.id)
    ELSE IF req.resource.id \in DOMAIN kernel.resources
           THEN kernel.resources[req.resource.id].tenant ELSE RESERVED_TENANT

Search(req) ==
    /\ reply = Idle
    /\ reply' = IF SearchRefusal(req) = "ok"
                  THEN [op |-> "search", found |-> Enumerate(req), req |-> req,
                        shard |-> SearchShard(req)]
                  ELSE [op |-> "refused", why |-> SearchRefusal(req)]
    /\ UNCHANGED <<model, kernel, require, badges, handles, registry, now>>

---------------------------------------------------------------------------
\* The operator starts the server on a model; one that does not load leaves
\* nothing serving, so the model in force is the last that did.
Deploy(list, mission) ==
    /\ reply = Idle
    /\ Loads(list)
    /\ model' = list
    /\ kernel' = Parse(list)
    /\ require' = mission
    /\ UNCHANGED <<badges, handles, registry, now, reply>>

Tick ==
    /\ reply = Idle
    /\ now < MaxTime
    /\ now' = now + 1
    /\ UNCHANGED <<model, kernel, require, badges, handles, registry, reply>>

Respond ==
    /\ reply # Idle
    /\ reply' = Idle
    /\ UNCHANGED <<model, kernel, require, badges, handles, registry, now>>

Init ==
    /\ model \in {list \in Authored : Loads(list)}
    /\ kernel = Parse(model)
    /\ require = FALSE
    /\ badges = {}
    /\ handles = {}
    /\ registry \in EarlierRows
    /\ now = 0
    /\ reply = Idle

Next ==
    \/ \E list \in Authored, mission \in BOOLEAN : Deploy(list, mission)
    \/ \E b \in badges \cup Foreign : Admit(b)
    \/ \E asked \in Mintings : Exchange(asked)
    \/ \E m \in Missions : Approve(m)
    \/ \E m \in DOMAIN registry : Terminate(m)
    \/ \E h \in handles, asked \in Mintings : IssueUnderMission(h, asked)
    \/ \E req \in Decisions : Decide(req)
    \/ \E req \in Searches : Search(req)
    \/ Tick
    \/ Respond

Spec == Init /\ [][Next]_vars

---------------------------------------------------------------------------
(***************************************************************************)
(* Properties.                                                             *)
(***************************************************************************)

\* The server always runs on a model that loads, admissions included, and on
\* the directory parsed from it; every registry row is keyed by its Mission.
TypeOK ==
    /\ Loads(model) /\ kernel = Parse(model)
    /\ require \in BOOLEAN
    /\ Cardinality(badges) <= MaxBadges
    /\ \A h \in handles : h.mission \in Missions /\ h.active \in BOOLEAN
    /\ \A m \in DOMAIN registry : registry[m].terminated \in BOOLEAN
    /\ now \in 0..MaxTime
    /\ reply.op \in {"idle", "mint", "decide", "search", "refused"}

\* Attenuation is transitive: in a directory that loaded, whatever was
\* admitted into it and in whatever order, a principal stays inside every one
\* of its authority ancestors (graph.rs: "the delegate's authority is a subset
\* of each ancestor's"), though validate compares each only with its delegator.
DelegationAttenuates ==
    \A p \in DOMAIN kernel.principals :
        \A a \in Seqs!ToSet(AncestorsOf(kernel, p)) :
            /\ Known(kernel, a)
            /\ Within(kernel.principals[p], kernel.principals[a])

\* descendants_of is the blast radius of a revocation: revoking a principal
\* revokes it and exactly the principals it lists, with those revoked before.
BlastRadiusIsExact ==
    \A p \in DOMAIN kernel.principals :
        LET after == [kernel EXCEPT !.principals[p].revoked = TRUE] IN
        {q \in DOMAIN kernel.principals : Revoked(after, q)} =
            {p} \cup DescendantsOf(kernel, p)
                \cup {q \in DOMAIN kernel.principals : Revoked(kernel, q)}

\* Delegation never adds authority: what a delegate is allowed on a resource
\* it reaches through its delegators, its own delegator is allowed as well,
\* in the same context at the same time.
DelegatorCouldToo ==
    reply.op = "decide" /\ reply.entry.decision =>
        LET e == reply.entry
            d == kernel.principals[e.subject].delegator
        IN  OwnerOf(e.resource) \in Seqs!ToSet(AncestorsOf(kernel, e.subject)) =>
              Check(kernel, [type |-> "Principal", id |-> d], e.action,
                    [type |-> "Resource", id |-> e.resource], [now |-> now, flags |-> e.flags])

\* Every decision that allows satisfies the nine guards the repository has its
\* policies proved against (decern-proof), over the attributes the kernel
\* derived and the context it was really given, after the Mission rules and
\* pruning have rewritten what the caller sent.
AllowsSatisfySuite ==
    reply.op = "decide" /\ reply.entry.decision =>
        LET e == reply.entry IN
        Suite(kernel, e.subject, e.action, e.resource, [now |-> now, flags |-> e.flags])

\* Money moves only under a live Mission that another principal of the
\* subject's tenant approved, and any decision allowed under a Mission has an
\* approver who still stands, up to the root of its chain, in the model in
\* force now, however long ago and under whichever model it approved.
AllowedMissionsStand ==
    reply.op = "decide" /\ reply.entry.decision =>
        LET e == reply.entry IN
        /\ e.action = "MoveMoney" => e.mission # NoMission
        /\ e.mission # NoMission =>
             LET a == e.mission.approver IN
             /\ ~registry[e.mission.s256].terminated
             /\ a # e.subject
             /\ \A up \in {a} \cup Seqs!ToSet(AncestorsOf(kernel, a)) :
                  LET p == kernel.principals[up] IN
                  /\ p.tenant = kernel.principals[e.subject].tenant
                  /\ ~p.revoked
                  /\ now <= p.expiry
                  /\ ScopeOf(e.action) \in p.scopes

\* The two attenuations agree: clamp_delegation leaves the load-time validator
\* nothing to refuse, so an exchange fails only for a name it may not mint or
\* one already taken, an unknown delegator, or authority already over.
ClampSatisfiesTheGate ==
    reply.op = "mint" /\ ~reply.ok =>
        LET asked == reply.asked IN
        \/ ~Exchangeable(asked, reply.mission)
        \/ Known(kernel, asked.sub)
        \/ now > kernel.principals[asked.delegator].expiry
        \/ now > asked.expiry

\* No token is minted under a Mission that has ended, whichever handle asks and
\* however stale it is, and none carries a scope outside the approval.
MintsUnderLiveMissions ==
    reply.op = "mint" /\ reply.ok /\ reply.mission # NoMission =>
        LET m == reply.mission.s256 IN
        /\ m \in DOMAIN registry /\ ~registry[m].terminated
        /\ \A b \in badges : b.mission = reply.mission => b.scopes \subseteq m.tools

\* Search and evaluation agree: a search returns exactly the candidates that
\* an evaluation of each, by the same caller in the same context, would allow.
SearchAgreesWithDecisions ==
    reply.op = "search" =>
        LET req == reply.req
            asked == [caller |-> req.caller, subject |-> req.subject, action |-> req.action,
                      resource |-> req.resource, flags |-> req.flags, mission |-> NoMission,
                      about |-> None, describes |-> FALSE,
                      challenge |-> NoChallenge, fault |-> "none"]
        IN  reply.found =
              CASE req.for = "subject" ->
                     {p \in DOMAIN kernel.principals :
                        DecisionEntry([asked EXCEPT !.subject.id = p]).decision}
                [] req.for = "resource" ->
                     {r \in DOMAIN kernel.resources :
                        DecisionEntry([asked EXCEPT !.resource.id = r]).decision}
                [] req.for = "action" ->
                     {a \in Actions : DecisionEntry([asked EXCEPT !.action = a]).decision}

\* A workload bound to itself never puts a record under another principal, nor
\* under another party's handle, nor enumerates the principals of a resource.
WorkloadsSpeakForThemselves ==
    /\ reply.op = "decide" /\ reply.req.caller.bind = "self" =>
         /\ reply.entry.subject = reply.req.caller.subject
         /\ reply.entry.about = None
    /\ reply.op = "search" /\ reply.req.caller.bind = "self" => reply.req.for # "subject"

\* The accountable owner on a record holds, itself, all the authority of the
\* subject it answers for, delegates from no one, and is of the tenant whose
\* shard the record goes to.
SponsorAnswersForSubject ==
    reply.op = "decide" /\ reply.entry.sponsor # None =>
        LET e == reply.entry
            root == kernel.principals[e.sponsor]
        IN  /\ root.delegator = None
            /\ Within(kernel.principals[e.subject], root)
            /\ e.shard = root.tenant

\* Delegation is sound under every model the server is restarted with: a
\* delegate has no more than those above it, revoking one takes exactly what is
\* below, and minting and loading agree on what attenuation means.
DelegationSound ==
    /\ TypeOK
    /\ DelegationAttenuates
    /\ DelegatorCouldToo
    /\ BlastRadiusIsExact
    /\ ClampSatisfiesTheGate

\* Those a decision's record names answer for it, in the model in force: the
\* caller may name the subject, the sponsor holds its authority, the approver
\* of the Mission still stands.
RecordsAccountable ==
    AllowedMissionsStand /\ WorkloadsSpeakForThemselves /\ SponsorAnswersForSubject
=============================================================================
