------------------------------- MODULE Kernel -------------------------------
(***************************************************************************)
(* The policy kernel (crates/decern-kernel): the authority model as it is  *)
(* authored, its parse into a directory, the load-time validation, what    *)
(* the loader derives for the policies, the built-in Cedar policies, and   *)
(* the three searches.  Everything here is a function of its arguments, as *)
(* the kernel is; the modules that use it keep the state.                  *)
(*                                                                         *)
(* A JSON value is abstracted to what the kernel tells apart: an entity    *)
(* the parser cannot read has a shape other than "ok"; a context is the    *)
(* time and the set of boolean attributes it carries as true.              *)
(***************************************************************************)
EXTENDS Integers, Sequences, FiniteSets

Seqs == INSTANCE SequencesExt

CONSTANT
    \* i64::MAX, the largest epoch second the policies can compare
    MaxLong

ASSUME MaxLongAssumption == MaxLong \in Nat

None == "none"                      \* an optional attribute that is absent
RESERVED_TENANT == "__system__"

Actions == {"Read", "MoveMoney", "AccessPII"}

\* What each action declares of its context besides now: a policy reads
\* nothing else, and the kernel refuses a context that carries more.
Declared(action) ==
    CASE action = "MoveMoney" -> {"human_approved", "consent"}
      [] action \in {"Read", "AccessPII"} -> {"consent"}
      [] OTHER -> {}

AnyDeclared == UNION {Declared(a) : a \in Actions}

Prune(declared, ctx) == [ctx EXCEPT !.flags = @ \cap declared]

---------------------------------------------------------------------------
(***************************************************************************)
(* Parsing.  An authored model is a sequence of entities, each with the    *)
(* type and id of its uid, its attributes, and a shape: "ok", or the first *)
(* thing the parser cannot read (no uid, no attributes object, a reference *)
(* that is malformed or of another type, a revoked that is not a boolean). *)
(***************************************************************************)

Readable(e) ==
    /\ e.shape = "ok"
    /\ e.type \in {"Principal", "Resource", "Organization"}
    /\ e.attrs.tenant # ""
    /\ e.type = "Principal" => e.attrs.expiry >= 0
    /\ e.type = "Resource" => e.attrs.owner # ""

Parses(list) ==
    /\ \A i \in DOMAIN list : Readable(list[i])
    /\ \A i, j \in DOMAIN list :
         list[i].type = list[j].type /\ list[i].id = list[j].id => i = j

Table(list, type) ==
    LET at == {i \in DOMAIN list : list[i].type = type}
    IN  [id \in {list[i].id : i \in at} |->
           list[CHOOSE i \in at : list[i].id = id].attrs]

Parse(list) == [principals |-> Table(list, "Principal"),
                resources |-> Table(list, "Resource"),
                orgs |-> Table(list, "Organization")]

---------------------------------------------------------------------------
(***************************************************************************)
(* Walking the delegation edges, and the organisations' parent edges.      *)
(***************************************************************************)

\* The nodes met from id along the edges, id first, up to the first that is
\* missing, has no edge, or leads to a node already met.
Path(edge, id) ==
    LET N == Cardinality(DOMAIN edge)
        step(s) == LET at == Seqs!Last(s) IN
            IF at \in DOMAIN edge /\ edge[at] # None /\ edge[at] \notin Seqs!ToSet(s)
              THEN Append(s, edge[at]) ELSE s
        path[k \in 0..N] == IF k = 0 THEN <<id>> ELSE step(path[k - 1])
    IN  path[N]

\* first_cycle_id: the walk met a node twice.
OnCycle(edge, id) ==
    LET at == Seqs!Last(Path(edge, id)) IN at \in DOMAIN edge /\ edge[at] # None

Delegator(dir) == [p \in DOMAIN dir.principals |-> dir.principals[p].delegator]

Known(dir, id) == id \in DOMAIN dir.principals

AncestorsOf(dir, id) == Tail(Path(Delegator(dir), id))

Revoked(dir, id) ==
    \E a \in {id} \cup Seqs!ToSet(AncestorsOf(dir, id)) :
        Known(dir, a) /\ dir.principals[a].revoked

\* Breadth first over the inverted edges, inside the principal's tenant; the
\* order of the answer is left out.
DescendantsOf(dir, id) ==
    LET P == dir.principals
        N == Cardinality(DOMAIN P)
        below(S) == {c \in DOMAIN P : P[c].tenant = P[id].tenant /\ P[c].delegator \in S}
        reach[k \in 0..N] ==
            IF k = 0 THEN {id} ELSE reach[k - 1] \cup below(reach[k - 1])
    IN  IF Known(dir, id) THEN reach[N] \ {id} ELSE {}

---------------------------------------------------------------------------
(***************************************************************************)
(* Directory::validate, one conjunct per group of rules.                   *)
(***************************************************************************)

WithinUnlessCleared(p, d) ==        \* mutant: clearances are not attenuated
    /\ p.tenant = d.tenant
    /\ p.expiry <= d.expiry
    /\ p.scopes \subseteq d.scopes
    /\ p.roles \subseteq d.roles

Within(p, d) ==
    /\ p.tenant = d.tenant
    /\ p.expiry <= d.expiry
    /\ p.scopes \subseteq d.scopes
    /\ p.roles \subseteq d.roles
    /\ p.jurisdictions \subseteq d.jurisdictions

Attenuates(dir) ==
    \A p \in DOMAIN dir.principals :
        LET d == dir.principals[p].delegator IN
        d # None => /\ Known(dir, d)
                    /\ Within(dir.principals[p], dir.principals[d])

Acyclic(edge) == \A id \in DOMAIN edge : ~OnCycle(edge, id)

PartiesExist(dir) ==
    \A r \in DOMAIN dir.resources :
        LET res == dir.resources[r] IN
        \A p \in {res.owner} \cup res.viewers :
            Known(dir, p) /\ dir.principals[p].tenant = res.tenant

NoReservedTenant(dir) ==
    \A t \in {dir.principals, dir.resources, dir.orgs} :
        \A id \in DOMAIN t : t[id].tenant # RESERVED_TENANT

InOrg(dir, org, tenant) ==
    org # None => org \in DOMAIN dir.orgs /\ dir.orgs[org].tenant = tenant

OrgsNest(dir) ==
    LET parent == [o \in DOMAIN dir.orgs |-> dir.orgs[o].parent] IN
    /\ \A o \in DOMAIN parent : InOrg(dir, parent[o], dir.orgs[o].tenant)
    /\ Acyclic(parent)

MembersInOrg(dir) ==
    /\ \A p \in DOMAIN dir.principals :
         InOrg(dir, dir.principals[p].org, dir.principals[p].tenant)
    /\ \A r \in DOMAIN dir.resources :
         LET res == dir.resources[r] IN
         /\ InOrg(dir, res.org, res.tenant)
         /\ (res.org # None /\ Known(dir, res.owner)) =>
              dir.principals[res.owner].org \in {None, res.org}

Validate(dir) ==
    /\ Attenuates(dir)
    /\ Acyclic(Delegator(dir))
    /\ PartiesExist(dir)
    /\ NoReservedTenant(dir)
    /\ OrgsNest(dir)
    /\ MembersInOrg(dir)

\* Kernel::new: the schema and the policies are the built-in ones, so what can
\* refuse a model is its entities.
Loads(list) == Parses(list) /\ Validate(Parse(list))

---------------------------------------------------------------------------
(***************************************************************************)
(* The policies, over the attributes inject_derived adds: a principal's    *)
(* ancestors, and whether it or one of them is revoked.                    *)
(***************************************************************************)

Reaches(dir, s, r) ==
    dir.resources[r].owner \in {s} \cup Seqs!ToSet(AncestorsOf(dir, s))

ScopeOf(action) ==
    CASE action = "Read" -> "read"
      [] action = "MoveMoney" -> "move_money"
      [] action = "AccessPII" -> "pii:read"
      [] OTHER -> None

\* P-read, P-move, P-pii and P-rebac.
Permitted(dir, s, action, r, ctx) ==
    LET p == dir.principals[s] IN
    /\ p.tenant = dir.resources[r].tenant
    /\ ctx.now <= p.expiry
    /\ ScopeOf(action) \in p.scopes
    /\ action = "MoveMoney" => "human_approved" \in ctx.flags
    /\ \/ Reaches(dir, s, r)
       \/ action = "Read" /\ s \in dir.resources[r].viewers

ForbiddenLessRole(dir, s, action, r, ctx) ==  \* mutant: F-role is left out
    LET p == dir.principals[s]
        res == dir.resources[r]
    IN  \/ Revoked(dir, s)
        \/ res.residency # None /\ res.residency \notin p.jurisdictions
        \/ p.tenant # res.tenant
        \/ ctx.now > p.expiry
        \/ action = "MoveMoney" /\ "human_approved" \notin ctx.flags
        \/ res.sensitivity = "pii" /\ res.owner # s /\ "consent" \notin ctx.flags

\* F-revoked, F-residency, F-role, F-tenant, F-decay, F-money and F-consent.
Forbidden(dir, s, action, r, ctx) ==
    LET p == dir.principals[s]
        res == dir.resources[r]
    IN  \/ Revoked(dir, s)
        \/ res.residency # None /\ res.residency \notin p.jurisdictions
        \/ res.required_role # None /\ res.required_role \notin p.roles
        \/ p.tenant # res.tenant
        \/ ctx.now > p.expiry
        \/ action = "MoveMoney" /\ "human_approved" \notin ctx.flags
        \/ res.sensitivity = "pii" /\ res.owner # s /\ "consent" \notin ctx.flags

\* Kernel::check, and whether it allows.  A request the schema refuses, a
\* context with an undeclared attribute or a clock outside its range, and a
\* party the model does not name are all denied.
Check(dir, subject, action, resource, ctx) ==
    /\ subject.type = "Principal" /\ resource.type = "Resource"
    /\ action \in Actions
    /\ ctx.now \in 0..MaxLong
    /\ ctx.flags \subseteq Declared(action)
    /\ Known(dir, subject.id) /\ resource.id \in DOMAIN dir.resources
    /\ Permitted(dir, subject.id, action, resource.id, ctx)
    /\ ~Forbidden(dir, subject.id, action, resource.id, ctx)

SearchSubjects(dir, action, resource, ctx) ==
    {p \in DOMAIN dir.principals :
        Check(dir, [type |-> "Principal", id |-> p], action, resource, ctx)}

SearchResources(dir, subject, action, ctx) ==
    {r \in DOMAIN dir.resources :
        Check(dir, subject, action, [type |-> "Resource", id |-> r], ctx)}

SearchActions(dir, subject, resource, ctx) ==
    {a \in Actions : Check(dir, subject, a, resource, Prune(Declared(a), ctx))}

---------------------------------------------------------------------------
\* decern-proof's suite: what its guards require of any allow, in their order.
Suite(dir, s, action, r, ctx) ==
    LET p == dir.principals[s]
        res == dir.resources[r]
    IN  /\ action = "MoveMoney" => "human_approved" \in ctx.flags
        /\ p.tenant = res.tenant
        /\ ctx.now <= p.expiry
        /\ Reaches(dir, s, r) \/ s \in res.viewers
        /\ ScopeOf(action) \in p.scopes
        /\ ~Revoked(dir, s)
        /\ res.residency # None => res.residency \in p.jurisdictions
        /\ res.required_role # None => res.required_role \in p.roles
        /\ res.sensitivity = "pii" => res.owner = s \/ "consent" \in ctx.flags
=============================================================================
