---------------------------- MODULE MCAuthority ----------------------------
EXTENDS Authority

\* Four principals of two tenants, and three resources of the first.
P(id, tenant, expiry, scopes, cleared, delegator, revoked) ==
    [type |-> "Principal", id |-> id, shape |-> "ok",
     attrs |-> [kind |-> "Human", tenant |-> tenant, expiry |-> expiry, scopes |-> scopes,
                roles |-> cleared \cap {"aud"}, jurisdictions |-> cleared \cap {"EU"},
                delegator |-> delegator, org |-> None, revoked |-> revoked]]
R(id, owner, org, sensitivity, residency, role, viewers) ==
    [type |-> "Resource", id |-> id, shape |-> "ok",
     attrs |-> [owner |-> owner, tenant |-> "A", org |-> org, sensitivity |-> sensitivity,
                residency |-> residency, required_role |-> role, viewers |-> viewers]]
Org(id, tenant, parent) ==
    [type |-> "Organization", id |-> id, shape |-> "ok",
     attrs |-> [tenant |-> tenant, parent |-> parent]]

All == {"read", "move_money", "pii:read"}
Money == {"read", "move_money"}
Corp == P("corp", "A", 2, All, {"aud", "EU"}, None, FALSE)
Ann == P("ann", "A", 2, Money, {"aud", "EU"}, "corp", FALSE)
Bot == P("bot", "A", 1, Money, {"EU"}, "ann", FALSE)
Eve == P("eve", "B", 2, Money, {}, None, FALSE)
Data == <<R("acct", "corp", "hq", None, None, None, {}),
          R("file", "ann", None, "pii", "EU", None, {"bot"}),
          R("safe", "corp", None, None, None, "aud", {}),
          Org("hq", "A", None)>>

MCAuthored == {
    <<Corp, Ann, Bot, Eve>> \o Data,
    \* the approver's root revoked, the approver narrowed with its delegate
    <<[Corp EXCEPT !.attrs.revoked = TRUE], Ann, Bot>> \o Data,
    <<Corp, [Ann EXCEPT !.attrs.scopes = {"read"}], [Bot EXCEPT !.attrs.scopes = {"read"}]>> \o Data,
    \* the agent under the root, its approver expiring first
    <<Corp, [Ann EXCEPT !.attrs.expiry = 0], [Bot EXCEPT !.attrs.delegator = "corp"]>> \o Data,
    \* refused: wider than its delegator in scope, in clearance; a cycle; another
    \* tenant's delegator; a reserved tenant; an org elsewhere; a duplicate; a bad shape
    <<Corp, [Ann EXCEPT !.attrs.scopes = {"read"}], Bot>> \o Data,
    <<Corp, [Ann EXCEPT !.attrs.jurisdictions = {}], [Bot EXCEPT !.attrs.delegator = "ann"]>> \o Data,
    <<[Corp EXCEPT !.attrs.delegator = "bot"], Ann, Bot>> \o Data,
    <<Corp, Ann, [Bot EXCEPT !.attrs.tenant = "B"]>> \o Data,
    <<Corp, Ann, [Eve EXCEPT !.attrs.tenant = RESERVED_TENANT]>> \o Data,
    <<Corp, Ann>> \o Data \o <<Org("hq2", "B", "hq")>>,
    <<Corp, Ann, Bot, Ann>> \o Data,
    <<Corp, [Ann EXCEPT !.shape = "bad ref"]>> \o Data}

\* One grant that is approved as it stands, and three that never are: to
\* itself, of a scope the approver lacks, and to another tenant.
M(approver, agent, tools, expiry) ==
    [approver |-> approver, agent |-> agent, tools |-> tools, expiry |-> expiry]
Grant == M("ann", "bot", Money, 2)
MCMissions == {Grant, M("ann", "ann", {"read"}, 2), M("ann", "bot", All, 2),
               M("corp", "eve", {"read"}, 2)}
Earlier(m, agent) == [k \in {m} |-> [Entry(m) EXCEPT !.agent = agent]]
SelfGrant == M("bot", "bot", Money, 2)
MCEarlierRows == {[k \in {} |-> Entry(Grant)], Earlier(SelfGrant, "bot")}

Minting(d, s, e) ==
    [delegator |-> d, sub |-> s, scopes |-> Money, expiry |-> e, entitled |-> {}]
MCMintings == {Minting("ann", "sub", 2), Minting("bot", "sub", 2), Minting("bot", "fed:x", 1)}
MCForeign == {[id |-> "sub", kind |-> k, tenant |-> "A", scopes |-> All, delegator |-> "corp",
               expiry |-> 2, validFrom |-> 0, validUntil |-> 2, mission |-> NoMission, key |-> key] :
                 k \in {"Human", "Agent"}, key \in {"other", "ours"}}

Pep == [bind |-> "any", subject |-> "pep"]
Workload == [bind |-> "self", subject |-> "bot"]
Ref(m) == [approver |-> m.approver, s256 |-> m]
StandingToken == [alg |-> "EdDSA", typ |-> "JWT", crit |-> FALSE, key |-> "registrar", exp |-> 2,
                  nbf |-> 0, complete |-> TRUE, ref |-> "d1", subject |-> "ann"]
Contest(token) == [given |-> TRUE, whole |-> TRUE, token |-> token, ref |-> "d1", onFacts |-> TRUE]
Party(t, i) == [type |-> t, id |-> i]
Ask(caller, s, a, r, flags, mission, about, describes, challenge, fault) ==
    [caller |-> caller, subject |-> Party("user", s), action |-> a,
     resource |-> Party("Resource", r), flags |-> flags, mission |-> mission,
     about |-> about, describes |-> describes, challenge |-> challenge, fault |-> fault]
Plain(s, a, r, f) == Ask(Pep, s, a, r, f, NoMission, None, FALSE, NoChallenge, "none")
MCDecisions ==
    {Plain(s, a, r, {"human_approved", "consent", "note"}) :
        s \in {"bot", "sub"}, a \in {"Read", "MoveMoney"}, r \in {"acct", "file", "safe"}}
    \cup {Plain("ann", "AccessPII", "file", {}), Plain("ann", "Read", "safe", {})}
    \cup {Ask(Pep, s, a, "acct", {}, Ref(Grant), None, FALSE, NoChallenge, "none") :
        s \in {"bot", "ann"}, a \in {"Read", "MoveMoney"}}
    \cup {Ask(Pep, "bot", a, "acct", {}, Ref(SelfGrant), None, FALSE, NoChallenge, "none") :
        a \in {"MoveMoney", "Wire"}}
    \cup {Ask(Workload, s, "Read", "file", {}, NoMission, h, d, NoChallenge, "none") :
        s \in {"bot", "ann"}, h \in {None, "bot", "zed"}, d \in BOOLEAN}
    \cup {Ask(Pep, "bot", "Read", "file", {}, NoMission, about, FALSE, c, "none") :
        about \in {"zed", None},
        c \in {Contest(StandingToken), Contest([StandingToken EXCEPT !.typ = "at+jwt"]),
               Contest([StandingToken EXCEPT !.ref = "d2"]), Contest([StandingToken EXCEPT !.nbf = 1]),
               [Contest(StandingToken) EXCEPT !.whole = FALSE]}}
    \cup {Ask(Pep, "bot", "Read", "file", {}, NoMission, "zed", FALSE, NoChallenge, x) :
        x \in {"name", "clock", "context", "handle"}}
Query(w, c, a, r, x) ==
    [for |-> w, caller |-> c, subject |-> Party("user", "bot"), action |-> a,
      resource |-> Party("Resource", r), flags |-> {"consent", "human_approved"},
      mission |-> NoMission, about |-> None, describes |-> FALSE, fault |-> x]
MCSearches ==
    {Query("subject", c, a, "file", "none") : c \in {Pep, Workload}, a \in {None, "Read", "MoveMoney"}}
    \cup {Query("resource", Workload, a, "file", "none") : a \in {"Read", "MoveMoney"}}
    \cup {Query("action", Workload, None, r, x) : r \in {"file", "acct"}, x \in {"none", "page"}}
MCAlias == [t \in {"user"} |-> "Principal"]
MCReserved == {"fed:x"}
=============================================================================
