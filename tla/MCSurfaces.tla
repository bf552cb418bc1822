----------------------------- MODULE MCSurfaces -----------------------------
(***************************************************************************)
(* Three surfaces that share no state: the guard that establishes a caller *)
(* (Callers), the audit surface with its evidence (Evidence, Merkle) and   *)
(* the start of the server (Boot).  A behaviour is one of them, with the   *)
(* others at rest.                                                         *)
(***************************************************************************)
EXTENDS Callers, Merkle, Boot

Here == "decern.example"
None == [i \in {} |-> <<>>]
Jwk(kid, key, use, usable) == [kid |-> kid, key |-> key, use |-> use, usable |-> usable]
Server(kind, keys, issuers, agents, pep) ==
    [kind |-> kind, issuer |-> "idp", audience |-> "decern", authority |-> Here, keys |-> keys,
     scopes |-> {"decide"}, issuers |-> issuers, agents |-> agents, pep |-> pep]
Pin(a, x, b, y) == [i \in {a, b} |-> IF i = a THEN x ELSE y]

MCDeployments == {
    Server("proxy", {}, None, None, {}),
    Server("bearer", {"idp1"}, None, None, {}),
    Server("bearer", {"idp2"}, None, None, {}),
    \* refused at startup: no issuer key, and an exempt caller that could not authenticate
    Server("bearer", {}, None, None, {}),
    Server("signed", {}, None, [a \in {"a@p"} |-> {"ka"}], {"b@q"}),
    Server("signed", {}, None, [a \in {"a@p", "b@q"} |-> IF a = "a@p" THEN {"ka"} ELSE {"kb"}], {"b@q"}),
    \* a rollover: the agent's next key beside its old one, and then alone
    Server("signed", {}, None, [a \in {"a@p"} |-> {"ka", "kb"}], {}),
    Server("spiffe", {}, Pin("p", <<Jwk("1", "p1", "jwt-svid", TRUE), Jwk("1", "x5", "x509", FALSE)>>,
                             "q", <<Jwk("1", "q1", "jwt-svid", TRUE), Jwk("2", "q2", "jwt-svid", TRUE)>>),
           None, {"b@q"}),
    Server("aauth", {}, Pin("p", <<Jwk("1", "p1", "sig", TRUE), Jwk("1", "old", "sig", FALSE)>>,
                            "q", <<Jwk("1", "q1", "none", TRUE), Jwk("2", "q2", "sig", TRUE)>>),
           None, {"b@q"}),
    Server("aauth", {}, Pin("p", <<Jwk("1", "p1", "sig", TRUE), Jwk("1", "p2", "sig", TRUE)>>,
                            "q", <<Jwk("1", "q1", "sig", TRUE)>>), None, {})}

MCDomain == [s \in {"a@p", "b@q", "user"} |->
               CASE s = "a@p" -> "p" [] s = "b@q" -> "q" [] OTHER -> "none"]

Token(typ, alg, iss, sub, key, cnf) ==
    [is |-> "token", typ |-> typ, alg |-> alg, headers |-> {}, kid |-> Unnamed, iss |-> iss,
     sub |-> sub, aud |-> {"decern"}, exp |-> 3, iat |-> 0, nbf |-> NoTime, client |-> "gw",
     complete |-> TRUE, scopes |-> {"decide"}, cnf |-> cnf, key |-> key]
Access == Token("at+jwt", "EdDSA", "idp", "user", "idp1", "none")
SvidA == Token("JWT", "ES256", "p", "a@p", "p1", "none")
BoundA == Token("dpop-bound+jwt", "EdDSA", "idp", "a@p", "ka", "ka")
AgentA == Token("aa-agent+jwt", "Ed25519", "p", "a@p", "p1", "ka")
MCTokens ==
    {Access, [Access EXCEPT !.key = "idp2", !.scopes = {"read"}], [Access EXCEPT !.aud = {"other"}],
     [Access EXCEPT !.exp = 1], [Access EXCEPT !.headers = {"crit"}], [Access EXCEPT !.scopes = {}],
     SvidA, [SvidA EXCEPT !.key = "q1"], [SvidA EXCEPT !.nbf = 2], [SvidA EXCEPT !.headers = {"jku"}],
     [SvidA EXCEPT !.sub = "b@q", !.kid = "2", !.key = "q2"], [SvidA EXCEPT !.sub = "b@q", !.key = "q2"],
     BoundA, [BoundA EXCEPT !.cnf = "kb"], [BoundA EXCEPT !.sub = "b@q", !.cnf = "kb"],
     [BoundA EXCEPT !.exp = 1],
     AgentA, [AgentA EXCEPT !.iss = "q", !.key = "q1", !.kid = "1"], [AgentA EXCEPT !.iat = 2, !.nbf = 1],
     [AgentA EXCEPT !.iat = -3], [AgentA EXCEPT !.cnf = "none"], [AgentA EXCEPT !.key = "old", !.kid = "1"],
     [AgentA EXCEPT !.sub = "b@q", !.iss = "q", !.key = "q2", !.kid = "2", !.cnf = "kb"]}

Shape(method, authority, path, body, digest, form) ==
    [method |-> method, authority |-> authority, path |-> path, body |-> body, digest |-> digest,
     extra |-> "", form |-> form, label |-> "sig1"]
Post == Shape("POST", Here, "/access/v1/evaluation", "x", "x", "ok")
MCShapes ==
    {Post, [Post EXCEPT !.body = "y"], [Post EXCEPT !.body = "y", !.digest = "y"],
     [Post EXCEPT !.body = "huge"], [Post EXCEPT !.authority = "other"], [Post EXCEPT !.form = "bad"],
     [Post EXCEPT !.method = "PUT", !.digest = ""], [Post EXCEPT !.path = "/pubkey"],
     Shape("GET", Here, "/mission/v1/approve", "", "", "ok")}

Signature(key, covers, shape, token, created) ==
    [is |-> "signature", key |-> key, covers |-> covers, created |-> created, expires |-> NoTime,
     label |-> "sig1", count |-> 1, params |-> {"created"},
     values |-> [c \in {"@method", "@authority", "@path", "content-digest", "signature-key"} |->
        CASE c = "@method" -> shape.method [] c = "@authority" -> shape.authority
          [] c = "@path" -> shape.path [] c = "content-digest" -> shape.body
          [] OTHER -> [label |-> "sig1", token |-> token]]]
Put == [Post EXCEPT !.method = "PUT", !.digest = ""]
MCSignatures ==
    {Signature(k, Bodied, Post, t, c) :
        k \in {"ka"}, t \in {BoundA, AgentA}, c \in {0, 2}}
    \cup {Signature("kb", Bodied, Post, [BoundA EXCEPT !.cnf = "kb"], 0),
          Signature("kb", Bodied, Post, [BoundA EXCEPT !.sub = "b@q", !.cnf = "kb"], 0),
          Signature("ka", Bodied, [Post EXCEPT !.authority = "other"], BoundA, 0),
          Signature("ka", Unbodied, Put, BoundA, 0), Signature("ka", Unbodied, Put, AgentA, 0),
          Signature("ka", Bodied, Post, [AgentA EXCEPT !.iss = "q", !.key = "q1", !.kid = "1"], 0),
          Signature("ka", Bodied, Post, [AgentA EXCEPT !.iat = 2, !.nbf = 1], 0),
          Signature("kb", Bodied, Post, [AgentA EXCEPT !.sub = "b@q", !.iss = "q", !.key = "q2", !.kid = "2", !.cnf = "kb"], 0),
          [Signature("ka", <<"@path", "@method", "signature-key", "@authority", "content-digest">>,
                     Post, AgentA, 1) EXCEPT !.expires = 1, !.params = {"created", "expires", "alg"}],
          [Signature("ka", Bodied, Post, BoundA, 0) EXCEPT !.params = {"created", "nonce"}]}

MCRequests ==
    {[shape |-> x, token |-> t, signature |-> Nothing] :
        x \in {Post, [Post EXCEPT !.body = "huge"], [Post EXCEPT !.form = "bad"],
              [Post EXCEPT !.path = "/pubkey"]},
        t \in MCTokens \cup {Nothing}}
    \cup {[shape |-> x, token |-> t, signature |-> s] :
        x \in MCShapes, t \in {t \in MCTokens : t.cnf # "none"}, s \in MCSignatures}

---------------------------------------------------------------------------
MCLinks == [n \in {"s"} |-> <<"d">>]

MCKeyMaterial == <<"first", "second">>

MCPlaces == {<<>>, <<"k">>, <<"missions">>, <<"ledger">>, <<"n">>, <<"n", "m">>, <<"n", "l">>, <<"n", "missions">>,
             <<"d">>, <<"d", "k">>, <<"d", "kb">>, <<"d", "k3">>, <<"d", "l">>, <<"d", "missions">>,
             <<"d", "other">>, <<"d", "heads">>, <<"d", "heads", "missions">>,
             <<"d", "other", "heads">>, DATABASE}
NewHost == [s \in MCPlaces |->
    CASE s \in {<<>>, <<"d">>, DATABASE} -> Dir(<<>>)
      [] s = <<"d", "kb">> -> KeyFile("beforehand")
      [] s = <<"d", "other">> -> Json("another shape")
      [] OTHER -> Absent]
\* A start that was killed while it saved its key, and one that came to serve.
MCDisks ==
    {NewHost,
     [NewHost EXCEPT ![<<"d", "k">>] = EmptyFile],
     [NewHost EXCEPT ![<<"d", "k">>] = KeyFile("earlier"), ![<<"d", "l">>] = LedgerFile(<<"earlier">>),
                     ![<<"d", "heads">>] = Dir(<<"earlier">>), ![DATABASE] = Dir(<<"earlier">>),
                     ![<<"d", "missions">>] = Json("missions")]}

Line(key, ledger) ==
    [valid |-> TRUE, key |-> key, retired |-> {}, ledger |-> ledger, sharded |-> "no", dir |-> NoPath,
     missionsPerHost |-> FALSE, missions |-> NoPath]
Single == Line(<<"d", "k">>, <<"d", "l">>)
Heads == [Line(<<"d", "k">>, NoPath) EXCEPT !.sharded = "dir", !.dir = <<"d", "heads">>]
Database == [Line(<<"d", "k">>, NoPath) EXCEPT !.sharded = "postgres", !.missionsPerHost = TRUE]
MCCommandLines ==
    {Single,
     [Single EXCEPT !.valid = FALSE],
     [Single EXCEPT !.key = <<"d", "kb">>, !.retired = {"earlier", "first"}],         \* a rotation
     [Single EXCEPT !.key = <<"d", "k3">>],                                \* a mistyped key
     [Single EXCEPT !.key = NoPath],                                       \* ephemeral
     [Single EXCEPT !.key = <<"k">>],                                      \* a bare name
     [Single EXCEPT !.ledger = <<"s", "k">>],                              \* the key, by a link
     [Single EXCEPT !.ledger = <<"n", "l">>],                              \* no such directory
     [Single EXCEPT !.missions = <<"s", "k">>],
     [Single EXCEPT !.missions = <<"n", "m">>],                            \* to be created
     [Single EXCEPT !.missions = <<"d", "other">>],
     [Single EXCEPT !.missions = <<"s", "l">>],                            \* the ledger, by a link
     [Single EXCEPT !.key = <<"d", "kb">>, !.ledger = <<"d", "missions">>, !.missions = <<"n", "m">>],
     [Single EXCEPT !.key = <<"d", "kb">>, !.ledger = <<"d", "k">>],      \* another's key
     [Single EXCEPT !.key = <<"n">>, !.missions = <<"n", "m">>],          \* under the key
     Heads,
     [Heads EXCEPT !.key = <<"d", "kb">>, !.retired = {"earlier", "first"}],
     [Heads EXCEPT !.key = <<"d", "k3">>],
     [Heads EXCEPT !.key = <<"d", "heads">>],
     [Heads EXCEPT !.dir = <<"d", "other", "heads">>, !.missions = <<"n", "m">>],
     Database,
     [Database EXCEPT !.key = <<"d", "k3">>],
     [Database EXCEPT !.missionsPerHost = FALSE]}

---------------------------------------------------------------------------
VARIABLE surface

SurfacesInit ==
    /\ Init /\ AuditInit /\ BootInit
    /\ \/ surface = "guard" /\ log = <<>> /\ disk = NewHost
       \/ surface = "audit" /\ config.kind = "proxy" /\ disk = NewHost
       \/ surface = "boot" /\ config.kind = "proxy" /\ log = <<>>

GuardStep == surface = "guard" /\ Next /\ UNCHANGED <<surface, auditVars, bootVars>>
AuditStep == surface = "audit" /\ AuditNext /\ UNCHANGED <<surface, vars, bootVars>>
BootStep == surface = "boot" /\ BootNext /\ UNCHANGED <<surface, vars, auditVars>>

SurfacesNext == GuardStep \/ AuditStep \/ BootStep

SurfacesSpec == SurfacesInit /\ [][SurfacesNext]_<<surface, vars, auditVars, bootVars>>
=============================================================================
