------------------------------ MODULE Callers ------------------------------
(***************************************************************************)
(* Who is asking: the guard over the deciding routes and the four ways it  *)
(* establishes a caller (bearer token, signed request, SPIFFE JWT-SVID,    *)
(* AAuth agent token), or the trusted proxy that stands for them           *)
(* (crates/decern-server: caller.rs, bearer.rs, sig.rs, httpsig.rs,        *)
(* spiffe.rs, aauth.rs, jose.rs, jwk.rs, routes.rs).                       *)
(*                                                                         *)
(* A request carries a token and a signature out of those in circulation,  *)
(* whoever made them and whatever for.  A token is its claims and the key  *)
(* that signed them; a signature is its covered components, the value each *)
(* had when it was made, and the key that made it.  A digest is the bytes  *)
(* it digests.  form is what the parsers find wrong with a request before  *)
(* any of that is read, "ok" when nothing is.  A refusal is its error code *)
(* and its status.  Its error_description is left out: for an invalid      *)
(* credential it names, by design, the check that failed, and may quote    *)
(* the token, verified or not.  So every check that refuses as invalid     *)
(* answers alike here and their order is left out; the others keep theirs. *)
(***************************************************************************)
EXTENDS Integers, Sequences, FiniteSets, SequencesExt

CONSTANTS
    Deployments,   \* the command lines an operator may start the server with
    Requests,      \* [shape, token, signature]: the requests that may arrive
    Domain,        \* subject -> the trust domain or provider its id names
    Behind,        \* MAX_SIGNATURE_AGE_SECS, SIGNATURE_WINDOW_SECS
    Ahead,         \* MAX_CLOCK_SKEW_AHEAD_SECS
    MaxLife,       \* MAX_AGENT_TOKEN_LIFETIME_SECS
    MaxTime

VARIABLES
    config,        \* the posture and what it pins, fixed at startup
    now,
    req            \* the request inside the guard, or Idle

vars == <<config, now, req>>

Nothing == [is |-> "nothing"]        \* a header that is not there
Nobody == [is |-> "nobody"]          \* no verified identity
NoTime == -1                         \* a numeric claim that is absent
Unnamed == "none"                    \* a kid that is absent
Idle == [phase |-> "idle"]

ASSUME CallersAssumption ==
    /\ {Behind, Ahead, MaxLife, MaxTime} \subseteq Nat
    /\ \A d \in Deployments :
         /\ DOMAIN d = {"kind", "issuer", "audience", "authority", "keys", "scopes", "issuers",
                       "agents", "pep"}
         /\ d.kind \in {"proxy", "bearer", "signed", "spiffe", "aauth"}
    /\ \A r \in Requests : r.signature # Nothing => r.signature.created \in Int

Guarded == {"/access/v1/evaluation", "/mission/v1/approve"}

---------------------------------------------------------------------------
(***************************************************************************)
(* Startup: the key sets an operator pins.                                 *)
(***************************************************************************)

\* aauth::load_provider_keys: the usable members, refused (here the empty set)
\* when there is none or when a kid would not choose one of them.
LoadProviderKeys(jwks) ==
    LET kept == {i \in DOMAIN jwks :
                   jwks[i].usable /\ jwks[i].use \in {"sig", "none"} /\ jwks[i].kid # Unnamed}
    IN  IF \A i, j \in kept : jwks[i].kid = jwks[j].kid => i = j
          THEN {[kid |-> jwks[i].kid, key |-> jwks[i].key] : i \in kept}
          ELSE {}

\* spiffe::load_bundle: every jwt-svid entry must be one this server can use.
LoadBundle(jwks) ==
    LET kept == {i \in DOMAIN jwks : jwks[i].use = "jwt-svid"}
    IN  IF /\ \A i \in kept : jwks[i].usable /\ jwks[i].kid # Unnamed
           /\ \A i, j \in kept : jwks[i].kid = jwks[j].kid => i = j
          THEN {[kid |-> jwks[i].kid, key |-> jwks[i].key] : i \in kept}
          ELSE {}

Loaded(d) ==
    [d EXCEPT !.issuers = [i \in DOMAIN d.issuers |->
        IF d.kind = "aauth" THEN LoadProviderKeys(d.issuers[i]) ELSE LoadBundle(d.issuers[i])]]

\* pep_set: a PEP is exempt from the self-only bind of the workload postures
\* and must be able to authenticate under this one.
PepSet(d) ==
    \A id \in d.pep :
        CASE d.kind = "signed" -> id \in DOMAIN d.agents
          [] d.kind \in {"spiffe", "aauth"} -> Domain[id] \in DOMAIN d.issuers
          [] OTHER -> FALSE

\* args::caller_from: the command lines that establish the caller in one way.
CallerFrom(d) ==
    /\ PepSet(d)
    /\ d.kind = "bearer" => d.keys # {}
    /\ d.kind = "signed" => \A a \in DOMAIN d.agents : d.agents[a] # {}
    /\ \A i \in DOMAIN d.issuers : Loaded(d).issuers[i] # {}

---------------------------------------------------------------------------
(***************************************************************************)
(* Tokens.                                                                 *)
(***************************************************************************)

InTime(t) == now < t.exp /\ (t.nbf # NoTime => now >= t.nbf)

\* The pinned key a token is checked under: its kid's, or the only one.
KeysFor(issuer, kid) ==
    LET pinned == config.issuers[issuer] IN
    IF kid = Unnamed THEN IF Cardinality(pinned) = 1 THEN {k.key : k \in pinned} ELSE {}
    ELSE {k.key : k \in {k \in pinned : k.kid = kid}}

Who(sub, client, issuer, bind) ==
    [is |-> "caller", subject |-> sub, client |-> client, issuer |-> issuer, bind |-> bind]

BindOf(sub) == IF sub \in config.pep THEN "any" ELSE "self"

\* The error code of a refusal, without the detail that describes it.
Denied(why) == [is |-> "denied", why |-> why]

\* bearer::authenticate, up to the scopes.
BearerToken(t) ==
    /\ t.typ = "at+jwt" /\ t.alg = "EdDSA" /\ "crit" \notin t.headers
    /\ t.iss = config.issuer
    /\ config.audience \in t.aud
    /\ t.key \in config.keys
    /\ InTime(t)
    /\ t.complete

BearerScopedFirst(r) ==              \* mutant: the scope is compared before the token verifies
    IF r.token = Nothing THEN Denied("no_credentials")
    ELSE IF ~(config.scopes \subseteq r.token.scopes) THEN Denied("insufficient_scope")
    ELSE IF ~(r.form = "ok" /\ BearerToken(r.token)) THEN Denied("invalid")
    ELSE Who(r.token.sub, r.token.client, r.token.iss, "any")

Bearer(r) ==
    IF r.token = Nothing THEN Denied("no_credentials")
    ELSE IF ~(r.form = "ok" /\ BearerToken(r.token)) THEN Denied("invalid")
    ELSE IF ~(config.scopes \subseteq r.token.scopes) THEN Denied("insufficient_scope")
    ELSE Who(r.token.sub, r.token.client, r.token.iss, "any")

JoseClosed(t) == t.headers = {}      \* alg, kid and typ, and no other

\* spiffe::authenticate: the trust domain is the one the sub names.
Svid(t) ==
    /\ JoseClosed(t)
    /\ t.typ \in {"JWT", "none"} /\ t.alg = "ES256"
    /\ Domain[t.sub] \in DOMAIN config.issuers
    /\ t.key \in KeysFor(Domain[t.sub], t.kid)
    /\ config.audience \in t.aud
    /\ InTime(t)

Spiffe(r) ==
    IF r.token = Nothing THEN Denied("no_credentials")
    ELSE IF r.form = "ok" /\ Svid(r.token)
      THEN Who(r.token.sub, r.token.sub, Domain[r.token.sub], BindOf(r.token.sub))
    ELSE Denied("invalid")

---------------------------------------------------------------------------
(***************************************************************************)
(* Signatures over the request.                                            *)
(***************************************************************************)

Unbodied == <<"@method", "@authority", "@path", "signature-key">>
Bodied == <<"@method", "@authority", "@path", "content-digest", "signature-key">>

RequiredOfPost(r) ==                 \* mutant: only a POST covers its body
    IF r.method = "POST" THEN Bodied ELSE Unbodied

RequiredComponents(r) ==
    IF r.method = "POST" \/ r.body # "" THEN Bodied ELSE Unbodied

\* What each component is of this request (Message::value), and whether the
\* request carries it.
Value(r, c) ==
    CASE c = "@method" -> r.method
      [] c = "@authority" -> r.authority
      [] c = "@path" -> r.path
      [] c = "content-digest" -> r.digest
      [] c = "signature-key" -> [label |-> r.label, token |-> r.token]
      [] c = "x-extra" -> r.extra

Carries(r, c) ==
    (c = "content-digest" => r.digest # "") /\ (c = "x-extra" => r.extra # "")

Derivable(c) ==
    c \in {"@method", "@authority", "@path", "content-digest", "signature-key", "x-extra"}

\* presented_under: one signature, distinct derivable components, the label
\* and the parameters the posture's profile takes.
Presented(s, label, alg, expires) ==
    /\ s.count = 1 /\ s.params \subseteq {"created", "keyid"} \cup alg \cup expires
    /\ "created" \in s.params
    /\ s.label = label
    /\ \A i \in DOMAIN s.covers : Derivable(s.covers[i])
    /\ Cardinality(ToSet(s.covers)) = Len(s.covers)

Fresh(s, ahead) == now - s.created \in -ahead .. Behind

\* signature_base and the Ed25519 check: the bytes the holder signed are the
\* ones this request yields, a covered digest being the body's.
Verifies(s, key, r) ==
    /\ s.key = key
    /\ \A c \in ToSet(s.covers) : Carries(r, c) /\ s.values[c] = Value(r, c)
    /\ "content-digest" \in ToSet(s.covers) => r.digest = r.body

SentHere(r) == r.authority = config.authority

\* sig::authenticate.  The token is vouched for by the signature that covers
\* it, so its own is not checked.
SignedRequest(r) ==
    LET t == r.token  s == r.signature IN
    /\ r.form = "ok" /\ s # Nothing
    /\ SentHere(r)
    /\ Presented(s, "sig1", {}, {})
    /\ s.covers = RequiredComponents(r)
    /\ Fresh(s, Ahead)
    /\ t.typ = "dpop-bound+jwt" /\ t.alg = "EdDSA"
    /\ config.audience \in t.aud
    /\ t.sub \in DOMAIN config.agents
    /\ t.cnf \in config.agents[t.sub]
    /\ now < t.exp
    /\ Verifies(s, t.cnf, r)

Signed(r) ==
    IF r.form = "ok" /\ r.token = Nothing THEN Denied("no_credentials")
    ELSE IF r.token # Nothing /\ SignedRequest(r)
      THEN Who(r.token.sub, r.token.sub, "none", BindOf(r.token.sub))
    ELSE Denied("invalid")

\* aauth::authenticate_with, up to the provider's signature over the token,
VouchedFor(r) ==
    LET t == r.token  s == r.signature IN
    /\ r.form = "ok" /\ s # Nothing
    /\ SentHere(r)
    /\ Presented(s, r.label, {"alg"}, {"expires"})
    /\ ToSet(RequiredComponents(r)) \subseteq ToSet(s.covers)
    /\ Fresh(s, Behind)
    /\ s.expires # NoTime => now <= s.expires
    /\ JoseClosed(t)
    /\ t.typ = "aa-agent+jwt" /\ t.alg = "Ed25519"
    /\ t.iss \in DOMAIN config.issuers
    /\ t.key \in KeysFor(t.iss, t.kid)

InDomain(t) == t.complete /\ Domain[t.sub] = t.iss

\* and the claims after it; a token whose person server or parent agent is
\* malformed is one that confirms no key.
AgentToken(t) ==
    /\ now < t.exp
    /\ t.exp - t.iat <= MaxLife
    /\ t.nbf # NoTime => now >= t.nbf
    /\ t.cnf # "none"

Aauth(r) ==
    IF r.form = "ok" /\ r.token = Nothing THEN Denied("no_credentials")
    ELSE IF r.token = Nothing \/ r.signature = Nothing THEN Denied("invalid")
    ELSE IF /\ r.form = "ok" /\ SentHere(r)
            /\ Presented(r.signature, r.label, {"alg"}, {"expires"})
            /\ ToSet(RequiredComponents(r)) \subseteq ToSet(r.signature.covers)
            /\ r.signature.created - now > Behind
      THEN Denied("clock_skew")
    ELSE IF ~(VouchedFor(r) /\ InDomain(r.token) /\ now < r.token.exp) THEN Denied("invalid")
    ELSE IF r.token.iat > now + Behind THEN Denied("clock_skew")
    ELSE IF AgentToken(r.token) /\ Verifies(r.signature, r.token.cnf, r)
      THEN Who(r.token.sub, r.token.sub, r.token.iss, BindOf(r.token.sub))
    ELSE Denied("invalid")

---------------------------------------------------------------------------
(***************************************************************************)
(* The guard.                                                              *)
(***************************************************************************)

Authenticate(r) ==
    CASE config.kind = "bearer" -> Bearer(r)
      [] config.kind = "spiffe" -> Spiffe(r)
      [] config.kind = "signed" -> Signed(r)
      [] config.kind = "aauth" -> Aauth(r)

ReadsBody == config.kind \in {"signed", "aauth"}

Status(why) == IF why = "insufficient_scope" THEN 403 ELSE 401

Refuse(why, status) ==
    [req EXCEPT !.phase = "refused", !.why = why, !.status = status, !.at = now]

Handle == [req EXCEPT !.phase = "handled", !.at = now]

Arrive ==
    /\ req = Idle
    /\ \E r \in Requests :
         req' = [phase |-> "arrived", who |-> Nobody, why |-> "none", status |-> 0, at |-> 0,
                 read |-> FALSE, token |-> r.token, signature |-> r.signature, shape |-> r.shape]
    /\ UNCHANGED <<config, now>>

\* The request as the posture sees it.
Seen == [method |-> req.shape.method, authority |-> req.shape.authority,
         path |-> req.shape.path, body |-> IF req.read THEN req.shape.body ELSE "",
         digest |-> req.shape.digest, extra |-> req.shape.extra, form |-> req.shape.form,
         label |-> req.shape.label, token |-> req.token, signature |-> req.signature]

\* An open route, or a posture that leaves the caller to the front.
PassThrough ==
    /\ req.phase = "arrived"
    /\ config.kind = "proxy" \/ req.shape.path \notin Guarded
    /\ req' = Handle
    /\ UNCHANGED <<config, now>>

\* A clock before the epoch is no clock: nothing is established against it.
Settle(clock, phase) ==
    IF ~clock THEN Refuse("clock_unavailable", 503)
    ELSE LET v == Authenticate(Seen) IN
         IF v.is = "denied" THEN Refuse(v.why, Status(v.why))
         ELSE [req EXCEPT !.phase = phase, !.who = v, !.at = now]

Guards == req.shape.path \in Guarded /\ config.kind # "proxy"

CheckHeaders(clock) ==
    /\ req.phase = "arrived" /\ Guards
    /\ ~ReadsBody
    /\ req' = Settle(clock, "checked")
    /\ UNCHANGED <<config, now>>

ReadBody ==
    /\ \/ req.phase = "arrived" /\ Guards /\ ReadsBody
       \/ req.phase = "checked"
    /\ req' = IF req.shape.body = "huge" THEN Refuse("payload_too_large", 413)
              ELSE [req EXCEPT !.phase = "buffered", !.read = TRUE]
    /\ UNCHANGED <<config, now>>

Establish(clock) ==
    /\ req.phase = "buffered"
    /\ req' = IF req.who # Nobody THEN [req EXCEPT !.phase = "handled"]
              ELSE Settle(clock, "handled")
    /\ UNCHANGED <<config, now>>

Answered ==
    /\ req.phase \in {"handled", "refused"}
    /\ req' = Idle
    /\ UNCHANGED <<config, now>>

Tick ==
    /\ now < MaxTime
    /\ now' = now + 1
    /\ UNCHANGED <<config, req>>

\* A key rollover: the server is restarted with other keys for its posture.
Restart(d) ==
    /\ d.kind = config.kind /\ CallerFrom(d)
    /\ config' = Loaded(d)
    /\ req' = Idle
    /\ UNCHANGED now

Init ==
    /\ config \in {Loaded(d) : d \in {d \in Deployments : CallerFrom(d)}}
    /\ now = 0
    /\ req = Idle

Next ==
    \/ Arrive
    \/ PassThrough
    \/ \E clock \in BOOLEAN : CheckHeaders(clock) \/ Establish(clock)
    \/ ReadBody
    \/ Answered
    \/ Tick
    \/ \E d \in Deployments : Restart(d)

Spec == Init /\ [][Next]_vars

---------------------------------------------------------------------------
\* A server that started can choose a key: every issuer it pins has one, and no
\* kid names two.
CallersTypeOK ==
    /\ now \in 0..MaxTime
    /\ \A i \in DOMAIN config.issuers :
         /\ config.issuers[i] # {}
         /\ \A j, k \in config.issuers[i] : j.kid = k.kid => j = k
    /\ req.phase \in {"idle", "arrived", "checked", "buffered", "handled", "refused"}

Admitted == req.phase = "handled" /\ req.who # Nobody

\* Under a signature posture a request reaches its handler only when the holder
\* of a key confirmed for that caller signed this method, path and body, whole,
\* for this deployment, no longer ago than the window: a signature made for
\* another request, body or server does not serve this one (sig.rs: "swapping
\* the JSON at the same path is a different request").
PossessionProved ==
    Admitted /\ config.kind \in {"signed", "aauth"} =>
        LET s == req.signature  t == req.token IN
        /\ s.key = t.cnf
        /\ s.values["@method"] = req.shape.method
        /\ s.values["@path"] = req.shape.path
        /\ s.values["@authority"] = config.authority
        /\ s.values["signature-key"].token = t
        /\ req.shape.body # "" =>
             "content-digest" \in ToSet(s.covers) /\ s.values["content-digest"] = req.shape.body
        /\ req.at - s.created <= Behind
        /\ config.kind = "signed" => t.cnf \in config.agents[req.who.subject]

\* The issuer a record will name is one this deployment pins, whose key signed
\* the caller's token, for a subject of its own, and which meant it for this
\* server or was signed over for it; a caller who may speak for others is one
\* the operator made a PEP.
IssuerVouches ==
    Admitted =>
        LET t == req.token  who == req.who IN
        /\ who.subject = t.sub
        /\ config.kind = "bearer" => t.key \in config.keys /\ who.issuer = t.iss
        /\ config.kind \in {"spiffe", "aauth"} =>
             /\ who.issuer = Domain[t.sub]
             /\ t.key \in {k.key : k \in config.issuers[who.issuer]}
        /\ config.kind # "aauth" => config.audience \in t.aud
        /\ req.at < t.exp
        /\ who.bind = "any" <=> (config.kind = "bearer" \/ t.sub \in config.pep)

\* The two codes that say a token verified are given only of one that did: 403
\* insufficient_scope, of a token of the pinned issuer for this server, and
\* clock_skew for the iat of an agent token, of one of a pinned provider.
\* clock_skew for a created that lies ahead is given before anything verifies.
CodesOfVerifiedOnly ==
    req.phase = "refused" =>
        /\ req.why = "insufficient_scope" =>
             req.token.key \in config.keys /\ config.audience \in req.token.aud
        /\ req.why = "clock_skew" /\ req.signature.created - req.at <= Behind =>
             req.token.key \in {k.key : k \in config.issuers[req.token.iss]}

\* Under the postures whose credential is in the headers, bearer and spiffe, no
\* body is read before one was accepted; under signed and aauth the signature
\* covers the body, which is read first.
BodyAfterCredential ==
    req # Idle /\ config.kind \in {"bearer", "spiffe"} => (req.read => req.who # Nobody)

\* Whoever reaches a handler under an identity holds what that identity rests
\* on, under keys the deployment pinned (guard and the five postures).
CallersEstablished == CallersTypeOK /\ PossessionProved /\ IssuerVouches

\* Whoever does not gets no code that a credential verified and, under bearer
\* and spiffe, has no body read (guard, Denied, refuse).  What the description
\* beside the code says is not covered.
StrangersRefused == CodesOfVerifiedOnly /\ BodyAfterCredential
=============================================================================
