--------------------------- MODULE SurfacesProofs ---------------------------
(***************************************************************************)
(* Three surfaces of the server, for any deployments, requests, disks,     *)
(* command lines and logs.                                                 *)
(*                                                                         *)
(* Callers: a key set that loads has one key to each identifier, so what   *)
(* a verified token names is what its issuer's key signed (GuardInv).      *)
(*                                                                         *)
(* Boot: what each start has already established of the disk, step by      *)
(* step, while other starts, servers and losses of power change it         *)
(* (BootInv).                                                              *)
(*                                                                         *)
(* Evidence: what the audit surface has counted and signed is what the log *)
(* still has (AuditInv); and what a bundle's verifier can accept.          *)
(***************************************************************************)
EXTENDS Callers, Boot, Evidence, SequenceTheorems, WellFoundedInduction, TLAPS

-----------------------------------------------------------------------------
(* Callers: the key sets of a deployment.                                    *)

Pairs(jwks, kept) == {[kid |-> jwks[i].kid, key |-> jwks[i].key] : i \in kept}

KidsChoose(keys) == \A j, k \in keys : j.kid = k.kid => j = k

LEMMA PairsChoose ==
  ASSUME NEW jwks, NEW kept,
         \A i, j \in kept : jwks[i].kid = jwks[j].kid => i = j
  PROVE  KidsChoose(Pairs(jwks, kept))
  <1>. SUFFICES ASSUME NEW j \in Pairs(jwks, kept), NEW k \in Pairs(jwks, kept), j.kid = k.kid
                PROVE  j = k
    BY DEF KidsChoose
  <1>1. PICK a \in kept : j = [kid |-> jwks[a].kid, key |-> jwks[a].key]
    BY DEF Pairs
  <1>2. PICK b \in kept : k = [kid |-> jwks[b].kid, key |-> jwks[b].key]
    BY DEF Pairs
  <1>. QED BY <1>1, <1>2

LEMMA LoadedChoose ==
  ASSUME NEW jwks
  PROVE  KidsChoose(LoadProviderKeys(jwks)) /\ KidsChoose(LoadBundle(jwks))
  <1>. DEFINE sig == {i \in DOMAIN jwks :
                        jwks[i].usable /\ jwks[i].use \in {"sig", "none"} /\ jwks[i].kid # Unnamed}
              svid == {i \in DOMAIN jwks : jwks[i].use = "jwt-svid"}
  <1>1. KidsChoose({})
    BY DEF KidsChoose
  <1>2. LoadProviderKeys(jwks) = IF \A i, j \in sig : jwks[i].kid = jwks[j].kid => i = j
                                   THEN Pairs(jwks, sig) ELSE {}
    BY DEF LoadProviderKeys, Pairs
  <1>3. LoadBundle(jwks) = IF /\ \A i \in svid : jwks[i].usable /\ jwks[i].kid # Unnamed
                              /\ \A i, j \in svid : jwks[i].kid = jwks[j].kid => i = j
                             THEN Pairs(jwks, svid) ELSE {}
    BY DEF LoadBundle, Pairs
  <1>. HIDE DEF sig, svid
  <1>. QED BY <1>1, <1>2, <1>3, PairsChoose

-----------------------------------------------------------------------------
(* What the guard keeps.                                                     *)

\* The server was started with a command line it accepts.
Configured == \E d \in Deployments : CallerFrom(d) /\ config = Loaded(d)

IssuersChoose ==
    \A i \in DOMAIN config.issuers : config.issuers[i] # {} /\ KidsChoose(config.issuers[i])

LEMMA ConfiguredChoose ==
  ASSUME Configured
  PROVE  /\ IssuersChoose
         /\ config.kind \in {"proxy", "bearer", "signed", "spiffe", "aauth"}
  <1>1. PICK d \in Deployments : CallerFrom(d) /\ config = Loaded(d)
    BY DEF Configured
  <1>. DEFINE issuers == [i \in DOMAIN d.issuers |->
                IF d.kind = "aauth" THEN LoadProviderKeys(d.issuers[i]) ELSE LoadBundle(d.issuers[i])]
  <1>2. "issuers" \in DOMAIN d /\ "kind" \in DOMAIN d
    BY CallersAssumption
  <1>3. config = [d EXCEPT !.issuers = issuers]
    BY <1>1 DEF Loaded
  <1>4. config.issuers = issuers /\ config.kind = d.kind
    <2>. HIDE DEF issuers
    <2>. QED BY <1>2, <1>3
  <1>5. d.kind \in {"proxy", "bearer", "signed", "spiffe", "aauth"}
    BY CallersAssumption
  <1>6. ASSUME NEW i \in DOMAIN config.issuers
        PROVE  config.issuers[i] # {} /\ KidsChoose(config.issuers[i])
    <2>1. i \in DOMAIN d.issuers
      BY <1>4
    <2>2. Loaded(d).issuers[i] # {}
      BY <1>1, <2>1 DEF CallerFrom
    <2>3. config.issuers[i] = LoadProviderKeys(d.issuers[i]) \/ config.issuers[i] = LoadBundle(d.issuers[i])
      BY <1>4, <2>1
    <2>. QED BY <1>1, <2>2, <2>3, LoadedChoose
  <1>. QED BY <1>4, <1>5, <1>6 DEF IssuersChoose

-----------------------------------------------------------------------------
(* What it means that somebody was established, or refused.                  *)

\* PossessionProved of a caller established at a time.
Possessed(who, at) ==
    config.kind \in {"signed", "aauth"} =>
        LET s == req.signature  t == req.token IN
        /\ s.key = t.cnf
        /\ s.values["@method"] = req.shape.method
        /\ s.values["@path"] = req.shape.path
        /\ s.values["@authority"] = config.authority
        /\ s.values["signature-key"].token = t
        /\ req.shape.body # "" =>
             "content-digest" \in ToSet(s.covers) /\ s.values["content-digest"] = req.shape.body
        /\ at - s.created <= Behind
        /\ config.kind = "signed" => t.cnf \in config.agents[who.subject]

\* IssuerVouches of a caller established at a time.
Vouched(who, at) ==
    LET t == req.token IN
    /\ who.subject = t.sub
    /\ config.kind = "bearer" => t.key \in config.keys /\ who.issuer = t.iss
    /\ config.kind \in {"spiffe", "aauth"} =>
         /\ who.issuer = Domain[t.sub]
         /\ t.key \in {k.key : k \in config.issuers[who.issuer]}
    /\ config.kind # "aauth" => config.audience \in t.aud
    /\ at < t.exp
    /\ who.bind = "any" <=> (config.kind = "bearer" \/ t.sub \in config.pep)

\* CodesOfVerifiedOnly of a refusal made at a time.
CodeEarned(why, at) ==
    /\ why = "insufficient_scope" =>
         req.token.key \in config.keys /\ config.audience \in req.token.aud
    /\ why = "clock_skew" /\ req.signature.created - at <= Behind =>
         req.token.key \in {k.key : k \in config.issuers[req.token.iss]}

\* A request as it arrived, whatever the guard has made of it.
Arrived(q) ==
    /\ q = [phase |-> q.phase, who |-> q.who, why |-> q.why, status |-> q.status, at |-> q.at,
            read |-> q.read, token |-> q.token, signature |-> q.signature, shape |-> q.shape]
    /\ q.read \in BOOLEAN
    /\ \E r \in Requests : q.token = r.token /\ q.signature = r.signature /\ q.shape = r.shape

LEMMA SeenFields ==
  /\ Seen.method = req.shape.method /\ Seen.authority = req.shape.authority
  /\ Seen.path = req.shape.path /\ Seen.digest = req.shape.digest
  /\ Seen.label = req.shape.label /\ Seen.form = req.shape.form
  /\ Seen.token = req.token /\ Seen.signature = req.signature
  /\ req.read = TRUE => Seen.body = req.shape.body
  BY DEF Seen

\* A key chosen among an issuer's is one of them.
LEMMA KeysForPinned ==
  ASSUME NEW issuer, NEW kid
  PROVE  KeysFor(issuer, kid) \subseteq {k.key : k \in config.issuers[issuer]}
  BY DEF KeysFor

\* A signature over the components the posture requires is one over these.
LEMMA RequiredCovered ==
  ASSUME NEW r, NEW s, NEW key, Verifies(s, key, r),
         ToSet(RequiredComponents(r)) \subseteq ToSet(s.covers)
  PROVE  /\ s.key = key
         /\ s.values["@method"] = r.method
         /\ s.values["@path"] = r.path
         /\ s.values["@authority"] = r.authority
         /\ s.values["signature-key"].token = r.token
         /\ r.body # "" =>
              "content-digest" \in ToSet(s.covers) /\ s.values["content-digest"] = r.body
  <1>1. {"@method", "@authority", "@path", "signature-key"} \subseteq ToSet(RequiredComponents(r))
    <2>1. CASE r.method = "POST" \/ r.body # ""
      <3>1. RequiredComponents(r) = Bodied
        BY <2>1 DEF RequiredComponents
      <3>2. 1 \in DOMAIN Bodied /\ 2 \in DOMAIN Bodied /\ 3 \in DOMAIN Bodied /\ 5 \in DOMAIN Bodied
        BY DEF Bodied
      <3>3. /\ Bodied[1] = "@method" /\ Bodied[2] = "@authority" /\ Bodied[3] = "@path"
            /\ Bodied[5] = "signature-key"
        BY DEF Bodied
      <3>. QED BY <3>1, <3>2, <3>3 DEF ToSet
    <2>2. CASE ~(r.method = "POST" \/ r.body # "")
      <3>1. RequiredComponents(r) = Unbodied
        BY <2>2 DEF RequiredComponents
      <3>2. 1 \in DOMAIN Unbodied /\ 2 \in DOMAIN Unbodied /\ 3 \in DOMAIN Unbodied /\ 4 \in DOMAIN Unbodied
        BY DEF Unbodied
      <3>3. /\ Unbodied[1] = "@method" /\ Unbodied[2] = "@authority" /\ Unbodied[3] = "@path"
            /\ Unbodied[4] = "signature-key"
        BY DEF Unbodied
      <3>. QED BY <3>1, <3>2, <3>3 DEF ToSet
    <2>. QED BY <2>1, <2>2
  <1>2. ASSUME r.body # "" PROVE "content-digest" \in ToSet(RequiredComponents(r))
    <2>1. RequiredComponents(r) = Bodied
      BY <1>2 DEF RequiredComponents
    <2>2. 4 \in DOMAIN Bodied /\ Bodied[4] = "content-digest"
      BY DEF Bodied
    <2>. QED BY <2>1, <2>2 DEF ToSet
  <1>3. \A c \in ToSet(s.covers) : s.values[c] = Value(r, c)
    BY DEF Verifies
  <1>4. /\ Value(r, "@method") = r.method /\ Value(r, "@path") = r.path
        /\ Value(r, "@authority") = r.authority /\ Value(r, "content-digest") = r.digest
        /\ Value(r, "signature-key").token = r.token
    BY DEF Value
  <1>5. {"@method", "@authority", "@path", "signature-key"} \subseteq ToSet(s.covers)
    BY <1>1
  <1>6. ASSUME r.body # ""
        PROVE  "content-digest" \in ToSet(s.covers) /\ s.values["content-digest"] = r.body
    <2>1. "content-digest" \in ToSet(s.covers)
      BY <1>2, <1>6
    <2>2. r.digest = r.body
      BY <2>1 DEF Verifies
    <2>. QED BY <1>3, <1>4, <2>1, <2>2
  <1>7. s.key = key
    BY DEF Verifies
  <1>. QED BY <1>3, <1>4, <1>5, <1>6, <1>7

-----------------------------------------------------------------------------
(* Each posture establishes only whom it may, and tells nobody else more than *)
(* that they were refused.                                                   *)

LEMMA WhoFields ==
  ASSUME NEW sub, NEW client, NEW issuer, NEW bind
  PROVE  /\ Who(sub, client, issuer, bind).is = "caller" /\ Who(sub, client, issuer, bind) # Nobody
         /\ Who(sub, client, issuer, bind).subject = sub
         /\ Who(sub, client, issuer, bind).issuer = issuer
         /\ Who(sub, client, issuer, bind).bind = bind
  BY DEF Who, Nobody

LEMMA DeniedFields ==
  ASSUME NEW why
  PROVE  Denied(why).is = "denied" /\ Denied(why).why = why
  BY DEF Denied

LEMMA BindOfAny ==
  ASSUME NEW sub
  PROVE  BindOf(sub) = "any" <=> sub \in config.pep
  BY DEF BindOf

\* What a verdict on the request inside the guard says of it.
Sound(v) ==
    /\ v.is # "denied" => v # Nobody /\ Possessed(v, now) /\ Vouched(v, now)
    /\ v.is = "denied" => CodeEarned(v.why, now)

LEMMA InvalidSound == Sound(Denied("invalid")) /\ Sound(Denied("no_credentials"))
  BY DeniedFields DEF Sound, CodeEarned

LEMMA BearerSound ==
  ASSUME config.kind = "bearer"
  PROVE  Sound(Bearer(Seen))
  <1>1. PICK t : t = req.token
    OBVIOUS
  <1>2. Seen.token = t
    BY <1>1, SeenFields
  <1>3. CASE Bearer(Seen) = Denied("insufficient_scope") /\ BearerToken(t)
    <2>1. t.key \in config.keys /\ config.audience \in t.aud
      BY <1>3 DEF BearerToken
    <2>. QED BY <1>1, <1>3, <2>1, DeniedFields DEF Sound, CodeEarned
  <1>4. CASE Bearer(Seen) = Who(t.sub, t.client, t.iss, "any") /\ BearerToken(t)
    <2>1. t.key \in config.keys /\ config.audience \in t.aud /\ now < t.exp
      BY <1>4 DEF BearerToken, InTime
    <2>2. Vouched(Bearer(Seen), now)
      BY <1>1, <1>4, <2>1, WhoFields DEF Vouched
    <2>3. Possessed(Bearer(Seen), now)
      BY DEF Possessed
    <2>. QED BY <1>4, <2>2, <2>3, WhoFields DEF Sound
  <1>5. CASE Bearer(Seen) = Denied("invalid") \/ Bearer(Seen) = Denied("no_credentials")
    BY <1>5, InvalidSound
  <1>. QED BY <1>2, <1>3, <1>4, <1>5 DEF Bearer

LEMMA SpiffeSound ==
  ASSUME config.kind = "spiffe"
  PROVE  Sound(Spiffe(Seen))
  <1>1. PICK t : t = req.token
    OBVIOUS
  <1>2. Seen.token = t
    BY <1>1, SeenFields
  <1>3. CASE Spiffe(Seen) = Who(t.sub, t.sub, Domain[t.sub], BindOf(t.sub)) /\ Svid(t)
    <2>1. t.key \in KeysFor(Domain[t.sub], t.kid) /\ config.audience \in t.aud /\ now < t.exp
      BY <1>3 DEF Svid, InTime
    <2>2. t.key \in {k.key : k \in config.issuers[Domain[t.sub]]}
      BY <2>1, KeysForPinned
    <2>3. Vouched(Spiffe(Seen), now)
      BY <1>1, <1>3, <2>1, <2>2, WhoFields, BindOfAny DEF Vouched
    <2>4. Possessed(Spiffe(Seen), now)
      BY DEF Possessed
    <2>. QED BY <1>3, <2>3, <2>4, WhoFields DEF Sound
  <1>4. CASE Spiffe(Seen) = Denied("invalid") \/ Spiffe(Seen) = Denied("no_credentials")
    BY <1>4, InvalidSound
  <1>. QED BY <1>2, <1>3, <1>4 DEF Spiffe

LEMMA WithinWindow ==
  ASSUME NEW s, NEW ahead \in Nat, Fresh(s, ahead)
  PROVE  now - s.created <= Behind
  BY CallersAssumption DEF Fresh

LEMMA SignedSound ==
  ASSUME config.kind = "signed", req.read = TRUE
  PROVE  Sound(Signed(Seen))
  <1>1. PICK t : t = req.token
    OBVIOUS
  <1>2. PICK s : s = req.signature
    OBVIOUS
  <1>3. Seen.token = t /\ Seen.signature = s
    BY <1>1, <1>2, SeenFields
  <1>4. CASE Signed(Seen) = Who(t.sub, t.sub, "none", BindOf(t.sub)) /\ SignedRequest(Seen)
    <2>1. /\ SentHere(Seen) /\ s.covers = RequiredComponents(Seen) /\ Fresh(s, Ahead)
          /\ config.audience \in t.aud /\ t.cnf \in config.agents[t.sub] /\ now < t.exp
          /\ Verifies(s, t.cnf, Seen)
      BY <1>3, <1>4 DEF SignedRequest
    <2>2. /\ s.key = t.cnf
          /\ s.values["@method"] = Seen.method
          /\ s.values["@path"] = Seen.path
          /\ s.values["@authority"] = Seen.authority
          /\ s.values["signature-key"].token = Seen.token
          /\ Seen.body # "" =>
               "content-digest" \in ToSet(s.covers) /\ s.values["content-digest"] = Seen.body
      BY <2>1, RequiredCovered
    <2>3. now - s.created <= Behind
      <3>1. Ahead \in Nat
        BY CallersAssumption
      <3>. QED BY <2>1, <3>1, WithinWindow
    <2>4. Seen.authority = config.authority
      BY <2>1 DEF SentHere
    <2>5. Possessed(Signed(Seen), now)
      <3>1. Signed(Seen).subject = t.sub
        BY <1>4, WhoFields
      <3>2. t.cnf \in config.agents[Signed(Seen).subject]
        BY <2>1, <3>1
      <3>. QED BY <1>1, <1>2, <1>3, <2>2, <2>3, <2>4, <3>2, SeenFields DEF Possessed
    <2>6. Vouched(Signed(Seen), now)
      BY <1>1, <1>4, <2>1, WhoFields, BindOfAny DEF Vouched
    <2>. QED BY <1>4, <2>5, <2>6, WhoFields DEF Sound
  <1>5. CASE Signed(Seen) = Denied("invalid") \/ Signed(Seen) = Denied("no_credentials")
    BY <1>5, InvalidSound
  <1>. QED BY <1>3, <1>4, <1>5 DEF Signed

LEMMA AauthSound ==
  ASSUME config.kind = "aauth", req.read = TRUE, now \in Int,
         req.signature # Nothing => req.signature.created \in Int
  PROVE  Sound(Aauth(Seen))
  <1>1. PICK t : t = req.token
    OBVIOUS
  <1>2. PICK s : s = req.signature
    OBVIOUS
  <1>3. Seen.token = t /\ Seen.signature = s
    BY <1>1, <1>2, SeenFields
  <1>4. ASSUME VouchedFor(Seen) PROVE t.key \in {k.key : k \in config.issuers[t.iss]}
    <2>1. t.key \in KeysFor(t.iss, t.kid)
      BY <1>3, <1>4 DEF VouchedFor
    <2>. QED BY <2>1, KeysForPinned
  <1>5. CASE Aauth(Seen) = Who(t.sub, t.sub, t.iss, BindOf(t.sub))
             /\ VouchedFor(Seen) /\ InDomain(t) /\ now < t.exp /\ Verifies(s, t.cnf, Seen)
    <2>1. /\ SentHere(Seen) /\ ToSet(RequiredComponents(Seen)) \subseteq ToSet(s.covers)
          /\ Fresh(s, Behind)
      BY <1>3, <1>5 DEF VouchedFor
    <2>2. /\ s.key = t.cnf
          /\ s.values["@method"] = Seen.method
          /\ s.values["@path"] = Seen.path
          /\ s.values["@authority"] = Seen.authority
          /\ s.values["signature-key"].token = Seen.token
          /\ Seen.body # "" =>
               "content-digest" \in ToSet(s.covers) /\ s.values["content-digest"] = Seen.body
      BY <1>5, <2>1, RequiredCovered
    <2>3. now - s.created <= Behind
      <3>1. Behind \in Nat
        BY CallersAssumption
      <3>. QED BY <2>1, <3>1, WithinWindow
    <2>4. Seen.authority = config.authority /\ t.iss = Domain[t.sub]
      BY <1>5, <2>1 DEF SentHere, InDomain
    <2>5. Possessed(Aauth(Seen), now)
      BY <1>1, <1>2, <1>3, <2>2, <2>3, <2>4, SeenFields DEF Possessed
    <2>6. Vouched(Aauth(Seen), now)
      BY <1>1, <1>4, <1>5, <2>4, WhoFields, BindOfAny DEF Vouched
    <2>. QED BY <1>5, <2>5, <2>6, WhoFields DEF Sound
  <1>6. CASE Aauth(Seen) = Denied("clock_skew") /\ VouchedFor(Seen)
    BY <1>1, <1>4, <1>6, DeniedFields DEF Sound, CodeEarned
  <1>7. CASE Aauth(Seen) = Denied("clock_skew") /\ s # Nothing /\ s.created - now > Behind
    <2>1. ~(s.created - now <= Behind)
      BY <1>2, <1>7, CallersAssumption
    <2>. QED BY <1>2, <1>7, <2>1, DeniedFields DEF Sound, CodeEarned
  <1>8. CASE Aauth(Seen) = Denied("invalid") \/ Aauth(Seen) = Denied("no_credentials")
    BY <1>8, InvalidSound
  <1>. QED BY <1>3, <1>5, <1>6, <1>7, <1>8 DEF Aauth

LEMMA AuthenticateSound ==
  ASSUME config.kind \in {"bearer", "signed", "spiffe", "aauth"}, now \in Int,
         req.signature # Nothing => req.signature.created \in Int,
         ReadsBody => req.read = TRUE
  PROVE  Sound(Authenticate(Seen))
  <1>1. CASE config.kind = "bearer"
    BY <1>1, BearerSound DEF Authenticate
  <1>2. CASE config.kind = "spiffe"
    BY <1>2, SpiffeSound DEF Authenticate
  <1>3. CASE config.kind = "signed"
    BY <1>3, SignedSound DEF Authenticate, ReadsBody
  <1>4. CASE config.kind = "aauth"
    BY <1>4, AauthSound DEF Authenticate, ReadsBody
  <1>. QED BY <1>1, <1>2, <1>3, <1>4

-----------------------------------------------------------------------------
(* The inductive invariant of the guard: a request in it is the one that      *)
(* arrived, its body is read only under a posture that is over the body or    *)
(* after a credential was accepted, and whoever it is established for, or     *)
(* however it is refused, was decided soundly under the configuration.        *)

RequestInv ==
    /\ Arrived(req)
    /\ req.phase \in {"arrived", "checked", "buffered", "handled", "refused"}
    /\ req.phase = "arrived" => req.who = Nobody /\ req.read = FALSE
    /\ req.phase = "checked" => req.who # Nobody /\ req.read = FALSE
    /\ req.phase = "buffered" => req.read = TRUE
    /\ req.phase \in {"checked", "buffered"} => config.kind # "proxy"
    /\ config.kind \in {"bearer", "spiffe"} /\ req.read = TRUE => req.who # Nobody
    /\ req.phase \in {"checked", "buffered", "handled"} /\ req.who # Nobody =>
         Possessed(req.who, req.at) /\ Vouched(req.who, req.at)
    /\ req.phase = "refused" => CodeEarned(req.why, req.at)

GuardInv ==
    /\ Configured
    /\ now \in 0..MaxTime
    /\ req = Idle \/ RequestInv

LEMMA IdleFields == Idle.phase = "idle"
  BY DEF Idle

LEMMA NowIsInt ==
  ASSUME now \in 0..MaxTime
  PROVE  now \in Int
  OBVIOUS

\* A request that only moved through the guard is judged as before.
Moved == /\ req'.token = req.token /\ req'.signature = req.signature /\ req'.shape = req.shape
         /\ config' = config

LEMMA JudgedAsBefore ==
  ASSUME Moved
  PROVE  /\ Possessed(req.who, req.at)' <=> Possessed(req'.who, req'.at)
         /\ Vouched(req.who, req.at)' <=> Vouched(req'.who, req'.at)
         /\ CodeEarned(req.why, req.at)' <=> CodeEarned(req'.why, req'.at)
  BY DEF Moved, Possessed, Vouched, CodeEarned

LEMMA ConfiguredMoved ==
  ASSUME Configured, config' = config
  PROVE  Configured'
  BY DEF Configured

LEMMA CreatedIsInt ==
  ASSUME RequestInv
  PROVE  req.signature # Nothing => req.signature.created \in Int
  BY CallersAssumption DEF RequestInv, Arrived

\* The steps of a request through the guard: what may change, and how.
LEMMA RefuseKeeps ==
  ASSUME RequestInv, NEW why, NEW status, req' = Refuse(why, status), config' = config,
         CodeEarned(why, now)
  PROVE  RequestInv'
  <1>1. /\ req'.token = req.token /\ req'.signature = req.signature /\ req'.shape = req.shape
        /\ req'.phase = "refused" /\ req'.why = why /\ req'.at = now /\ req'.read = req.read
        /\ req'.who = req.who
        /\ Arrived(req')
    BY DEF RequestInv, Arrived, Refuse
  <1>2. Moved
    BY <1>1 DEF Moved
  <1>3. CodeEarned(req.why, req.at)'
    BY <1>1, <1>2, JudgedAsBefore
  <1>. QED BY <1>1, <1>3 DEF RequestInv, Arrived

LEMMA SettleKeeps ==
  ASSUME RequestInv, NEW timed \in BOOLEAN, NEW phase \in {"checked", "handled"},
         req' = Settle(timed, phase), config' = config, Configured, now \in 0..MaxTime,
         config.kind # "proxy", ReadsBody => req.read = TRUE,
         phase = "checked" => req.read = FALSE
  PROVE  RequestInv'
  <1>1. PICK v : v = Authenticate(Seen)
    OBVIOUS
  <1>2. Sound(v)
    <2>1. config.kind \in {"bearer", "signed", "spiffe", "aauth"}
      BY ConfiguredChoose
    <2>. QED BY <1>1, <2>1, NowIsInt, CreatedIsInt, AuthenticateSound
  <1>3. CASE ~timed
    <2>1. CodeEarned("clock_unavailable", now)
      BY DEF CodeEarned
    <2>. QED BY <1>3, <2>1, RefuseKeeps DEF Settle
  <1>4. CASE timed /\ v.is = "denied"
    <2>1. req' = Refuse(v.why, Status(v.why))
      BY <1>1, <1>4 DEF Settle
    <2>2. CodeEarned(v.why, now)
      BY <1>2, <1>4 DEF Sound
    <2>. QED BY <2>1, <2>2, RefuseKeeps
  <1>5. CASE timed /\ v.is # "denied"
    <2>1. req' = [req EXCEPT !.phase = phase, !.who = v, !.at = now]
      BY <1>1, <1>5 DEF Settle
    <2>2. /\ req'.token = req.token /\ req'.signature = req.signature /\ req'.shape = req.shape
          /\ req'.phase = phase /\ req'.who = v /\ req'.at = now /\ req'.read = req.read
          /\ Arrived(req')
      BY <2>1 DEF RequestInv, Arrived
    <2>3. Moved
      BY <2>2 DEF Moved
    <2>4. v # Nobody /\ Possessed(v, now) /\ Vouched(v, now)
      BY <1>2, <1>5 DEF Sound
    <2>5. Possessed(req.who, req.at)' /\ Vouched(req.who, req.at)'
      BY <2>2, <2>3, <2>4, JudgedAsBefore
    <2>. QED BY <2>2, <2>4, <2>5 DEF RequestInv, Arrived
  <1>. QED BY <1>3, <1>4, <1>5

\* A step that changes only the phase, to one that asks no more.
LEMMA PhaseKeeps ==
  ASSUME RequestInv, NEW phase, NEW at, NEW read \in BOOLEAN, config' = config,
         req' = [req EXCEPT !.phase = phase, !.at = at, !.read = read],
         \/ phase = "buffered" /\ at = req.at /\ read = TRUE /\ config.kind # "proxy"
            /\ (config.kind \in {"bearer", "spiffe"} => req.who # Nobody)
         \/ phase = "handled" /\ (req.who = Nobody \/ at = req.at) /\ read = req.read,
         phase \in {"buffered", "handled"} /\ req.who # Nobody =>
           Possessed(req.who, req.at) /\ Vouched(req.who, req.at)
  PROVE  RequestInv'
  <1>1. /\ req'.token = req.token /\ req'.signature = req.signature /\ req'.shape = req.shape
        /\ req'.phase = phase /\ req'.who = req.who /\ req'.at = at /\ req'.read = read
        /\ Arrived(req')
    BY DEF RequestInv, Arrived
  <1>2. Moved
    BY <1>1 DEF Moved
  <1>3. req.who # Nobody => Possessed(req.who, req.at)' /\ Vouched(req.who, req.at)'
    BY <1>1, <1>2, JudgedAsBefore
  <1>. QED BY <1>1, <1>3 DEF RequestInv, Arrived

LEMMA GuardSteps ==
  ASSUME GuardInv, Next
  PROVE  GuardInv'
  <1>. USE DEF GuardInv
  <1>1. CASE UNCHANGED <<config, now>> /\ (req' = Idle \/ RequestInv')
    <2>1. Configured' /\ (now \in 0..MaxTime)'
      BY <1>1, ConfiguredMoved
    <2>. QED BY <1>1, <2>1
  <1>2. CASE Arrive
    <2>1. PICK r \in Requests :
            req' = [phase |-> "arrived", who |-> Nobody, why |-> "none", status |-> 0, at |-> 0,
                    read |-> FALSE, token |-> r.token, signature |-> r.signature, shape |-> r.shape]
      BY <1>2 DEF Arrive
    <2>2. RequestInv'
      BY <2>1 DEF RequestInv, Arrived
    <2>. QED BY <1>1, <1>2, <2>2 DEF Arrive
  <1>3. CASE PassThrough
    <2>1. RequestInv /\ req.who = Nobody
      BY <1>3, IdleFields DEF PassThrough, RequestInv
    <2>2. req' = [req EXCEPT !.phase = "handled", !.at = now, !.read = req.read] /\ req.read \in BOOLEAN
      BY <1>3, <2>1 DEF PassThrough, Handle, RequestInv, Arrived
    <2>3. RequestInv'
      BY <1>3, <2>1, <2>2, PhaseKeeps DEF PassThrough
    <2>. QED BY <1>1, <1>3, <2>3 DEF PassThrough
  <1>4. ASSUME NEW timed \in BOOLEAN, CheckHeaders(timed) PROVE GuardInv'
    <2>1. RequestInv /\ req.read = FALSE /\ config.kind # "proxy"
      BY <1>4, IdleFields DEF CheckHeaders, RequestInv, Guards
    <2>2. RequestInv'
      BY <1>4, <2>1, SettleKeeps DEF CheckHeaders
    <2>. QED BY <1>1, <1>4, <2>2 DEF CheckHeaders
  <1>5. ASSUME NEW timed \in BOOLEAN, Establish(timed) PROVE GuardInv'
    <2>1. RequestInv /\ req.read = TRUE /\ config.kind # "proxy" /\ req.phase = "buffered"
      BY <1>5, IdleFields DEF Establish, RequestInv
    <2>2. CASE req.who # Nobody
      <3>1. req' = [req EXCEPT !.phase = "handled", !.at = req.at, !.read = req.read]
        BY <1>5, <2>1, <2>2 DEF Establish, RequestInv, Arrived
      <3>2. RequestInv'
        BY <1>5, <2>1, <2>2, <3>1, PhaseKeeps DEF Establish, RequestInv
      <3>. QED BY <1>1, <1>5, <3>2 DEF Establish
    <2>3. CASE req.who = Nobody
      <3>1. RequestInv'
        BY <1>5, <2>1, <2>3, SettleKeeps DEF Establish
      <3>. QED BY <1>1, <1>5, <3>1 DEF Establish
    <2>. QED BY <2>2, <2>3
  <1>6. CASE ReadBody
    <2>1. RequestInv
      BY <1>6, IdleFields DEF ReadBody
    <2>2. CASE req.shape.body = "huge"
      <3>1. CodeEarned("payload_too_large", now)
        BY DEF CodeEarned
      <3>2. RequestInv'
        BY <1>6, <2>1, <2>2, <3>1, RefuseKeeps DEF ReadBody
      <3>. QED BY <1>1, <1>6, <3>2 DEF ReadBody
    <2>3. CASE req.shape.body # "huge"
      <3>1. req' = [req EXCEPT !.phase = "buffered", !.at = req.at, !.read = TRUE]
        <4>1. req' = [req EXCEPT !.phase = "buffered", !.read = TRUE]
          BY <1>6, <2>3 DEF ReadBody
        <4>2. req = [phase |-> req.phase, who |-> req.who, why |-> req.why, status |-> req.status,
                     at |-> req.at, read |-> req.read, token |-> req.token,
                     signature |-> req.signature, shape |-> req.shape]
          BY <2>1 DEF RequestInv, Arrived
        <4>. QED BY <4>1, <4>2
      <3>2. config.kind # "proxy" /\ (config.kind \in {"bearer", "spiffe"} => req.who # Nobody)
        BY <1>6, <2>1 DEF ReadBody, RequestInv, Guards, ReadsBody
      <3>3. req.who # Nobody => Possessed(req.who, req.at) /\ Vouched(req.who, req.at)
        BY <1>6, <2>1 DEF ReadBody, RequestInv
      <3>4. RequestInv'
        BY <1>6, <2>1, <3>1, <3>2, <3>3, PhaseKeeps DEF ReadBody
      <3>. QED BY <1>1, <1>6, <3>4 DEF ReadBody
    <2>. QED BY <2>2, <2>3
  <1>7. CASE Answered
    BY <1>1, <1>7 DEF Answered
  <1>8. CASE Tick
    <2>1. (now \in 0..MaxTime)'
      BY <1>8, CallersAssumption DEF Tick
    <2>2. Configured'
      BY <1>8, ConfiguredMoved DEF Tick
    <2>3. ASSUME RequestInv PROVE RequestInv'
      <3>1. Moved /\ req' = req
        BY <1>8 DEF Tick, Moved
      <3>2. /\ Possessed(req.who, req.at)' <=> Possessed(req.who, req.at)
            /\ Vouched(req.who, req.at)' <=> Vouched(req.who, req.at)
            /\ CodeEarned(req.why, req.at)' <=> CodeEarned(req.why, req.at)
        BY <3>1, JudgedAsBefore
      <3>. QED BY <2>3, <3>1, <3>2 DEF RequestInv, Moved, Arrived
    <2>. QED BY <1>8, <2>1, <2>2, <2>3 DEF Tick
  <1>9. ASSUME NEW d \in Deployments, Restart(d) PROVE GuardInv'
    BY <1>9 DEF Restart, Configured
  <1>. QED BY <1>2, <1>3, <1>4, <1>5, <1>6, <1>7, <1>8, <1>9 DEF Next

\* The guard over the deciding routes never loses its invariant (caller.rs:
\* guard, posture, asserted_by).
THEOREM GuardInvariant == Spec => []GuardInv
  <1>1. Init => GuardInv
    <2>. SUFFICES ASSUME Init PROVE GuardInv
      OBVIOUS
    <2>1. Configured
      BY DEF Init, Configured
    <2>2. now \in 0..MaxTime
      BY CallersAssumption DEF Init
    <2>. QED BY <2>1, <2>2 DEF Init, GuardInv
  <1>2. GuardInv /\ [Next]_vars => GuardInv'
    <2>. SUFFICES ASSUME GuardInv, [Next]_vars PROVE GuardInv'
      OBVIOUS
    <2>1. CASE Next
      BY <2>1, GuardSteps
    <2>2. CASE UNCHANGED vars
      <3>1. Configured'
        BY <2>2, ConfiguredMoved DEF GuardInv, vars
      <3>2. Moved /\ req' = req
        BY <2>2 DEF vars, Moved
      <3>3. /\ Possessed(req.who, req.at)' <=> Possessed(req.who, req.at)
            /\ Vouched(req.who, req.at)' <=> Vouched(req.who, req.at)
            /\ CodeEarned(req.why, req.at)' <=> CodeEarned(req.why, req.at)
        BY <3>2, JudgedAsBefore
      <3>4. RequestInv => RequestInv'
        BY <3>2, <3>3 DEF RequestInv, Moved, Arrived
      <3>. QED BY <2>2, <3>1, <3>4 DEF GuardInv, vars
    <2>. QED BY <2>1, <2>2
  <1>. QED BY <1>1, <1>2, PTL DEF Spec

\* Whoever reaches a handler under an identity holds what that identity rests
\* on, under keys the deployment pinned (guard and the five postures).
THEOREM AlwaysEstablished == Spec => []CallersEstablished
  <1>1. GuardInv => CallersEstablished
    <2>. SUFFICES ASSUME GuardInv PROVE CallersEstablished
      OBVIOUS
    <2>1. CallersTypeOK
      <3>1. IssuersChoose
        BY ConfiguredChoose DEF GuardInv
      <3>2. req.phase \in {"idle", "arrived", "checked", "buffered", "handled", "refused"}
        BY IdleFields DEF GuardInv, RequestInv
      <3>. QED BY <3>1, <3>2 DEF CallersTypeOK, GuardInv, IssuersChoose, KidsChoose
    <2>2. ASSUME Admitted PROVE Possessed(req.who, req.at) /\ Vouched(req.who, req.at)
      BY <2>2, IdleFields DEF Admitted, GuardInv, RequestInv
    <2>3. PossessionProved
      BY <2>2 DEF PossessionProved, Possessed
    <2>4. IssuerVouches
      BY <2>2 DEF IssuerVouches, Vouched
    <2>. QED BY <2>1, <2>3, <2>4 DEF CallersEstablished
  <1>. QED BY <1>1, GuardInvariant, PTL

\* A refusal carries the code that a token verified only of one that did, and
\* under bearer and spiffe no body is read before a credential was accepted, for
\* every deployment, request and key rollover (guard, Denied, refuse).
THEOREM StrangersAlwaysRefused == Spec => []StrangersRefused
  <1>1. GuardInv => StrangersRefused
    <2>. SUFFICES ASSUME GuardInv PROVE StrangersRefused
      OBVIOUS
    <2>1. req.phase = "refused" => CodeEarned(req.why, req.at)
      BY IdleFields DEF GuardInv, RequestInv
    <2>2. CodesOfVerifiedOnly
      BY <2>1 DEF CodesOfVerifiedOnly, CodeEarned
    <2>3. BodyAfterCredential
      BY DEF BodyAfterCredential, GuardInv, RequestInv, Arrived
    <2>. QED BY <2>2, <2>3 DEF StrangersRefused
  <1>. QED BY <1>1, GuardInvariant, PTL

-----------------------------------------------------------------------------
(* Boot: the inductive invariant of the starts.                              *)

StartRecord ==
    [pc : {"look", "paths", "bind", "key", "create", "fill", "sync", "open", "registry", "serving",
           "refused", "failed"},
     flags : CommandLines, key : STRING \cup {NoKey}, wrote : SUBSET Path, alone : BOOLEAN]

BootTypeOK ==
    /\ disk \in [DOMAIN disk -> Content]
    /\ \E d \in DisksAtStart : DOMAIN disk = DOMAIN d
    /\ boots \in [Starters -> {Off} \cup StartRecord]
    /\ risked \subseteq DOMAIN disk
    /\ made \in 0..Len(KeyMaterial)
    /\ extended \in [DOMAIN extended -> CommandLines]

\* A key file that may be undone holds no directory and no registry.
RiskedAreFiles == \A s \in risked : disk[s].is \in {"empty", "key", "ledger", "mixed"}

\* A registry that was opened is a registry, or has become another's ledger.
RegistryKept(f) ==
    LET m == Real(MissionsPath(f)) IN
    \/ disk[m] \in {Json("nothing"), Json("missions")}
    \/ disk[m].is \in {"empty", "ledger"} /\ m \notin risked

\* A key file that nobody used before it was synced holds this key for good.
KeyOnDisk(f, key) ==
    KeyIsKept(f) => Real(f.key) \notin risked /\ disk[Real(f.key)] = KeyFile(key)

WritesKey(p, place) ==
    boots[p].pc \in {"fill", "sync"} /\ Real(boots[p].flags.key) = place

Checked(p) ==
    boots[p].pc \in {"bind", "key", "create", "fill", "sync", "open", "registry", "serving"}

\* The key file of a start, as far as it got.
KeyInv(p, f) ==
    LET pc == boots[p].pc  k == Real(f.key) IN
    /\ pc \in {"create", "fill", "sync"} => f.key # NoPath
    /\ pc \in {"create", "fill", "sync", "open", "registry", "serving"} => boots[p].key \in STRING
    /\ pc \in {"fill", "sync"} => k \in risked /\ boots[p].wrote # {}
    /\ pc = "fill" => k \in borrowed \/ disk[k] = EmptyFile
    /\ pc = "sync" => k \in borrowed \/ disk[k] = KeyFile(boots[p].key)
    /\ pc \in {"open", "registry", "serving"} => KeyOnDisk(f, boots[p].key)

\* The ledger a start holds, which is one unless its file was a key not written yet.
HeldInv(p, f) ==
    /\ disk[Store(f)].is \in {"empty", "ledger", "key", "mixed"}
    /\ Store(f) \notin borrowed => Store(f) \notin risked /\ disk[Store(f)].is \in {"empty", "ledger"}
    /\ MaySign(Lines(f), boots[p].key, f.retired)

\* The ledger and the registry a start opened.
OpenedInv(p, f) ==
    LET pc == boots[p].pc IN
    /\ pc \in {"registry", "serving"} => IF f.sharded = "no" THEN HeldInv(p, f)
                                         ELSE disk[Store(f)].is = "dir"
    /\ pc = "serving" => RegistryKept(f)

\* The directories of the files a start will create.
DirsInv(f) ==
    /\ f.key # NoPath => IsDir(Front(f.key))
    /\ f.sharded = "no" => IsDir(Front(LedgerPath(f)))

StartInv(p, f) ==
    /\ FlagsOk(f)
    /\ boots[p].pc \in {"look", "paths", "bind", "key", "create"} => boots[p].wrote = {}
    /\ Checked(p) => DirsInv(f)
    /\ KeyInv(p, f) /\ OpenedInv(p, f)

Started(p, f) == boots[p].pc # "off" /\ boots[p].flags = f

\* One start writes a key file, and one server holds a ledger.
Apart ==
    \A p, q \in Starters, s \in DOMAIN disk :
        /\ WritesKey(p, s) /\ WritesKey(q, s) => p = q
        /\ HoldsLedger(p, s) /\ HoldsLedger(q, s) => p = q

\* What a ledger that was extended still holds.
RecordsInv(s, f) ==
    s \notin borrowed =>
        /\ s \notin risked /\ disk[s].is = (IF f.sharded = "no" THEN "ledger" ELSE "dir")
        /\ Lines(f) # <<>>
        /\ KeyIsKept(f) => MaySign(Lines(f), disk[Real(f.key)].key, f.retired)

\* A ledger that was extended, and the command line that last extended it.
LedgerInv(s, f) ==
    /\ FlagsOk(f) /\ Store(f) = s
    /\ RecordsInv(s, f)
    /\ KeyIsKept(f) => Real(f.key) \notin risked /\ disk[Real(f.key)].is = "key"
    /\ RegistryKept(f)

FilesInv ==
    /\ IsTree(disk) /\ RiskedAreFiles /\ Apart
    /\ \A p \in Starters, f \in CommandLines : Started(p, f) => StartInv(p, f)
    /\ \A s \in DOMAIN extended, f \in CommandLines : extended[s] = f => LedgerInv(s, f)

\* A store that holds no records, unless it is the key file just created.
StoreIsNew(f) ==
    \/ Store(f) = Real(f.key)
    \/ f.sharded = "no" /\ disk[Store(f)].is \in {"absent", "empty"}
    \/ f.sharded = "dir" /\ disk[Store(f)] \in {Absent, Dir(<<>>)}
    \/ f.sharded = "postgres"

\* The registry is under no file, unless this start creates it.
RegistryIsOpen(f) ==
    LET above == Front(MissionsPath(f)) IN
    \/ At(above).is \in {"absent", "dir"}
    \/ Real(above) \in {Real(f.key), Real(LedgerPath(f))}

\* What a start with no other at work still knows of the checks it passed.
AloneInv(p, f) ==
    LET b == boots[p] IN
    /\ b.pc \in {"paths", "bind", "key", "create"} => LooksRight(f)
    /\ b.pc = "create" => ~Exists(f.key)
    /\ b.pc \in {"fill", "sync", "open"} /\ b.wrote # {} => StoreIsNew(f)
    /\ Checked(p) /\ b.pc # "serving" => RegistryIsOpen(f)
    /\ b.pc = "refused" /\ b.wrote # {} => OnlyOpeningReveals(f)

Alone(p) == boots[p].pc # "off" /\ boots[p].alone

ChecksInv ==
    \A p \in Starters : Alone(p) =>
        /\ \A q \in Starters \ {p} : NotRunning(q)
        /\ \A f \in CommandLines : boots[p].flags = f => AloneInv(p, f)

BootInv == BootTypeOK /\ FilesInv /\ ChecksInv

-----------------------------------------------------------------------------
(* Paths.                                                                    *)

LEMMA FrontPath ==
  ASSUME NEW path \in Path, path # <<>>
  PROVE  /\ Front(path) \in Path /\ Len(Front(path)) = Len(path) - 1
         /\ \A i \in 1..(Len(path) - 1) : Front(path)[i] = path[i]
  <1>1. Len(path) \in Nat \ {0}
    BY EmptySeq DEF Path
  <1>2. \A i \in 1..(Len(path) - 1) : path[i] \in Name
    BY <1>1, ElementOfSeq DEF Path
  <1>3. PICK n \in Nat : n = Len(path) - 1
    BY <1>1
  <1>4. PICK u \in Path : u = SubSeq(path, 1, n)
    <2>1. 1 \in Int /\ n \in Int /\ \A i \in 1..n : path[i] \in Name
      BY <1>2, <1>3
    <2>2. SubSeq(path, 1, n) \in Seq(Name)
      BY ONLY <2>1, SubSeqProperties, Zenon
    <2>. QED BY <2>2 DEF Path
  <1>5. Len(u) = n /\ \A i \in 1..n : u[i] = path[i]
    <2>1. 1 \in Int /\ n \in Int /\ \A i \in 1..n : path[i] \in Name
      BY <1>2, <1>3
    <2>2. /\ Len(SubSeq(path, 1, n)) = IF 1 <= n THEN n - 1 + 1 ELSE 0
          /\ \A i \in 1..(n - 1 + 1) : SubSeq(path, 1, n)[i] = path[1 + i - 1]
      BY ONLY <2>1, SubSeqProperties
    <2>3. n - 1 + 1 = n /\ (~(1 <= n) => n = 0) /\ \A i \in 1..n : 1 + i - 1 = i
      OBVIOUS
    <2>. QED BY <1>4, <2>2, <2>3
  <1>. QED BY <1>3, <1>4, <1>5 DEF Front

LEMMA RootFront == Front(<<>>) = <<>>
  BY SubSeqEmpty, EmptySeq DEF Front

LEMMA PrefixElements ==
  ASSUME NEW s \in Path, NEW t \in Path
  PROVE  IsPrefix(s, t) <=> Len(s) <= Len(t) /\ \A i \in 1..Len(s) : s[i] = t[i]
  <1>1. Len(s) \in Nat /\ Len(t) \in Nat
    BY LenProperties DEF Path
  <1>2. SubSeq(s, 1, Len(s)) = s
    BY SubSeqFull DEF Path
  <1>. SUFFICES ASSUME Len(s) <= Len(t)
                PROVE  s = SubSeq(t, 1, Len(s)) <=> \A i \in 1..Len(s) : s[i] = t[i]
    BY <1>2 DEF IsPrefix
  <1>3. \A i \in 1..Len(s) : t[i] \in Name
    BY <1>1, ElementOfSeq DEF Path
  <1>4. PICK u \in Path : u = SubSeq(t, 1, Len(s))
    <2>1. 1 \in Int /\ Len(s) \in Int
      BY <1>1
    <2>2. SubSeq(t, 1, Len(s)) \in Seq(Name)
      BY ONLY <1>3, <2>1, SubSeqProperties, Zenon
    <2>. QED BY <2>2 DEF Path
  <1>5. Len(u) = Len(s) /\ \A i \in 1..Len(s) : u[i] = t[i]
    BY <1>1, <1>3, <1>4, SubSeqProperties
  <1>6. (\A i \in 1..Len(s) : s[i] = u[i]) => s = u
    BY <1>5, SeqEqual DEF Path
  <1>. QED BY <1>4, <1>5, <1>6

LEMMA PrefixOfFront ==
  ASSUME NEW s \in Path, NEW t \in Path, IsStrictPrefix(s, t)
  PROVE  t # <<>> /\ (s = Front(t) \/ IsStrictPrefix(s, Front(t)))
  <1>1. Len(s) \in Nat /\ Len(t) \in Nat
    BY LenProperties DEF Path
  <1>2. Len(s) <= Len(t) /\ \A i \in 1..Len(s) : s[i] = t[i]
    BY PrefixElements DEF IsStrictPrefix
  <1>3. Len(s) < Len(t)
    <2>. SUFFICES ASSUME Len(s) = Len(t) PROVE FALSE
      BY <1>1, <1>2
    <2>. QED BY <1>2, SeqEqual DEF IsStrictPrefix, Path
  <1>4. t # <<>>
    BY <1>1, <1>3, EmptySeq
  <1>5. PICK u \in Path : u = Front(t)
    BY <1>4, FrontPath
  <1>6. Len(u) = Len(t) - 1 /\ \A i \in 1..(Len(t) - 1) : u[i] = t[i]
    BY <1>4, <1>5, FrontPath
  <1>7. Len(s) <= Len(u) /\ \A i \in 1..Len(s) : s[i] = u[i]
    BY <1>1, <1>2, <1>3, <1>6
  <1>8. IsPrefix(s, u)
    BY <1>7, PrefixElements
  <1>. QED BY <1>4, <1>5, <1>8 DEF IsStrictPrefix

LEMMA FrontIsPrefix ==
  ASSUME NEW t \in Path, t # <<>>
  PROVE  IsStrictPrefix(Front(t), t)
  <1>1. Len(t) \in Nat \ {0}
    BY EmptySeq DEF Path
  <1>2. PICK u \in Path : u = Front(t)
    BY FrontPath
  <1>3. Len(u) = Len(t) - 1 /\ \A i \in 1..(Len(t) - 1) : u[i] = t[i]
    BY <1>2, FrontPath
  <1>. QED BY <1>1, <1>2, <1>3, PrefixElements DEF IsStrictPrefix

LEMMA PrefixTransitive ==
  ASSUME NEW s \in Path, NEW t \in Path, NEW u \in Path, IsPrefix(s, t), IsPrefix(t, u)
  PROVE  IsPrefix(s, u)
  <1>1. Len(s) \in Nat /\ Len(t) \in Nat /\ Len(u) \in Nat
    BY LenProperties DEF Path
  <1>2. Len(s) <= Len(t) /\ \A i \in 1..Len(s) : s[i] = t[i]
    BY PrefixElements
  <1>3. Len(t) <= Len(u) /\ \A i \in 1..Len(t) : t[i] = u[i]
    BY PrefixElements
  <1>. QED BY <1>1, <1>2, <1>3, PrefixElements

LEMMA RealPath ==
  ASSUME NEW path \in Path
  PROVE  Real(path) \in Path /\ (path # <<>> => Real(path) # <<>>)
  <1>1. CASE path # <<>> /\ path[1] \in DOMAIN Links
    <2>1. PICK l \in Path : l = Links[path[1]] /\ l # <<>>
      BY <1>1, BootAssumption
    <2>2. PICK t \in Path : t = Tail(path)
      BY <1>1, HeadTailProperties DEF Path
    <2>3. l \o t \in Path /\ l \o t # <<>>
      BY <2>1, <2>2, ConcatProperties, ConcatEqualIffEmpty DEF Path
    <2>. QED BY <1>1, <2>1, <2>2, <2>3 DEF Real
  <1>2. CASE ~(path # <<>> /\ path[1] \in DOMAIN Links)
    BY <1>2 DEF Real
  <1>. QED BY <1>1, <1>2

\* A path of two names or more is under the place its front leads to.
LEMMA FrontOfReal ==
  ASSUME NEW path \in Path, Len(path) > 1
  PROVE  Real(Front(path)) = Front(Real(path))
  <1>1. Len(path) \in Nat /\ path # <<>>
    BY EmptySeq, LenProperties DEF Path
  <1>2. PICK u \in Path : u = Front(path)
    BY <1>1, FrontPath
  <1>3. Len(u) = Len(path) - 1 /\ \A i \in 1..(Len(path) - 1) : u[i] = path[i]
    BY <1>1, <1>2, FrontPath
  <1>4. u # <<>> /\ u[1] = path[1]
    BY <1>1, <1>3, EmptySeq
  <1>5. CASE path[1] \in DOMAIN Links
    <2>1. PICK l \in Path : l = Links[path[1]] /\ l # <<>>
      BY <1>5, BootAssumption
    <2>2. PICK t \in Path : t = Tail(path)
      BY <1>1, HeadTailProperties DEF Path
    <2>3. Len(t) = Len(path) - 1 /\ \A i \in 1..Len(t) : t[i] = path[i + 1]
      BY <1>1, <2>2, HeadTailProperties DEF Path
    <2>4. PICK v \in Path : v = Tail(u)
      BY <1>4, HeadTailProperties DEF Path
    <2>5. Len(v) = Len(u) - 1 /\ \A i \in 1..Len(v) : v[i] = u[i + 1]
      BY <1>4, <2>4, HeadTailProperties DEF Path
    <2>6. Len(l) \in Nat \ {0} /\ Len(t) \in Nat /\ Len(v) \in Nat
      BY <2>1, EmptySeq, LenProperties DEF Path
    <2>7. PICK x \in Path : x = l \o t
      BY <2>1, <2>2, ConcatProperties DEF Path
    <2>8. Len(x) = Len(l) + Len(t)
          /\ \A i \in 1..(Len(l) + Len(t)) : x[i] = IF i <= Len(l) THEN l[i] ELSE t[i - Len(l)]
      BY <2>7, ConcatProperties DEF Path
    <2>9. PICK y \in Path : y = l \o v
      BY <2>1, <2>4, ConcatProperties DEF Path
    <2>10. Len(y) = Len(l) + Len(v)
           /\ \A i \in 1..(Len(l) + Len(v)) : y[i] = IF i <= Len(l) THEN l[i] ELSE v[i - Len(l)]
      BY <2>9, ConcatProperties DEF Path
    <2>11. x # <<>>
      BY <2>6, <2>8, EmptySeq
    <2>12. PICK z \in Path : z = Front(x)
      BY <2>11, FrontPath
    <2>13. Len(z) = Len(x) - 1 /\ \A i \in 1..(Len(x) - 1) : z[i] = x[i]
      BY <2>11, <2>12, FrontPath
    <2>14. Len(z) = Len(y)
      BY <1>1, <1>3, <2>3, <2>5, <2>6, <2>8, <2>10, <2>13
    <2>15. ASSUME NEW i \in 1..Len(z) PROVE z[i] = y[i]
      <3>1. i \in Nat /\ i >= 1 /\ i <= Len(l) + Len(v) /\ Len(t) = Len(v) + 1
        BY <1>1, <1>3, <2>3, <2>5, <2>6, <2>10, <2>14
      <3>2. CASE i <= Len(l)
        BY <3>1, <3>2, <2>6, <2>8, <2>10, <2>13
      <3>3. CASE i > Len(l)
        <4>1. i - Len(l) \in 1..Len(v)
          BY <3>1, <3>3, <2>6
        <4>2. i - Len(l) \in 1..Len(t) /\ i - Len(l) + 1 \in 1..(Len(path) - 1)
          BY <4>1, <3>1, <2>6, <2>3, <1>1
        <4>3. z[i] = t[i - Len(l)] /\ y[i] = v[i - Len(l)]
          BY <3>1, <3>3, <2>6, <2>8, <2>10, <2>13
        <4>. QED BY <4>1, <4>2, <4>3, <1>3, <2>3, <2>5
      <3>. QED BY <3>1, <3>2, <3>3, <2>6
    <2>16. z = y
      BY <2>14, <2>15, SeqEqual DEF Path
    <2>17. Real(path) = x
      BY <1>1, <1>5, <2>1, <2>2, <2>7 DEF Real
    <2>18. Real(u) = y
      BY <1>4, <1>5, <2>1, <2>4, <2>9 DEF Real
    <2>. QED BY <1>2, <2>12, <2>16, <2>17, <2>18
  <1>6. CASE path[1] \notin DOMAIN Links
    BY <1>1, <1>2, <1>4, <1>6 DEF Real
  <1>. QED BY <1>5, <1>6

-----------------------------------------------------------------------------
(* What can be at a place.                                                   *)

LEMMA ContentShapes ==
  ASSUME NEW c \in Content
  PROVE  /\ c.is \in {"absent", "empty", "mixed", "dir", "ledger", "key", "json"}
         /\ c.is = "absent" <=> c = Absent
         /\ c.is = "empty" <=> c = EmptyFile
         /\ c.is = "mixed" <=> c = Mixed
         /\ c.is \in {"dir", "ledger"} => c.lines \in Seq(STRING)
         /\ c.is = "dir" <=> c = Dir(c.lines)
         /\ c.is = "ledger" <=> c = LedgerFile(c.lines)
         /\ c.is = "key" <=> c = KeyFile(c.key)
         /\ c.is = "key" => c.key \in STRING
         /\ c.is = "json" <=> c = Json(c.held)
  <1>1. CASE c \in [is : {"absent", "empty", "mixed"}]
    BY <1>1 DEF Absent, EmptyFile, Mixed, Dir, LedgerFile, KeyFile, Json
  <1>2. CASE c \in [is : {"dir", "ledger"}, lines : Seq(STRING)]
    BY <1>2 DEF Absent, EmptyFile, Mixed, Dir, LedgerFile, KeyFile, Json
  <1>3. CASE c \in [is : {"key"}, key : STRING]
    BY <1>3 DEF Absent, EmptyFile, Mixed, Dir, LedgerFile, KeyFile, Json
  <1>4. CASE c \in [is : {"json"}, held : {"nothing", "missions", "another shape"}]
    <2>1. PICK h : c = [is |-> "json", held |-> h]
      BY <1>4
    <2>. QED BY <2>1 DEF Absent, EmptyFile, Mixed, Dir, LedgerFile, KeyFile, Json
  <1>5. \/ c \in [is : {"absent", "empty", "mixed"}]
        \/ c \in [is : {"dir", "ledger"}, lines : Seq(STRING)]
        \/ c \in [is : {"key"}, key : STRING]
        \/ c \in [is : {"json"}, held : {"nothing", "missions", "another shape"}]
    BY DEF Content
  <1>. QED BY <1>1, <1>2, <1>3, <1>4, <1>5

LEMMA Contents ==
  /\ Absent \in Content /\ EmptyFile \in Content /\ Mixed \in Content
  /\ \A lines \in Seq(STRING) : Dir(lines) \in Content /\ LedgerFile(lines) \in Content
  /\ \A key \in STRING : KeyFile(key) \in Content
  /\ \A held \in {"nothing", "missions"} : Json(held) \in Content
  BY DEF Content, Absent, EmptyFile, Mixed, Dir, LedgerFile, KeyFile, Json

LEMMA ContentIs ==
  /\ Absent.is = "absent" /\ EmptyFile.is = "empty" /\ Mixed.is = "mixed"
  /\ \A lines : Dir(lines).is = "dir" /\ Dir(lines).lines = lines
  /\ \A lines : LedgerFile(lines).is = "ledger" /\ LedgerFile(lines).lines = lines
  /\ \A key : KeyFile(key).is = "key" /\ KeyFile(key).key = key
  /\ \A held : Json(held).is = "json" /\ Json(held).held = held
  BY DEF Absent, EmptyFile, Mixed, Dir, LedgerFile, KeyFile, Json

-----------------------------------------------------------------------------
(* Places.                                                                   *)

LEMMA Places ==
  ASSUME BootTypeOK
  PROVE  /\ DOMAIN disk \subseteq Path /\ <<>> \in DOMAIN disk /\ DATABASE \in DOMAIN disk
         /\ \A s \in DOMAIN disk : Front(s) \in DOMAIN disk /\ disk[s] \in Content
         /\ \A n \in DOMAIN Links : Links[n] \in DOMAIN disk
         /\ \A f \in CommandLines : PlacesOf(f) \subseteq DOMAIN disk
  <1>1. PICK d \in DisksAtStart : DOMAIN disk = DOMAIN d
    BY DEF BootTypeOK
  <1>2. \A s \in DOMAIN disk : disk[s] \in Content
    BY DEF BootTypeOK
  <1>. QED BY <1>1, <1>2, BootAssumption

LEMMA FlagPaths ==
  ASSUME NEW f \in CommandLines
  PROVE  /\ f.key \in Path /\ f.dir \in Path
         /\ LedgerPath(f) \in Path /\ LedgerPath(f) # <<>>
         /\ MissionsPath(f) \in Path /\ MissionsPath(f) # <<>>
  <1>1. f \in CommandLine
    BY BootAssumption
  <1>2. /\ f.key \in Path /\ f.dir \in Path /\ f.ledger \in Path /\ f.missions \in Path
    BY <1>1 DEF CommandLine
  <1>3. ASSUME NEW x \in Name PROVE <<x>> \in Path /\ <<x>> # <<>>
    <2>1. Len(<<x>>) = 1 /\ Len(<<>>) = 0 /\ <<x>> \in Seq(Name)
      OBVIOUS
    <2>. QED BY <2>1 DEF Path
  <1>6. "ledger" \in Name /\ "missions" \in Name
    BY DEF Name
  <1>4. ASSUME NEW path \in Path PROVE Append(path, "missions") \in Path /\ Append(path, "missions") # <<>>
    <2>. PICK m \in Name : m = "missions"
      BY <1>6
    <2>1. Append(path, m) \in Seq(Name) /\ Len(Append(path, m)) = Len(path) + 1
      BY AppendProperties DEF Path
    <2>2. Len(path) \in Nat /\ Len(<<>>) = 0
      BY LenProperties, EmptySeq DEF Path
    <2>. QED BY <2>1, <2>2 DEF Path
  <1>5. DefaultMissionsPath(f) \in Path /\ DefaultMissionsPath(f) # <<>>
    <2>1. f.ledger # NoPath => Front(f.ledger) \in Path
      BY <1>2, FrontPath DEF NoPath
    <2>. QED BY <1>2, <1>3, <1>4, <1>6, <2>1 DEF DefaultMissionsPath
  <1>. QED BY <1>2, <1>3, <1>5, <1>6 DEF LedgerPath, MissionsPath, NoPath

LEMMA FlagPlaces ==
  ASSUME BootTypeOK, NEW f \in CommandLines
  PROVE  /\ Store(f) \in DOMAIN disk /\ Real(MissionsPath(f)) \in DOMAIN disk
         /\ Real(f.key) \in DOMAIN disk
  <1>1. PlacesOf(f) \subseteq DOMAIN disk /\ <<>> \in DOMAIN disk
    BY Places
  <1>2. f.key = NoPath => Real(f.key) = <<>>
    BY DEF Real, NoPath
  <1>. QED BY <1>1, <1>2 DEF PlacesOf

\* A path of one name is in the working directory, or is a link to a directory.
LEMMA OneName ==
  ASSUME NEW path \in Path, path # <<>>, ~(Len(path) > 1)
  PROVE  /\ Front(path) = <<>> /\ Real(Front(path)) = <<>>
         /\ Real(path) = path \/ \E n \in DOMAIN Links : Real(path) = Links[n]
  <1>1. Len(path) = 1
    <2>1. Len(path) \in Nat \ {0}
      BY EmptySeq DEF Path
    <2>. QED BY <2>1
  <1>2. Front(path) = <<>>
    BY <1>1, SubSeqEmpty DEF Front
  <1>3. Real(<<>>) = <<>>
    BY DEF Real
  <1>4. ASSUME path[1] \in DOMAIN Links PROVE Real(path) = Links[path[1]]
    <2>1. Tail(path) = <<>>
      <3>1. Tail(path) \in Seq(Name) /\ Len(Tail(path)) = 0
        BY <1>1, HeadTailProperties DEF Path
      <3>. QED BY <3>1, EmptySeq
    <2>2. Links[path[1]] \o <<>> = Links[path[1]]
      <3>1. Links[path[1]] \in Seq(Name)
        BY <1>4, BootAssumption DEF Path
      <3>. QED BY <3>1, ConcatEmptySeq
    <2>. QED BY <1>4, <2>1, <2>2 DEF Real
  <1>5. path[1] \notin DOMAIN Links => Real(path) = path
    BY DEF Real
  <1>. QED BY <1>2, <1>3, <1>4, <1>5

LEMMA FrontPlace ==
  ASSUME BootTypeOK, NEW path \in Path, Real(path) \in DOMAIN disk
  PROVE  Real(Front(path)) \in DOMAIN disk
  <1>1. CASE path = <<>>
    BY <1>1, RootFront
  <1>2. CASE path # <<>> /\ Len(path) > 1
    BY <1>2, FrontOfReal, Places
  <1>3. CASE path # <<>> /\ ~(Len(path) > 1)
    BY <1>3, OneName, Places
  <1>. QED BY <1>1, <1>2, <1>3

\* What a path is under, once its front is a directory.
LEMMA UnderDirectories ==
  ASSUME BootTypeOK, IsTree(disk), NEW path \in Path, path # <<>>,
         Real(path) \in DOMAIN disk, IsDir(Front(path)),
         NEW s \in DOMAIN disk, IsStrictPrefix(s, Real(path))
  PROVE  disk[s].is = "dir"
  <1>1. Real(path) \in Path /\ s \in Path
    BY Places
  <1>2. CASE Len(path) > 1
    <2>1. PICK x \in DOMAIN disk : x = Front(Real(path)) /\ disk[x].is = "dir"
      BY <1>2, FrontOfReal, FrontPlace DEF IsDir, At
    <2>2. s = x \/ IsStrictPrefix(s, x)
      BY <1>1, <2>1, PrefixOfFront
    <2>3. disk[x] # Absent
      BY <2>1, ContentIs
    <2>. QED BY <2>1, <2>2, <2>3 DEF IsTree
  <1>3. CASE ~(Len(path) > 1) /\ Real(path) # path
    <2>1. disk[Real(path)].is = "dir"
      BY <1>3, OneName DEF IsTree
    <2>. QED BY <2>1, ContentIs DEF IsTree
  <1>4. CASE ~(Len(path) > 1) /\ Real(path) = path
    <2>1. s = <<>> \/ IsStrictPrefix(s, <<>>)
      BY <1>1, <1>4, PrefixOfFront, OneName
    <2>2. s = <<>>
      <3>1. <<>> \in Path
        BY DEF Path
      <3>. QED BY <1>1, <2>1, <3>1, PrefixOfFront
    <2>. QED BY <2>2 DEF IsTree
  <1>. QED BY <1>2, <1>3, <1>4

LEMMA FrontOfWhatIsThere ==
  ASSUME BootTypeOK, IsTree(disk), NEW path \in Path, path # <<>>,
         Real(path) \in DOMAIN disk, disk[Real(path)] # Absent
  PROVE  IsDir(Front(path))
  <1>1. CASE Len(path) > 1
    <2>1. Real(path) \in Path /\ Real(path) # <<>>
      BY RealPath
    <2>2. IsStrictPrefix(Front(Real(path)), Real(path)) /\ Front(Real(path)) \in DOMAIN disk
      BY <2>1, FrontIsPrefix, Places
    <2>3. disk[Front(Real(path))].is = "dir"
      BY <2>2 DEF IsTree
    <2>. QED BY <1>1, <2>3, FrontOfReal DEF IsDir, At
  <1>2. CASE ~(Len(path) > 1)
    BY <1>2, OneName DEF IsDir, At, IsTree
  <1>. QED BY <1>1, <1>2

LEMMA WhatBlocks ==
  ASSUME BootTypeOK, IsTree(disk), NEW path \in Path, path # <<>>,
         Real(path) \in DOMAIN disk, disk[Real(path)] = Absent, Blocked(Real(path))
  PROVE  \/ Blocked(Front(Real(path)))
         \/ At(Front(path)).is \notin {"absent", "dir"}
  <1>1. PICK s \in DOMAIN disk : IsStrictPrefix(s, Real(path)) /\ disk[s].is \notin {"absent", "dir"}
    BY DEF Blocked, Above
  <1>2. Real(path) \in Path /\ s \in Path
    BY Places
  <1>3. s = Front(Real(path)) \/ IsStrictPrefix(s, Front(Real(path)))
    BY <1>1, <1>2, PrefixOfFront
  <1>4. CASE IsStrictPrefix(s, Front(Real(path)))
    BY <1>1, <1>4 DEF Blocked, Above
  <1>5. CASE s = Front(Real(path))
    <2>1. CASE Len(path) > 1
      BY <1>1, <1>5, <2>1, FrontOfReal DEF At
    <2>2. CASE ~(Len(path) > 1)
      <3>1. Real(path) = path
        BY <2>2, OneName, ContentIs DEF IsTree
      <3>. QED BY <1>1, <1>5, <2>2, <3>1, OneName DEF IsTree
    <2>. QED BY <2>1, <2>2
  <1>. QED BY <1>3, <1>4, <1>5

-----------------------------------------------------------------------------
(* What may be signed.                                                       *)

LEMMA NothingMayBeSigned ==
  ASSUME NEW key, NEW retired
  PROVE  MaySign(<<>>, key, retired)
  BY DEF MaySign, Range

LEMMA MaySignMore ==
  ASSUME NEW lines \in Seq(STRING), NEW key \in STRING, NEW retired, MaySign(lines, key, retired)
  PROVE  MaySign(Append(lines, key), key, retired)
  <1>1. PICK n \in Nat : n = Len(lines) /\ DOMAIN lines = 1..n
    BY LenProperties
  <1>2. PICK more \in Seq(STRING) : more = Append(lines, key)
    BY AppendProperties
  <1>3. Len(more) = n + 1 /\ DOMAIN more = 1..(n + 1)
    BY <1>1, <1>2, AppendProperties, LenProperties
  <1>4. (\A i \in 1..n : more[i] = lines[i]) /\ more[n + 1] = key
    <2>1. ASSUME NEW i \in 1..n PROVE more[i] = lines[i]
      <3>1. i \in 1..Len(lines) /\ i # Len(lines) + 1
        BY <1>1
      <3>2. Append(lines, key)[i] = lines[i]
        BY <3>1, AppendProperties
      <3>. QED BY <1>2, <3>2
    <2>2. more[n + 1] = key
      <3>1. Append(lines, key)[Len(lines) + 1] = key
        BY AppendProperties
      <3>. QED BY <1>1, <1>2, <3>1
    <2>. QED BY <2>1, <2>2
  <1>5. /\ \A i \in 1..n : lines[i] \in {key} \cup retired
        /\ \A i, j, k \in 1..n : i < j /\ j < k /\ lines[i] = lines[k] => lines[j] = lines[i]
        /\ \A i \in 1..n : lines[i] = key => lines[n] = key
    BY <1>1 DEF MaySign, Range, Last
  <1>6. \A i \in 1..(n + 1) : more[i] \in {key} \cup retired
    <2>1. \A i \in 1..(n + 1) : i \in 1..n \/ i = n + 1
      OBVIOUS
    <2>. QED BY <2>1, <1>4, <1>5
  <1>7. ASSUME NEW i \in 1..(n + 1), NEW j \in 1..(n + 1), NEW k \in 1..(n + 1),
               i < j, j < k, more[i] = more[k]
        PROVE  more[j] = more[i]
    <2>1. i \in 1..n /\ j \in 1..n
      BY <1>7
    <2>2. CASE k \in 1..n
      BY <2>1, <2>2, <1>4, <1>5, <1>7
    <2>3. CASE k = n + 1
      <3>1. lines[i] = key /\ lines[n] = key
        BY <2>1, <2>3, <1>4, <1>5, <1>7
      <3>2. n \in 1..n
        BY <2>1
      <3>3. lines[j] = key
        <4>1. j = n \/ j < n
          BY <2>1
        <4>. QED BY <4>1, <2>1, <3>1, <3>2, <1>5, <1>7
      <3>. QED BY <2>1, <3>1, <3>3, <1>4
    <2>. QED BY <2>2, <2>3
  <1>8. Last(more) = key
    BY <1>3, <1>4 DEF Last
  <1>. QED BY <1>2, <1>3, <1>6, <1>7, <1>8 DEF MaySign

-----------------------------------------------------------------------------
(* How a step may change the disk: own are the key files it writes or syncs, *)
(* held the stores it adds a record to.                                      *)

MayBecome(s, own, held) ==
    \/ disk'[s] = disk[s]
    \/ disk[s] = Absent
    \/ s \in own \cap risked /\ disk'[s].is \in {"key", "mixed"}
    \/ disk[s] = Json("nothing") /\ disk'[s] \in {EmptyFile, Json("missions")}
    \/ /\ s \in held
       /\ \/ disk[s].is = "dir" /\ disk'[s].is = "dir"
          \/ /\ disk[s].is \in {"empty", "ledger"} /\ disk'[s].is = "ledger"
             /\ s \in risked => s \in borrowed
          \/ disk[s].is \in {"key", "mixed"} /\ disk'[s] = Mixed /\ s \in borrowed

Evolves(own, held) ==
    /\ disk' \in [DOMAIN disk -> Content]
    /\ borrowed \subseteq borrowed'
    /\ \A s \in risked : s \in risked' \/ s \in own
    /\ \A s \in risked' : s \in risked \/ (s \in DOMAIN disk /\ disk[s] = Absent /\ disk'[s] = EmptyFile)
    /\ \A s \in DOMAIN disk : MayBecome(s, own, held)
    /\ \A t \in DOMAIN disk : disk[t] = Absent /\ disk'[t] # Absent =>
         \A s \in DOMAIN disk : IsStrictPrefix(s, t) => disk'[s].is = "dir"

LEMMA EvolvesAt ==
  ASSUME NEW own, NEW held, BootTypeOK, Evolves(own, held), NEW s \in DOMAIN disk
  PROVE  /\ disk[s] \in Content /\ disk'[s] \in Content /\ s \in DOMAIN disk'
         /\ s \in borrowed => s \in borrowed'
         /\ s \in risked => s \in risked' \/ s \in own
         /\ s \in risked' => s \in risked \/ (disk[s] = Absent /\ disk'[s] = EmptyFile)
         /\ MayBecome(s, own, held)
  BY DEF Evolves, BootTypeOK

LEMMA DirsStay ==
  ASSUME NEW own, NEW held, BootTypeOK, RiskedAreFiles, Evolves(own, held),
         NEW s \in DOMAIN disk, disk[s].is = "dir"
  PROVE  disk'[s].is = "dir"
  BY EvolvesAt, ContentIs DEF MayBecome, RiskedAreFiles

LEMMA RiskedStayFiles ==
  ASSUME NEW own, NEW held, BootTypeOK, RiskedAreFiles, Evolves(own, held)
  PROVE  RiskedAreFiles'
  <1>. SUFFICES ASSUME NEW s \in risked' PROVE disk'[s].is \in {"empty", "key", "ledger", "mixed"}
    BY DEF RiskedAreFiles
  <1>1. CASE s \in risked
    <2>1. s \in DOMAIN disk /\ disk[s].is \in {"empty", "key", "ledger", "mixed"}
      BY <1>1 DEF BootTypeOK, RiskedAreFiles
    <2>. QED BY <2>1, EvolvesAt, ContentIs DEF MayBecome
  <1>2. CASE s \notin risked
    BY <1>2, ContentIs DEF Evolves
  <1>. QED BY <1>1, <1>2

LEMMA TreeStays ==
  ASSUME NEW own, NEW held, BootTypeOK, RiskedAreFiles, Evolves(own, held), IsTree(disk)
  PROVE  IsTree(disk')
  <1>1. disk'[<<>>].is = "dir" /\ disk'[DATABASE].is = "dir"
    BY DirsStay, Places DEF IsTree
  <1>2. \A n \in DOMAIN Links : disk'[Links[n]].is = "dir"
    BY DirsStay, Places DEF IsTree
  <1>3. DOMAIN disk' = DOMAIN disk
    BY DEF Evolves
  <1>4. ASSUME NEW s \in DOMAIN disk, NEW t \in DOMAIN disk, IsStrictPrefix(s, t), disk'[t] # Absent
        PROVE  disk'[s].is = "dir"
    <2>1. CASE disk[t] = Absent
      BY <1>4, <2>1 DEF Evolves
    <2>2. CASE disk[t] # Absent
      BY <1>4, <2>2, DirsStay DEF IsTree
    <2>. QED BY <2>1, <2>2
  <1>. QED BY <1>1, <1>2, <1>3, <1>4 DEF IsTree

LEMMA PathStaysDir ==
  ASSUME NEW own, NEW held, BootTypeOK, RiskedAreFiles, Evolves(own, held),
         NEW path \in Path, Real(path) \in DOMAIN disk, IsDir(path)
  PROVE  IsDir(path)'
  BY DirsStay DEF IsDir, At

LEMMA DirsInvStays ==
  ASSUME NEW own, NEW held, BootTypeOK, RiskedAreFiles, Evolves(own, held),
         NEW f \in CommandLines, DirsInv(f)
  PROVE  DirsInv(f)'
  <1>1. ASSUME f.key # NoPath PROVE IsDir(Front(f.key))'
    <2>1. Front(f.key) \in Path /\ Real(Front(f.key)) \in DOMAIN disk
      BY <1>1, FlagPaths, FlagPlaces, FrontPath, FrontPlace DEF NoPath
    <2>. QED BY <1>1, <2>1, PathStaysDir DEF DirsInv
  <1>2. ASSUME f.sharded = "no" PROVE IsDir(Front(LedgerPath(f)))'
    <2>1. Store(f) = Real(LedgerPath(f))
      BY <1>2 DEF Store
    <2>2. Front(LedgerPath(f)) \in Path /\ Real(Front(LedgerPath(f))) \in DOMAIN disk
      BY <2>1, FlagPaths, FlagPlaces, FrontPath, FrontPlace
    <2>. QED BY <1>2, <2>2, PathStaysDir DEF DirsInv
  <1>. QED BY <1>1, <1>2 DEF DirsInv

LEMMA RegistryStays ==
  ASSUME NEW own, NEW held, BootTypeOK, RiskedAreFiles, Evolves(own, held),
         NEW f \in CommandLines, RegistryKept(f)
  PROVE  RegistryKept(f)'
  <1>1. PICK m \in DOMAIN disk : m = Real(MissionsPath(f))
    BY FlagPlaces
  <1>2. \/ disk[m] \in {Json("nothing"), Json("missions")}
        \/ disk[m].is \in {"empty", "ledger"} /\ m \notin risked
    BY <1>1 DEF RegistryKept
  <1>3. m \notin risked
    BY <1>2, ContentIs DEF RiskedAreFiles
  <1>4. disk[m] # Absent
    BY <1>2, ContentIs
  <1>5. m \notin risked'
    BY <1>3, <1>4, EvolvesAt
  <1>6. \/ disk'[m] \in {Json("nothing"), Json("missions")}
        \/ disk'[m].is \in {"empty", "ledger"}
    BY <1>2, <1>3, <1>4, EvolvesAt, ContentIs DEF MayBecome
  <1>. QED BY <1>1, <1>5, <1>6 DEF RegistryKept

\* A key file that can no longer be undone stays as it is.
LEMMA KeyStays ==
  ASSUME NEW own, NEW held, BootTypeOK, RiskedAreFiles, Evolves(own, held),
         NEW f \in CommandLines, KeyIsKept(f)',
         Real(f.key) \notin risked, disk[Real(f.key)].is = "key"
  PROVE  KeyIsKept(f) /\ Real(f.key) \notin risked' /\ disk'[Real(f.key)] = disk[Real(f.key)]
  <1>1. PICK k \in DOMAIN disk : k = Real(f.key)
    BY FlagPlaces
  <1>2. k \notin borrowed' /\ k \notin borrowed
    BY <1>1, EvolvesAt DEF KeyIsKept
  <1>3. disk[k] # Absent
    BY <1>1, ContentIs
  <1>. QED BY <1>1, <1>2, <1>3, EvolvesAt, ContentIs DEF MayBecome, KeyIsKept

LEMMA KeyOnDiskStays ==
  ASSUME NEW own, NEW held, BootTypeOK, RiskedAreFiles, Evolves(own, held),
         NEW f \in CommandLines, NEW key, KeyOnDisk(f, key)
  PROVE  KeyOnDisk(f, key)'
  <1>. SUFFICES ASSUME KeyIsKept(f)'
                PROVE  Real(f.key) \notin risked' /\ disk'[Real(f.key)] = KeyFile(key)
    BY DEF KeyOnDisk
  <1>1. KeyIsKept(f)
    BY EvolvesAt, FlagPlaces DEF KeyIsKept
  <1>2. Real(f.key) \notin risked /\ disk[Real(f.key)] = KeyFile(key)
    BY <1>1 DEF KeyOnDisk
  <1>. QED BY <1>2, KeyStays, ContentIs

LEMMA HeldStays ==
  ASSUME NEW own, NEW held, BootTypeOK, RiskedAreFiles, Evolves(own, held),
         NEW q \in Starters, NEW f \in CommandLines, boots'[q].key = boots[q].key,
         Store(f) \notin held, HeldInv(q, f)
  PROVE  HeldInv(q, f)'
  <1>1. PICK s \in DOMAIN disk : s = Store(f)
    BY FlagPlaces
  <1>2. /\ disk[s].is \in {"empty", "ledger", "key", "mixed"}
        /\ s \notin borrowed => s \notin risked /\ disk[s].is \in {"empty", "ledger"}
        /\ MaySign(Lines(f), boots[q].key, f.retired)
    BY <1>1 DEF HeldInv
  <1>3. disk[s] # Absent /\ disk[s] # Json("nothing")
    BY <1>2, ContentIs
  <1>4. disk'[s] = disk[s] \/ (s \in risked /\ disk'[s].is \in {"key", "mixed"})
    BY <1>1, <1>3, EvolvesAt DEF MayBecome
  <1>5. disk'[s].is \in {"empty", "ledger", "key", "mixed"}
    BY <1>2, <1>4
  <1>6. s \notin borrowed' => s \notin risked' /\ disk'[s].is \in {"empty", "ledger"}
    BY <1>2, <1>3, <1>4, EvolvesAt
  <1>7. MaySign(Lines(f)', boots'[q].key, f.retired)
    <2>1. CASE disk'[s] = disk[s]
      <3>1. Lines(f)' = Lines(f)
        BY <1>1, <2>1 DEF Lines
      <3>. QED BY <1>2, <3>1
    <2>2. CASE disk'[s].is \in {"key", "mixed"}
      <3>1. Lines(f)' = <<>>
        BY <1>1, <2>2 DEF Lines
      <3>. QED BY <3>1, NothingMayBeSigned
    <2>. QED BY <1>4, <2>1, <2>2
  <1>. QED BY <1>1, <1>5, <1>6, <1>7 DEF HeldInv

LEMMA KeyInvStays ==
  ASSUME NEW own, NEW held, BootTypeOK, RiskedAreFiles, Evolves(own, held),
         NEW q \in Starters, NEW f \in CommandLines, boots'[q] = boots[q],
         Started(q, f), KeyInv(q, f), \A s \in own : ~WritesKey(q, s)
  PROVE  KeyInv(q, f)'
  <1>1. PICK k \in DOMAIN disk : k = Real(f.key)
    BY FlagPlaces
  <1>2. ASSUME boots[q].pc \in {"fill", "sync"}
        PROVE  k \in risked' /\ (k \in borrowed' \/ (k \notin borrowed /\ disk'[k] = disk[k]))
    <2>1. k \in risked
      BY <1>1, <1>2 DEF KeyInv
    <2>2. k \notin own
      BY <1>1, <1>2 DEF WritesKey, Started
    <2>3. disk[k].is \in {"empty", "key", "ledger", "mixed"}
      BY <2>1 DEF RiskedAreFiles
    <2>4. disk[k] # Absent /\ disk[k] # Json("nothing") /\ disk[k].is # "dir"
      BY <2>3, ContentIs
    <2>5. \/ disk'[k] = disk[k]
          \/ k \in borrowed
      BY <2>1, <2>2, <2>4, EvolvesAt DEF MayBecome
    <2>. QED BY <2>1, <2>2, <2>5, EvolvesAt
  <1>3. KeyOnDisk(f, boots[q].key) => KeyOnDisk(f, boots[q].key)'
    <2>1. PICK key : key = boots[q].key
      OBVIOUS
    <2>2. KeyOnDisk(f, key) => KeyOnDisk(f, key)'
      BY KeyOnDiskStays
    <2>. QED BY <2>1, <2>2 DEF KeyOnDisk
  <1>4. boots'[q].pc \in {"fill", "sync"} => k \in risked' /\ boots'[q].wrote # {}
    BY <1>1, <1>2 DEF KeyInv
  <1>5. boots'[q].pc = "fill" => k \in borrowed' \/ disk'[k] = EmptyFile
    BY <1>1, <1>2 DEF KeyInv
  <1>6. boots'[q].pc = "sync" => k \in borrowed' \/ disk'[k] = KeyFile(boots'[q].key)
    BY <1>1, <1>2 DEF KeyInv
  <1>7. boots'[q].pc \in {"open", "registry", "serving"} => KeyOnDisk(f, boots[q].key)'
    BY <1>3 DEF KeyInv
  <1>8. /\ boots'[q].pc \in {"create", "fill", "sync"} => f.key # NoPath
        /\ boots'[q].pc \in {"create", "fill", "sync", "open", "registry", "serving"}
             => boots'[q].key \in STRING
    BY DEF KeyInv
  <1>. QED BY <1>1, <1>4, <1>5, <1>6, <1>7, <1>8 DEF KeyInv

LEMMA OpenedInvStays ==
  ASSUME NEW own, NEW held, BootTypeOK, RiskedAreFiles, Evolves(own, held),
         NEW q \in Starters, NEW f \in CommandLines, boots'[q] = boots[q],
         Started(q, f), OpenedInv(q, f), \A s \in held : ~HoldsLedger(q, s)
  PROVE  OpenedInv(q, f)'
  <1>1. ASSUME boots[q].pc \in {"registry", "serving"}, f.sharded = "no" PROVE HeldInv(q, f)'
    <2>1. Store(f) \notin held
      BY <1>1 DEF HoldsLedger, Started
    <2>. QED BY <1>1, <2>1, HeldStays DEF OpenedInv
  <1>2. ASSUME boots[q].pc \in {"registry", "serving"}, f.sharded # "no" PROVE disk'[Store(f)].is = "dir"
    BY <1>2, DirsStay, FlagPlaces DEF OpenedInv
  <1>3. ASSUME boots[q].pc = "serving" PROVE RegistryKept(f)'
    BY <1>3, RegistryStays DEF OpenedInv
  <1>. QED BY <1>1, <1>2, <1>3 DEF OpenedInv

\* What a step of another process leaves of a start.
LEMMA OtherStart ==
  ASSUME NEW own, NEW held, BootTypeOK, RiskedAreFiles, Evolves(own, held),
         NEW q \in Starters, NEW f \in CommandLines, boots'[q] = boots[q],
         Started(q, f), StartInv(q, f),
         \A s \in own : ~WritesKey(q, s), \A s \in held : ~HoldsLedger(q, s)
  PROVE  StartInv(q, f)'
  <1>1. KeyInv(q, f)' /\ OpenedInv(q, f)'
    BY KeyInvStays, OpenedInvStays DEF StartInv
  <1>2. Checked(q)' => DirsInv(f)'
    BY DirsInvStays DEF StartInv, Checked
  <1>. QED BY <1>1, <1>2 DEF StartInv

LEMMA LedgerStays ==
  ASSUME NEW own, NEW held, BootTypeOK, RiskedAreFiles, Evolves(own, held),
         NEW f \in CommandLines, NEW s \in DOMAIN disk, s \notin held, LedgerInv(s, f)
  PROVE  LedgerInv(s, f)'
  <1>1. PICK k \in DOMAIN disk : k = Real(f.key)
    BY FlagPlaces
  <1>2. FlagsOk(f) /\ Store(f) = s
    BY DEF LedgerInv
  <1>3. ASSUME KeyIsKept(f)'
        PROVE  /\ KeyIsKept(f) /\ k \notin risked' /\ disk'[k].is = "key"
               /\ disk'[k] = disk[k]
    <2>1. KeyIsKept(f)
      BY <1>1, <1>3, EvolvesAt DEF KeyIsKept
    <2>. QED BY <1>1, <1>3, <2>1, KeyStays DEF LedgerInv
  <1>4. ASSUME s \notin borrowed'
        PROVE  /\ s \notin risked' /\ disk'[s].is = (IF f.sharded = "no" THEN "ledger" ELSE "dir")
               /\ Lines(f)' # <<>>
               /\ KeyIsKept(f)' => MaySign(Lines(f)', disk'[k].key, f.retired)
    <2>1. s \notin borrowed
      BY <1>4, EvolvesAt
    <2>2. /\ s \notin risked /\ disk[s].is = (IF f.sharded = "no" THEN "ledger" ELSE "dir")
          /\ Lines(f) # <<>>
          /\ KeyIsKept(f) => MaySign(Lines(f), disk[k].key, f.retired)
      BY <1>1, <2>1 DEF LedgerInv, RecordsInv
    <2>3. disk[s] # Absent /\ disk[s] # Json("nothing")
      BY <2>2, ContentIs
    <2>4. disk'[s] = disk[s] /\ s \notin risked'
      BY <2>2, <2>3, EvolvesAt DEF MayBecome
    <2>5. Lines(f)' = Lines(f)
      BY <1>2, <2>4 DEF Lines
    <2>. QED BY <1>3, <2>2, <2>4, <2>5
  <1>5. RecordsInv(s, f)'
    BY <1>1, <1>4 DEF RecordsInv
  <1>6. RegistryKept(f)'
    BY RegistryStays DEF LedgerInv
  <1>. QED BY <1>1, <1>2, <1>3, <1>5, <1>6 DEF LedgerInv

LEMMA ApartStays ==
  ASSUME NEW p \in Starters, Apart, DOMAIN disk' = DOMAIN disk,
         \A q \in Starters : q # p => boots'[q] = boots[q],
         \A s \in DOMAIN disk : WritesKey(p, s)' /\ ~WritesKey(p, s) =>
             \A q \in Starters : ~WritesKey(q, s),
         \A s \in DOMAIN disk : HoldsLedger(p, s)' /\ ~HoldsLedger(p, s) =>
             \A q \in Starters : ~HoldsLedger(q, s)
  PROVE  Apart'
  <1>. SUFFICES ASSUME NEW a \in Starters, NEW b \in Starters, NEW s \in DOMAIN disk
                PROVE  /\ WritesKey(a, s)' /\ WritesKey(b, s)' => a = b
                       /\ HoldsLedger(a, s)' /\ HoldsLedger(b, s)' => a = b
    BY DEF Apart
  <1>1. \A q \in Starters : q # p => (WritesKey(q, s)' <=> WritesKey(q, s))
    BY DEF WritesKey
  <1>2. \A q \in Starters : q # p => (HoldsLedger(q, s)' <=> HoldsLedger(q, s))
    BY DEF HoldsLedger
  <1>. QED BY <1>1, <1>2 DEF Apart

-----------------------------------------------------------------------------
(* How a step may change the starts.                                         *)

Running(p, f) == ~NotRunning(p) /\ boots[p].flags = f

BootsMove(p) ==
    /\ boots' \in [Starters -> {Off} \cup StartRecord]
    /\ \A q \in Starters \ {p} : boots'[q] = boots[q]

Goes(p, pc, key, wrote) ==
    /\ BootsMove(p)
    /\ boots'[p] \in StartRecord
    /\ boots'[p].pc = pc /\ boots'[p].key = key /\ boots'[p].wrote = wrote
    /\ boots'[p].flags = boots[p].flags /\ boots'[p].alone = boots[p].alone

Ends(p) == BootsMove(p) /\ boots'[p] = Off

LEMMA StartRecords ==
  ASSUME BootTypeOK, NEW p \in Starters
  PROVE  /\ boots[p].pc # "off" => boots[p] \in StartRecord /\ boots[p].flags \in CommandLines
         /\ boots[p].pc = "off" => boots[p] = Off
         /\ boots \in [Starters -> {Off} \cup StartRecord]
         /\ ~NotRunning(p) => boots[p].pc # "off"
  <1>1. boots[p] = Off \/ boots[p] \in StartRecord
    BY DEF BootTypeOK
  <1>2. Off.pc = "off"
    BY DEF Off
  <1>3. boots[p] \in StartRecord => boots[p].flags \in CommandLines /\ boots[p].pc # "off"
    BY DEF StartRecord
  <1>. QED BY <1>1, <1>2, <1>3 DEF BootTypeOK, NotRunning

StartAt == {"look", "paths", "bind", "key", "create", "fill", "sync", "open", "registry", "serving",
            "refused", "failed"}

LEMMA ToGoes ==
  ASSUME BootTypeOK, NEW p \in Starters, boots[p].pc # "off", NEW pc \in StartAt, To(p, pc)
  PROVE  Goes(p, pc, boots[p].key, boots[p].wrote)
  <1>1. PICK b \in StartRecord : b = boots[p]
    BY StartRecords
  <1>2. [b EXCEPT !.pc = pc] \in StartRecord
    BY DEF StartRecord, StartAt
  <1>3. boots' = [boots EXCEPT ![p] = [b EXCEPT !.pc = pc]]
    BY <1>1 DEF To
  <1>4. BootsMove(p) /\ boots'[p] = [b EXCEPT !.pc = pc]
    BY <1>2, <1>3, StartRecords DEF BootsMove
  <1>. QED BY <1>1, <1>2, <1>4 DEF Goes, StartRecord

LEMMA KeyedGoes ==
  ASSUME BootTypeOK, NEW p \in Starters, boots[p].pc # "off", NEW pc \in StartAt, NEW key \in STRING,
         boots' = [boots EXCEPT ![p].pc = pc, ![p].key = key]
  PROVE  Goes(p, pc, key, boots[p].wrote)
  <1>1. PICK b \in StartRecord : b = boots[p]
    BY StartRecords
  <1>2. [b EXCEPT !.pc = pc, !.key = key] \in StartRecord
    BY DEF StartRecord, StartAt
  <1>3. boots' = [boots EXCEPT ![p] = [b EXCEPT !.pc = pc, !.key = key]]
    BY <1>1
  <1>4. BootsMove(p) /\ boots'[p] = [b EXCEPT !.pc = pc, !.key = key]
    BY <1>2, <1>3, StartRecords DEF BootsMove
  <1>. QED BY <1>1, <1>2, <1>4 DEF Goes, StartRecord

LEMMA WroteGoes ==
  ASSUME BootTypeOK, NEW p \in Starters, boots[p].pc # "off", NEW pc \in StartAt, NEW place \in Path,
         boots' = [boots EXCEPT ![p].pc = pc, ![p].wrote = @ \cup {place}]
  PROVE  Goes(p, pc, boots[p].key, boots[p].wrote \cup {place})
  <1>1. PICK b \in StartRecord : b = boots[p]
    BY StartRecords
  <1>2. PICK w \in SUBSET Path : w = b.wrote \cup {place}
    BY DEF StartRecord
  <1>3. [b EXCEPT !.pc = pc, !.wrote = w] \in StartRecord
    BY DEF StartRecord, StartAt
  <1>4. boots' = [boots EXCEPT ![p] = [b EXCEPT !.pc = pc, !.wrote = w]]
    BY <1>1, <1>2
  <1>5. PICK c \in StartRecord : c = [b EXCEPT !.pc = pc, !.wrote = w]
    BY <1>3
  <1>6. c.pc = pc /\ c.wrote = w /\ c.key = b.key /\ c.flags = b.flags /\ c.alone = b.alone
    BY <1>5 DEF StartRecord
  <1>7. BootsMove(p) /\ boots'[p] = c
    BY <1>4, <1>5, StartRecords DEF BootsMove
  <1>. QED BY <1>1, <1>2, <1>6, <1>7 DEF Goes

LEMMA RefusedGoes ==
  ASSUME BootTypeOK, NEW p \in Starters, boots[p].pc # "off", Refused(p)
  PROVE  \/ boots[p].wrote = {} /\ Ends(p)
         \/ boots[p].wrote # {} /\ Goes(p, "refused", boots[p].key, boots[p].wrote)
  <1>1. PICK b \in StartRecord : b = boots[p]
    BY StartRecords
  <1>2. CASE b.wrote = {}
    <2>1. boots' = [boots EXCEPT ![p] = Off]
      BY <1>1, <1>2 DEF Refused
    <2>. QED BY <1>1, <1>2, <2>1, StartRecords DEF Ends, BootsMove
  <1>3. CASE b.wrote # {}
    <2>1. [b EXCEPT !.pc = "refused"] \in StartRecord
      BY DEF StartRecord
    <2>2. boots' = [boots EXCEPT ![p] = [b EXCEPT !.pc = "refused"]]
      BY <1>1, <1>3 DEF Refused
    <2>3. BootsMove(p) /\ boots'[p] = [b EXCEPT !.pc = "refused"]
      BY <2>1, <2>2, StartRecords DEF BootsMove
    <2>. QED BY <1>1, <1>3, <2>1, <2>3 DEF Goes, StartRecord
  <1>. QED BY <1>2, <1>3

-----------------------------------------------------------------------------
(* A step of one start keeps the invariant.                                  *)

\* Nobody else writes the keys, or holds the stores, that a step of p changes.
Owned(p, own, held) ==
    \A q \in Starters \ {p} :
        (\A s \in own : ~WritesKey(q, s)) /\ (\A s \in held : ~HoldsLedger(q, s))

\* What p begins to write or to hold, nobody writes or holds.
Claims(p) ==
    \A s \in DOMAIN disk :
        /\ WritesKey(p, s)' /\ ~WritesKey(p, s) => \A q \in Starters : ~WritesKey(q, s)
        /\ HoldsLedger(p, s)' /\ ~HoldsLedger(p, s) => \A q \in Starters : ~HoldsLedger(q, s)

Recorded(held) ==
    /\ extended' \in [DOMAIN extended' -> CommandLines]
    /\ \A s \in DOMAIN extended', f \in CommandLines : extended'[s] = f =>
         \/ s \in DOMAIN extended /\ extended[s] = f /\ s \notin held
         \/ LedgerInv(s, f)'

Kept(p, f) ==
    \/ boots'[p] = Off
    \/ /\ boots'[p] \in StartRecord
       /\ boots'[p].flags = f /\ boots'[p].alone = boots[p].alone
       /\ StartInv(p, f)'
       /\ boots[p].alone => AloneInv(p, f)'

LEMMA TypeStays ==
  ASSUME NEW own, NEW held, BootTypeOK, Evolves(own, held), NEW p \in Starters, BootsMove(p),
         made' \in 0..Len(KeyMaterial), Recorded(held)
  PROVE  BootTypeOK'
  <1>1. DOMAIN disk' = DOMAIN disk /\ disk' \in [DOMAIN disk' -> Content]
    BY DEF Evolves
  <1>2. risked' \subseteq DOMAIN disk'
    BY <1>1 DEF Evolves, BootTypeOK
  <1>3. \E d \in DisksAtStart : DOMAIN disk' = DOMAIN d
    BY <1>1 DEF BootTypeOK
  <1>. QED BY <1>1, <1>2, <1>3 DEF BootTypeOK, BootsMove, Recorded

LEMMA FilesStay ==
  ASSUME NEW own, NEW held, BootTypeOK, FilesInv, Evolves(own, held),
         NEW p \in Starters, NEW f \in CommandLines, Running(p, f), BootsMove(p),
         Owned(p, own, held), Claims(p), Recorded(held), Kept(p, f)
  PROVE  FilesInv'
  <1>1. RiskedAreFiles /\ IsTree(disk) /\ Apart
    BY DEF FilesInv
  <1>2. RiskedAreFiles' /\ IsTree(disk')
    BY <1>1, RiskedStayFiles, TreeStays
  <1>3. Apart'
    <2>1. DOMAIN disk' = DOMAIN disk
      BY DEF Evolves
    <2>2. \A q \in Starters : q # p => boots'[q] = boots[q]
      BY DEF BootsMove
    <2>. QED BY <1>1, <2>1, <2>2, ApartStays DEF Claims
  <1>4. ASSUME NEW q \in Starters, NEW g \in CommandLines, Started(q, g)'
        PROVE  StartInv(q, g)'
    <2>1. CASE q = p
      <3>1. Off.pc = "off"
        BY DEF Off
      <3>2. boots'[p] # Off
        BY <1>4, <2>1, <3>1 DEF Started
      <3>3. g = f /\ StartInv(p, f)'
        BY <1>4, <2>1, <3>2 DEF Kept, Started
      <3>. QED BY <2>1, <3>3
    <2>2. CASE q # p
      <3>1. boots'[q] = boots[q]
        BY <2>2 DEF BootsMove
      <3>2. Started(q, g)
        BY <1>4, <3>1 DEF Started
      <3>3. StartInv(q, g)
        BY <3>2 DEF FilesInv
      <3>4. (\A s \in own : ~WritesKey(q, s)) /\ (\A s \in held : ~HoldsLedger(q, s))
        BY <2>2 DEF Owned
      <3>. QED BY <1>1, <3>1, <3>2, <3>3, <3>4, OtherStart
    <2>. QED BY <2>1, <2>2
  <1>5. ASSUME NEW s \in DOMAIN extended', NEW g \in CommandLines, extended'[s] = g
        PROVE  LedgerInv(s, g)'
    <2>1. CASE s \in DOMAIN extended /\ extended[s] = g /\ s \notin held
      <3>1. LedgerInv(s, g)
        BY <2>1 DEF FilesInv
      <3>2. s \in DOMAIN disk
        BY <3>1, FlagPlaces DEF LedgerInv
      <3>. QED BY <1>1, <2>1, <3>1, <3>2, LedgerStays
    <2>. QED BY <1>5, <2>1 DEF Recorded
  <1>. QED BY <1>2, <1>3, <1>4, <1>5 DEF FilesInv

LEMMA ChecksStay ==
  ASSUME BootTypeOK, ChecksInv,
         NEW p \in Starters, NEW f \in CommandLines, Running(p, f), BootsMove(p), Kept(p, f)
  PROVE  ChecksInv'
  <1>1. Off.pc = "off"
    BY DEF Off
  <1>. SUFFICES ASSUME NEW a \in Starters, Alone(a)'
                PROVE  /\ \A q \in Starters \ {a} : NotRunning(q)'
                       /\ \A g \in CommandLines : boots'[a].flags = g => AloneInv(a, g)'
    BY DEF ChecksInv
  <1>2. CASE a # p
    <2>1. Alone(a)
      BY <1>2 DEF Alone, BootsMove
    <2>2. NotRunning(p)
      BY <1>2, <2>1 DEF ChecksInv
    <2>. QED BY <2>2 DEF Running
  <1>3. CASE a = p
    <2>1. boots'[p] # Off /\ boots'[p].alone
      BY <1>1, <1>3 DEF Alone
    <2>2. boots[p].alone /\ boots'[p].flags = f /\ AloneInv(p, f)'
      BY <2>1 DEF Kept
    <2>3. Alone(p)
      BY <2>2 DEF Alone, Running, NotRunning
    <2>4. \A q \in Starters \ {p} : NotRunning(q)
      BY <2>3 DEF ChecksInv
    <2>5. \A q \in Starters \ {p} : NotRunning(q)'
      BY <2>4 DEF BootsMove, NotRunning
    <2>. QED BY <1>3, <2>2, <2>5
  <1>. QED BY <1>2, <1>3

LEMMA StepKeeps ==
  ASSUME NEW own, NEW held, BootInv, Evolves(own, held),
         NEW p \in Starters, NEW f \in CommandLines, Running(p, f), BootsMove(p),
         Owned(p, own, held), Claims(p), Recorded(held), Kept(p, f), made' \in 0..Len(KeyMaterial)
  PROVE  BootInv'
  BY TypeStays, FilesStay, ChecksStay DEF BootInv

LEMMA AsStarted ==
  ASSUME BootInv, NEW p \in Starters, NEW f \in CommandLines, Running(p, f)
  PROVE  /\ BootTypeOK /\ FilesInv /\ ChecksInv /\ boots[p].pc # "off"
         /\ Started(p, f) /\ StartInv(p, f)
         /\ boots[p].alone => Alone(p) /\ AloneInv(p, f)
         /\ \A q \in Starters \ {p} : boots[p].alone => NotRunning(q)
  BY DEF BootInv, FilesInv, ChecksInv, Running, NotRunning, Started, Alone

LEMMA QuietEvolves ==
  ASSUME BootTypeOK, disk' = disk, risked' = risked, borrowed \subseteq borrowed'
  PROVE  Evolves({}, {})
  <1>1. \A t \in DOMAIN disk : disk[t] = Absent /\ disk'[t] # Absent => FALSE
    OBVIOUS
  <1>. QED BY <1>1 DEF Evolves, MayBecome, BootTypeOK

LEMMA NoneOwned ==
  ASSUME NEW p
  PROVE  Owned(p, {}, {})
  BY DEF Owned

LEMMA NoneRecorded ==
  ASSUME BootTypeOK, extended' = extended
  PROVE  Recorded({})
  BY DEF Recorded, BootTypeOK

LEMMA NoClaims ==
  ASSUME BootTypeOK, NEW p \in Starters, NEW f \in CommandLines, Running(p, f),
         \/ boots'[p] = Off
         \/ /\ boots'[p].flags = boots[p].flags
            /\ boots'[p].pc \in {"fill", "sync"} => boots[p].pc \in {"fill", "sync"}
            /\ boots'[p].pc \in {"registry", "serving"} => boots[p].pc \in {"registry", "serving"}
  PROVE  Claims(p)
  <1>1. Off.pc = "off"
    BY DEF Off
  <1>. QED BY <1>1 DEF Claims, WritesKey, HoldsLedger

\* A step that leaves the disk as it is.
LEMMA QuietKeeps ==
  ASSUME BootInv, NEW p \in Starters, NEW f \in CommandLines, Running(p, f), BootsMove(p),
         disk' = disk, risked' = risked, borrowed \subseteq borrowed', extended' = extended,
         made' \in 0..Len(KeyMaterial), Claims(p), Kept(p, f)
  PROVE  BootInv'
  <1>1. BootTypeOK
    BY DEF BootInv
  <1>. QED BY <1>1, QuietEvolves, NoneOwned, NoneRecorded, StepKeeps

LEMMA EndedInv ==
  ASSUME NEW p \in Starters, NEW f \in CommandLines, FlagsOk(f), boots'[p].pc \in {"refused", "failed"}
  PROVE  StartInv(p, f)'
  BY DEF StartInv, Checked, KeyInv, OpenedInv

LEMMA FlagsWereOk ==
  ASSUME BootInv, NEW p \in Starters, NEW f \in CommandLines, Running(p, f)
  PROVE  FlagsOk(f)
  BY AsStarted DEF StartInv

LEMMA SameDisk ==
  ASSUME disk' = disk, NEW f
  PROVE  /\ LooksRight(f)' <=> LooksRight(f)
         /\ StoreIsNew(f)' <=> StoreIsNew(f)
         /\ RegistryIsOpen(f)' <=> RegistryIsOpen(f)
         /\ OnlyOpeningReveals(f)' <=> OnlyOpeningReveals(f)
         /\ DirsInv(f)' <=> DirsInv(f)
         /\ Exists(f.key)' <=> Exists(f.key)
  BY DEF LooksRight, HasRecords, StoreIsNew, RegistryIsOpen, OnlyOpeningReveals, DirsInv, Exists, At,
         IsDir, Lines, Blocked, Above

LEMMA RefusedKeeps ==
  ASSUME BootInv, NEW p \in Starters, NEW f \in CommandLines, Running(p, f), Refused(p),
         disk' = disk, risked' = risked, borrowed \subseteq borrowed', extended' = extended, made' = made,
         boots[p].alone /\ boots[p].wrote # {} => OnlyOpeningReveals(f)
  PROVE  BootInv'
  <1>1. BootTypeOK /\ boots[p].pc # "off" /\ boots[p].flags = f
    BY AsStarted DEF Running
  <1>2. made' \in 0..Len(KeyMaterial)
    BY <1>1 DEF BootTypeOK
  <1>3. CASE Ends(p)
    <2>1. Kept(p, f) /\ BootsMove(p)
      BY <1>3 DEF Kept, Ends
    <2>2. Claims(p)
      BY <1>1, <1>3, NoClaims DEF Ends
    <2>. QED BY <1>2, <2>1, <2>2, QuietKeeps
  <1>4. CASE boots[p].wrote # {} /\ Goes(p, "refused", boots[p].key, boots[p].wrote)
    <2>1. /\ BootsMove(p) /\ boots'[p] \in StartRecord
          /\ boots'[p].pc = "refused" /\ boots'[p].flags = f /\ boots'[p].alone = boots[p].alone
      BY <1>1, <1>4 DEF Goes
    <2>2. StartInv(p, f)'
      BY <2>1, EndedInv, FlagsWereOk
    <2>3. boots[p].alone => OnlyOpeningReveals(f)'
      BY <1>4, SameDisk
    <2>4. boots[p].alone => AloneInv(p, f)'
      BY <2>1, <2>3 DEF AloneInv, Checked
    <2>5. Kept(p, f)
      BY <2>1, <2>2, <2>4 DEF Kept
    <2>6. Claims(p)
      BY <1>1, <2>1, NoClaims
    <2>. QED BY <1>2, <2>1, <2>5, <2>6, QuietKeeps
  <1>. QED BY <1>1, <1>3, <1>4, RefusedGoes

\* A step of p that only moves on.
LEMMA PassedKeeps ==
  ASSUME BootInv, NEW p \in Starters, NEW f \in CommandLines, Running(p, f),
         NEW pc \in StartAt, NEW key, NEW wrote, Goes(p, pc, key, wrote),
         disk' = disk, risked' = risked, borrowed \subseteq borrowed', extended' = extended,
         made' \in 0..Len(KeyMaterial), Claims(p), StartInv(p, f)',
         boots[p].alone => AloneInv(p, f)'
  PROVE  BootInv'
  <1>1. BootsMove(p) /\ Kept(p, f)
    BY DEF Goes, Kept, Running
  <1>. QED BY <1>1, QuietKeeps

LEMMA LookKeeps ==
  ASSUME BootInv, NEW p \in Starters, Look(p)
  PROVE  BootInv'
  <1>1. boots[p].pc = "look" /\ ~NotRunning(p)
    BY DEF Look, NotRunning
  <1>2. PICK f \in CommandLines : f = boots[p].flags
    BY <1>1, StartRecords DEF BootInv
  <1>3. Running(p, f) /\ BootTypeOK /\ FlagsOk(f)
    BY <1>1, <1>2, AsStarted, FlagsWereOk DEF Running
  <1>4. boots[p].wrote = {}
    BY <1>1, <1>3, AsStarted DEF StartInv
  <1>5. disk' = disk /\ risked' = risked /\ borrowed' = borrowed /\ extended' = extended /\ made' = made
    BY DEF Look
  <1>6. CASE Refused(p)
    BY <1>3, <1>4, <1>5, <1>6, RefusedKeeps
  <1>7. CASE LooksRight(f) /\ To(p, "paths")
    <2>1. Goes(p, "paths", boots[p].key, boots[p].wrote) /\ "paths" \in StartAt
      BY <1>1, <1>3, <1>7, ToGoes DEF StartAt
    <2>2. boots'[p].pc = "paths" /\ boots'[p].wrote = {} /\ boots'[p].flags = boots[p].flags
      BY <1>4, <2>1 DEF Goes
    <2>3. StartInv(p, f)'
      BY <1>3, <2>2 DEF StartInv, Checked, KeyInv, OpenedInv
    <2>4. LooksRight(f)'
      BY <1>5, <1>7, SameDisk
    <2>5. AloneInv(p, f)'
      BY <2>2, <2>4 DEF AloneInv, Checked
    <2>6. Claims(p)
      BY <1>3, <2>2, NoClaims
    <2>7. made' \in 0..Len(KeyMaterial)
      BY <1>3, <1>5 DEF BootTypeOK
    <2>. QED BY <1>3, <1>5, <2>1, <2>3, <2>5, <2>6, <2>7, PassedKeeps
  <1>. QED BY <1>2, <1>6, <1>7 DEF Look, Passing

LEMMA CheckPathsKeeps ==
  ASSUME BootInv, NEW p \in Starters, CheckPaths(p)
  PROVE  BootInv'
  <1>1. boots[p].pc = "paths" /\ ~NotRunning(p)
    BY DEF CheckPaths, NotRunning
  <1>2. PICK f \in CommandLines : f = boots[p].flags
    BY <1>1, StartRecords DEF BootInv
  <1>3. Running(p, f) /\ BootTypeOK /\ FlagsOk(f)
    BY <1>1, <1>2, AsStarted, FlagsWereOk DEF Running
  <1>4. boots[p].wrote = {} /\ (boots[p].alone => LooksRight(f))
    BY <1>1, <1>3, AsStarted DEF StartInv, AloneInv
  <1>5. disk' = disk /\ risked' = risked /\ borrowed' = borrowed /\ extended' = extended /\ made' = made
    BY DEF CheckPaths
  <1>6. CASE Refused(p)
    BY <1>3, <1>4, <1>5, <1>6, RefusedKeeps
  <1>7. CASE PathsRight(f) /\ To(p, "bind")
    <2>1. Goes(p, "bind", boots[p].key, boots[p].wrote) /\ "bind" \in StartAt
      BY <1>1, <1>3, <1>7, ToGoes DEF StartAt
    <2>2. boots'[p].pc = "bind" /\ boots'[p].wrote = {} /\ boots'[p].flags = boots[p].flags
      BY <1>4, <2>1 DEF Goes
    <2>3. DirsInv(f)
      BY <1>7 DEF PathsRight, WritablePath, DirsInv
    <2>4. StartInv(p, f)'
      BY <1>3, <1>5, <2>2, <2>3, SameDisk DEF StartInv, KeyInv, OpenedInv
    <2>5. RegistryIsOpen(f)
      <3>1. Exists(Front(MissionsPath(f))) => IsDir(Front(MissionsPath(f)))
        BY <1>7 DEF PathsRight, RegistryPath
      <3>. QED BY <3>1, ContentIs DEF RegistryIsOpen, Exists, IsDir
    <2>6. boots[p].alone => AloneInv(p, f)'
      BY <1>4, <1>5, <2>2, <2>5, SameDisk DEF AloneInv
    <2>7. Claims(p)
      BY <1>3, <2>2, NoClaims
    <2>8. made' \in 0..Len(KeyMaterial)
      BY <1>3, <1>5 DEF BootTypeOK
    <2>. QED BY <1>3, <1>5, <2>1, <2>4, <2>6, <2>7, <2>8, PassedKeeps
  <1>. QED BY <1>2, <1>6, <1>7 DEF CheckPaths, Passing

LEMMA BindAddressKeeps ==
  ASSUME BootInv, NEW p \in Starters, BindAddress(p)
  PROVE  BootInv'
  <1>1. boots[p].pc = "bind" /\ ~NotRunning(p)
    BY DEF BindAddress, NotRunning
  <1>2. PICK f \in CommandLines : f = boots[p].flags
    BY <1>1, StartRecords DEF BootInv
  <1>3. Running(p, f) /\ BootTypeOK /\ FlagsOk(f)
    BY <1>1, <1>2, AsStarted, FlagsWereOk DEF Running
  <1>4. /\ boots[p].wrote = {} /\ DirsInv(f)
        /\ boots[p].alone => LooksRight(f) /\ RegistryIsOpen(f)
    BY <1>1, <1>3, AsStarted DEF StartInv, AloneInv, Checked
  <1>5. disk' = disk /\ risked' = risked /\ borrowed' = borrowed /\ extended' = extended /\ made' = made
    BY DEF BindAddress
  <1>6. CASE Refused(p)
    BY <1>3, <1>4, <1>5, <1>6, RefusedKeeps
  <1>7. CASE To(p, "key")
    <2>1. Goes(p, "key", boots[p].key, boots[p].wrote) /\ "key" \in StartAt
      BY <1>1, <1>3, <1>7, ToGoes DEF StartAt
    <2>2. boots'[p].pc = "key" /\ boots'[p].wrote = {} /\ boots'[p].flags = boots[p].flags
      BY <1>4, <2>1 DEF Goes
    <2>3. StartInv(p, f)'
      BY <1>3, <1>4, <1>5, <2>2, SameDisk DEF StartInv, KeyInv, OpenedInv
    <2>4. boots[p].alone => AloneInv(p, f)'
      BY <1>4, <1>5, <2>2, SameDisk DEF AloneInv
    <2>5. Claims(p)
      BY <1>3, <2>2, NoClaims
    <2>6. made' \in 0..Len(KeyMaterial)
      BY <1>3, <1>5 DEF BootTypeOK
    <2>. QED BY <1>3, <1>5, <2>1, <2>3, <2>4, <2>5, <2>6, PassedKeeps
  <1>. QED BY <1>6, <1>7 DEF BindAddress

LEMMA GenerateGoes ==
  ASSUME BootTypeOK, NEW p \in Starters, boots[p].pc # "off", NEW pc \in StartAt, Generate(p, pc)
  PROVE  /\ \E key \in STRING : Goes(p, pc, key, boots[p].wrote)
         /\ made' \in 0..Len(KeyMaterial)
  <1>1. Len(KeyMaterial) \in Nat /\ made \in Nat /\ made + 1 \in 1..Len(KeyMaterial)
    BY BootAssumption, LenProperties DEF BootTypeOK, Generate
  <1>2. PICK key \in STRING : key = KeyMaterial[made + 1]
    BY <1>1, BootAssumption, ElementOfSeq
  <1>3. boots' = [boots EXCEPT ![p].pc = pc, ![p].key = key]
    BY <1>2 DEF Generate
  <1>4. Goes(p, pc, key, boots[p].wrote)
    BY <1>3, KeyedGoes
  <1>5. made' \in 0..Len(KeyMaterial)
    BY <1>1 DEF Generate
  <1>. QED BY <1>4, <1>5

LEMMA LoadSigningKeyKeeps ==
  ASSUME BootInv, NEW p \in Starters, LoadSigningKey(p)
  PROVE  BootInv'
  <1>1. boots[p].pc = "key" /\ ~NotRunning(p)
    BY DEF LoadSigningKey, NotRunning
  <1>2. PICK f \in CommandLines : f = boots[p].flags
    BY <1>1, StartRecords DEF BootInv
  <1>3. Running(p, f) /\ BootTypeOK /\ FlagsOk(f) /\ boots[p].pc # "off"
    BY <1>1, <1>2, AsStarted, FlagsWereOk DEF Running
  <1>4. /\ boots[p].wrote = {} /\ DirsInv(f)
        /\ boots[p].alone => LooksRight(f) /\ RegistryIsOpen(f)
    BY <1>1, <1>3, AsStarted DEF StartInv, AloneInv, Checked
  <1>5. disk' = disk /\ risked' = risked /\ extended' = extended
    BY DEF LoadSigningKey
  <1>6. CASE f.key = NoPath /\ Generate(p, "open") /\ UNCHANGED borrowed
    <2>1. "open" \in StartAt
      BY DEF StartAt
    <2>2. PICK key \in STRING : Goes(p, "open", key, boots[p].wrote)
      BY <1>3, <1>6, <2>1, GenerateGoes
    <2>3. made' \in 0..Len(KeyMaterial)
      BY <1>3, <1>6, <2>1, GenerateGoes
    <2>4. /\ boots'[p].pc = "open" /\ boots'[p].wrote = {} /\ boots'[p].flags = boots[p].flags
          /\ boots'[p].key \in STRING
      BY <1>4, <2>2 DEF Goes
    <2>5. ~KeyIsKept(f)'
      <3>1. Len(f.key) = 0
        BY <1>6, EmptySeq DEF NoPath
      <3>. QED BY <3>1 DEF KeyIsKept
    <2>6. StartInv(p, f)'
      BY <1>3, <1>4, <1>5, <2>4, <2>5, SameDisk DEF StartInv, KeyInv, OpenedInv, KeyOnDisk
    <2>7. boots[p].alone => AloneInv(p, f)'
      BY <1>4, <1>5, <2>4, SameDisk DEF AloneInv
    <2>8. Claims(p)
      BY <1>3, <2>4, NoClaims
    <2>9. borrowed \subseteq borrowed'
      BY <1>6
    <2>. QED BY <1>3, <1>5, <2>1, <2>2, <2>3, <2>6, <2>7, <2>8, <2>9, PassedKeeps
  <1>7. CASE f.key # NoPath /\ ~Exists(f.key) /\ Generate(p, "create") /\ UNCHANGED borrowed
    <2>1. "create" \in StartAt
      BY DEF StartAt
    <2>2. PICK key \in STRING : Goes(p, "create", key, boots[p].wrote)
      BY <1>3, <1>7, <2>1, GenerateGoes
    <2>3. made' \in 0..Len(KeyMaterial)
      BY <1>3, <1>7, <2>1, GenerateGoes
    <2>4. /\ boots'[p].pc = "create" /\ boots'[p].wrote = {} /\ boots'[p].flags = boots[p].flags
          /\ boots'[p].key \in STRING
      BY <1>4, <2>2 DEF Goes
    <2>5. StartInv(p, f)'
      BY <1>3, <1>4, <1>5, <1>7, <2>4, SameDisk DEF StartInv, KeyInv, OpenedInv
    <2>6. boots[p].alone => AloneInv(p, f)'
      BY <1>4, <1>5, <1>7, <2>4, SameDisk DEF AloneInv
    <2>7. Claims(p)
      BY <1>3, <2>4, NoClaims
    <2>8. borrowed \subseteq borrowed'
      BY <1>7
    <2>. QED BY <1>3, <1>5, <2>1, <2>2, <2>3, <2>5, <2>6, <2>7, <2>8, PassedKeeps
  <1>8. CASE /\ f.key # NoPath /\ Exists(f.key) /\ UNCHANGED made
             /\ borrowed' = borrowed \cup ({Real(f.key)} \cap risked)
    <2>1. borrowed \subseteq borrowed' /\ made' = made /\ made' \in 0..Len(KeyMaterial)
      BY <1>3, <1>8 DEF BootTypeOK
    <2>2. CASE Refused(p)
      BY <1>3, <1>4, <1>5, <2>1, <2>2, RefusedKeeps
    <2>3. CASE /\ At(f.key).is = "key"
               /\ boots' = [boots EXCEPT ![p].pc = "open", ![p].key = At(f.key).key]
      <3>1. PICK key \in STRING : key = At(f.key).key /\ At(f.key) = KeyFile(key)
        BY <1>3, <2>3, FlagPlaces, Places, ContentShapes DEF At
      <3>2. Goes(p, "open", key, boots[p].wrote) /\ "open" \in StartAt
        BY <1>3, <2>3, <3>1, KeyedGoes DEF StartAt
      <3>3. /\ boots'[p].pc = "open" /\ boots'[p].wrote = {} /\ boots'[p].flags = boots[p].flags
            /\ boots'[p].key = key
        BY <1>4, <3>2 DEF Goes
      <3>4. KeyIsKept(f)' => Real(f.key) \notin risked /\ disk[Real(f.key)] = KeyFile(key)
        BY <1>8, <3>1 DEF KeyIsKept, At
      <3>5. StartInv(p, f)'
        BY <1>3, <1>4, <1>5, <3>3, <3>4, SameDisk DEF StartInv, KeyInv, OpenedInv, KeyOnDisk
      <3>6. boots[p].alone => AloneInv(p, f)'
        BY <1>4, <1>5, <3>3, SameDisk DEF AloneInv
      <3>7. Claims(p)
        BY <1>3, <3>3, NoClaims
      <3>. QED BY <1>3, <1>5, <2>1, <3>2, <3>5, <3>6, <3>7, PassedKeeps
    <2>. QED BY <1>2, <1>8, <2>2, <2>3, <1>1 DEF LoadSigningKey
  <1>. QED BY <1>2, <1>6, <1>7, <1>8 DEF LoadSigningKey

LEMMA SaveFailedKeeps ==
  ASSUME BootInv, NEW p \in Starters, SaveFailed(p)
  PROVE  BootInv'
  <1>1. boots[p].pc \in {"fill", "sync"} /\ ~NotRunning(p)
    BY DEF SaveFailed, NotRunning
  <1>2. PICK f \in CommandLines : f = boots[p].flags
    BY <1>1, StartRecords DEF BootInv
  <1>3. Running(p, f) /\ BootTypeOK /\ FlagsOk(f)
    BY <1>1, <1>2, AsStarted, FlagsWereOk DEF Running
  <1>4. disk' = disk /\ risked' = risked /\ borrowed' = borrowed /\ extended' = extended /\ made' = made
    BY DEF SaveFailed
  <1>5. Goes(p, "failed", boots[p].key, boots[p].wrote) /\ "failed" \in StartAt
    BY <1>1, <1>3, ToGoes DEF SaveFailed, StartAt
  <1>6. boots'[p].pc = "failed" /\ boots'[p].flags = boots[p].flags
    BY <1>5 DEF Goes
  <1>7. StartInv(p, f)'
    BY <1>3, <1>6, EndedInv
  <1>8. AloneInv(p, f)'
    BY <1>6 DEF AloneInv, Checked
  <1>9. Claims(p)
    BY <1>3, <1>6, NoClaims
  <1>10. made' \in 0..Len(KeyMaterial)
    BY <1>3, <1>4 DEF BootTypeOK
  <1>. QED BY <1>3, <1>4, <1>5, <1>7, <1>8, <1>9, <1>10, PassedKeeps

LEMMA EndProcessKeeps ==
  ASSUME BootInv, NEW p \in Starters, EndProcess(p)
  PROVE  BootInv'
  <1>1. ~NotRunning(p) /\ boots' = [boots EXCEPT ![p] = Off]
    BY DEF EndProcess
  <1>2. PICK f \in CommandLines : f = boots[p].flags
    BY <1>1, StartRecords DEF BootInv
  <1>3. Running(p, f) /\ BootTypeOK
    BY <1>1, <1>2 DEF Running, BootInv
  <1>4. disk' = disk /\ risked' = risked /\ borrowed' = borrowed /\ extended' = extended /\ made' = made
    BY DEF EndProcess
  <1>5. BootsMove(p) /\ boots'[p] = Off
    BY <1>1, <1>3, StartRecords DEF BootsMove
  <1>6. Kept(p, f)
    BY <1>5 DEF Kept
  <1>7. Claims(p)
    BY <1>3, <1>5, NoClaims
  <1>8. made' \in 0..Len(KeyMaterial)
    BY <1>3, <1>4 DEF BootTypeOK
  <1>. QED BY <1>3, <1>4, <1>5, <1>6, <1>7, <1>8, QuietKeeps

-----------------------------------------------------------------------------
(* The key file.                                                             *)

LEMMA WritersRisk ==
  ASSUME BootInv, NEW q \in Starters, NEW s, WritesKey(q, s)
  PROVE  s \in risked
  <1>1. boots[q].pc \in {"fill", "sync"} /\ Real(boots[q].flags.key) = s
    BY DEF WritesKey
  <1>2. PICK f \in CommandLines : f = boots[q].flags
    BY <1>1, StartRecords DEF BootInv
  <1>3. Running(q, f)
    BY <1>1, <1>2 DEF Running, NotRunning
  <1>. QED BY <1>1, <1>2, <1>3, AsStarted DEF StartInv, KeyInv

LEMMA NewStore ==
  ASSUME BootTypeOK, NEW f \in CommandLines, FlagsOk(f), LooksRight(f), ~Exists(f.key)
  PROVE  StoreIsNew(f)
  <1>1. PICK s \in DOMAIN disk : s = Store(f) /\ disk[s] \in Content
    BY FlagPlaces, Places
  <1>2. ~HasRecords(f)
    BY DEF LooksRight
  <1>3. CASE f.sharded = "no"
    BY <1>2, <1>3 DEF HasRecords, StoreIsNew, Store, At
  <1>4. CASE f.sharded = "dir"
    <2>1. Lines(f) = <<>>
      BY <1>2, <1>4 DEF HasRecords
    <2>2. s = Real(f.dir)
      BY <1>1, <1>4 DEF Store
    <2>3. disk[s] # Absent => disk[s].is = "dir"
      BY <1>4, <2>2 DEF LooksRight, Exists, IsDir, At
    <2>4. disk[s].is = "dir" => disk[s].lines = <<>>
      BY <1>1, <2>1 DEF Lines
    <2>5. disk[s].is = "dir" => disk[s] = Dir(disk[s].lines)
      BY <1>1, ContentShapes
    <2>. QED BY <1>1, <1>4, <2>3, <2>4, <2>5 DEF StoreIsNew
  <1>5. CASE f.sharded = "postgres"
    BY <1>5 DEF StoreIsNew
  <1>. QED BY <1>3, <1>4, <1>5 DEF FlagsOk

\* What the checks found is still so while the start writes its own key.
LEMMA KeyAlone ==
  ASSUME BootTypeOK, NEW f \in CommandLines, NEW k, k = Real(f.key),
         \A s \in DOMAIN disk : s # k => disk'[s] = disk[s]
  PROVE  /\ StoreIsNew(f) => StoreIsNew(f)'
         /\ RegistryIsOpen(f) => RegistryIsOpen(f)'
  <1>1. Store(f) \in DOMAIN disk
    BY FlagPlaces
  <1>2. PICK a \in DOMAIN disk : a = Real(Front(MissionsPath(f)))
    BY FlagPaths, FlagPlaces, FrontPlace
  <1>3. StoreIsNew(f) => StoreIsNew(f)'
    BY <1>1 DEF StoreIsNew
  <1>4. RegistryIsOpen(f) => RegistryIsOpen(f)'
    BY <1>2 DEF RegistryIsOpen, At
  <1>. QED BY <1>3, <1>4

LEMMA CreateKeyKeeps ==
  ASSUME BootInv, NEW p \in Starters, CreateKey(p)
  PROVE  BootInv'
  <1>1. boots[p].pc = "create" /\ ~NotRunning(p)
    BY DEF CreateKey, NotRunning
  <1>2. PICK f \in CommandLines : f = boots[p].flags
    BY <1>1, StartRecords DEF BootInv
  <1>3. Running(p, f) /\ BootTypeOK /\ FlagsOk(f) /\ boots[p].pc # "off" /\ FilesInv
    BY <1>1, <1>2, AsStarted, FlagsWereOk DEF Running
  <1>4. /\ boots[p].wrote = {} /\ DirsInv(f) /\ f.key # NoPath /\ boots[p].key \in STRING
        /\ boots[p].alone => LooksRight(f) /\ RegistryIsOpen(f) /\ ~Exists(f.key)
    BY <1>1, <1>3, AsStarted DEF StartInv, AloneInv, Checked, KeyInv
  <1>5. borrowed' = borrowed /\ extended' = extended /\ made' = made /\ made' \in 0..Len(KeyMaterial)
    BY <1>3 DEF CreateKey, BootTypeOK
  <1>6. PICK k \in DOMAIN disk : k = Real(f.key)
    BY <1>3, FlagPlaces
  <1>7. CASE Refused(p) /\ UNCHANGED <<disk, risked>>
    BY <1>3, <1>4, <1>5, <1>7, RefusedKeeps
  <1>8. CASE disk[k] = Absent /\ Write(p, k, EmptyFile, "fill") /\ risked' = risked \cup {k}
    <2>1. k \in Path /\ "fill" \in StartAt
      BY <1>3, <1>6, Places DEF StartAt
    <2>2. Goes(p, "fill", boots[p].key, boots[p].wrote \cup {k})
      BY <1>3, <1>8, <2>1, WroteGoes DEF Write
    <2>3. /\ BootsMove(p) /\ boots'[p] \in StartRecord /\ boots'[p].pc = "fill"
          /\ boots'[p].flags = f /\ boots'[p].key = boots[p].key /\ boots'[p].wrote # {}
          /\ boots'[p].alone = boots[p].alone
      BY <1>2, <2>2 DEF Goes
    <2>4. disk' = [disk EXCEPT ![k] = EmptyFile]
      BY <1>8 DEF Write
    <2>5. disk' \in [DOMAIN disk -> Content] /\ disk'[k] = EmptyFile
          /\ \A s \in DOMAIN disk : s # k => disk'[s] = disk[s]
      BY <1>3, <2>4, Contents DEF BootTypeOK
    <2>6. ASSUME NEW s \in DOMAIN disk, IsStrictPrefix(s, k) PROVE disk'[s].is = "dir"
      <3>1. IsDir(Front(f.key)) /\ IsTree(disk) /\ f.key \in Path /\ f.key # <<>>
        BY <1>3, <1>4, FlagPaths DEF DirsInv, FilesInv, NoPath
      <3>2. disk[s].is = "dir"
        BY <1>3, <1>6, <2>6, <3>1, UnderDirectories
      <3>3. s # k
        BY <2>6 DEF IsStrictPrefix
      <3>. QED BY <2>5, <3>2, <3>3
    <2>7. Evolves({}, {})
      <3>1. \A s \in DOMAIN disk : MayBecome(s, {}, {})
        BY <1>8, <2>5 DEF MayBecome
      <3>2. \A t \in DOMAIN disk : disk[t] = Absent /\ disk'[t] # Absent => t = k
        BY <2>5
      <3>. QED BY <1>5, <1>6, <1>8, <2>5, <2>6, <3>1, <3>2 DEF Evolves
    <2>8. Claims(p)
      <3>1. ASSUME NEW q \in Starters PROVE ~WritesKey(q, k)
        <4>. SUFFICES ASSUME WritesKey(q, k) PROVE FALSE
          OBVIOUS
        <4>. QED BY <1>3, <1>8, WritersRisk, ContentIs DEF FilesInv, RiskedAreFiles
      <3>. QED BY <1>6, <2>3, <3>1 DEF Claims, WritesKey, HoldsLedger
    <2>9. DirsInv(f)'
      BY <1>3, <1>4, <2>7, DirsInvStays DEF FilesInv
    <2>10. StartInv(p, f)'
      BY <1>3, <1>4, <1>6, <1>8, <2>3, <2>5, <2>9 DEF StartInv, KeyInv, OpenedInv
    <2>11. boots[p].alone => StoreIsNew(f)' /\ RegistryIsOpen(f)'
      BY <1>3, <1>4, <1>6, <2>5, NewStore, KeyAlone
    <2>12. boots[p].alone => AloneInv(p, f)'
      BY <2>3, <2>11 DEF AloneInv
    <2>13. Kept(p, f)
      BY <2>3, <2>10, <2>12 DEF Kept
    <2>14. Recorded({})
      BY <1>3, <1>5, NoneRecorded
    <2>. QED BY <1>3, <1>5, <2>3, <2>7, <2>8, <2>13, <2>14, NoneOwned, StepKeeps
  <1>. QED BY <1>2, <1>6, <1>7, <1>8 DEF CreateKey

LEMMA OwnKey ==
  ASSUME BootInv, NEW p \in Starters, NEW f \in CommandLines, Running(p, f), NEW k \in DOMAIN disk,
         k = Real(f.key), boots[p].pc \in {"fill", "sync"}
  PROVE  Owned(p, {k}, {}) /\ k \in risked
  <1>1. WritesKey(p, k)
    BY DEF WritesKey, Running
  <1>2. \A q \in Starters \ {p} : ~WritesKey(q, k)
    BY <1>1 DEF BootInv, FilesInv, Apart
  <1>. QED BY <1>1, <1>2, WritersRisk DEF Owned

LEMMA FillKeyKeeps ==
  ASSUME BootInv, NEW p \in Starters, FillKey(p)
  PROVE  BootInv'
  <1>1. boots[p].pc = "fill" /\ ~NotRunning(p)
    BY DEF FillKey, NotRunning
  <1>2. PICK f \in CommandLines : f = boots[p].flags
    BY <1>1, StartRecords DEF BootInv
  <1>3. Running(p, f) /\ BootTypeOK /\ FlagsOk(f) /\ boots[p].pc # "off" /\ FilesInv
    BY <1>1, <1>2, AsStarted, FlagsWereOk DEF Running
  <1>4. PICK k \in DOMAIN disk : k = Real(f.key)
    BY <1>3, FlagPlaces
  <1>5. /\ boots[p].wrote # {} /\ DirsInv(f) /\ f.key # NoPath /\ boots[p].key \in STRING
        /\ k \in borrowed \/ disk[k] = EmptyFile
        /\ boots[p].alone => StoreIsNew(f) /\ RegistryIsOpen(f)
    BY <1>1, <1>3, <1>4, AsStarted DEF StartInv, AloneInv, Checked, KeyInv
  <1>6. risked' = risked /\ borrowed' = borrowed /\ extended' = extended /\ made' = made
        /\ made' \in 0..Len(KeyMaterial)
    BY <1>3 DEF FillKey, BootTypeOK
  <1>7. PICK c \in Content : c = IF disk[k] = EmptyFile THEN KeyFile(boots[p].key) ELSE Mixed
    BY <1>5, Contents
  <1>8. Write(p, k, c, "sync")
    BY <1>2, <1>4, <1>7 DEF FillKey
  <1>9. k \in Path /\ "sync" \in StartAt
    BY <1>3, Places DEF StartAt
  <1>10. Goes(p, "sync", boots[p].key, boots[p].wrote \cup {k})
    BY <1>3, <1>8, <1>9, WroteGoes DEF Write
  <1>11. /\ BootsMove(p) /\ boots'[p] \in StartRecord /\ boots'[p].pc = "sync"
         /\ boots'[p].flags = f /\ boots'[p].key = boots[p].key /\ boots'[p].wrote # {}
         /\ boots'[p].alone = boots[p].alone
    BY <1>2, <1>10 DEF Goes
  <1>12. disk' \in [DOMAIN disk -> Content] /\ disk'[k] = c
         /\ \A s \in DOMAIN disk : s # k => disk'[s] = disk[s]
    BY <1>3, <1>8 DEF BootTypeOK, Write
  <1>13. Owned(p, {k}, {}) /\ k \in risked
    BY <1>1, <1>3, <1>4, OwnKey
  <1>14. c.is \in {"key", "mixed"} /\ disk[k] # Absent
    BY <1>3, <1>7, <1>13, ContentIs DEF FilesInv, RiskedAreFiles
  <1>15. Evolves({k}, {})
    <2>1. \A s \in DOMAIN disk : MayBecome(s, {k}, {})
      BY <1>12, <1>13, <1>14 DEF MayBecome
    <2>2. \A t \in DOMAIN disk : disk[t] = Absent /\ disk'[t] # Absent => FALSE
      BY <1>12, <1>14
    <2>. QED BY <1>6, <1>12, <2>1, <2>2 DEF Evolves
  <1>16. Claims(p)
    BY <1>1, <1>3, <1>11, NoClaims DEF Running
  <1>17. DirsInv(f)'
    BY <1>3, <1>5, <1>15, DirsInvStays DEF FilesInv
  <1>18. k \in borrowed' \/ disk'[k] = KeyFile(boots'[p].key)
    BY <1>5, <1>6, <1>7, <1>11, <1>12
  <1>19. StartInv(p, f)'
    BY <1>3, <1>4, <1>5, <1>6, <1>11, <1>13, <1>17, <1>18 DEF StartInv, KeyInv, OpenedInv
  <1>20. boots[p].alone => StoreIsNew(f)' /\ RegistryIsOpen(f)'
    BY <1>3, <1>4, <1>5, <1>12, KeyAlone
  <1>21. boots[p].alone => AloneInv(p, f)'
    BY <1>11, <1>20 DEF AloneInv
  <1>22. Kept(p, f)
    BY <1>11, <1>19, <1>21 DEF Kept
  <1>23. Recorded({})
    BY <1>3, <1>6, NoneRecorded
  <1>. QED BY <1>3, <1>6, <1>11, <1>13, <1>15, <1>16, <1>22, <1>23, StepKeeps

LEMMA SyncKeyKeeps ==
  ASSUME BootInv, NEW p \in Starters, SyncKey(p)
  PROVE  BootInv'
  <1>1. boots[p].pc = "sync" /\ ~NotRunning(p)
    BY DEF SyncKey, NotRunning
  <1>2. PICK f \in CommandLines : f = boots[p].flags
    BY <1>1, StartRecords DEF BootInv
  <1>3. Running(p, f) /\ BootTypeOK /\ FlagsOk(f) /\ boots[p].pc # "off" /\ FilesInv
    BY <1>1, <1>2, AsStarted, FlagsWereOk DEF Running
  <1>4. PICK k \in DOMAIN disk : k = Real(f.key)
    BY <1>3, FlagPlaces
  <1>5. /\ boots[p].wrote # {} /\ DirsInv(f) /\ boots[p].key \in STRING
        /\ k \in borrowed \/ disk[k] = KeyFile(boots[p].key)
        /\ boots[p].alone => StoreIsNew(f) /\ RegistryIsOpen(f)
    BY <1>1, <1>3, <1>4, AsStarted DEF StartInv, AloneInv, Checked, KeyInv
  <1>6. disk' = disk /\ borrowed' = borrowed /\ extended' = extended /\ made' = made
        /\ made' \in 0..Len(KeyMaterial)
    BY <1>3 DEF SyncKey, BootTypeOK
  <1>7. risked' = IF Front(f.key) = <<>> THEN risked ELSE risked \ {k}
    BY <1>2, <1>4 DEF SyncKey
  <1>8. Goes(p, "open", boots[p].key, boots[p].wrote)
    <2>1. "open" \in StartAt
      BY DEF StartAt
    <2>. QED BY <1>3, <2>1, ToGoes DEF SyncKey
  <1>9. /\ BootsMove(p) /\ boots'[p] \in StartRecord /\ boots'[p].pc = "open"
        /\ boots'[p].flags = f /\ boots'[p].key = boots[p].key /\ boots'[p].wrote = boots[p].wrote
        /\ boots'[p].alone = boots[p].alone
    BY <1>2, <1>8 DEF Goes
  <1>10. Owned(p, {k}, {})
    BY <1>1, <1>3, <1>4, OwnKey
  <1>11. Evolves({k}, {})
    BY <1>3, <1>6, <1>7 DEF Evolves, MayBecome, BootTypeOK
  <1>12. Claims(p)
    BY <1>3, <1>9, NoClaims DEF Running
  <1>13. KeyIsKept(f) => k \notin risked' /\ disk[k] = KeyFile(boots[p].key)
    <2>. SUFFICES ASSUME KeyIsKept(f) PROVE k \notin risked' /\ disk[k] = KeyFile(boots[p].key)
      OBVIOUS
    <2>1. Len(f.key) > 1 /\ k \notin borrowed /\ f.key \in Path
      BY <1>4, FlagPaths DEF KeyIsKept
    <2>2. Front(f.key) # <<>>
      <3>1. f.key # <<>>
        BY <2>1, EmptySeq
      <3>2. Len(Front(f.key)) = Len(f.key) - 1 /\ Len(f.key) \in Nat
        BY <2>1, <3>1, FrontPath, LenProperties DEF Path
      <3>. QED BY <2>1, <3>2, EmptySeq
    <2>. QED BY <1>5, <1>7, <2>1, <2>2
  <1>14. KeyOnDisk(f, boots[p].key)'
    BY <1>4, <1>6, <1>9, <1>13 DEF KeyOnDisk, KeyIsKept
  <1>15. StartInv(p, f)'
    BY <1>3, <1>5, <1>6, <1>9, <1>14, SameDisk DEF StartInv, KeyInv, OpenedInv
  <1>16. boots[p].alone => AloneInv(p, f)'
    BY <1>5, <1>6, <1>9, SameDisk DEF AloneInv
  <1>17. Kept(p, f)
    BY <1>9, <1>15, <1>16 DEF Kept
  <1>18. Recorded({})
    BY <1>3, <1>6, NoneRecorded
  <1>. QED BY <1>3, <1>6, <1>9, <1>10, <1>11, <1>12, <1>17, <1>18, StepKeeps

-----------------------------------------------------------------------------
(* The ledger, the store and the registry.                                   *)

LEMMA LedgerAlone ==
  ASSUME BootTypeOK, NEW f \in CommandLines, NEW l, l = Real(LedgerPath(f)),
         \A s \in DOMAIN disk : s # l => disk'[s] = disk[s], RegistryIsOpen(f)
  PROVE  RegistryIsOpen(f)'
  <1>1. PICK a \in DOMAIN disk : a = Real(Front(MissionsPath(f)))
    BY FlagPaths, FlagPlaces, FrontPlace
  <1>. QED BY <1>1 DEF RegistryIsOpen, At

LEMMA OpenKeyStays ==
  ASSUME NEW own, NEW held, BootTypeOK, RiskedAreFiles, Evolves(own, held),
         NEW p \in Starters, NEW f \in CommandLines, KeyOnDisk(f, boots[p].key),
         boots'[p].key = boots[p].key
  PROVE  KeyOnDisk(f, boots[p].key)'
  <1>1. PICK key : key = boots[p].key
    OBVIOUS
  <1>2. KeyOnDisk(f, key)'
    BY <1>1, KeyOnDiskStays
  <1>. QED BY <1>1, <1>2 DEF KeyOnDisk

LEMMA OpenLedgerKeeps ==
  ASSUME BootInv, NEW p \in Starters, OpenLedger(p)
  PROVE  BootInv'
  <1>1. boots[p].pc = "open" /\ ~NotRunning(p)
    BY DEF OpenLedger, NotRunning
  <1>2. PICK f \in CommandLines : f = boots[p].flags
    BY <1>1, StartRecords DEF BootInv
  <1>3. /\ Running(p, f) /\ BootTypeOK /\ FlagsOk(f) /\ boots[p].pc # "off" /\ FilesInv
        /\ RiskedAreFiles /\ f.sharded = "no"
    BY <1>1, <1>2, AsStarted, FlagsWereOk DEF Running, FilesInv, OpenLedger
  <1>4. PICK s \in DOMAIN disk : s = Store(f)
    BY <1>3, FlagPlaces
  <1>5. /\ DirsInv(f) /\ boots[p].key \in STRING /\ KeyOnDisk(f, boots[p].key)
        /\ boots[p].alone => RegistryIsOpen(f)
        /\ boots[p].alone /\ boots[p].wrote # {} => StoreIsNew(f)
    BY <1>1, <1>3, AsStarted DEF StartInv, AloneInv, Checked, KeyInv
  <1>6. risked' = risked /\ extended' = extended /\ made' = made /\ made' \in 0..Len(KeyMaterial)
    BY <1>3 DEF OpenLedger, BootTypeOK
  <1>7. s = Real(LedgerPath(f)) /\ disk[s] \in Content /\ s \in Path
    BY <1>3, <1>4, Places DEF Store
  <1>8. Recorded({})
    BY <1>3, <1>6, NoneRecorded
  <1>9. CASE HeldAsLedger(s) /\ Refused(p) /\ UNCHANGED <<disk, borrowed>>
    <2>1. ~boots[p].alone
      <3>1. PICK q \in Starters : HoldsLedger(q, s)
        BY <1>9 DEF HeldAsLedger
      <3>2. q # p /\ ~NotRunning(q)
        BY <1>1, <3>1 DEF HoldsLedger, NotRunning
      <3>. QED BY <1>3, <3>2, AsStarted
    <2>. QED BY <1>3, <1>6, <1>9, <2>1, RefusedKeeps
  <1>10. CASE /\ ~HeldAsLedger(s) /\ disk[s] \in {Absent, Json("nothing")}
              /\ Write(p, s, EmptyFile, "registry") /\ UNCHANGED borrowed
    <2>1. Goes(p, "registry", boots[p].key, boots[p].wrote \cup {s})
      <3>1. "registry" \in StartAt
        BY DEF StartAt
      <3>. QED BY <1>3, <1>7, <1>10, <3>1, WroteGoes DEF Write
    <2>2. /\ BootsMove(p) /\ boots'[p] \in StartRecord /\ boots'[p].pc = "registry"
          /\ boots'[p].flags = f /\ boots'[p].key = boots[p].key /\ boots'[p].alone = boots[p].alone
      BY <1>2, <2>1 DEF Goes
    <2>3. disk' \in [DOMAIN disk -> Content] /\ disk'[s] = EmptyFile
          /\ \A t \in DOMAIN disk : t # s => disk'[t] = disk[t]
      BY <1>3, <1>10, Contents DEF BootTypeOK, Write
    <2>4. ASSUME NEW t \in DOMAIN disk, IsStrictPrefix(t, s) PROVE disk'[t].is = "dir"
      <3>1. IsDir(Front(LedgerPath(f))) /\ IsTree(disk)
        BY <1>3, <1>5 DEF DirsInv, FilesInv
      <3>2. disk[t].is = "dir"
        BY <1>3, <1>4, <1>7, <2>4, <3>1, UnderDirectories, FlagPaths
      <3>. QED BY <2>3, <2>4, <3>2 DEF IsStrictPrefix
    <2>5. Evolves({}, {})
      <3>1. \A t \in DOMAIN disk : MayBecome(t, {}, {})
        BY <1>10, <2>3 DEF MayBecome
      <3>2. \A t \in DOMAIN disk : disk[t] = Absent /\ disk'[t] # Absent => t = s
        BY <2>3
      <3>. QED BY <1>6, <1>10, <2>3, <2>4, <3>1, <3>2 DEF Evolves
    <2>6. Claims(p)
      BY <1>4, <1>10, <2>2 DEF Claims, WritesKey, HoldsLedger, HeldAsLedger
    <2>7. s \notin risked'
      BY <1>3, <1>6, <1>10, ContentIs DEF RiskedAreFiles
    <2>8. HeldInv(p, f)'
      <3>1. Lines(f)' = <<>>
        BY <1>4, <2>3, ContentIs DEF Lines
      <3>2. MaySign(<<>>, boots'[p].key, f.retired)
        BY NothingMayBeSigned
      <3>. QED BY <1>4, <2>3, <2>7, <3>1, <3>2, ContentIs DEF HeldInv
    <2>9. KeyOnDisk(f, boots[p].key)' /\ DirsInv(f)'
      BY <1>3, <1>5, <2>2, <2>5, OpenKeyStays, DirsInvStays
    <2>10. StartInv(p, f)'
      BY <1>3, <1>5, <2>2, <2>8, <2>9 DEF StartInv, KeyInv, OpenedInv
    <2>11. boots[p].alone => RegistryIsOpen(f)'
      BY <1>3, <1>5, <1>7, <2>3, LedgerAlone
    <2>12. boots[p].alone => AloneInv(p, f)'
      BY <2>2, <2>11 DEF AloneInv
    <2>13. Kept(p, f)
      BY <2>2, <2>10, <2>12 DEF Kept
    <2>. QED BY <1>3, <1>6, <1>8, <2>2, <2>5, <2>6, <2>13, NoneOwned, StepKeeps
  <1>11. CASE /\ ~HeldAsLedger(s) /\ disk[s] \notin {Absent, Json("nothing")}
              /\ disk[s].is \in {"empty", "ledger"} /\ MaySign(Lines(f), boots[p].key, f.retired)
              /\ To(p, "registry") /\ borrowed' = borrowed \cup ({s} \cap risked) /\ UNCHANGED disk
    <2>1. "registry" \in StartAt
      BY DEF StartAt
    <2>2. Goes(p, "registry", boots[p].key, boots[p].wrote)
      BY <1>3, <1>11, <2>1, ToGoes
    <2>3. /\ boots'[p].pc = "registry" /\ boots'[p].flags = f /\ boots'[p].key = boots[p].key
          /\ borrowed \subseteq borrowed'
      BY <1>2, <1>11, <2>2 DEF Goes
    <2>4. Evolves({}, {})
      BY <1>3, <1>6, <1>11, <2>3, QuietEvolves
    <2>5. Claims(p)
      BY <1>4, <1>11, <2>3 DEF Claims, WritesKey, HoldsLedger, HeldAsLedger
    <2>6. HeldInv(p, f)'
      <3>1. Lines(f)' = Lines(f)
        BY <1>11 DEF Lines
      <3>2. s \notin borrowed' => s \notin risked'
        BY <1>6, <1>11
      <3>. QED BY <1>4, <1>11, <2>3, <3>1, <3>2 DEF HeldInv
    <2>7. KeyOnDisk(f, boots[p].key)' /\ DirsInv(f)'
      BY <1>3, <1>5, <2>3, <2>4, OpenKeyStays, DirsInvStays
    <2>8. StartInv(p, f)'
      BY <1>3, <1>5, <2>3, <2>6, <2>7 DEF StartInv, KeyInv, OpenedInv
    <2>9. boots[p].alone => AloneInv(p, f)'
      BY <1>5, <1>11, <2>3, SameDisk DEF AloneInv
    <2>. QED BY <1>3, <1>6, <1>11, <2>1, <2>2, <2>3, <2>5, <2>8, <2>9, PassedKeeps
  <1>12. CASE /\ ~HeldAsLedger(s) /\ disk[s] \notin {Absent, Json("nothing")}
              /\ ~(disk[s].is \in {"empty", "ledger"} /\ MaySign(Lines(f), boots[p].key, f.retired))
              /\ Refused(p) /\ borrowed' = borrowed /\ UNCHANGED disk
    <2>1. ASSUME boots[p].alone, boots[p].wrote # {} PROVE OnlyOpeningReveals(f)
      <3>1. s = Real(f.key) \/ disk[s].is \in {"absent", "empty"}
        BY <1>3, <1>4, <1>5, <2>1 DEF StoreIsNew
      <3>2. CASE s = Real(f.key)
        BY <1>3, <1>7, <3>2 DEF OnlyOpeningReveals
      <3>3. CASE disk[s].is = "absent"
        BY <1>7, <1>12, <3>3, ContentShapes
      <3>4. CASE disk[s].is = "empty"
        <4>1. Lines(f) = <<>>
          BY <1>4, <3>4 DEF Lines
        <4>. QED BY <1>12, <3>4, <4>1, NothingMayBeSigned
      <3>. QED BY <3>1, <3>2, <3>3, <3>4
    <2>. QED BY <1>3, <1>6, <1>12, <2>1, RefusedKeeps
  <1>13. OpenLedger(p) /\ s = Store(boots[p].flags) /\ f = boots[p].flags
    BY <1>2, <1>4
  <1>14. CASE HeldAsLedger(s)
    BY <1>9, <1>13, <1>14 DEF OpenLedger
  <1>15. CASE ~HeldAsLedger(s) /\ disk[s] \in {Absent, Json("nothing")}
    BY <1>10, <1>13, <1>15 DEF OpenLedger
  <1>16. CASE ~HeldAsLedger(s) /\ disk[s] \notin {Absent, Json("nothing")}
    <2>. DEFINE fits == disk[s].is \in {"empty", "ledger"} /\ MaySign(Lines(f), boots[p].key, f.retired)
    <2>1. /\ Passing(p, fits, "registry")
          /\ borrowed' = borrowed \cup (IF fits THEN {s} \cap risked ELSE {})
          /\ UNCHANGED disk
      BY <1>13, <1>16 DEF OpenLedger
    <2>2. fits => To(p, "registry") /\ borrowed' = borrowed \cup ({s} \cap risked)
      BY <2>1 DEF Passing
    <2>3. ~fits => Refused(p) /\ borrowed' = borrowed
      BY <2>1 DEF Passing
    <2>. QED BY <1>11, <1>12, <1>16, <2>1, <2>2, <2>3
  <1>. QED BY <1>14, <1>15, <1>16

LEMMA StrictlyAbove ==
  ASSUME NEW x \in Path, NEW t \in Path, NEW s \in Path, IsStrictPrefix(x, t), IsPrefix(t, s)
  PROVE  IsStrictPrefix(x, s)
  <1>1. IsPrefix(x, s)
    BY PrefixTransitive DEF IsStrictPrefix
  <1>2. x # s
    <2>. SUFFICES ASSUME x = s PROVE FALSE
      OBVIOUS
    <2>1. Len(x) \in Nat /\ Len(t) \in Nat /\ Len(x) <= Len(t) /\ Len(t) <= Len(x)
      BY PrefixElements, LenProperties DEF IsStrictPrefix, Path
    <2>2. \A i \in 1..Len(x) : x[i] = t[i]
      BY PrefixElements DEF IsStrictPrefix
    <2>3. x = t
      BY <2>1, <2>2, SeqEqual DEF Path
    <2>. QED BY <2>3 DEF IsStrictPrefix
  <1>. QED BY <1>1, <1>2 DEF IsStrictPrefix

\* What create_dir_all and the write under it change.
Underneath(place, content) ==
    disk' = [s \in DOMAIN disk |->
         IF s = place THEN content
         ELSE IF s \in Above(place) /\ disk[s] = Absent THEN Dir(<<>>)
         ELSE disk[s]]

LEMMA UnderneathEvolves ==
  ASSUME BootTypeOK, NEW place \in DOMAIN disk, NEW content \in Content,
         disk[place] = Absent, ~Blocked(place), Underneath(place, content),
         risked' = risked, borrowed' = borrowed
  PROVE  /\ Evolves({}, {}) /\ disk'[place] = content
         /\ \A s \in DOMAIN disk : s # place =>
              disk'[s] = disk[s] \/ (disk[s] = Absent /\ disk'[s] = Dir(<<>>))
  <1>1. <<>> \in Seq(STRING)
    BY EmptySeq
  <1>2. disk' \in [DOMAIN disk -> Content]
    BY <1>1, Contents, Places DEF Underneath
  <1>3. \A s \in DOMAIN disk : s # place =>
          disk'[s] = disk[s] \/ (disk[s] = Absent /\ disk'[s] = Dir(<<>>))
    BY DEF Underneath
  <1>4. disk'[place] = content
    BY DEF Underneath
  <1>5. ASSUME NEW t \in DOMAIN disk, disk[t] = Absent, disk'[t] # Absent,
               NEW s \in DOMAIN disk, IsStrictPrefix(s, t)
        PROVE  disk'[s].is = "dir"
    <2>1. s \in Path /\ t \in Path /\ place \in Path /\ disk[s] \in Content
      BY Places
    <2>2. IsPrefix(t, place)
      <3>1. CASE t = place
        BY <2>1, <3>1, PrefixElements, LenProperties DEF Path
      <3>2. CASE t # place
        BY <1>5, <3>2 DEF Underneath, Above, IsStrictPrefix
      <3>. QED BY <3>1, <3>2
    <2>3. IsStrictPrefix(s, place)
      BY <1>5, <2>1, <2>2, StrictlyAbove
    <2>4. s \in Above(place) /\ s # place
      BY <2>3 DEF Above, IsStrictPrefix
    <2>5. disk[s].is \in {"absent", "dir"}
      BY <2>4 DEF Blocked
    <2>6. disk[s].is = "absent" => disk[s] = Absent
      BY <2>1, ContentShapes
    <2>7. disk[s] = Absent => disk'[s] = Dir(<<>>)
      BY <2>4 DEF Underneath
    <2>. QED BY <1>3, <2>4, <2>5, <2>6, <2>7, ContentIs
  <1>6. \A s \in DOMAIN disk : MayBecome(s, {}, {})
    BY <1>3 DEF MayBecome
  <1>7. Evolves({}, {})
    BY <1>2, <1>5, <1>6 DEF Evolves, BootTypeOK
  <1>. QED BY <1>3, <1>4, <1>7

LEMMA OpenStoreKeeps ==
  ASSUME BootInv, NEW p \in Starters, OpenStore(p)
  PROVE  BootInv'
  <1>1. boots[p].pc = "open" /\ ~NotRunning(p)
    BY DEF OpenStore, NotRunning
  <1>2. PICK f \in CommandLines : f = boots[p].flags
    BY <1>1, StartRecords DEF BootInv
  <1>3. /\ Running(p, f) /\ BootTypeOK /\ FlagsOk(f) /\ boots[p].pc # "off" /\ FilesInv
        /\ RiskedAreFiles /\ IsTree(disk) /\ f.sharded # "no"
    BY <1>1, <1>2, AsStarted, FlagsWereOk DEF Running, FilesInv, OpenStore
  <1>4. PICK s \in DOMAIN disk : s = Store(f)
    BY <1>3, FlagPlaces
  <1>5. /\ DirsInv(f) /\ boots[p].key \in STRING /\ KeyOnDisk(f, boots[p].key)
        /\ boots[p].alone => RegistryIsOpen(f)
        /\ boots[p].alone /\ boots[p].wrote # {} => StoreIsNew(f)
    BY <1>1, <1>3, AsStarted DEF StartInv, AloneInv, Checked, KeyInv
  <1>6. /\ risked' = risked /\ borrowed' = borrowed /\ extended' = extended /\ made' = made
        /\ made' \in 0..Len(KeyMaterial)
    BY <1>3 DEF OpenStore, BootTypeOK
  <1>7. disk[s] \in Content /\ s \in Path
    BY <1>3, Places
  <1>8. Recorded({})
    BY <1>3, <1>6, NoneRecorded
  <1>9. "registry" \in StartAt
    BY DEF StartAt
  <1>10. CASE disk[s] = Absent /\ ~Blocked(s) /\ WriteUnder(p, s, Dir(<<>>), "registry")
    <2>1. Goes(p, "registry", boots[p].key, boots[p].wrote \cup {s})
      BY <1>3, <1>7, <1>9, <1>10, WroteGoes DEF WriteUnder
    <2>2. /\ BootsMove(p) /\ boots'[p] \in StartRecord /\ boots'[p].pc = "registry"
          /\ boots'[p].flags = f /\ boots'[p].key = boots[p].key /\ boots'[p].alone = boots[p].alone
      BY <1>2, <2>1 DEF Goes
    <2>3. Dir(<<>>) \in Content
      BY Contents, EmptySeq
    <2>4. Underneath(s, Dir(<<>>))
      BY <1>10 DEF WriteUnder, Underneath
    <2>5. /\ Evolves({}, {}) /\ disk'[s] = Dir(<<>>)
          /\ \A t \in DOMAIN disk : t # s =>
               disk'[t] = disk[t] \/ (disk[t] = Absent /\ disk'[t] = Dir(<<>>))
      BY <1>3, <1>6, <1>10, <2>3, <2>4, UnderneathEvolves
    <2>6. Claims(p)
      BY <1>3, <2>2 DEF Claims, WritesKey, HoldsLedger
    <2>7. KeyOnDisk(f, boots[p].key)' /\ DirsInv(f)'
      BY <1>3, <1>5, <2>2, <2>5, OpenKeyStays, DirsInvStays
    <2>8. disk'[Store(f)].is = "dir"
      BY <1>4, <2>5, ContentIs
    <2>9. StartInv(p, f)'
      BY <1>3, <1>5, <2>2, <2>7, <2>8 DEF StartInv, KeyInv, OpenedInv
    <2>10. boots[p].alone => RegistryIsOpen(f)'
      <3>1. PICK a \in DOMAIN disk : a = Real(Front(MissionsPath(f)))
        BY <1>3, FlagPaths, FlagPlaces, FrontPlace
      <3>2. disk[a].is \in {"absent", "dir"} => disk'[a].is \in {"absent", "dir"}
        BY <2>5, ContentIs
      <3>. QED BY <1>5, <3>1, <3>2 DEF RegistryIsOpen, At
    <2>11. boots[p].alone => AloneInv(p, f)'
      BY <2>2, <2>10 DEF AloneInv
    <2>12. Kept(p, f)
      BY <2>2, <2>9, <2>11 DEF Kept
    <2>. QED BY <1>3, <1>6, <1>8, <2>2, <2>5, <2>6, <2>12, NoneOwned, StepKeeps
  <1>11. CASE /\ UNCHANGED disk /\ disk[s].is = "dir" /\ To(p, "registry")
    <2>1. Goes(p, "registry", boots[p].key, boots[p].wrote)
      BY <1>3, <1>9, <1>11, ToGoes
    <2>2. boots'[p].pc = "registry" /\ boots'[p].flags = f /\ boots'[p].key = boots[p].key
      BY <1>2, <2>1 DEF Goes
    <2>3. Evolves({}, {})
      BY <1>3, <1>6, <1>11, QuietEvolves
    <2>4. Claims(p)
      BY <1>3, <2>2 DEF Claims, WritesKey, HoldsLedger
    <2>5. KeyOnDisk(f, boots[p].key)' /\ DirsInv(f)'
      BY <1>3, <1>5, <2>2, <2>3, OpenKeyStays, DirsInvStays
    <2>6. StartInv(p, f)'
      BY <1>3, <1>4, <1>5, <1>11, <2>2, <2>5 DEF StartInv, KeyInv, OpenedInv
    <2>7. boots[p].alone => AloneInv(p, f)'
      BY <1>5, <1>11, <2>2, SameDisk DEF AloneInv
    <2>. QED BY <1>3, <1>6, <1>9, <1>11, <2>1, <2>4, <2>6, <2>7, PassedKeeps
  <1>12. CASE /\ UNCHANGED disk
              /\ disk[s] = Absent => Blocked(s)
              /\ ~(disk[s].is = "dir" /\ MaySign(Lines(f), boots[p].key, f.retired)) /\ Refused(p)
    <2>1. ASSUME boots[p].alone, boots[p].wrote # {} PROVE OnlyOpeningReveals(f)
      <3>1. CASE f.sharded = "postgres"
        <4>1. disk[s].is = "dir"
          BY <1>3, <1>4, <3>1 DEF Store, IsTree
        <4>2. Lines(f) # <<>>
          BY <1>12, <4>1, NothingMayBeSigned
        <4>. QED BY <3>1, <4>2 DEF OnlyOpeningReveals
      <3>2. CASE f.sharded = "dir"
        <4>1. s = Real(f.dir)
          BY <1>4, <3>2 DEF Store
        <4>2. s = Real(f.key) \/ disk[s] \in {Absent, Dir(<<>>)}
          BY <1>4, <1>5, <2>1, <3>2 DEF StoreIsNew
        <4>3. disk[s] # Dir(<<>>)
          <5>. SUFFICES ASSUME disk[s] = Dir(<<>>) PROVE FALSE
            OBVIOUS
          <5>1. disk[s].is = "dir" /\ disk[s].lines = <<>>
            BY ContentIs
          <5>2. Lines(f) = <<>>
            BY <1>4, <5>1 DEF Lines
          <5>. QED BY <1>12, <5>1, <5>2, NothingMayBeSigned
        <4>. QED BY <1>12, <3>2, <4>1, <4>2, <4>3 DEF OnlyOpeningReveals
      <3>. QED BY <1>3, <3>1, <3>2 DEF FlagsOk
    <2>2. borrowed \subseteq borrowed'
      BY <1>6
    <2>. QED BY <1>3, <1>6, <1>12, <2>1, <2>2, RefusedKeeps
  <1>13. IF disk[s] = Absent /\ ~Blocked(s)
           THEN WriteUnder(p, s, Dir(<<>>), "registry")
           ELSE /\ Passing(p, disk[s].is = "dir" /\ MaySign(Lines(f), boots[p].key, f.retired), "registry")
                /\ UNCHANGED disk
    BY <1>2, <1>4 DEF OpenStore
  <1>. QED BY <1>10, <1>11, <1>12, <1>13 DEF Passing

LEMMA OpenRegistryKeeps ==
  ASSUME BootInv, NEW p \in Starters, OpenRegistry(p)
  PROVE  BootInv'
  <1>1. boots[p].pc = "registry" /\ ~NotRunning(p)
    BY DEF OpenRegistry, NotRunning
  <1>2. PICK f \in CommandLines : f = boots[p].flags
    BY <1>1, StartRecords DEF BootInv
  <1>3. /\ Running(p, f) /\ BootTypeOK /\ FlagsOk(f) /\ boots[p].pc # "off" /\ FilesInv
        /\ RiskedAreFiles /\ IsTree(disk)
    BY <1>1, <1>2, AsStarted, FlagsWereOk DEF Running, FilesInv
  <1>4. PICK m \in DOMAIN disk : m = Real(MissionsPath(f))
    BY <1>3, FlagPlaces
  <1>5. /\ DirsInv(f) /\ boots[p].key \in STRING /\ KeyOnDisk(f, boots[p].key)
        /\ IF f.sharded = "no" THEN HeldInv(p, f) ELSE disk[Store(f)].is = "dir"
        /\ boots[p].alone => RegistryIsOpen(f)
    BY <1>1, <1>3, AsStarted DEF StartInv, AloneInv, Checked, KeyInv, OpenedInv
  <1>6. /\ risked' = risked /\ borrowed' = borrowed /\ extended' = extended /\ made' = made
        /\ made' \in 0..Len(KeyMaterial)
    BY <1>3 DEF OpenRegistry, BootTypeOK
  <1>7. disk[m] \in Content /\ m \in Path
    BY <1>3, Places
  <1>8. Recorded({})
    BY <1>3, <1>6, NoneRecorded
  <1>9. "serving" \in StartAt
    BY DEF StartAt
  <1>10. ASSUME Evolves({}, {}), boots'[p].key = boots[p].key
         PROVE  /\ KeyOnDisk(f, boots[p].key)' /\ DirsInv(f)'
                /\ f.sharded = "no" => HeldInv(p, f)'
                /\ f.sharded # "no" => disk'[Store(f)].is = "dir"
    <2>1. KeyOnDisk(f, boots[p].key)' /\ DirsInv(f)'
      BY <1>3, <1>5, <1>10, OpenKeyStays, DirsInvStays
    <2>2. f.sharded = "no" => HeldInv(p, f)'
      BY <1>3, <1>5, <1>10, HeldStays
    <2>3. f.sharded # "no" => disk'[Store(f)].is = "dir"
      BY <1>3, <1>5, <1>10, DirsStay, FlagPlaces
    <2>. QED BY <2>1, <2>2, <2>3
  <1>11. CASE disk[m] = Absent /\ ~Blocked(m) /\ WriteUnder(p, m, Json("nothing"), "serving")
    <2>1. Goes(p, "serving", boots[p].key, boots[p].wrote \cup {m})
      BY <1>3, <1>7, <1>9, <1>11, WroteGoes DEF WriteUnder
    <2>2. /\ BootsMove(p) /\ boots'[p] \in StartRecord /\ boots'[p].pc = "serving"
          /\ boots'[p].flags = f /\ boots'[p].key = boots[p].key /\ boots'[p].alone = boots[p].alone
      BY <1>2, <2>1 DEF Goes
    <2>3. Json("nothing") \in Content
      BY Contents
    <2>4. Underneath(m, Json("nothing"))
      BY <1>11 DEF WriteUnder, Underneath
    <2>5. Evolves({}, {}) /\ disk'[m] = Json("nothing")
      BY <1>3, <1>6, <1>11, <2>3, <2>4, UnderneathEvolves
    <2>6. Claims(p)
      BY <1>1, <1>3, <2>2, NoClaims DEF Running
    <2>7. RegistryKept(f)'
      BY <1>4, <2>5 DEF RegistryKept
    <2>8. StartInv(p, f)'
      BY <1>3, <1>5, <1>10, <2>2, <2>5, <2>7 DEF StartInv, KeyInv, OpenedInv
    <2>9. AloneInv(p, f)'
      BY <2>2 DEF AloneInv
    <2>10. Kept(p, f)
      BY <2>2, <2>8, <2>9 DEF Kept
    <2>. QED BY <1>3, <1>6, <1>8, <2>2, <2>5, <2>6, <2>10, NoneOwned, StepKeeps
  <1>12. CASE UNCHANGED disk /\ disk[m] \in {Json("nothing"), Json("missions")} /\ To(p, "serving")
    <2>1. Goes(p, "serving", boots[p].key, boots[p].wrote)
      BY <1>3, <1>9, <1>12, ToGoes
    <2>2. boots'[p].pc = "serving" /\ boots'[p].flags = f /\ boots'[p].key = boots[p].key
      BY <1>2, <2>1 DEF Goes
    <2>3. Evolves({}, {})
      BY <1>3, <1>6, <1>12, QuietEvolves
    <2>4. Claims(p)
      BY <1>1, <1>3, <2>2, NoClaims DEF Running
    <2>5. RegistryKept(f)'
      BY <1>4, <1>12 DEF RegistryKept
    <2>6. StartInv(p, f)'
      BY <1>3, <1>5, <1>10, <2>2, <2>3, <2>5 DEF StartInv, KeyInv, OpenedInv
    <2>7. AloneInv(p, f)'
      BY <2>2 DEF AloneInv
    <2>. QED BY <1>3, <1>6, <1>9, <1>12, <2>1, <2>4, <2>6, <2>7, PassedKeeps
  <1>13. CASE /\ UNCHANGED disk
              /\ disk[m] = Absent => Blocked(m)
              /\ disk[m] \notin {Json("nothing"), Json("missions")} /\ Refused(p)
    <2>1. ASSUME boots[p].alone PROVE OnlyOpeningReveals(f)
      <3>1. CASE disk[m] # Absent
        <4>1. disk[m].is # "absent"
          BY <1>7, <3>1, ContentShapes
        <4>. QED BY <1>4, <1>13, <4>1 DEF OnlyOpeningReveals
      <3>2. CASE disk[m] = Absent
        <4>1. Blocked(Front(m)) \/ At(Front(MissionsPath(f))).is \notin {"absent", "dir"}
          BY <1>3, <1>4, <1>13, <3>2, WhatBlocks, FlagPaths
        <4>2. Blocked(Front(m)) \/ Real(Front(MissionsPath(f))) \in {Real(f.key), Real(LedgerPath(f))}
          BY <1>5, <2>1, <4>1 DEF RegistryIsOpen
        <4>. QED BY <1>4, <4>2 DEF OnlyOpeningReveals
      <3>. QED BY <3>1, <3>2
    <2>2. borrowed \subseteq borrowed'
      BY <1>6
    <2>. QED BY <1>3, <1>6, <1>13, <2>1, <2>2, RefusedKeeps
  <1>14. IF disk[m] = Absent /\ ~Blocked(m)
           THEN WriteUnder(p, m, Json("nothing"), "serving")
           ELSE /\ Passing(p, disk[m] \in {Json("nothing"), Json("missions")}, "serving")
                /\ UNCHANGED disk
    BY <1>2, <1>4 DEF OpenRegistry
  <1>. QED BY <1>11, <1>12, <1>13, <1>14 DEF Passing

-----------------------------------------------------------------------------
(* What a server does with what it opened.                                   *)

\* A step of a server, which goes on serving.
LEMMA ServingKeeps ==
  ASSUME NEW own, NEW held, BootInv, Evolves(own, held),
         NEW p \in Starters, NEW f \in CommandLines, Running(p, f), boots[p].pc = "serving",
         boots' = boots, made' = made, Owned(p, own, held), Recorded(held), StartInv(p, f)'
  PROVE  BootInv'
  <1>1. /\ BootTypeOK /\ boots[p].pc # "off" /\ boots[p].flags = f
        /\ boots \in [Starters -> {Off} \cup StartRecord] /\ boots[p] \in StartRecord
    BY AsStarted, StartRecords DEF Running
  <1>2. BootsMove(p) /\ made' \in 0..Len(KeyMaterial)
    BY <1>1 DEF BootsMove, BootTypeOK
  <1>3. Claims(p)
    BY <1>1, NoClaims
  <1>4. AloneInv(p, f)'
    BY DEF AloneInv
  <1>5. Kept(p, f)
    BY <1>1, <1>4 DEF Kept
  <1>. QED BY <1>2, <1>3, <1>5, StepKeeps

LEMMA RegisterMissionKeeps ==
  ASSUME BootInv, NEW p \in Starters, RegisterMission(p)
  PROVE  BootInv'
  <1>1. boots[p].pc = "serving" /\ ~NotRunning(p)
    BY DEF RegisterMission, NotRunning
  <1>2. PICK f \in CommandLines : f = boots[p].flags
    BY <1>1, StartRecords DEF BootInv
  <1>3. Running(p, f) /\ BootTypeOK /\ FilesInv /\ RiskedAreFiles /\ Started(p, f) /\ StartInv(p, f)
    BY <1>1, <1>2, AsStarted DEF Running, FilesInv
  <1>4. PICK m \in DOMAIN disk : m = Real(MissionsPath(f))
    BY <1>3, FlagPlaces
  <1>5. /\ disk[m] = Json("nothing") /\ disk' = [disk EXCEPT ![m] = Json("missions")]
        /\ boots' = boots /\ risked' = risked /\ borrowed' = borrowed /\ made' = made
        /\ extended' = extended
    BY <1>2, <1>4 DEF RegisterMission
  <1>6. /\ disk' \in [DOMAIN disk -> Content] /\ disk'[m] = Json("missions")
        /\ \A s \in DOMAIN disk : s # m => disk'[s] = disk[s]
    BY <1>3, <1>5, Contents DEF BootTypeOK
  <1>7. Evolves({}, {})
    <2>1. \A s \in DOMAIN disk : MayBecome(s, {}, {})
      BY <1>5, <1>6 DEF MayBecome
    <2>2. disk[m] # Absent
      BY <1>5, ContentIs
    <2>3. \A t \in DOMAIN disk : disk[t] = Absent /\ disk'[t] # Absent => FALSE
      BY <1>6, <2>2
    <2>. QED BY <1>5, <1>6, <2>1, <2>3 DEF Evolves
  <1>8. StartInv(p, f)'
    BY <1>3, <1>5, <1>7, OtherStart
  <1>9. Recorded({})
    BY <1>3, <1>5, NoneRecorded
  <1>. QED BY <1>1, <1>3, <1>5, <1>7, <1>8, <1>9, NoneOwned, ServingKeeps

LEMMA NobodyElseHolds ==
  ASSUME BootInv, NEW p \in Starters, NEW f \in CommandLines, Running(p, f), boots[p].pc = "serving"
  PROVE  Owned(p, {}, {Store(f)})
  <1>1. PICK s \in DOMAIN disk : s = Store(f)
    BY FlagPlaces DEF BootInv
  <1>2. ASSUME NEW q \in Starters \ {p}, HoldsLedger(q, s) PROVE FALSE
    <2>1. CASE f.sharded = "no"
      <3>1. HoldsLedger(p, s)
        BY <1>1, <2>1 DEF HoldsLedger, Running
      <3>. QED BY <1>2, <3>1 DEF BootInv, FilesInv, Apart
    <2>2. CASE f.sharded # "no"
      <3>1. disk[s].is = "dir"
        BY <1>1, <2>2, AsStarted DEF StartInv, OpenedInv
      <3>2. /\ boots[q].pc \in {"registry", "serving"} /\ boots[q].flags.sharded = "no"
            /\ Store(boots[q].flags) = s
        BY <1>2 DEF HoldsLedger
      <3>3. PICK g \in CommandLines : g = boots[q].flags
        BY <3>2, StartRecords DEF BootInv
      <3>4. Running(q, g)
        BY <3>2, <3>3 DEF Running, NotRunning
      <3>5. HeldInv(q, g)
        BY <3>2, <3>3, <3>4, AsStarted DEF StartInv, OpenedInv
      <3>. QED BY <3>1, <3>2, <3>3, <3>5 DEF HeldInv
    <2>. QED BY <2>1, <2>2
  <1>. QED BY <1>1, <1>2 DEF Owned

LEMMA StoredLines ==
  ASSUME BootTypeOK, NEW f \in CommandLines
  PROVE  Lines(f) \in Seq(STRING)
  <1>1. disk[Store(f)] \in Content
    BY FlagPlaces, Places
  <1>. QED BY <1>1, ContentShapes, EmptySeq DEF Lines

LEMMA RecordSignedKeeps ==
  ASSUME BootInv, NEW p \in Starters, RecordSigned(p)
  PROVE  BootInv'
  <1>1. boots[p].pc = "serving" /\ ~NotRunning(p)
    BY DEF RecordSigned, NotRunning
  <1>2. PICK f \in CommandLines : f = boots[p].flags
    BY <1>1, StartRecords DEF BootInv
  <1>3. /\ Running(p, f) /\ BootTypeOK /\ FilesInv /\ RiskedAreFiles /\ Started(p, f)
        /\ StartInv(p, f) /\ FlagsOk(f)
    BY <1>1, <1>2, AsStarted, FlagsWereOk DEF Running, FilesInv
  <1>4. PICK s \in DOMAIN disk : s = Store(f)
    BY <1>3, FlagPlaces
  <1>5. PICK key \in STRING : key = boots[p].key
    BY <1>1, <1>3 DEF StartInv, KeyInv
  <1>6. PICK lines \in Seq(STRING) : lines = Append(Lines(f), key)
    BY <1>3, StoredLines, AppendProperties
  <1>7. PICK c \in Content : c = IF f.sharded # "no" THEN Dir(lines)
                                 ELSE IF disk[s].is \in {"empty", "ledger"} THEN LedgerFile(lines)
                                 ELSE Mixed
    BY Contents
  <1>8. /\ boots' = boots /\ risked' = risked /\ borrowed' = borrowed /\ made' = made
        /\ disk' = [disk EXCEPT ![s] = c]
        /\ extended' = [t \in DOMAIN extended \cup {s} |-> IF t = s THEN f ELSE extended[t]]
        /\ f.sharded # "no" => MaySign(Lines(f), key, f.retired)
    BY <1>2, <1>4, <1>5, <1>6, <1>7 DEF RecordSigned
  <1>9. /\ disk' \in [DOMAIN disk -> Content] /\ disk'[s] = c
        /\ \A t \in DOMAIN disk : t # s => disk'[t] = disk[t]
    BY <1>3, <1>8 DEF BootTypeOK
  <1>10. /\ f.sharded = "no" => HeldInv(p, f)
         /\ f.sharded # "no" => disk[s].is = "dir"
         /\ KeyOnDisk(f, boots[p].key) /\ RegistryKept(f) /\ DirsInv(f)
    BY <1>1, <1>3, <1>4 DEF StartInv, OpenedInv, KeyInv, Checked
  <1>11. /\ f.sharded = "no" => disk[s].is \in {"empty", "ledger", "key", "mixed"}
         /\ s \notin borrowed => /\ s \notin risked
                                 /\ f.sharded = "no" => disk[s].is \in {"empty", "ledger"}
         /\ MaySign(Lines(f), key, f.retired)
    <2>1. CASE f.sharded = "no"
      BY <1>4, <1>5, <1>10, <2>1 DEF HeldInv
    <2>2. CASE f.sharded # "no"
      BY <1>3, <1>8, <1>10, <2>2 DEF RiskedAreFiles
    <2>. QED BY <2>1, <2>2
  <1>12. Evolves({}, {s})
    <2>1. MayBecome(s, {}, {s})
      <3>1. CASE f.sharded # "no"
        BY <1>7, <1>9, <1>10, <3>1, ContentIs DEF MayBecome
      <3>2. CASE f.sharded = "no" /\ disk[s].is \in {"empty", "ledger"}
        BY <1>7, <1>9, <1>11, <3>2, ContentIs DEF MayBecome
      <3>3. CASE f.sharded = "no" /\ disk[s].is \in {"key", "mixed"}
        BY <1>7, <1>9, <1>11, <3>3, ContentIs DEF MayBecome
      <3>. QED BY <1>11, <3>1, <3>2, <3>3
    <2>2. \A t \in DOMAIN disk : MayBecome(t, {}, {s})
      BY <1>9, <2>1 DEF MayBecome
    <2>3. disk[s] # Absent
      BY <1>10, <1>11, ContentIs
    <2>4. \A t \in DOMAIN disk : disk[t] = Absent /\ disk'[t] # Absent => FALSE
      BY <1>9, <2>3
    <2>. QED BY <1>8, <1>9, <2>2, <2>4 DEF Evolves
  <1>13. MaySign(lines, key, f.retired) /\ lines # <<>>
    BY <1>3, <1>6, <1>11, StoredLines, MaySignMore, AppendProperties
  <1>14. /\ disk'[s].is \in {"ledger", "dir"} => Lines(f)' = lines
         /\ disk'[s].is = "mixed" => Lines(f)' = <<>>
    <2>1. disk'[s].is \in {"ledger", "dir"} => disk'[s].lines = lines
      BY <1>7, <1>9, ContentIs
    <2>. QED BY <1>4, <2>1 DEF Lines
  <1>15. /\ f.sharded = "no" => disk'[s].is \in {"ledger", "mixed"}
         /\ f.sharded # "no" => disk'[s].is = "dir"
         /\ s \notin borrowed /\ f.sharded = "no" => disk'[s].is = "ledger"
    BY <1>7, <1>9, <1>11, ContentIs
  <1>16. MaySign(Lines(f)', key, f.retired)
    BY <1>13, <1>14, <1>15, NothingMayBeSigned
  <1>17. KeyOnDisk(f, boots[p].key)' /\ DirsInv(f)' /\ RegistryKept(f)'
    BY <1>3, <1>8, <1>10, <1>12, OpenKeyStays, DirsInvStays, RegistryStays
  <1>18. f.sharded = "no" => HeldInv(p, f)'
    BY <1>4, <1>5, <1>8, <1>11, <1>15, <1>16 DEF HeldInv
  <1>19. f.sharded # "no" => disk'[Store(f)].is = "dir"
    BY <1>4, <1>15
  <1>20. StartInv(p, f)'
    BY <1>1, <1>3, <1>5, <1>8, <1>17, <1>18, <1>19 DEF StartInv, KeyInv, OpenedInv
  <1>21. KeyIsKept(f)' => Real(f.key) \notin risked' /\ disk'[Real(f.key)] = KeyFile(key)
    BY <1>5, <1>8, <1>17 DEF KeyOnDisk
  <1>22. RecordsInv(s, f)'
    <2>. SUFFICES ASSUME s \notin borrowed'
                  PROVE  /\ s \notin risked'
                         /\ disk'[s].is = (IF f.sharded = "no" THEN "ledger" ELSE "dir")
                         /\ Lines(f)' # <<>>
                         /\ KeyIsKept(f)' => MaySign(Lines(f)', disk'[Real(f.key)].key, f.retired)
      BY DEF RecordsInv
    <2>1. s \notin borrowed /\ s \notin risked'
      BY <1>8, <1>11
    <2>2. disk'[s].is = (IF f.sharded = "no" THEN "ledger" ELSE "dir")
      BY <1>15, <2>1
    <2>3. Lines(f)' # <<>>
      BY <1>13, <1>14, <2>2
    <2>4. KeyIsKept(f)' => disk'[Real(f.key)].key = key
      BY <1>21, ContentIs
    <2>. QED BY <1>16, <2>1, <2>2, <2>3, <2>4
  <1>23. LedgerInv(s, f)'
    BY <1>3, <1>4, <1>17, <1>21, <1>22, ContentIs DEF LedgerInv
  <1>24. Recorded({s})
    <2>1. extended' \in [DOMAIN extended' -> CommandLines]
      BY <1>3, <1>8 DEF BootTypeOK
    <2>2. ASSUME NEW t \in DOMAIN extended', NEW g \in CommandLines, extended'[t] = g
          PROVE  \/ t \in DOMAIN extended /\ extended[t] = g /\ t \notin {s}
                 \/ LedgerInv(t, g)'
      <3>1. CASE t = s
        BY <1>8, <1>23, <2>2, <3>1
      <3>2. CASE t # s
        BY <1>8, <2>2, <3>2
      <3>. QED BY <3>1, <3>2
    <2>. QED BY <2>1, <2>2 DEF Recorded
  <1>25. Owned(p, {}, {s})
    BY <1>1, <1>3, <1>4, NobodyElseHolds
  <1>. QED BY <1>1, <1>3, <1>8, <1>12, <1>20, <1>24, <1>25, ServingKeeps

-----------------------------------------------------------------------------
(* Starts, losses of power, and the invariant.                               *)

LEMMA SameFiles ==
  ASSUME disk' = disk, risked' = risked, borrowed' = borrowed
  PROVE  /\ \A s, f : LedgerInv(s, f)' <=> LedgerInv(s, f)
         /\ RiskedAreFiles' <=> RiskedAreFiles
         /\ IsTree(disk)' <=> IsTree(disk)
         /\ \A f : \A q \in Starters :
              boots'[q].pc = boots[q].pc /\ boots'[q].key = boots[q].key
                /\ boots'[q].wrote = boots[q].wrote /\ boots'[q].flags = boots[q].flags
              => (StartInv(q, f)' <=> StartInv(q, f))
  <1>1. ASSUME NEW s, NEW f PROVE LedgerInv(s, f)' <=> LedgerInv(s, f)
    BY DEF LedgerInv, RecordsInv, Lines, KeyIsKept, RegistryKept
  <1>2. ASSUME NEW q \in Starters, NEW f, boots'[q].pc = boots[q].pc, boots'[q].key = boots[q].key,
               boots'[q].wrote = boots[q].wrote, boots'[q].flags = boots[q].flags
        PROVE  StartInv(q, f)' <=> StartInv(q, f)
    <2>1. KeyInv(q, f)' <=> KeyInv(q, f)
      BY <1>2 DEF KeyInv, KeyOnDisk, KeyIsKept
    <2>2. OpenedInv(q, f)' <=> OpenedInv(q, f)
      BY <1>2 DEF OpenedInv, HeldInv, Lines, RegistryKept
    <2>. QED BY <1>2, <2>1, <2>2, SameDisk DEF StartInv, Checked
  <1>. QED BY <1>1, <1>2 DEF RiskedAreFiles, IsTree

LEMMA StartKeeps ==
  ASSUME BootInv, NEW p \in Starters, NEW f \in CommandLines, Start(p, f)
  PROVE  BootInv'
  <1>. DEFINE new == IF FlagsOk(f)
                     THEN [pc |-> "look", flags |-> f, key |-> NoKey, wrote |-> {},
                           alone |-> \A o \in Starters \ {p} : NotRunning(o)]
                     ELSE Off
  <1>1. BootTypeOK /\ FilesInv
    BY DEF BootInv
  <1>2. /\ disk' = disk /\ risked' = risked /\ borrowed' = borrowed /\ made' = made
        /\ extended' = extended
    BY DEF Start
  <1>3. boots' = [q \in Starters |->
           IF q = p THEN new
           ELSE IF NotRunning(q) THEN Off
           ELSE [boots[q] EXCEPT !.alone = FALSE]]
    BY DEF Start
  <1>4. new \in {Off} \cup StartRecord
    <2>1. [pc |-> "look", flags |-> f, key |-> NoKey, wrote |-> {},
           alone |-> \A o \in Starters \ {p} : NotRunning(o)] \in StartRecord
      BY DEF StartRecord
    <2>. QED BY <2>1
  <1>5. ASSUME NEW q \in Starters, ~NotRunning(q)
        PROVE  /\ [boots[q] EXCEPT !.alone = FALSE] \in StartRecord
               /\ [boots[q] EXCEPT !.alone = FALSE].pc = boots[q].pc
               /\ [boots[q] EXCEPT !.alone = FALSE].key = boots[q].key
               /\ [boots[q] EXCEPT !.alone = FALSE].wrote = boots[q].wrote
               /\ [boots[q] EXCEPT !.alone = FALSE].flags = boots[q].flags
               /\ ~[boots[q] EXCEPT !.alone = FALSE].alone
    <2>1. PICK b \in StartRecord : b = boots[q]
      BY <1>1, <1>5, StartRecords
    <2>. QED BY <2>1 DEF StartRecord
  <1>6. Off.pc = "off"
    BY DEF Off
  <1>7. \A q \in Starters \ {p} :
          \/ NotRunning(q) /\ boots'[q] = Off
          \/ /\ ~NotRunning(q) /\ boots'[q].pc = boots[q].pc /\ boots'[q].key = boots[q].key
             /\ boots'[q].wrote = boots[q].wrote /\ boots'[q].flags = boots[q].flags
             /\ ~boots'[q].alone
    BY <1>3, <1>5
  <1>8. boots'[p] = Off \/ (/\ FlagsOk(f) /\ boots'[p].pc = "look" /\ boots'[p].flags = f
                            /\ boots'[p].wrote = {}
                            /\ boots'[p].alone => \A o \in Starters \ {p} : NotRunning(o))
    BY <1>3
  <1>9. boots' \in [Starters -> {Off} \cup StartRecord]
    BY <1>3, <1>4, <1>5
  <1>. HIDE DEF new
  <1>10. BootTypeOK'
    BY <1>1, <1>2, <1>9 DEF BootTypeOK
  <1>11. ASSUME NEW q \in Starters, NEW g \in CommandLines, Started(q, g)'
         PROVE  StartInv(q, g)'
    <2>1. CASE q = p
      <3>1. FlagsOk(g) /\ boots'[p].pc = "look" /\ boots'[p].wrote = {}
        BY <1>6, <1>8, <1>11, <2>1 DEF Started
      <3>. QED BY <2>1, <3>1 DEF StartInv, Checked, KeyInv, OpenedInv
    <2>2. CASE q # p
      <3>1. /\ boots'[q].pc = boots[q].pc /\ boots'[q].key = boots[q].key
            /\ boots'[q].wrote = boots[q].wrote /\ boots'[q].flags = boots[q].flags
        BY <1>6, <1>7, <1>11, <2>2 DEF Started
      <3>2. StartInv(q, g)
        BY <1>1, <1>11, <3>1 DEF Started, FilesInv
      <3>. QED BY <1>2, <3>1, <3>2, SameFiles
    <2>. QED BY <2>1, <2>2
  <1>12. Apart'
    <2>. SUFFICES ASSUME NEW a \in Starters, NEW b \in Starters, NEW s \in DOMAIN disk
                  PROVE  /\ WritesKey(a, s)' /\ WritesKey(b, s)' => a = b
                         /\ HoldsLedger(a, s)' /\ HoldsLedger(b, s)' => a = b
      BY <1>2 DEF Apart
    <2>1. \A q \in Starters : (WritesKey(q, s)' => WritesKey(q, s)) /\ (HoldsLedger(q, s)' => HoldsLedger(q, s))
      BY <1>6, <1>7, <1>8 DEF WritesKey, HoldsLedger
    <2>. QED BY <1>1, <2>1 DEF FilesInv, Apart
  <1>13. FilesInv'
    <2>1. RiskedAreFiles' /\ IsTree(disk)'
      BY <1>1, <1>2, SameFiles DEF FilesInv
    <2>2. \A s \in DOMAIN extended', g \in CommandLines : extended'[s] = g => LedgerInv(s, g)'
      BY <1>1, <1>2, SameFiles DEF FilesInv
    <2>. QED BY <1>11, <1>12, <2>1, <2>2 DEF FilesInv
  <1>14. ChecksInv'
    <2>. SUFFICES ASSUME NEW a \in Starters, Alone(a)'
                  PROVE  /\ \A q \in Starters \ {a} : NotRunning(q)'
                         /\ \A g \in CommandLines : boots'[a].flags = g => AloneInv(a, g)'
      BY DEF ChecksInv
    <2>1. a = p /\ boots'[p].pc = "look" /\ \A o \in Starters \ {p} : NotRunning(o)
      BY <1>6, <1>7, <1>8 DEF Alone
    <2>2. \A q \in Starters \ {p} : boots'[q] = Off
      BY <1>7, <2>1
    <2>3. \A q \in Starters \ {p} : NotRunning(q)'
      BY <1>6, <2>2 DEF NotRunning
    <2>4. \A g \in CommandLines : AloneInv(p, g)'
      BY <2>1 DEF AloneInv, Checked
    <2>. QED BY <2>1, <2>3, <2>4
  <1>. QED BY <1>10, <1>13, <1>14 DEF BootInv

\* What a loss of power leaves of every place.
LEMMA LostAt ==
  ASSUME BootInv, PowerFails
  PROVE  /\ DOMAIN disk' = DOMAIN disk
         /\ \A s \in DOMAIN disk :
              /\ s \notin risked => disk'[s] = disk[s]
              /\ disk'[s] \in {disk[s], Absent, EmptyFile}
  <1>1. PICK lost \in [risked -> {"entry", "bytes", "nothing"}] :
          disk' = [s \in DOMAIN disk |->
                    IF s \notin risked \/ lost[s] = "nothing" THEN disk[s]
                    ELSE IF lost[s] = "entry" THEN Absent
                    ELSE EmptyFile]
    BY DEF PowerFails
  <1>. QED BY <1>1

LEMMA PowerFailsKeeps ==
  ASSUME BootInv, PowerFails
  PROVE  BootInv'
  <1>1. BootTypeOK /\ FilesInv /\ RiskedAreFiles /\ IsTree(disk)
    BY DEF BootInv, FilesInv
  <1>2. /\ risked' = {} /\ borrowed' = borrowed /\ made' = made /\ extended' = extended
        /\ boots' = [p \in Starters |-> Off]
    BY DEF PowerFails
  <1>3. /\ DOMAIN disk' = DOMAIN disk
        /\ \A s \in DOMAIN disk : s \notin risked => disk'[s] = disk[s]
        /\ \A s \in DOMAIN disk : disk'[s] \in {disk[s], Absent, EmptyFile}
    BY LostAt
  <1>4. disk' \in [DOMAIN disk' -> Content]
    <2>1. \A s \in DOMAIN disk : disk'[s] \in Content
      BY <1>1, <1>3, Places, Contents
    <2>2. \E lost \in [risked -> {"entry", "bytes", "nothing"}] :
            disk' = [s \in DOMAIN disk |->
                      IF s \notin risked \/ lost[s] = "nothing" THEN disk[s]
                      ELSE IF lost[s] = "entry" THEN Absent
                      ELSE EmptyFile]
      BY DEF PowerFails
    <2>. QED BY <1>3, <2>1, <2>2
  <1>5. Off.pc = "off" /\ \A p \in Starters : boots'[p] = Off
    BY <1>2 DEF Off
  <1>6. BootTypeOK'
    <2>1. boots' \in [Starters -> {Off} \cup StartRecord]
      BY <1>2
    <2>. QED BY <1>1, <1>2, <1>3, <1>4, <2>1 DEF BootTypeOK
  <1>7. \A s \in DOMAIN disk : disk[s].is = "dir" => disk'[s] = disk[s]
    BY <1>1, <1>3, ContentIs DEF RiskedAreFiles
  <1>8. IsTree(disk')
    <2>1. \A s \in DOMAIN disk : disk[s].is = "dir" => disk'[s].is = "dir"
      BY <1>7
    <2>2. \A t \in DOMAIN disk : disk'[t] # Absent => disk[t] # Absent
      BY <1>1, <1>3, ContentIs DEF RiskedAreFiles
    <2>3. disk'[<<>>].is = "dir" /\ disk'[DATABASE].is = "dir"
      BY <1>1, <2>1, Places DEF IsTree
    <2>4. \A n \in DOMAIN Links : disk'[Links[n]].is = "dir"
      BY <1>1, <2>1, Places DEF IsTree
    <2>5. \A s, t \in DOMAIN disk' : IsStrictPrefix(s, t) /\ disk'[t] # Absent => disk'[s].is = "dir"
      BY <1>1, <1>3, <2>1, <2>2 DEF IsTree
    <2>. QED BY <2>3, <2>4, <2>5 DEF IsTree
  <1>9. ASSUME NEW f \in CommandLines, RegistryKept(f) PROVE RegistryKept(f)'
    <2>1. PICK m \in DOMAIN disk : m = Real(MissionsPath(f))
      BY <1>1, FlagPlaces
    <2>2. m \notin risked
      BY <1>1, <1>9, <2>1, ContentIs DEF RegistryKept, RiskedAreFiles
    <2>3. disk'[m] = disk[m]
      BY <1>3, <2>2
    <2>. QED BY <1>2, <1>9, <2>1, <2>3 DEF RegistryKept
  <1>10. ASSUME NEW s \in DOMAIN extended, NEW f \in CommandLines, extended[s] = f
         PROVE  LedgerInv(s, f)'
    <2>1. LedgerInv(s, f)
      BY <1>1, <1>10 DEF FilesInv
    <2>2. PICK k \in DOMAIN disk : k = Real(f.key)
      BY <1>1, FlagPlaces
    <2>3. s \in DOMAIN disk /\ Store(f) = s
      BY <1>1, <2>1, FlagPlaces DEF LedgerInv
    <2>4. KeyIsKept(f)' <=> KeyIsKept(f)
      BY <1>2 DEF KeyIsKept
    <2>5. KeyIsKept(f) => disk'[k] = disk[k] /\ disk'[k].is = "key"
      BY <1>3, <2>1, <2>2 DEF LedgerInv
    <2>6. RecordsInv(s, f)'
      <3>. SUFFICES ASSUME s \notin borrowed
                    PROVE  /\ disk'[s].is = (IF f.sharded = "no" THEN "ledger" ELSE "dir")
                           /\ Lines(f)' # <<>>
                           /\ KeyIsKept(f) => MaySign(Lines(f)', disk'[k].key, f.retired)
        BY <1>2, <2>2, <2>4 DEF RecordsInv
      <3>1. /\ s \notin risked /\ disk[s].is = (IF f.sharded = "no" THEN "ledger" ELSE "dir")
            /\ Lines(f) # <<>>
            /\ KeyIsKept(f) => MaySign(Lines(f), disk[k].key, f.retired)
        BY <2>1, <2>2 DEF LedgerInv, RecordsInv
      <3>2. disk'[s] = disk[s]
        BY <1>3, <2>3, <3>1
      <3>3. Lines(f)' = Lines(f)
        BY <2>3, <3>2 DEF Lines
      <3>. QED BY <2>5, <3>1, <3>2, <3>3
    <2>7. RegistryKept(f)'
      BY <1>9, <2>1 DEF LedgerInv
    <2>. QED BY <1>2, <2>1, <2>2, <2>4, <2>5, <2>6, <2>7 DEF LedgerInv
  <1>11. FilesInv'
    <2>1. RiskedAreFiles'
      BY <1>2 DEF RiskedAreFiles
    <2>2. Apart'
      BY <1>5 DEF Apart, WritesKey, HoldsLedger
    <2>3. \A p \in Starters, f \in CommandLines : Started(p, f)' => StartInv(p, f)'
      BY <1>5 DEF Started
    <2>4. \A s \in DOMAIN extended', f \in CommandLines : extended'[s] = f => LedgerInv(s, f)'
      BY <1>2, <1>10
    <2>. QED BY <1>8, <2>1, <2>2, <2>3, <2>4 DEF FilesInv
  <1>12. ChecksInv'
    BY <1>5 DEF ChecksInv, Alone
  <1>. QED BY <1>6, <1>11, <1>12 DEF BootInv

LEMMA BootStutters ==
  ASSUME BootInv, UNCHANGED bootVars
  PROVE  BootInv'
  <1>1. /\ disk' = disk /\ risked' = risked /\ borrowed' = borrowed /\ made' = made
        /\ extended' = extended /\ boots' = boots
    BY DEF bootVars
  <1>2. BootTypeOK'
    BY <1>1 DEF BootInv, BootTypeOK
  <1>3. FilesInv'
    <2>1. RiskedAreFiles' /\ IsTree(disk)' /\ Apart'
      BY <1>1, SameFiles DEF BootInv, FilesInv, Apart, WritesKey, HoldsLedger
    <2>2. \A p \in Starters, f \in CommandLines : Started(p, f)' => StartInv(p, f)'
      BY <1>1, SameFiles DEF BootInv, FilesInv, Started
    <2>3. \A s \in DOMAIN extended', f \in CommandLines : extended'[s] = f => LedgerInv(s, f)'
      BY <1>1, SameFiles DEF BootInv, FilesInv
    <2>. QED BY <2>1, <2>2, <2>3 DEF FilesInv
  <1>4. ChecksInv'
    <2>1. ASSUME NEW p \in Starters, NEW f \in CommandLines PROVE AloneInv(p, f) => AloneInv(p, f)'
      BY <1>1, SameDisk DEF AloneInv, Checked
    <2>2. ChecksInv
      BY DEF BootInv
    <2>3. \A p \in Starters : (Alone(p)' <=> Alone(p)) /\ (NotRunning(p)' <=> NotRunning(p))
      BY <1>1 DEF Alone, NotRunning
    <2>. QED BY <1>1, <2>1, <2>2, <2>3 DEF ChecksInv
  <1>. QED BY <1>2, <1>3, <1>4 DEF BootInv

LEMMA BootSteps ==
  ASSUME BootInv, BootNext
  PROVE  BootInv'
  <1>1. CASE PowerFails
    BY <1>1, PowerFailsKeeps
  <1>2. ASSUME NEW p \in Starters,
               \/ \E f \in CommandLines : Start(p, f)
               \/ Look(p) \/ CheckPaths(p) \/ BindAddress(p)
               \/ LoadSigningKey(p) \/ CreateKey(p) \/ FillKey(p) \/ SyncKey(p) \/ SaveFailed(p)
               \/ OpenLedger(p) \/ OpenStore(p) \/ OpenRegistry(p)
               \/ RecordSigned(p) \/ RegisterMission(p) \/ EndProcess(p)
        PROVE  BootInv'
    BY <1>2, StartKeeps, LookKeeps, CheckPathsKeeps, BindAddressKeeps, LoadSigningKeyKeeps,
       CreateKeyKeeps, FillKeyKeeps, SyncKeyKeeps, SaveFailedKeeps, OpenLedgerKeeps, OpenStoreKeeps,
       OpenRegistryKeeps, RecordSignedKeeps, RegisterMissionKeeps, EndProcessKeeps
  <1>. QED BY <1>1, <1>2 DEF BootNext

LEMMA BootStarts ==
  ASSUME BootInit
  PROVE  BootInv
  <1>1. /\ disk \in DisksAtStart /\ boots = [p \in Starters |-> Off] /\ risked = {}
        /\ borrowed = {} /\ made = 0 /\ extended = [s \in {} |-> Off]
    BY DEF BootInit
  <1>2. Off.pc = "off" /\ \A p \in Starters : boots[p] = Off
    BY <1>1 DEF Off
  <1>3. BootTypeOK
    <2>1. disk \in [DOMAIN disk -> Content]
      BY <1>1, BootAssumption
    <2>2. Len(KeyMaterial) \in Nat
      BY BootAssumption, LenProperties
    <2>. QED BY <1>1, <2>1, <2>2 DEF BootTypeOK
  <1>4. FilesInv
    <2>1. IsTree(disk)
      BY <1>1, BootAssumption
    <2>. QED BY <1>1, <1>2, <2>1 DEF FilesInv, RiskedAreFiles, Apart, WritesKey, HoldsLedger, Started
  <1>5. ChecksInv
    BY <1>2 DEF ChecksInv, Alone
  <1>. QED BY <1>3, <1>4, <1>5 DEF BootInv

\* What the starts keep of the disk and of what they checked, whatever they
\* were started with (prepare, load_signing_key, open_single_inner).
THEOREM BootInvariant == BootSpec => []BootInv
  <1>1. BootInit => BootInv
    BY BootStarts
  <1>2. BootInv /\ [BootNext]_bootVars => BootInv'
    BY BootSteps, BootStutters
  <1>. QED BY <1>1, <1>2, PTL DEF BootSpec

\* A refused start that wrote something, alone, was refused for what only
\* opening reveals (prepare).
THEOREM RefusedNeverLeaves == BootSpec => []RefusedLeavesNothing
  <1>1. BootInv => RefusedLeavesNothing
    <2>. SUFFICES ASSUME BootInv, NEW p \in Starters,
                         boots[p].pc = "refused", boots[p].alone, boots[p].wrote # {}
                  PROVE  OnlyOpeningReveals(boots[p].flags)
      BY DEF RefusedLeavesNothing
    <2>1. PICK f \in CommandLines : f = boots[p].flags
      BY StartRecords DEF BootInv
    <2>2. AloneInv(p, f)
      BY <2>1 DEF BootInv, ChecksInv, Alone
    <2>. QED BY <2>1, <2>2 DEF AloneInv
  <1>. QED BY <1>1, BootInvariant, PTL

LEMMA ServedPaths ==
  ASSUME BootTypeOK, FilesInv, NEW f \in CommandLines, FlagsOk(f), KeyIsKept(f),
         At(f.key).is = "key", At(MissionsPath(f)) \in {Json("nothing"), Json("missions")},
         disk[Store(f)].is = (IF f.sharded = "no" THEN "ledger" ELSE "dir"), Lines(f) # <<>>
  PROVE  LooksRight(f) /\ PathsRight(f)
  <1>1. IsTree(disk)
    BY DEF FilesInv
  <1>2. /\ f.key \in Path /\ f.key # <<>> /\ f.key # NoPath
        /\ MissionsPath(f) \in Path /\ MissionsPath(f) # <<>>
        /\ LedgerPath(f) \in Path /\ LedgerPath(f) # <<>>
    BY FlagPaths, EmptySeq DEF KeyIsKept, NoPath
  <1>3. At(MissionsPath(f)).is = "json"
    BY ContentIs
  <1>4. Exists(f.key) /\ Exists(MissionsPath(f))
    BY <1>3, ContentIs DEF Exists
  <1>5. IsDir(Front(f.key)) /\ IsDir(Front(MissionsPath(f)))
    BY <1>1, <1>2, <1>4, FlagPlaces, FrontOfWhatIsThere DEF Exists, At
  <1>6. f.sharded = "dir" => At(f.dir).is = "dir" /\ Exists(f.dir)
    BY ContentIs DEF Store, At, Exists
  <1>7. f.sharded = "no" => /\ At(LedgerPath(f)).is = "ledger" /\ Exists(LedgerPath(f))
                            /\ IsDir(Front(LedgerPath(f)))
    <2>. SUFFICES ASSUME f.sharded = "no"
                  PROVE  /\ At(LedgerPath(f)).is = "ledger" /\ Exists(LedgerPath(f))
                         /\ IsDir(Front(LedgerPath(f)))
      OBVIOUS
    <2>1. Store(f) = Real(LedgerPath(f)) /\ Store(f) \in DOMAIN disk
      BY FlagPlaces DEF Store
    <2>2. At(LedgerPath(f)).is = "ledger"
      BY <2>1 DEF At
    <2>3. Exists(LedgerPath(f))
      BY <2>2, ContentIs DEF Exists
    <2>. QED BY <1>1, <1>2, <2>1, <2>2, <2>3, FrontOfWhatIsThere DEF Exists, At
  <1>8. LooksRight(f)
    BY <1>2, <1>4, <1>6 DEF LooksRight, IsDir
  <1>9. ~SamePath(f.key, MissionsPath(f))
    BY <1>3, <1>4 DEF SamePath, At
  <1>10. f.sharded = "dir" => ~SamePath(MissionsPath(f), f.dir)
    BY <1>3, <1>4, <1>6 DEF SamePath, At
  <1>11. f.sharded = "no" => ~SamePath(MissionsPath(f), LedgerPath(f)) /\ ~SamePath(f.key, LedgerPath(f))
    BY <1>3, <1>4, <1>7 DEF SamePath, At
  <1>12. /\ RegistryPath(MissionsPath(f)) /\ WritablePath(f.key)
         /\ f.sharded = "no" => WritablePath(LedgerPath(f))
    BY <1>3, <1>5, <1>7 DEF RegistryPath, WritablePath, IsDir
  <1>13. PathsRight(f)
    BY <1>3, <1>9, <1>10, <1>11, <1>12 DEF PathsRight, ParsesAsJson
  <1>. QED BY <1>8, <1>13

\* The command line that last extended a ledger can serve it again.
THEOREM ServedAlwaysServesAgain == BootSpec => []ServedServesAgain
  <1>1. BootInv => ServedServesAgain
    <2>. SUFFICES ASSUME BootInv, NEW s \in DOMAIN extended, s \notin borrowed
                  PROVE  LET f == extended[s] IN
                         /\ Lines(f) # <<>>
                         /\ KeyIsKept(f) /\ At(MissionsPath(f)).is \notin {"empty", "ledger"} =>
                             /\ LooksRight(f) /\ PathsRight(f)
                             /\ At(f.key).is = "key"
                             /\ MaySign(Lines(f), At(f.key).key, f.retired)
                             /\ At(MissionsPath(f)) \in {Json("nothing"), Json("missions")}
      BY DEF ServedServesAgain
    <2>1. PICK f \in CommandLines : f = extended[s]
      BY DEF BootInv, BootTypeOK
    <2>2. LedgerInv(s, f) /\ BootTypeOK /\ FilesInv
      BY <2>1 DEF BootInv, FilesInv
    <2>3. /\ FlagsOk(f) /\ Lines(f) # <<>>
          /\ disk[Store(f)].is = (IF f.sharded = "no" THEN "ledger" ELSE "dir")
          /\ KeyIsKept(f) => At(f.key).is = "key" /\ MaySign(Lines(f), At(f.key).key, f.retired)
          /\ At(MissionsPath(f)).is \notin {"empty", "ledger"} =>
               At(MissionsPath(f)) \in {Json("nothing"), Json("missions")}
      BY <2>2 DEF LedgerInv, RecordsInv, RegistryKept, At
    <2>4. KeyIsKept(f) /\ At(MissionsPath(f)).is \notin {"empty", "ledger"} => LooksRight(f) /\ PathsRight(f)
      BY <2>2, <2>3, ServedPaths
    <2>. QED BY <2>1, <2>3, <2>4
  <1>. QED BY <1>1, BootInvariant, PTL

-----------------------------------------------------------------------------
(* What no step does to the files.                                           *)

FileKept(s) ==
    /\ (disk[s].is = "key" /\ ~HeldAsLedger(s)) \/ disk[s] = Json("missions") => disk'[s] = disk[s]
    /\ disk[s].is = "ledger" => disk'[s].is = "ledger" /\ IsPrefix(disk[s].lines, disk'[s].lines)

LEMMA UntouchedKept ==
  ASSUME BootTypeOK, NEW s \in DOMAIN disk,
         disk'[s] = disk[s] \/ disk[s] \in {Absent, Json("nothing")}
  PROVE  FileKept(s)
  <1>1. CASE disk'[s] = disk[s]
    <2>1. disk[s].is = "ledger" => disk[s].lines \in Seq(STRING)
      BY Places, ContentShapes
    <2>2. disk[s].is = "ledger" => IsPrefix(disk[s].lines, disk[s].lines)
      BY <2>1, LenProperties DEF IsPrefix
    <2>. QED BY <1>1, <2>2 DEF FileKept
  <1>2. CASE disk[s] \in {Absent, Json("nothing")}
    <2>1. disk[s].is \notin {"key", "ledger"} /\ disk[s] # Json("missions")
      <3>1. Json("nothing") # Json("missions") /\ Absent # Json("missions")
        BY DEF Json, Absent
      <3>. QED BY <1>2, <3>1, ContentIs
    <2>. QED BY <2>1 DEF FileKept
  <1>. QED BY <1>1, <1>2

LEMMA MorePrefixes ==
  ASSUME NEW lines \in Seq(STRING), NEW key \in STRING
  PROVE  IsPrefix(lines, Append(lines, key))
  <1>1. PICK more \in Seq(STRING) : more = Append(lines, key)
    BY AppendProperties
  <1>2. PICK n \in Nat : n = Len(lines)
    BY LenProperties
  <1>3. Len(more) = n + 1 /\ \A i \in 1..n : more[i] = lines[i]
    BY <1>1, <1>2, AppendProperties
  <1>4. SubSeq(lines, 1, n) = lines
    BY <1>2, SubSeqFull
  <1>5. \A i \in 1..n : more[i] \in STRING
    BY <1>3, LenProperties, ElementOfSeq
  <1>6. PICK part \in Seq(STRING) : part = SubSeq(more, 1, n)
    <2>1. 1 \in Int /\ n \in Int
      OBVIOUS
    <2>2. SubSeq(more, 1, n) \in Seq(STRING)
      BY ONLY <1>5, <2>1, SubSeqProperties, Zenon
    <2>. QED BY <2>2
  <1>7. Len(part) = n /\ \A i \in 1..n : part[i] = more[i]
    BY <1>5, <1>6, SubSeqProperties
  <1>8. part = lines
    BY <1>2, <1>3, <1>7, SeqEqual
  <1>. QED BY <1>1, <1>2, <1>3, <1>4, <1>6, <1>8 DEF IsPrefix

LEMMA RecordKept ==
  ASSUME BootInv, NEW p \in Starters, RecordSigned(p), NEW s \in DOMAIN disk
  PROVE  FileKept(s)
  <1>1. boots[p].pc = "serving" /\ ~NotRunning(p)
    BY DEF RecordSigned, NotRunning
  <1>2. PICK f \in CommandLines : f = boots[p].flags
    BY <1>1, StartRecords DEF BootInv
  <1>3. Running(p, f) /\ BootTypeOK /\ StartInv(p, f)
    BY <1>1, <1>2, AsStarted DEF Running
  <1>4. PICK key \in STRING : key = boots[p].key
    BY <1>1, <1>3 DEF StartInv, KeyInv
  <1>5. CASE s # Store(f)
    <2>1. disk'[s] = disk[s]
      BY <1>2, <1>5 DEF RecordSigned
    <2>. QED BY <1>3, <2>1, UntouchedKept
  <1>6. CASE s = Store(f)
    <2>1. disk'[s] = IF f.sharded # "no" THEN Dir(Append(Lines(f), key))
                     ELSE IF disk[s].is \in {"empty", "ledger"} THEN LedgerFile(Append(Lines(f), key))
                     ELSE Mixed
      BY <1>2, <1>4, <1>6 DEF RecordSigned
    <2>2. CASE f.sharded # "no"
      <3>1. disk[s].is = "dir"
        BY <1>1, <1>3, <1>6, <2>2 DEF StartInv, OpenedInv
      <3>2. disk[s] # Json("missions")
        BY <3>1, ContentIs
      <3>. QED BY <3>1, <3>2 DEF FileKept
    <2>3. CASE f.sharded = "no"
      <3>1. disk[s].is \in {"empty", "ledger", "key", "mixed"}
        BY <1>1, <1>3, <1>6, <2>3 DEF StartInv, OpenedInv, HeldInv
      <3>2. disk[s] # Json("missions")
        BY <3>1, ContentIs
      <3>3. HeldAsLedger(s)
        BY <1>1, <1>2, <1>6, <2>3 DEF HeldAsLedger, HoldsLedger
      <3>4. ASSUME disk[s].is = "ledger"
            PROVE  disk'[s].is = "ledger" /\ IsPrefix(disk[s].lines, disk'[s].lines)
        <4>1. Lines(f) = disk[s].lines /\ Lines(f) \in Seq(STRING)
          BY <1>3, <1>6, <3>4, StoredLines DEF Lines
        <4>2. disk'[s] = LedgerFile(Append(Lines(f), key))
          BY <2>1, <2>3, <3>4
        <4>. QED BY <4>1, <4>2, MorePrefixes, ContentIs
      <3>. QED BY <3>2, <3>3, <3>4 DEF FileKept
    <2>. QED BY <2>2, <2>3
  <1>. QED BY <1>5, <1>6

LEMMA StepKeepsFiles ==
  ASSUME BootInv, BootNext, NEW s \in DOMAIN disk, s \notin risked
  PROVE  FileKept(s)
  <1>1. BootTypeOK
    BY DEF BootInv
  <1>2. CASE PowerFails
    BY <1>1, <1>2, LostAt, UntouchedKept
  <1>3. ASSUME NEW p \in Starters, NEW f \in CommandLines, Start(p, f) PROVE FileKept(s)
    BY <1>1, <1>3, UntouchedKept DEF Start
  <1>4. ASSUME NEW p \in Starters,
               \/ Look(p) \/ CheckPaths(p) \/ BindAddress(p) \/ LoadSigningKey(p) \/ SyncKey(p)
               \/ SaveFailed(p) \/ EndProcess(p)
        PROVE  FileKept(s)
    <2>1. disk' = disk
      BY <1>4 DEF Look, CheckPaths, BindAddress, LoadSigningKey, SyncKey, SaveFailed, EndProcess
    <2>. QED BY <1>1, <2>1, UntouchedKept
  <1>5. ASSUME NEW p \in Starters, CreateKey(p) PROVE FileKept(s)
    <2>1. disk'[s] = disk[s] \/ disk[s] = Absent
      BY <1>5 DEF CreateKey, Write
    <2>. QED BY <1>1, <2>1, UntouchedKept
  <1>6. ASSUME NEW p \in Starters, FillKey(p) PROVE FileKept(s)
    <2>1. Real(boots[p].flags.key) # s
      <3>1. boots[p].pc = "fill"
        BY <1>6 DEF FillKey
      <3>2. Real(boots[p].flags.key) \in risked
        BY <3>1, WritersRisk DEF WritesKey
      <3>. QED BY <3>2
    <2>2. disk'[s] = disk[s]
      BY <1>6, <2>1 DEF FillKey, Write
    <2>. QED BY <1>1, <2>2, UntouchedKept
  <1>7. ASSUME NEW p \in Starters, OpenLedger(p) PROVE FileKept(s)
    <2>1. PICK place : place = Store(boots[p].flags)
      OBVIOUS
    <2>2. disk'[s] = disk[s] \/ disk[s] \in {Absent, Json("nothing")}
      BY <1>7, <2>1 DEF OpenLedger, Write
    <2>. QED BY <1>1, <2>2, UntouchedKept
  <1>8. ASSUME NEW p \in Starters, OpenStore(p) \/ OpenRegistry(p) PROVE FileKept(s)
    <2>1. disk'[s] = disk[s] \/ disk[s] = Absent
      BY <1>8 DEF OpenStore, OpenRegistry, WriteUnder
    <2>. QED BY <1>1, <2>1, UntouchedKept
  <1>9. ASSUME NEW p \in Starters, RegisterMission(p) PROVE FileKept(s)
    <2>1. disk'[s] = disk[s] \/ disk[s] = Json("nothing")
      BY <1>9 DEF RegisterMission
    <2>. QED BY <1>1, <2>1, UntouchedKept
  <1>10. ASSUME NEW p \in Starters, RecordSigned(p) PROVE FileKept(s)
    BY <1>10, RecordKept
  <1>. QED BY <1>2, <1>3, <1>4, <1>5, <1>6, <1>7, <1>8, <1>9, <1>10 DEF BootNext

\* No start and no server writes a key file again, takes the missions from a
\* registry, or does more to a ledger than extend it (open_single_inner).
THEOREM FilesAlwaysKept == BootSpec => FilesKept
  <1>1. BootInv /\ [BootNext]_bootVars =>
          [\A s \in DOMAIN disk \ risked :
             /\ (disk[s].is = "key" /\ ~HeldAsLedger(s)) \/ disk[s] = Json("missions") => disk'[s] = disk[s]
             /\ disk[s].is = "ledger" =>
                  disk'[s].is = "ledger" /\ IsPrefix(disk[s].lines, disk'[s].lines)]_bootVars
    BY StepKeepsFiles DEF FileKept
  <1>. QED BY <1>1, BootInvariant, PTL DEF BootSpec, FilesKept

-----------------------------------------------------------------------------
(* The audit surface.                                                        *)

AuditRecord == [about : Entries \cup {"nobody"}, ts : Int]

\* A computation counted no more records than there are: the log only grows.
CountsAreBelow ==
    \A k \in DOMAIN tasks : tasks[k].phase = "counted" => tasks[k].count \in 0..Len(log)

\* The log's times are in the past.
TimesArePast == \A i \in DOMAIN log : log[i].ts <= clock

\* Whoever rewrites the log, a head once published is one the service signed.
HeadsAreSigned == \A h \in heads : h.size \in Nat /\ h.by = "ours"

\* Once the operator has rewritten the log, the service is stopped.
StoppedOnceRewritten ==
    rewritten => answer = NoAnswer /\ \A k \in DOMAIN tasks : tasks[k].phase = "stopped"

AuditInv ==
    /\ DOMAIN tasks = {"anchor", "projection"}
    /\ rewritten \in BOOLEAN
    /\ StoppedOnceRewritten
    /\ clock \in Int /\ log \in Seq(AuditRecord)
    /\ ~rewritten => CountsAreBelow /\ TimesArePast
    /\ HeadsAreSigned
    /\ HeadsCommitToTheLog
    /\ HeadsAreNotBackdated
    /\ ProjectionIsComplete

LEMMA AuditInit_Inv == AuditInit => AuditInv
  <1>. SUFFICES ASSUME AuditInit PROVE AuditInv
    OBVIOUS
  <1>1. PICK n \in StartLengths : log = [i \in 1..n |-> [about |-> "nobody", ts |-> -1]]
    BY DEF AuditInit
  <1>2. n \in Nat /\ clock = 0
    BY EvidenceAssumption DEF AuditInit
  <1>3. \A i \in 1..n : [about |-> "nobody", ts |-> -1] \in AuditRecord
    BY DEF AuditRecord
  <1>4. log \in Seq(AuditRecord)
    BY <1>1, <1>2, <1>3
  <1>5. TimesArePast
    BY <1>1, <1>2 DEF TimesArePast
  <1>6. CountsAreBelow /\ StoppedOnceRewritten
    BY DEF AuditInit, CountsAreBelow, StoppedOnceRewritten, Unasked
  <1>7. /\ HeadsCommitToTheLog /\ HeadsAreNotBackdated /\ ProjectionIsComplete
        /\ HeadsAreSigned
    BY DEF AuditInit, HeadsAreSigned, HeadsCommitToTheLog, HeadsAreNotBackdated, ProjectionIsComplete
  <1>8. DOMAIN tasks = {"anchor", "projection"} /\ rewritten \in BOOLEAN
    BY DEF AuditInit
  <1>. QED BY <1>2, <1>4, <1>5, <1>6, <1>7, <1>8 DEF AuditInv

\* The prefix below n of a log that grows stays what it was.
LEMMA PrefixStays ==
  ASSUME NEW S, NEW s \in Seq(S), NEW e \in S, NEW n \in 0..Len(s)
  PROVE  /\ SubSeq(Append(s, e), 1, n) = SubSeq(s, 1, n)
         /\ \A i \in 1..n : Append(s, e)[i] = s[i]
         /\ n \in 0..Len(Append(s, e))
  OBVIOUS

LEMMA AppendRecordKeeps ==
  ASSUME AuditInv, NEW e \in Entries, AppendRecord(e)
  PROVE  AuditInv'
  <1>. DEFINE r == [about |-> e, ts |-> clock]
  <1>1. /\ log' = Append(log, r) /\ answer' = NoAnswer
        /\ UNCHANGED <<clock, tasks, cache, heads, rewritten>>
    BY DEF AppendRecord, Projects
  <1>2. StoppedOnceRewritten' /\ ProjectionIsComplete' /\ HeadsAreSigned'
    BY <1>1 DEF AuditInv, StoppedOnceRewritten, ProjectionIsComplete, HeadsAreSigned
  <1>3. clock \in Int /\ log \in Seq(AuditRecord)
    BY DEF AuditInv
  <1>4. r \in AuditRecord
    BY <1>3 DEF AuditRecord
  <1>5. log' \in Seq(AuditRecord) /\ Len(log') = Len(log) + 1
    BY <1>1, <1>3, <1>4
  <1>6. ASSUME ~rewritten
        PROVE  CountsAreBelow' /\ TimesArePast' /\ HeadsCommitToTheLog' /\ HeadsAreNotBackdated'
    <2>1. CountsAreBelow /\ TimesArePast
      BY <1>6 DEF AuditInv
    <2>2. CountsAreBelow'
      BY <1>1, <1>3, <1>5, <2>1 DEF CountsAreBelow
    <2>3. TimesArePast'
      <3>. SUFFICES ASSUME NEW i \in 1..(Len(log) + 1)
                    PROVE  log'[i].ts <= clock
        BY <1>1, <1>5 DEF TimesArePast
      <3>1. CASE i = Len(log) + 1
        BY <3>1, <1>1, <1>3, <1>4
      <3>2. CASE i \in 1..Len(log)
        BY <3>2, <1>1, <1>3, <1>4, <2>1 DEF TimesArePast
      <3>. QED BY <3>1, <3>2, <1>3
    <2>4. \A h \in heads : h.size \in 0..Len(log) /\ h.root = RootOf(Leaves(SubSeq(log, 1, h.size)))
      BY <1>6 DEF AuditInv, HeadsCommitToTheLog
    <2>5. HeadsCommitToTheLog'
      <3>. SUFFICES ASSUME NEW h \in heads
                    PROVE  h.size \in 0..Len(log') /\ h.root = RootOf(Leaves(SubSeq(log', 1, h.size)))
        BY <1>1 DEF HeadsCommitToTheLog, Leaves
      <3>1. SubSeq(log', 1, h.size) = SubSeq(log, 1, h.size) /\ h.size \in 0..Len(log')
        BY <1>1, <1>3, <1>4, <2>4, PrefixStays
      <3>. QED BY <3>1, <2>4
    <2>6. HeadsAreNotBackdated'
      <3>. SUFFICES ASSUME NEW h \in heads, NEW i \in 1..h.size
                    PROVE  log'[i].ts <= h.ts
        BY <1>1 DEF HeadsAreNotBackdated
      <3>1. log'[i] = log[i]
        BY <1>1, <1>3, <1>4, <2>4, PrefixStays
      <3>. QED BY <3>1, <1>6 DEF AuditInv, HeadsAreNotBackdated
    <2>. QED BY <2>2, <2>3, <2>5, <2>6
  <1>7. ASSUME rewritten PROVE HeadsCommitToTheLog' /\ HeadsAreNotBackdated'
    BY <1>1, <1>7 DEF HeadsCommitToTheLog, HeadsAreNotBackdated
  <1>. QED BY <1>1, <1>2, <1>3, <1>5, <1>6, <1>7 DEF AuditInv

\* What a step that leaves the log and the heads alone has to keep.
LEMMA UnrecordedKeeps ==
  ASSUME AuditInv, UNCHANGED <<log, heads, rewritten>>, answer' = NoAnswer,
         clock' \in Int, clock' >= clock, ~rewritten => CountsAreBelow',
         DOMAIN tasks' = DOMAIN tasks, StoppedOnceRewritten'
  PROVE  AuditInv'
  <1>1. ProjectionIsComplete' /\ HeadsCommitToTheLog' /\ HeadsAreNotBackdated' /\ HeadsAreSigned'
    BY DEF AuditInv, HeadsAreSigned, HeadsCommitToTheLog, HeadsAreNotBackdated, ProjectionIsComplete, Leaves
  <1>2. ASSUME ~rewritten PROVE TimesArePast'
    <2>1. clock \in Int /\ log \in Seq(AuditRecord) /\ TimesArePast
      BY <1>2 DEF AuditInv
    <2>2. \A i \in DOMAIN log : log[i].ts \in Int
      <3>1. \A i \in DOMAIN log : log[i] \in AuditRecord
        BY <2>1
      <3>. QED BY <3>1 DEF AuditRecord
    <2>. QED BY <2>1, <2>2 DEF TimesArePast
  <1>. QED BY <1>1, <1>2 DEF AuditInv

LEMMA TaskStepsKeep ==
  ASSUME AuditInv, NEW k \in DOMAIN tasks, Ask(k) \/ Count(k) \/ GiveUp(k)
  PROVE  AuditInv'
  <1>1. /\ UNCHANGED <<log, clock, cache, heads, rewritten>> /\ answer' = NoAnswer
        /\ DOMAIN tasks' = DOMAIN tasks
    BY DEF Ask, Count, GiveUp, Projects
  <1>2. \A j \in DOMAIN tasks : j # k => tasks'[j] = tasks[j]
    BY DEF Ask, Count, GiveUp
  <1>3. tasks[k].phase # "stopped"
    BY DEF Ask, Count, GiveUp, Unasked
  <1>4. ~rewritten
    BY <1>3 DEF AuditInv, StoppedOnceRewritten
  <1>5. tasks'[k].phase = "counted" => tasks'[k].count = Len(log)
    <2>1. CASE Ask(k)
      BY <2>1 DEF Ask
    <2>2. CASE Count(k)
      BY <2>2 DEF Count, Unasked
    <2>3. CASE GiveUp(k)
      BY <2>3 DEF GiveUp, Unasked
    <2>. QED BY <2>1, <2>2, <2>3
  <1>6. clock \in Int /\ log \in Seq(AuditRecord) /\ CountsAreBelow
    BY <1>4 DEF AuditInv
  <1>7. CountsAreBelow'
    BY <1>1, <1>2, <1>5, <1>6 DEF CountsAreBelow
  <1>8. StoppedOnceRewritten'
    BY <1>1, <1>4 DEF StoppedOnceRewritten
  <1>. QED BY <1>1, <1>6, <1>7, <1>8, UnrecordedKeeps

LEMMA TickKeeps ==
  ASSUME AuditInv, AuditTick
  PROVE  AuditInv'
  <1>1. UNCHANGED <<log, tasks, cache, heads, rewritten>> /\ answer' = NoAnswer /\ clock' = clock + 1
    BY DEF AuditTick, Projects
  <1>2. StoppedOnceRewritten'
    BY <1>1 DEF AuditInv, StoppedOnceRewritten
  <1>3. ASSUME ~rewritten PROVE CountsAreBelow'
    BY <1>1, <1>3 DEF AuditInv, CountsAreBelow
  <1>4. clock' \in Int /\ clock' >= clock
    BY <1>1 DEF AuditInv
  <1>. QED BY <1>1, <1>2, <1>3, <1>4, UnrecordedKeeps

\* The head a computation signs commits to the prefix it counted, at a time no
\* record of the log is later than.
LEMMA SignedHead ==
  ASSUME AuditInv, ~rewritten, NEW k \in DOMAIN tasks, tasks[k].phase = "counted",
         NEW head, head = HeadOver(Prefix(tasks[k]), SigningTime(tasks[k]))
  PROVE  /\ head.size \in 0..Len(log) /\ head.by = "ours"
         /\ Prefix(tasks[k]) = SubSeq(log, 1, head.size)
         /\ head.root = RootOf(Leaves(SubSeq(log, 1, head.size)))
         /\ \A i \in 1..head.size : log[i].ts <= head.ts
  <1>1. clock \in Int /\ log \in Seq(AuditRecord) /\ CountsAreBelow /\ TimesArePast
    BY DEF AuditInv
  <1>2. PICK n \in 0..Len(log) : n = tasks[k].count
    BY <1>1 DEF CountsAreBelow
  <1>3. Len(SubSeq(log, 1, n)) = n
    BY <1>1
  <1>4. /\ head.size = n /\ head.root = RootOf(Leaves(SubSeq(log, 1, n))) /\ head.ts = clock
        /\ head.by = "ours"
    BY <1>2, <1>3 DEF HeadOver, Prefix, SigningTime
  <1>5. \A i \in 1..n : log[i].ts <= clock
    BY <1>1 DEF TimesArePast
  <1>. QED BY <1>2, <1>4, <1>5 DEF Prefix

LEMMA PublishedKeeps ==
  ASSUME AuditInv, ~rewritten, UNCHANGED <<log, rewritten>>, NEW head, Published(head),
         head.size \in 0..Len(log), head.by = "ours",
         head.root = RootOf(Leaves(SubSeq(log, 1, head.size))),
         \A i \in 1..head.size : log[i].ts <= head.ts
  PROVE  HeadsCommitToTheLog' /\ HeadsAreNotBackdated' /\ HeadsAreSigned'
  <1>1. heads' \subseteq heads \cup {head}
    BY DEF Published
  <1>2. HeadsCommitToTheLog'
    <2>. SUFFICES ASSUME NEW h \in heads'
                  PROVE  h.size \in 0..Len(log) /\ h.root = RootOf(Leaves(SubSeq(log, 1, h.size)))
      BY DEF HeadsCommitToTheLog, Leaves
    <2>. QED BY <1>1 DEF AuditInv, HeadsCommitToTheLog
  <1>3. HeadsAreNotBackdated'
    <2>. SUFFICES ASSUME NEW h \in heads', NEW i \in 1..h.size
                  PROVE  log[i].ts <= h.ts
      BY DEF HeadsAreNotBackdated
    <2>1. CASE h = head
      BY <2>1
    <2>2. CASE h \in heads
      BY <2>2 DEF AuditInv, HeadsAreNotBackdated
    <2>. QED BY <1>1, <2>1, <2>2
  <1>4. HeadsAreSigned'
    <2>1. head.size \in Nat
      BY DEF AuditInv
    <2>. QED BY <1>1, <2>1 DEF AuditInv, HeadsAreSigned
  <1>. QED BY <1>2, <1>3, <1>4

\* What both computations leave as they end.
LEMMA SigningKeeps ==
  ASSUME AuditInv, NEW k \in DOMAIN tasks, tasks[k].phase = "counted",
         tasks' = [tasks EXCEPT ![k] = Unasked], UNCHANGED <<log, clock, rewritten>>,
         NEW head, head = HeadOver(Prefix(tasks[k]), SigningTime(tasks[k])), Published(head),
         ProjectionIsComplete'
  PROVE  AuditInv'
  <1>1. ~rewritten
    BY DEF AuditInv, StoppedOnceRewritten
  <1>2. HeadsCommitToTheLog' /\ HeadsAreNotBackdated' /\ HeadsAreSigned'
    BY <1>1, SignedHead, PublishedKeeps
  <1>3. clock \in Int /\ log \in Seq(AuditRecord) /\ CountsAreBelow /\ TimesArePast
    BY <1>1 DEF AuditInv
  <1>4. CountsAreBelow'
    BY <1>3 DEF CountsAreBelow, Unasked
  <1>5. StoppedOnceRewritten' /\ TimesArePast'
    BY <1>1, <1>3 DEF StoppedOnceRewritten, TimesArePast
  <1>. QED BY <1>1, <1>2, <1>3, <1>4, <1>5 DEF AuditInv

LEMMA SignTreeHeadKeeps ==
  ASSUME AuditInv, SignTreeHead
  PROVE  AuditInv'
  <1>1. PICK head : head = HeadOver(Prefix(tasks["anchor"]), SigningTime(tasks["anchor"]))
    OBVIOUS
  <1>2. /\ tasks["anchor"].phase = "counted" /\ Published(head)
        /\ tasks' = [tasks EXCEPT !["anchor"] = Unasked] /\ answer' = NoAnswer
        /\ UNCHANGED <<log, clock, rewritten>>
    BY <1>1 DEF SignTreeHead, Projects
  <1>3. ProjectionIsComplete'
    BY <1>2 DEF ProjectionIsComplete
  <1>4. "anchor" \in DOMAIN tasks
    BY DEF AuditInv
  <1>. QED BY <1>1, <1>2, <1>3, <1>4, SigningKeeps

LEMMA ProjectKeeps ==
  ASSUME AuditInv, Project
  PROVE  AuditInv'
  <1>. DEFINE t == tasks["projection"]
  <1>1. PICK head : head = HeadOver(Prefix(t), SigningTime(t))
    OBVIOUS
  <1>2. PICK lines : lines = Prefix(t)
    OBVIOUS
  <1>3. PICK page : page = Projected(lines).seqs
    OBVIOUS
  <1>4. /\ t.phase = "counted" /\ Published(head)
        /\ tasks' = [tasks EXCEPT !["projection"] = Unasked]
        /\ UNCHANGED <<log, clock, rewritten>>
        /\ answer' = [head |-> head, truncated |-> Projected(lines).truncated,
                      decisions |-> [i \in page |->
                         [record |-> lines[i], leaf |-> Leaves(lines)[i],
                          path |-> PathOf(Leaves(lines), i - 1)]]]
    BY <1>1, <1>2, <1>3 DEF Project, Projects
  <1>5. "projection" \in DOMAIN tasks
    BY DEF AuditInv
  <1>6. ~rewritten
    BY <1>4, <1>5 DEF AuditInv, StoppedOnceRewritten
  <1>7. /\ lines = SubSeq(log, 1, head.size) /\ head.size \in 0..Len(log)
        /\ head.root = RootOf(Leaves(lines))
    BY <1>1, <1>2, <1>4, <1>5, <1>6, SignedHead
  <1>8. /\ page \subseteq Matching(lines)
        /\ Projected(lines).truncated <=> page # Matching(lines)
    BY <1>3 DEF Projected
  <1>9. ProjectionIsComplete'
    <2>1. /\ answer'.head = head /\ DOMAIN answer'.decisions = page
          /\ answer'.truncated = Projected(lines).truncated
      BY <1>4
    <2>2. \A i \in page :
             /\ answer'.decisions[i].record = lines[i]
             /\ answer'.decisions[i].leaf = Leaves(lines)[i]
             /\ answer'.decisions[i].path = PathOf(Leaves(lines), i - 1)
      BY <1>4
    <2>3. \A i \in page : lines[i].about = Subject /\ Leaves(lines)[i] = SubSeq(log, 1, i)
      <3>. SUFFICES ASSUME NEW i \in page
                    PROVE  lines[i].about = Subject /\ Leaves(lines)[i] = SubSeq(log, 1, i)
        OBVIOUS
      <3>1. log \in Seq(AuditRecord)
        BY <1>6 DEF AuditInv
      <3>2. i \in DOMAIN lines /\ lines[i].about = Subject
        BY <1>8 DEF Matching
      <3>3. DOMAIN lines = 1..head.size
        BY <1>7, <3>1
      <3>4. SubSeq(SubSeq(log, 1, head.size), 1, i) = SubSeq(log, 1, i)
        BY <1>7, <3>1, <3>2, <3>3
      <3>. QED BY <1>7, <3>2, <3>4 DEF Leaves
    <2>. QED BY <1>4, <1>7, <1>8, <2>1, <2>2, <2>3 DEF ProjectionIsComplete, Matching, Leaves
  <1>. QED BY <1>1, <1>4, <1>5, <1>9, SigningKeeps

LEMMA RewriteKeeps ==
  ASSUME AuditInv, NEW i \in DOMAIN log, NEW keep \in BOOLEAN, Rewrite(i, keep)
  PROVE  AuditInv'
  <1>1. /\ rewritten' = TRUE /\ answer' = NoAnswer /\ UNCHANGED <<clock, heads>>
        /\ tasks' = [k \in DOMAIN tasks |-> [phase |-> "stopped"]]
        /\ log' = IF keep THEN [log EXCEPT ![i].about = "nobody"] ELSE SubSeq(log, 1, i - 1)
    BY DEF Rewrite, Projects
  <1>2. log \in Seq(AuditRecord) /\ i \in 1..Len(log)
    BY DEF AuditInv
  <1>3. log' \in Seq(AuditRecord)
    <2>1. CASE keep
      <3>1. PICK r : r = [log[i] EXCEPT !.about = "nobody"]
        OBVIOUS
      <3>2. log[i] \in AuditRecord
        BY <1>2
      <3>3. r \in AuditRecord
        BY <3>1, <3>2 DEF AuditRecord
      <3>4. log' = [log EXCEPT ![i] = r]
        BY <2>1, <1>1, <3>1
      <3>. QED BY <3>3, <3>4, <1>2
    <2>2. CASE ~keep
      BY <2>2, <1>1, <1>2
    <2>. QED BY <2>1, <2>2
  <1>. QED BY <1>1, <1>3 DEF AuditInv, StoppedOnceRewritten, HeadsAreSigned,
                HeadsCommitToTheLog, HeadsAreNotBackdated, ProjectionIsComplete

LEMMA AuditStutterKeeps ==
  ASSUME AuditInv, UNCHANGED auditVars
  PROVE  AuditInv'
  <1>1. UNCHANGED <<log, clock, tasks, heads, answer, rewritten>>
    BY DEF auditVars
  <1>2. ProjectionIsComplete'
    BY <1>1 DEF AuditInv, ProjectionIsComplete, Leaves, Matching
  <1>3. HeadsCommitToTheLog' /\ HeadsAreNotBackdated' /\ HeadsAreSigned'
    BY <1>1 DEF AuditInv, HeadsCommitToTheLog, HeadsAreNotBackdated, HeadsAreSigned, Leaves
  <1>4. StoppedOnceRewritten' /\ (~rewritten => CountsAreBelow' /\ TimesArePast')
    BY <1>1 DEF AuditInv, StoppedOnceRewritten, CountsAreBelow, TimesArePast
  <1>. QED BY <1>1, <1>2, <1>3, <1>4 DEF AuditInv

LEMMA AuditNext_Inv == AuditInv /\ [AuditNext]_auditVars => AuditInv'
  <1>. SUFFICES ASSUME AuditInv, [AuditNext]_auditVars PROVE AuditInv'
    OBVIOUS
  <1>1. CASE \E e \in Entries : AppendRecord(e)
    BY <1>1, AppendRecordKeeps
  <1>2. CASE \E k \in DOMAIN tasks : Ask(k) \/ Count(k) \/ GiveUp(k)
    BY <1>2, TaskStepsKeep
  <1>3. CASE SignTreeHead
    BY <1>3, SignTreeHeadKeeps
  <1>4. CASE Project
    BY <1>4, ProjectKeeps
  <1>5. CASE AuditTick
    BY <1>5, TickKeeps
  <1>6. CASE \E i \in DOMAIN log, keep \in BOOLEAN : Rewrite(i, keep)
    BY <1>6, RewriteKeeps
  <1>7. CASE UNCHANGED auditVars
    BY <1>7, AuditStutterKeeps
  <1>. QED BY <1>1, <1>2, <1>3, <1>4, <1>5, <1>6, <1>7 DEF AuditNext

\* The audit surface, for any handles, starting logs, caps and refresh times,
\* and for any tree hash: its computations count what the log has, and sign
\* what they counted.
THEOREM AuditInvariant == AuditSpec => []AuditInv
  <1>. QED BY AuditInit_Inv, AuditNext_Inv, PTL DEF AuditSpec

\* However appends interleave with the two computations, heads commit to the
\* log's records and are not backdated, and projections are what the log held
\* (tree_head, project).
THEOREM AuditAlwaysSound == AuditSpec => []AuditSound
  <1>1. AuditInv => AuditSound
    BY DEF AuditInv, AuditSound
  <1>. QED BY <1>1, AuditInvariant, PTL

-----------------------------------------------------------------------------
(* Evidence bundles.                                                         *)

LEMMA SnapshotFields ==
  ASSUME NEW from \in 0..Len(log), log \in Seq(AuditRecord)
  PROVE  LET b == Snapshot(from) IN
         /\ b.from = from
         /\ DOMAIN b.records = 1..(Len(log) - from) /\ Len(b.records) = Len(log) - from
         /\ \A i \in 1..(Len(log) - from) :
              /\ b.records[i].entry = log[from + i] /\ b.records[i].by = "ours"
              /\ b.records[i].prev = SubSeq(log, 1, from + i - 1)
              /\ b.records[i].hash = SubSeq(log, 1, from + i)
         /\ b.checkpoint = [root |-> log, count |-> Len(log), by |-> "ours"]
         /\ b.head = HeadOver(log, clock)
  <1>1. Len(log) \in Nat
    OBVIOUS
  <1>2. PICK rs : rs = Snapshot(from).records
    OBVIOUS
  <1>3. rs = [i \in 1..(Len(log) - from) |->
                [entry |-> log[from + i], prev |-> SubSeq(log, 1, from + i - 1),
                 hash |-> SubSeq(log, 1, from + i), by |-> "ours"]]
    BY <1>2 DEF Snapshot
  <1>4. Len(rs) = Len(log) - from
    BY <1>1, <1>3
  <1>. QED BY <1>2, <1>3, <1>4 DEF Snapshot

LEMMA SnapshotChains ==
  ASSUME NEW from \in 0..Len(log), log \in Seq(AuditRecord)
  PROVE  ChainOk(Snapshot(from))
  <1>. DEFINE b == Snapshot(from)
              n == Len(log) - from
  <1>1. /\ b.from = from /\ DOMAIN b.records = 1..n
        /\ \A i \in 1..n :
             /\ b.records[i].entry = log[from + i] /\ b.records[i].by = "ours"
             /\ b.records[i].prev = SubSeq(log, 1, from + i - 1)
             /\ b.records[i].hash = SubSeq(log, 1, from + i)
    BY SnapshotFields
  <1>. HIDE DEF b
  <1>. SUFFICES ASSUME NEW i \in 1..n
                PROVE  /\ b.records[i].hash = Append(b.records[i].prev, b.records[i].entry)
                       /\ i = 1 /\ b.from = 0 => b.records[i].prev = <<>>
                       /\ i > 1 => b.records[i].prev = b.records[i - 1].hash
    BY <1>1 DEF ChainOk, b
  <1>2. /\ b.records[i].entry = log[from + i] /\ b.records[i].prev = SubSeq(log, 1, from + i - 1)
        /\ b.records[i].hash = SubSeq(log, 1, from + i)
    BY <1>1
  <1>3. PICK k \in 1..Len(log) : k = from + i
    OBVIOUS
  <1>4. SubSeq(log, 1, k) = Append(SubSeq(log, 1, k - 1), log[k])
    OBVIOUS
  <1>5. SubSeq(log, 1, from + i) = Append(SubSeq(log, 1, from + i - 1), log[from + i])
    BY <1>3, <1>4
  <1>6. b.records[i].hash = Append(b.records[i].prev, b.records[i].entry)
    BY <1>2, <1>5
  <1>7. i = 1 /\ from = 0 => SubSeq(log, 1, from + i - 1) = <<>>
    OBVIOUS
  <1>8. ASSUME i > 1 PROVE b.records[i - 1].hash = SubSeq(log, 1, from + i - 1)
    <2>1. i - 1 \in 1..n /\ from + (i - 1) = from + i - 1
      BY <1>8
    <2>2. b.records[i - 1].hash = SubSeq(log, 1, from + (i - 1))
      BY <1>1, <2>1
    <2>. QED BY <2>1, <2>2
  <1>. QED BY <1>1, <1>2, <1>6, <1>7, <1>8

\* What whoever holds the log exports verifies, whole or cut at its start.
LEMMA SnapshotVerifies ==
  ASSUME NEW from \in 0..Len(log), log \in Seq(AuditRecord)
  PROVE  VerifyEvidenceBundle(Snapshot(from), NoHead)
  <1>. DEFINE b == Snapshot(from)
              n == Len(log) - from
  <1>1. /\ b.from = from /\ DOMAIN b.records = 1..n /\ Len(b.records) = n
        /\ \A i \in 1..n :
             /\ b.records[i].entry = log[from + i] /\ b.records[i].by = "ours"
             /\ b.records[i].prev = SubSeq(log, 1, from + i - 1)
             /\ b.records[i].hash = SubSeq(log, 1, from + i)
        /\ b.checkpoint = [root |-> log, count |-> Len(log), by |-> "ours"]
        /\ b.head = HeadOver(log, clock)
    BY SnapshotFields
  <1>2. ChainOk(b)
    BY SnapshotChains
  <1>. HIDE DEF b
  <1>3. /\ b.head.size = Len(log) /\ b.head.by = "ours" /\ b.head.root = RootOf(Leaves(log))
        /\ b.head # NoHead
    BY <1>1 DEF HeadOver, NoHead
  <1>4. SignaturesOk(b)
    BY <1>1, <1>3 DEF SignaturesOk
  <1>5. AnchorOk(b)
    <2>1. b.records = <<>> => from = Len(log)
      BY <1>1
    <2>2. b.records # <<>> => Last(b.records).hash = log
      <3>. SUFFICES ASSUME b.records # <<>> PROVE Last(b.records).hash = log
        OBVIOUS
      <3>1. n \in 1..n
        <4>1. b.records = [i \in 1..n |-> b.records[i]]
          BY <1>1 DEF b, Snapshot
        <4>. QED BY <1>1, <4>1
      <3>2. Last(b.records) = b.records[n]
        BY <1>1 DEF Last
      <3>3. b.records[n].hash = SubSeq(log, 1, Len(log))
        BY <1>1, <3>1
      <3>. QED BY <3>2, <3>3
    <2>. QED BY <1>1, <1>3, <2>1, <2>2 DEF AnchorOk
  <1>6. from = 0 => b.head.root = RootOf(RecordHashes(b))
    <2>. SUFFICES ASSUME from = 0 PROVE RecordHashes(b) = Leaves(log)
      BY <1>3
    <2>. QED BY <1>1 DEF RecordHashes, Leaves
  <1>. QED BY <1>1, <1>2, <1>4, <1>5, <1>6 DEF VerifyEvidenceBundle, b

\* Without its tree head a bundle commits to nothing, and is refused.
LEMMA HeadlessRefused ==
  ~VerifyEvidenceBundle([Snapshot(0) EXCEPT !.head = NoHead], NoHead)
  <1>1. PICK b : b = [Snapshot(0) EXCEPT !.head = NoHead]
    OBVIOUS
  <1>2. b.head = NoHead
    BY <1>1 DEF Snapshot
  <1>. QED BY <1>1, <1>2 DEF VerifyEvidenceBundle, SignaturesOk

\* Nor does one that leaves its last record out.
LEMMA ShortRefused ==
  ASSUME log \in Seq(AuditRecord), log # <<>>
  PROVE  LET whole == Snapshot(0) IN
         ~VerifyEvidenceBundle([whole EXCEPT !.records = SubSeq(@, 1, Len(@) - 1)], NoHead)
  <1>1. PICK rs : rs = Snapshot(0).records
    OBVIOUS
  <1>2. PICK b : b = [Snapshot(0) EXCEPT !.records = SubSeq(rs, 1, Len(rs) - 1)]
    OBVIOUS
  <1>3. b.from = 0 /\ b.checkpoint.count = Len(log) /\ b.records = SubSeq(rs, 1, Len(rs) - 1)
    BY <1>2 DEF Snapshot
  <1>4. Len(rs) = Len(log) /\ DOMAIN rs = 1..Len(log) /\ Len(log) \in Nat \ {0}
    BY <1>1, SnapshotFields
  <1>5. Len(b.records) = Len(log) - 1
    BY <1>3, <1>4
  <1>6. ~AnchorOk(b)
    <2>1. PICK n \in Nat : n = Len(log)
      OBVIOUS
    <2>2. b.from + Len(b.records) = n - 1 /\ b.checkpoint.count = n
      BY <1>3, <1>5, <2>1
    <2>3. b.from + Len(b.records) # b.checkpoint.count
      BY ONLY n \in Nat, <2>2
    <2>. QED BY <2>3 DEF AnchorOk
  <1>7. [Snapshot(0) EXCEPT !.records = SubSeq(@, 1, Len(@) - 1)] = b
    BY <1>1, <1>2
  <1>. QED BY <1>6, <1>7 DEF VerifyEvidenceBundle

\* Nor does one in which a record is about something else than what was sealed.
LEMMA AlteredRefused ==
  ASSUME log \in Seq(AuditRecord), NEW i \in DOMAIN log, NEW e, e # log[i].about
  PROVE  LET whole == Snapshot(0) IN
         ~VerifyEvidenceBundle([whole EXCEPT !.records[i].entry.about = e], NoHead)
  <1>1. PICK entry : entry = [log[i] EXCEPT !.about = e]
    OBVIOUS
  <1>2. PICK rs : rs = Snapshot(0).records
    OBVIOUS
  <1>3. PICK b : b = [Snapshot(0) EXCEPT !.records[i].entry.about = e]
    OBVIOUS
  <1>4. /\ DOMAIN rs = 1..Len(log) /\ i \in 1..Len(log)
        /\ rs[i].entry = log[i] /\ rs[i].prev = SubSeq(log, 1, i - 1) /\ rs[i].hash = SubSeq(log, 1, i)
    <2>1. 0 \in 0..Len(log) /\ Len(log) - 0 = Len(log) /\ i \in 1..Len(log) /\ i \in Nat
      OBVIOUS
    <2>2. /\ DOMAIN rs = 1..(Len(log) - 0)
          /\ \A k \in 1..(Len(log) - 0) :
               /\ rs[k].entry = log[0 + k] /\ rs[k].prev = SubSeq(log, 1, 0 + k - 1)
               /\ rs[k].hash = SubSeq(log, 1, 0 + k)
      BY <1>2, <2>1, SnapshotFields
    <2>3. 0 + i = i /\ 0 + i - 1 = i - 1
      BY <2>1
    <2>4. /\ rs[i].entry = log[0 + i] /\ rs[i].prev = SubSeq(log, 1, 0 + i - 1)
          /\ rs[i].hash = SubSeq(log, 1, 0 + i)
      BY <2>1, <2>2
    <2>. QED BY <2>1, <2>2, <2>3, <2>4
  <1>5. DOMAIN rs[i] = {"entry", "prev", "hash", "by"}
    BY <1>2, <1>4 DEF Snapshot
  <1>6. /\ DOMAIN b.records = 1..Len(log)
        /\ b.records[i].entry = entry /\ b.records[i].prev = rs[i].prev /\ b.records[i].hash = rs[i].hash
    <2>1. b.records = [rs EXCEPT ![i].entry.about = e]
      BY <1>2, <1>3 DEF Snapshot
    <2>2. b.records[i] = [rs[i] EXCEPT !.entry.about = e]
      BY <2>1, <1>4
    <2>3. b.records[i].entry = [rs[i].entry EXCEPT !.about = e]
      BY <2>2, <1>5
    <2>. QED BY <1>1, <1>4, <1>5, <2>1, <2>2, <2>3
  <1>7. entry # log[i]
    <2>1. log[i] \in AuditRecord
      BY <1>4
    <2>2. entry.about = e
      BY <1>1, <2>1 DEF AuditRecord
    <2>. QED BY <2>2
  <1>8. SubSeq(log, 1, i) # Append(SubSeq(log, 1, i - 1), entry)
    BY <1>4, <1>7
  <1>9. ~ChainOk(b)
    BY <1>4, <1>6, <1>8 DEF ChainOk
  <1>. QED BY <1>3, <1>9 DEF VerifyEvidenceBundle

\* Against a head of this deployment's, whatever became of the log since.
LEMMA AgainstHead ==
  ASSUME AuditInv, ConsistencyIsExact, NEW h \in heads
  PROVE  VerifyEvidenceBundle(Snapshot(0), h) <=>
           h.size \in 1..Len(log) /\ h.root = RootOf(Leaves(SubSeq(log, 1, h.size)))
  <1>. DEFINE b == Snapshot(0)
  <1>1. log \in Seq(AuditRecord) /\ h.size \in Nat /\ h.by = "ours" /\ h # NoHead
    BY DEF AuditInv, HeadsAreSigned, NoHead
  <1>2. /\ b.from = 0 /\ DOMAIN b.records = 1..Len(log) /\ Len(b.records) = Len(log)
        /\ \A i \in 1..Len(log) : b.records[i].hash = SubSeq(log, 1, i)
        /\ b.head = HeadOver(log, clock)
    BY <1>1, SnapshotFields
  <1>3. VerifyEvidenceBundle(b, NoHead)
    BY <1>1, SnapshotVerifies
  <1>. HIDE DEF b
  <1>4. RecordHashes(b) = Leaves(log)
    BY <1>1, <1>2 DEF RecordHashes, Leaves
  <1>5. b.head.size = Len(log) /\ b.head.root = RootOf(Leaves(log))
    BY <1>2 DEF HeadOver
  <1>6. VerifyEvidenceBundle(b, h) <=> ConsistentWith(b, h)
    BY <1>1, <1>3 DEF VerifyEvidenceBundle
  <1>7. ConsistentWith(b, h) <=>
          /\ h.size \in 1..Len(log)
          /\ ConsistencyVerifies(h.size, Len(log), h.root, RootOf(Leaves(log)),
                                 ConsistencyOf(Leaves(log), h.size))
    BY <1>1, <1>2, <1>4, <1>5 DEF ConsistentWith
  <1>. QED BY <1>6, <1>7 DEF ConsistencyIsExact, b

LEMMA PartialRefused ==
  ASSUME AuditInv, NEW h \in heads, NEW from \in 1..Len(log)
  PROVE  ~VerifyEvidenceBundle(Snapshot(from), h)
  <1>1. h # NoHead
    BY DEF AuditInv, HeadsAreSigned, NoHead
  <1>2. Snapshot(from).from # 0
    BY DEF Snapshot
  <1>. QED BY <1>1, <1>2 DEF VerifyEvidenceBundle, ConsistentWith

LEMMA BundlesFollow ==
  ASSUME AuditInv, ConsistencyIsExact
  PROVE  BundlesAreExact
  <1>1. log \in Seq(AuditRecord)
    BY DEF AuditInv
  <1>. QED BY <1>1, SnapshotVerifies, HeadlessRefused, ShortRefused, AlteredRefused, AgainstHead,
              PartialRefused DEF BundlesAreExact

\* Wherever the tree's consistency proofs are exact for the log, which is
\* checked of every log of the run, so is the bundle's verifier: it accepts
\* what the log holds, whole or cut at its start, and, against any head the
\* service has ever published, only if the log still has the records that head
\* commits to (snapshot_for_bundle, verify_evidence_bundle).
THEOREM BundlesAlwaysExact == AuditSpec => [](ConsistencyIsExact => BundlesAreExact)
  <1>1. AuditInv => (ConsistencyIsExact => BundlesAreExact)
    BY BundlesFollow
  <1>. QED BY <1>1, AuditInvariant, PTL
-----------------------------------------------------------------------------
(* Any bundle a verifier accepts, whoever made it.                           *)

\* What parses as a bundle of records over E (BundleIn).
Parses(b, E) ==
    /\ b.from \in Nat
    /\ b.records \in Seq([entry : E, prev : Seq(E), hash : Seq(E), by : STRING])

Before == {p \in Nat \X Nat : p[1] < p[2]}

LEMMA UpwardInduction ==
  ASSUME NEW S \in SUBSET Nat, 0 \in S, \A n \in S : n + 1 \in S
  PROVE  \A n \in Nat : n \in S
  <1>. DEFINE T == Nat \ S
  <1>. SUFFICES ASSUME T # {} PROVE FALSE
    OBVIOUS
  <1>1. T \subseteq Nat /\ IsWellFoundedOn(Before, Nat)
    BY NatLessThanWellFounded DEF OpToRel, Before
  <1>2. \E x \in T : \A y \in T : <<y, x>> \notin Before
    <2>. HIDE DEF T
    <2>. QED BY <1>1, WFMin
  <1>3. PICK x \in T : \A y \in T : <<y, x>> \notin Before
    BY <1>2
  <1>4. x \in Nat /\ x # 0
    OBVIOUS
  <1>5. x - 1 \in Nat /\ <<x - 1, x>> \in Before
    BY <1>4 DEF Before
  <1>6. x - 1 \in S
    BY <1>3, <1>5
  <1>. QED BY <1>4, <1>6

LEMMA DomainOfSeq ==
  ASSUME NEW S, NEW s \in Seq(S)
  PROVE  Len(s) \in Nat /\ DOMAIN s = 1..Len(s) /\ \A i \in 1..Len(s) : s[i] \in S
  OBVIOUS

\* From its last record back, each record's hash is the log's at its place.
LEMMA ChainedBack ==
  ASSUME NEW E, NEW lines \in Seq(E), NEW b, Parses(b, E), ChainOk(b), AnchorOk(b),
         b.checkpoint.root = lines, b.checkpoint.count = Len(lines)
  PROVE  /\ Len(b.records) = Len(lines) - b.from
         /\ \A i \in DOMAIN b.records : b.records[i].hash = SubSeq(lines, 1, b.from + i)
  <1>1. PICK rs : rs = b.records
    OBVIOUS
  <1>2. PICK n \in Nat : n = Len(rs) /\ DOMAIN rs = 1..n
    <2>. DEFINE R == [entry : E, prev : Seq(E), hash : Seq(E), by : STRING]
    <2>1. rs \in Seq(R)
      BY <1>1 DEF Parses
    <2>. HIDE DEF R
    <2>. QED BY <2>1, DomainOfSeq
  <1>3. PICK from \in Nat : from = b.from
    BY DEF Parses
  <1>4. n = Len(lines) - from
    BY <1>1, <1>2, <1>3 DEF AnchorOk
  <1>5. \A i \in 1..n : rs[i] \in [entry : E, prev : Seq(E), hash : Seq(E), by : STRING]
    <2>. DEFINE R == [entry : E, prev : Seq(E), hash : Seq(E), by : STRING]
    <2>1. rs \in Seq(R)
      BY <1>1 DEF Parses
    <2>2. \A i \in 1..n : rs[i] \in R
      <3>. HIDE DEF R
      <3>. QED BY <1>2, <2>1, DomainOfSeq
    <2>. QED BY <2>2
  <1>6. \A i \in 1..n : /\ rs[i].hash = Append(rs[i].prev, rs[i].entry)
                        /\ i > 1 => rs[i].prev = rs[i - 1].hash
    BY <1>1, <1>2 DEF ChainOk
  <1>. DEFINE S == {j \in Nat : j < n => rs[n - j].hash = SubSeq(lines, 1, from + n - j)}
  <1>7. 0 \in S
    <2>. SUFFICES ASSUME n > 0 PROVE rs[n].hash = SubSeq(lines, 1, from + n)
      OBVIOUS
    <2>1. rs # <<>> /\ Last(rs) = rs[n]
      BY <1>2 DEF Last
    <2>2. rs[n].hash = lines
      BY <1>1, <2>1 DEF AnchorOk
    <2>3. SubSeq(lines, 1, Len(lines)) = lines
      OBVIOUS
    <2>. QED BY <1>4, <2>2, <2>3
  <1>8. \A j \in S : j + 1 \in S
    <2>. SUFFICES ASSUME NEW j \in S, j + 1 < n
                  PROVE  rs[n - (j + 1)].hash = SubSeq(lines, 1, from + n - (j + 1))
      OBVIOUS
    <2>1. PICK k \in 2..n : k = n - j
      OBVIOUS
    <2>2. rs[k].hash = SubSeq(lines, 1, from + k)
      BY <2>1
    <2>3. rs[k].hash = Append(rs[k].prev, rs[k].entry) /\ rs[k].prev = rs[k - 1].hash
      BY <1>6, <2>1
    <2>4. rs[k].prev \in Seq(E) /\ rs[k].entry \in E
      BY <1>5, <2>1
    <2>5. rs[k].prev = SubSeq(lines, 1, from + k - 1)
      <3>1. PICK m \in 1..Len(lines) : m = from + k
        BY <1>4
      <3>2. SubSeq(lines, 1, m) = Append(SubSeq(lines, 1, m - 1), lines[m])
        OBVIOUS
      <3>3. SubSeq(lines, 1, m - 1) \in Seq(E) /\ lines[m] \in E
        OBVIOUS
      <3>4. Append(rs[k].prev, rs[k].entry) = Append(SubSeq(lines, 1, m - 1), lines[m])
        BY <2>2, <2>3, <3>1, <3>2
      <3>5. rs[k].prev = SubSeq(lines, 1, m - 1)
        <4>1. PICK p \in Seq(E), x \in E : p = rs[k].prev /\ x = rs[k].entry
          BY <2>4
        <4>2. PICK q \in Seq(E), y \in E : q = SubSeq(lines, 1, m - 1) /\ y = lines[m]
          BY <3>3
        <4>3. Append(p, x) = Append(q, y)
          BY <3>4, <4>1, <4>2
        <4>4. p = q
          BY ONLY p \in Seq(E), q \in Seq(E), x \in E, y \in E, <4>3, AppendInjective
        <4>. QED BY <4>1, <4>2, <4>4
      <3>. QED BY <3>1, <3>5
    <2>6. k - 1 = n - (j + 1) /\ from + k - 1 = from + n - (j + 1)
      BY <2>1
    <2>7. rs[k - 1].hash = SubSeq(lines, 1, from + k - 1)
      BY <2>3, <2>5
    <2>. QED BY <2>6, <2>7
  <1>9. \A j \in Nat : j \in S
    <2>1. S \in SUBSET Nat
      OBVIOUS
    <2>. HIDE DEF S
    <2>. QED BY <1>7, <1>8, <2>1, UpwardInduction
  <1>10. \A i \in 1..n : rs[i].hash = SubSeq(lines, 1, from + i)
    <2>. SUFFICES ASSUME NEW i \in 1..n PROVE rs[i].hash = SubSeq(lines, 1, from + i)
      OBVIOUS
    <2>1. PICK j \in Nat : j = n - i
      OBVIOUS
    <2>2. j \in S
      BY <1>9
    <2>3. n - j = i /\ from + n - j = from + i /\ j < n
      BY <2>1
    <2>. QED BY <2>2, <2>3
  <1>. QED BY <1>1, <1>2, <1>3, <1>4, <1>10

\* A bundle, whoever assembled it, that comes with the deployment's checkpoint
\* is accepted only if its records are, one for one, the log's from where it
\* says it starts: nothing was dropped, added, altered or moved
\* (verify_evidence_bundle).
THEOREM AcceptedBundleIsTheLog ==
  ASSUME NEW E, NEW lines \in Seq(E), NEW b, Parses(b, E), NEW against,
         VerifyEvidenceBundle(b, against),
         b.checkpoint.root = lines, b.checkpoint.count = Len(lines)
  PROVE  [i \in DOMAIN b.records |-> b.records[i].entry] = SubSeq(lines, b.from + 1, Len(lines))
  <1>1. ChainOk(b) /\ AnchorOk(b)
    BY DEF VerifyEvidenceBundle
  <1>2. PICK from \in Nat : from = b.from
    BY DEF Parses
  <1>3. PICK rs : rs = b.records
    OBVIOUS
  <1>4. /\ Len(rs) = Len(lines) - from
        /\ \A i \in DOMAIN rs : rs[i].hash = SubSeq(lines, 1, from + i)
    BY <1>1, <1>2, <1>3, ChainedBack
  <1>5. DOMAIN rs = 1..Len(rs) /\ Len(rs) \in Nat
    <2>. DEFINE R == [entry : E, prev : Seq(E), hash : Seq(E), by : STRING]
    <2>1. rs \in Seq(R)
      BY <1>3 DEF Parses
    <2>. HIDE DEF R
    <2>. QED BY <2>1, DomainOfSeq
  <1>6. \A i \in DOMAIN rs : rs[i] \in [entry : E, prev : Seq(E), hash : Seq(E), by : STRING]
    <2>. DEFINE R == [entry : E, prev : Seq(E), hash : Seq(E), by : STRING]
    <2>1. rs \in Seq(R)
      BY <1>3 DEF Parses
    <2>2. \A i \in DOMAIN rs : rs[i] \in R
      <3>. HIDE DEF R
      <3>. QED BY <2>1, DomainOfSeq
    <2>. QED BY <2>2
  <1>7. \A i \in DOMAIN rs : rs[i].entry = lines[from + i]
    <2>. SUFFICES ASSUME NEW i \in DOMAIN rs PROVE rs[i].entry = lines[from + i]
      OBVIOUS
    <2>1. PICK m \in 1..Len(lines) : m = from + i
      BY <1>4, <1>5
    <2>2. rs[i].hash = SubSeq(lines, 1, m) /\ rs[i].hash = Append(rs[i].prev, rs[i].entry)
      BY <1>1, <1>3, <1>4, <2>1 DEF ChainOk
    <2>3. rs[i].prev \in Seq(E) /\ rs[i].entry \in E
      BY <1>6
    <2>4. /\ SubSeq(lines, 1, m) = Append(SubSeq(lines, 1, m - 1), lines[m])
          /\ SubSeq(lines, 1, m - 1) \in Seq(E) /\ lines[m] \in E
      OBVIOUS
    <2>5. Append(rs[i].prev, rs[i].entry) = Append(SubSeq(lines, 1, m - 1), lines[m])
      BY <2>2, <2>4
    <2>6. rs[i].entry = lines[m]
      BY ONLY <2>3, <2>4, <2>5, AppendInjective
    <2>. QED BY <2>1, <2>6
  <1>8. SubSeq(lines, from + 1, Len(lines)) = [i \in 1..Len(rs) |-> lines[from + i]]
    BY <1>4, <1>5
  <1>. QED BY <1>2, <1>3, <1>5, <1>7, <1>8

=============================================================================
