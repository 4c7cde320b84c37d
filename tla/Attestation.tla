----------------------------- MODULE Attestation -----------------------------
(***************************************************************************)
(* Who a mint is for: the delivery directory, the verification of an       *)
(* identity assertion, the other providers and the mint domains' policy    *)
(* for a miss.  All of it is pure but for what it reads, so the operators  *)
(* take what was read: the caller's environment and files, the deployment  *)
(* that was configured, a key set and a time.                              *)
(*                                                                         *)
(* A caller is the record                                                  *)
(*   dir              CLAGENTIC_IDENTITY_DIR, or "unset"                    *)
(*   delivery         what readDelivery finds there: the code it refuses   *)
(*                    with, or Nil and the token                           *)
(*   spawnVar, spawnFile, sessionVar, sessionFile                          *)
(*                    the session id variable and the file of a sidecar    *)
(*   configured       what the configured provider's source holds          *)
(*   user             the name the operating system gives, or "unknown"    *)
(* and a deployment is the record                                          *)
(*   assertion        whether attestation.assertion is configured          *)
(*   trusted          the trusted issuers                                  *)
(*   first            the first sidecar entry: "none" (or it names no      *)
(*                    variable), "partial" (it lacks another field) or     *)
(*                    "enabled"                                            *)
(*   structured       whether that entry names an identity_field           *)
(*   session          whether a second entry is enabled                    *)
(*   configured       whether a configured provider is                     *)
(*   osUser           allow_os_user                                        *)
(*                                                                         *)
(* A token is known by what verification looks at: form (FALSE for what is *)
(* no JWS of two objects, or has a crit header), alg, iss, kid, signer     *)
(* (the key its signature is by), cia, dates (FALSE if one is missing, no  *)
(* integer or out of range), iat, exp, nbf (0 if absent), shape (FALSE for *)
(* a defect section 3.1 names that no other field shows), sub, act, spawn, *)
(* origin, grade, roles, dir and aud ("none" where absent).                *)
(***************************************************************************)
EXTENDS Integers, SequencesExt

CONSTANTS
  HumanSubjects,     \* the subjects whose name begins with "human:"
  MaxLifetime        \* maxAssertionLifetime

ASSUME LifetimeAssumption == MaxLifetime \in Nat \ {0}

\* The empty string: no code, and the value of a field that is not set.
Nil == ""

Algs == {"EdDSA", "ES256"}
SupportedMajor == 2
OriginDrivenMajor == 2

\* What a provider answers: an identity, a miss (ErrNoIdentity) or a refusal.
Found(subject, source, roles, grade) ==
  [kind |-> "found", subject |-> subject, source |-> source, roles |-> roles,
   grade |-> grade]
Miss == [kind |-> "miss"]
Refused(code) == [kind |-> "refused", code |-> code]

\* The code of the first check that fails, or Nil if none does.
FirstFailure(checks) ==
  LET n == SelectInSeq(checks, LAMBDA c : c.fails)
  IN IF n = 0 THEN Nil ELSE checks[n].code

Check(code, fails) == [code |-> code, fails |-> fails]

-----------------------------------------------------------------------------
(* Verification (assertion_verify.go)                                      *)

\* signingKeys: the keys of the set that may verify a token with this header.
\* Neither use nor alg need be declared.
SigningKeys(keys, kid, alg) ==
  {k \in keys : k.kid = kid /\ k.use \in {Nil, "sig"} /\ k.alg \in {Nil, alg}}

\* verifySignature: the key's own type decides, not what it declares.
VerifySignature(k, token) == k.type = token.alg /\ k.key = token.signer

\* claimsShapeValid.
ClaimsShapeValid(token) ==
  /\ token.shape
  /\ token.grade \in {"workload", "harness"}
  /\ token.origin = "driven" => /\ token.cia >= OriginDrivenMajor
                                /\ token.grade = "workload"
                                /\ token.sub \notin HumanSubjects
  /\ (token.aud = "none") # (token.dir = "none")
  /\ token.grade = "harness" => token.act # "none" /\ token.spawn

\* What is checked before the key set is fetched.
BeforeKeys(token, trusted) ==
  <<Check("malformed", ~token.form),
    Check("alg_not_allowed", token.alg \notin Algs),
    Check("issuer_untrusted", token.iss \notin trusted)>>

\* Broken form: the shape is looked at first.
DatesAndShape_ShapeFirst(token, now) ==
  <<Check("claims_invalid", ~token.dates \/ ~ClaimsShapeValid(token)),
    Check("expired", token.exp <= now),
    Check("not_yet_valid", now < token.nbf \/ token.iat > now),
    Check("ttl_exceeded", token.exp - token.iat > MaxLifetime)>>

\* What is checked of the dates, and then of the claims' shape.
DatesAndShape(token, now) ==
  <<Check("claims_invalid", ~token.dates),
    Check("expired", token.exp <= now),
    Check("not_yet_valid", now < token.nbf \/ token.iat > now),
    Check("ttl_exceeded", token.exp - token.iat > MaxLifetime),
    Check("claims_invalid", ~ClaimsShapeValid(token))>>

\* What is checked with the key set at hand, at the time the file was read.
WithKeys(token, keys, now, dir) ==
  LET candidates == SigningKeys(keys, token.kid, token.alg)
  IN <<Check("key_not_found", candidates = {}),
       Check("signature_invalid",
             ~ \E k \in candidates : VerifySignature(k, token)),
       Check("contract_version_unsupported",
             token.cia \notin 1 .. SupportedMajor)>>
     \o DatesAndShape(token, now)
     \o <<Check("audience_unexpected", token.aud # "none"),
          Check("dir_mismatch", token.dir # dir)>>

\* The actor is the innermost one the token names.
AssertionIdentity(token) ==
  Found(IF token.act # "none" THEN token.act ELSE token.sub, "assertion",
        token.roles, token.grade)

-----------------------------------------------------------------------------
(* The other providers and the chain                                       *)

NoContent == {"absent", "blank"}

\* envProvider and fileProvider: a file that is there and cannot be read refuses.
Configured(d, c) ==
  CASE ~d.configured \/ c.configured \in NoContent -> Miss
    [] d.configured /\ c.configured = "unreadable" -> Refused("configured")
    [] OTHER -> Found(c.configured, "configured", {}, Nil)

\* sidecarProvider.Resolve: a variable that is unset, blank or no path segment
\* is a miss, as is a missing file; a record that cannot be used is not.
Sidecar(enabled, structured, var, file) ==
  CASE ~enabled \/ var # "set" \/ file = "absent" -> Miss
    [] enabled /\ var = "set" /\ file = "blank" ->
         IF structured THEN Refused("sidecar") ELSE Miss
    [] enabled /\ var = "set" /\ file = "unusable" -> Refused("sidecar")
    [] OTHER -> Found(file, "sidecar", {}, Nil)

SpawnSidecar(d, c) ==
  Sidecar(d.first = "enabled", d.structured, c.spawnVar, c.spawnFile)

SessionSidecar(d, c) == Sidecar(d.session, FALSE, c.sessionVar, c.sessionFile)

\* The built-in provider never refuses.
OSUser(d, c) ==
  IF d.osUser /\ c.user # "unknown" THEN Found(c.user, "builtin", {}, Nil)
                                    ELSE Miss

\* Broken form: a refusal is passed over like a miss.
FirstAnswer_SkipsRefusals(answers) ==
  LET n == SelectInSeq(answers, LAMBDA a : a.kind = "found")
  IN IF n = 0 THEN Miss ELSE answers[n]

\* Resolver.Resolve: the first answer that is not a miss.
FirstAnswer(answers) ==
  LET n == SelectInSeq(answers, LAMBDA a : a # Miss)
  IN IF n = 0 THEN Miss ELSE answers[n]

\* NewChain's order, after the assertion provider.
Chain(d, c) ==
  FirstAnswer(<<Configured(d, c), SpawnSidecar(d, c), SessionSidecar(d, c),
                OSUser(d, c)>>)

\* DomainResolver.Resolve without an assertion: a domain that requires a
\* per-spawn identity never goes on to the rest of the chain.
Others(domain, d, c) ==
  CASE domain = "local" -> Chain(d, c)
    [] domain # "local" /\ SpawnSidecar(d, c) = Miss ->
         Refused("per-spawn required")
    [] OTHER -> SpawnSidecar(d, c)
=============================================================================
