-------------------------------- MODULE Mint --------------------------------
(***************************************************************************)
(* One gatekeeper mint or mint-a2a process: it attests its caller, applies *)
(* the gates, reads secrets and exchanges them for a token.                *)
(*                                                                         *)
(* While it runs, an operator may replace the role's App, which rewrites   *)
(* the four secrets of the broker one at a time, and every call over the   *)
(* network may fail.  GitHub and OpenBao are external: GitHub issues a     *)
(* token for an App's installation to who signs with that App's key,       *)
(* OpenBao one for the entity of the subject it was logged in for.         *)
(***************************************************************************)
EXTENDS Attestation

CONSTANTS
  Deployments,     \* the configurations, with the fields below as well
  Callers,         \* the callers, with the fields below as well
  KeySets,         \* the key sets the issuer may publish
  Times            \* when the process may run

\* Further fields of a deployment
\*   valid         whether the command finds it complete and consistent
\*   bound         whether the role is defined and has a binding
\*   minGrade, entitled, slug   the binding; slug is "none" unless both of its
\*                 fields are set
\*   a2a           subjects to [role, audiences]
\*   authRole, oidcRole   the roles of OpenBao of an a2a role, or Nil
\* and of a caller: role, the role asked of mint; audience, asked of mint-a2a.

\* Unix seconds, also where the token's own are unusable (dates).
ASSUME TimesAssumption ==
  /\ Times \subseteq Int
  /\ \A c \in Callers : LET t == c.delivery.token
                         IN t.iat \in Int /\ t.exp \in Int /\ t.nbf \in Int

\* The App that a secret is of: the one of before a replacement and the next.
Apps == {"app1", "app2"}
Secrets == <<"app_id", "installation_id", "app_slug", "private_key">>
NoIdentity == [kind |-> "none"]
NoToken == [kind |-> "none"]

VARIABLES
  command,     \* "mint" or "mint-a2a"
  deployment,
  caller,
  now,         \* the time verification goes by
  pc,
  verdict,     \* verification's code, Nil if it accepted, "none" before
  keysSeen,    \* the key set that was fetched
  identity,    \* who was attested
  broker,      \* the App each secret of the role is of
  reads,       \* the secrets read so far
  torn,        \* a secret was read while they were of two Apps
  client,      \* the subject of OpenBao's client token
  token,       \* what is returned
  audit        \* the events written

vars == <<command, deployment, caller, now, pc, verdict, keysSeen, identity,
          broker, reads, torn, client, token, audit>>
inputs == <<command, deployment, caller, now>>
attested == <<verdict, keysSeen, identity>>
exchange == <<client, token>>

-----------------------------------------------------------------------------
(* Attestation                                                             *)

\* The domain: mint goes by whether the first sidecar's variable is set at all.
MintDomain ==
  CASE command = "mint-a2a" -> "a2a"
    [] command = "mint" /\ deployment.first # "none"
         /\ caller.spawnVar # "unset" -> "local-subagent"
    [] OTHER -> "local"

\* The assertion is the first provider of the chain, and of the per-spawn
\* resolver if there is one; mint-a2a builds both without it.
AsksAssertion ==
  /\ command = "mint" /\ deployment.assertion /\ caller.dir # "unset"
  /\ MintDomain = "local-subagent" => deployment.first = "enabled"

Refuse == pc' = "refused"

Audit(permitted, role) ==
  audit' = Append(audit, [permitted |-> permitted, role |-> role,
                          subject |-> IF identity = NoIdentity THEN "none"
                                      ELSE identity.subject])

\* runMint and runMintA2A up to the resolver: the configuration, then (mint) the
\* role and its binding.
Start ==
  /\ pc = "start"
  /\ IF deployment.valid /\ (command = "mint" => deployment.bound)
     THEN pc' = IF AsksAssertion THEN "delivery" ELSE "others"
     ELSE Refuse
  /\ UNCHANGED <<inputs, attested, broker, reads, torn, exchange, audit>>

\* assertionProvider.Resolve up to the key set.
ReadDelivery ==
  /\ pc = "delivery"
  /\ LET file == caller.delivery
         code == IF file.code # Nil THEN file.code
                 ELSE FirstFailure(BeforeKeys(file.token, deployment.trusted))
     IN IF code = Nil THEN pc' = "keys" /\ UNCHANGED verdict
                     ELSE Refuse /\ verdict' = code
  /\ UNCHANGED <<inputs, keysSeen, identity, broker, reads, torn, exchange,
                 audit>>

JWKSUnavailable ==
  /\ pc = "keys"
  /\ Refuse /\ verdict' = "jwks_unavailable"
  /\ UNCHANGED <<inputs, keysSeen, identity, broker, reads, torn, exchange,
                 audit>>

\* Broken form: an assertion that does not verify is treated as absent.
Verify_FallsThrough ==
  /\ pc = "keys"
  /\ \E keys \in KeySets :
       LET code == FirstFailure(WithKeys(caller.delivery.token, keys, now,
                                         caller.dir))
       IN /\ keysSeen' = keys /\ verdict' = code
          /\ IF code = Nil
             THEN /\ identity' = AssertionIdentity(caller.delivery.token)
                  /\ pc' = "gate"
             ELSE pc' = "others" /\ UNCHANGED identity
  /\ UNCHANGED <<inputs, broker, reads, torn, exchange, audit>>

\* The rest of the verification, with the key set the issuer publishes.
Verify ==
  /\ pc = "keys"
  /\ \E keys \in KeySets :
       LET code == FirstFailure(WithKeys(caller.delivery.token, keys, now,
                                         caller.dir))
       IN /\ keysSeen' = keys /\ verdict' = code
          /\ IF code = Nil
             THEN /\ identity' = AssertionIdentity(caller.delivery.token)
                  /\ pc' = "gate"
             ELSE Refuse /\ UNCHANGED identity
  /\ UNCHANGED <<inputs, broker, reads, torn, exchange, audit>>

\* The providers after the assertion; mint-a2a audits a refusal here.
ResolveOthers ==
  /\ pc = "others"
  /\ LET answer == Others(MintDomain, deployment, caller)
     IN IF answer.kind = "found"
        THEN /\ identity' = answer
             /\ pc' = IF command = "mint" THEN "gate" ELSE "policy"
             /\ UNCHANGED audit
        ELSE /\ Refuse
             /\ UNCHANGED identity
             /\ IF command = "mint-a2a" THEN Audit(FALSE, "none")
                                        ELSE UNCHANGED audit
  /\ UNCHANGED <<inputs, verdict, keysSeen, broker, reads, torn, exchange>>

-----------------------------------------------------------------------------
(* mint: mintForDomain                                                     *)

GradeRank(g) == CASE g = "workload" -> 2 [] g = "harness" -> 1 [] OTHER -> 0

MinGrade == IF deployment.minGrade = Nil THEN "harness" ELSE deployment.minGrade

\* Broken form: a role's list is not looked at for an assertion.
CheckAssertion_NoList ==
  /\ caller.role \in identity.roles
  /\ GradeRank(identity.grade) >= GradeRank(MinGrade)

\* checkAssertion: the role is within the ceiling, the grade is met, and a list
\* of the binding, if there is one, names the subject.
CheckAssertion ==
  /\ caller.role \in identity.roles
  /\ GradeRank(identity.grade) >= GradeRank(MinGrade)
  /\ deployment.entitled # {} => identity.subject \in deployment.entitled

Gate ==
  /\ pc = "gate"
  /\ LET byAssertion == identity.source = "assertion"
         passes == IF byAssertion THEN CheckAssertion
                   ELSE identity.subject \in deployment.entitled
     IN /\ IF byAssertion THEN Audit(passes, caller.role) ELSE UNCHANGED audit
        /\ IF passes /\ deployment.slug # "none" THEN pc' = "secrets" ELSE Refuse
  /\ UNCHANGED <<inputs, attested, broker, reads, torn, exchange>>

\* An operator replaces the App, one secret after another.
Replace ==
  /\ pc = "secrets"
  /\ \E s \in DOMAIN broker : /\ broker[s] = "app1"
                              /\ broker' = [broker EXCEPT ![s] = "app2"]
  /\ UNCHANGED <<inputs, pc, attested, reads, torn, exchange, audit>>

Torn == \E s, t \in DOMAIN broker : broker[s] # broker[t]

\* Broken form: the slug is read and compared before the other secrets.
Order_SlugFirst == <<"app_slug", "app_id", "installation_id", "private_key">>

\* The order of the reads.
Order == Secrets

ReadSecret ==
  /\ pc = "secrets"
  /\ LET s == Order[Len(reads) + 1]
     IN /\ reads' = Append(reads, broker[s])
        /\ torn' = (torn \/ Torn)
        /\ pc' = CASE s = "app_slug" /\ broker[s] # deployment.slug -> "refused"
                   [] Len(reads') = Len(Order) -> "github"
                   [] OTHER -> "secrets"
  /\ UNCHANGED <<inputs, attested, broker, exchange, audit>>

\* broker.Get fails.
ReadFails ==
  /\ pc \in {"secrets", "key"}
  /\ Refuse
  /\ IF command = "mint-a2a"
     THEN Audit(FALSE, deployment.a2a[identity.subject].role)
     ELSE UNCHANGED audit
  /\ UNCHANGED <<inputs, attested, broker, reads, torn, exchange>>

Read(s) == reads[CHOOSE n \in DOMAIN Order : Order[n] = s]

\* githubapp.Mint and what GitHub makes of it: the token is of the App that the
\* JWT names, if its key signed it and the installation is its own.
AskGitHub ==
  /\ pc = "github"
  /\ \/ /\ Read("private_key") = Read("app_id")
        /\ Read("installation_id") = Read("app_id")
        /\ token' = [kind |-> "installation", app |-> Read("app_id"),
                     slug |-> Read("app_slug"), role |-> caller.role]
        /\ pc' = "minted"
     \/ Refuse /\ UNCHANGED token
  /\ UNCHANGED <<inputs, attested, broker, reads, torn, client, audit>>

-----------------------------------------------------------------------------
(* mint-a2a: a2amint.Service.Mint and a2atoken.Issue                        *)

A2ARole == deployment.a2a[identity.subject].role

\* Policy.Check: the role, or whether a denial names one.
PolicyDenies ==
  \/ identity.subject \notin DOMAIN deployment.a2a
  \/ caller.audience \notin deployment.a2a[identity.subject].audiences

\* The gates before any secret is read: the policy, then the two roles.
A2AGates ==
  /\ pc = "policy"
  /\ IF PolicyDenies
     THEN Refuse /\ Audit(FALSE, "none")
     ELSE IF deployment.authRole[A2ARole] = Nil \/ deployment.oidcRole[A2ARole] = Nil
          THEN Refuse /\ Audit(FALSE, A2ARole)
          ELSE pc' = "key" /\ UNCHANGED audit
  /\ UNCHANGED <<inputs, attested, broker, reads, torn, exchange>>

\* The assertion key is read and an assertion for the subject is signed.
ReadKey ==
  /\ pc = "key" /\ pc' = "login"
  /\ UNCHANGED <<inputs, attested, broker, reads, torn, exchange, audit>>

\* exchangeAssertion: OpenBao's client token is for the assertion's subject.
Login ==
  /\ pc = "login"
  /\ client' = identity.subject /\ pc' = "oidc"
  /\ UNCHANGED <<inputs, attested, broker, reads, torn, token, audit>>

\* readOIDCToken: the token is of the client token's entity; the subject that is
\* reported is the caller's.
ReadOIDCToken ==
  /\ pc = "oidc" /\ pc' = "minted"
  /\ token' = [kind |-> "peer", entity |-> client, subject |-> identity.subject,
               role |-> deployment.oidcRole[A2ARole]]
  /\ Audit(TRUE, A2ARole)
  /\ UNCHANGED <<inputs, attested, broker, reads, torn, client>>

\* Broken form: only a refused login is audited.
IssueFails_LoginOnly ==
  /\ pc \in {"login", "oidc"} /\ Refuse
  /\ IF pc = "login" THEN Audit(FALSE, A2ARole) ELSE UNCHANGED audit
  /\ UNCHANGED <<inputs, attested, broker, reads, torn, exchange>>

\* Either call is refused, times out or answers with nothing in it.
IssueFails ==
  /\ pc \in {"login", "oidc"} /\ Refuse
  /\ Audit(FALSE, A2ARole)
  /\ UNCHANGED <<inputs, attested, broker, reads, torn, exchange>>

-----------------------------------------------------------------------------
Init ==
  /\ command \in {"mint", "mint-a2a"}
  /\ deployment \in Deployments /\ caller \in Callers /\ now \in Times
  /\ broker = [s \in Range(Secrets) |-> "app1"]
  /\ pc = "start" /\ verdict = "none" /\ keysSeen = {} /\ identity = NoIdentity
  /\ reads = <<>> /\ torn = FALSE /\ client = "none" /\ token = NoToken
  /\ audit = <<>>

Next ==
  \/ Start \/ ReadDelivery \/ JWKSUnavailable \/ Verify \/ ResolveOthers
  \/ Gate \/ Replace \/ ReadSecret \/ ReadFails \/ AskGitHub
  \/ A2AGates \/ ReadKey \/ Login \/ ReadOIDCToken \/ IssueFails

Spec == Init /\ [][Next]_vars

-----------------------------------------------------------------------------
TypeOK ==
  /\ pc \in {"start", "delivery", "keys", "others", "gate", "secrets", "github",
             "policy", "key", "login", "oidc", "refused", "minted"}
  /\ identity.kind \in {"none", "found"} /\ broker \in [Range(Secrets) -> Apps]
  /\ Len(reads) <= Len(Secrets) /\ torn \in BOOLEAN /\ Len(audit) <= 1

Given == caller.delivery.token

\* The code that docs/identity-contract.md, section 4, asks for.
ContractCode ==
  FirstFailure(BeforeKeys(Given, deployment.trusted) \o <<
    Check("key_not_found", ~ \E k \in keysSeen : k.kid = Given.kid),
    Check("signature_invalid",
          ~ \E k \in keysSeen : k.kid = Given.kid /\ VerifySignature(k, Given)),
    Check("contract_version_unsupported", Given.cia \notin {1, 2}),
    Check("claims_invalid", ~Given.dates),
    Check("expired", Given.exp <= now),
    Check("not_yet_valid", Given.nbf > now \/ Given.iat > now),
    Check("ttl_exceeded", Given.exp > Given.iat + MaxLifetime),
    Check("claims_invalid", ~ClaimsShapeValid(Given)),
    Check("audience_unexpected", Given.aud # "none"),
    Check("dir_mismatch", Given.dir # caller.dir)>>)

Judged ==
  caller.delivery.code = Nil /\ verdict \notin {"none", "jwks_unavailable"}

\* Of several faults of a token the first in the contract's order is reported
\* (verifyAssertion), where a key of its kid declares no other use or alg.
ContractOrder ==
  Judged /\ (\A k \in keysSeen : k.kid = Given.kid => k.use \in {Nil, "sig"}
                                               /\ k.alg \in {Nil, Given.alg})
    => verdict = ContractCode

\* docs/identity-contract.md:173-175: key_not_found is that no key has the kid; a
\* key of the kid whose type does not match alg is signature_invalid.
ContractCodes ==
  Judged /\ (\A k \in keysSeen : k.use # "enc") => verdict = ContractCode

\* A process that was given a delivery directory mints for nobody but the actor
\* of a genuine, live assertion made for that directory (assertion.go:80).
AssertionDecides ==
  /\ command = "mint" /\ deployment.assertion /\ caller.dir # "unset"
  /\ identity # NoIdentity
  => /\ identity.source = "assertion" /\ identity.roles = Given.roles
     /\ Given.iss \in deployment.trusted /\ Given.dir = caller.dir
     /\ \E k \in keysSeen : k.key = Given.signer /\ k.use # "enc"
     /\ now \in Given.iat .. (Given.exp - 1)

\* A layer that is there and broken is never papered over by a lower one
\* (Resolver.Resolve, attestation.go:110-117).
NoFallback ==
  /\ identity # NoIdentity /\ MintDomain = "local"
  /\ identity.source # "assertion"
  => /\ deployment.configured => caller.configured # "unreadable"
     /\ identity.source = "builtin" /\ deployment.session
          /\ caller.sessionVar = "set" => caller.sessionFile # "unusable"

\* A spawned agent never acts under the identity of the session, the deployment
\* or the user that spawned it (domain_policy.go; main.go:266-284).
NeverAsParent ==
  /\ identity # NoIdentity
  /\ command = "mint-a2a" \/ (deployment.first # "none" /\ caller.spawnVar # "unset")
  => \/ identity.source = "assertion"
     \/ deployment.first = "enabled" /\ identity.subject = caller.spawnFile

\* No identity stands in for another: neither a lower layer for a broken one, nor
\* the parent for what it spawned.
NoSubstitute == NoFallback /\ NeverAsParent

\* Secrets are read, and tokens asked for, only for a caller who is entitled to
\* them: by the ceiling and grade of the token in the file and by the lists.
SecretsForEntitled ==
  /\ reads # <<>> \/ token.kind = "installation" =>
       IF identity.source = "assertion"
       THEN /\ caller.role \in Given.roles
            /\ deployment.minGrade = "workload" => Given.grade = "workload"
            /\ \/ deployment.entitled = {}
               \/ identity.subject \in deployment.entitled
       ELSE identity.subject \in deployment.entitled
  /\ pc \in {"key", "login", "oidc"} =>
       caller.audience \in deployment.a2a[identity.subject].audiences

\* A token is of the App that the role is bound to and is reported as such, even
\* if the App is replaced between two reads (mint.go:317-335, 363-372), unless a
\* secret is read while the replacement is half done.
TokenOfConfiguredApp ==
  token.kind = "installation" /\ ~torn =>
    token.app = deployment.slug /\ token.slug = deployment.slug

\* mint-a2a writes one event for every outcome, which says what came of it
\* (a2amint.go:182-299); mint writes one for the gate's decision on an assertion.
Audited ==
  /\ TypeOK
  /\ command = "mint-a2a" /\ deployment.valid /\ pc \in {"refused", "minted"} =>
       /\ Len(audit) = 1 /\ audit[1].permitted = (token # NoToken)
       /\ identity # NoIdentity => audit[1].subject = identity.subject
  /\ command = "mint" /\ reads # <<>> =>
       (audit # <<>>) = (identity.source = "assertion")
=============================================================================
