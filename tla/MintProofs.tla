----------------------------- MODULE MintProofs -----------------------------
(***************************************************************************)
(* Proofs about Mint, for every configuration, caller, key set and time.   *)
(***************************************************************************)
EXTENDS Mint, WellFoundedInduction, TLAPS

-----------------------------------------------------------------------------
(* Chains of checks and of providers                                       *)

\* A set of indices that is not empty has a least.
LEMMA MinOfIndices ==
  ASSUME NEW I, I \subseteq Nat, I # {}
  PROVE  Min(I) \in I /\ \A i \in I : Min(I) <= i
  <1> DEFINE R == {ss \in Nat \X Nat : ss[1] < ss[2]}
  <1>1. IsWellFoundedOn(R, Nat)
    BY NatLessThanWellFounded DEF OpToRel
  <1>2. \A i, m \in Nat : i < m => <<i, m>> \in R
    OBVIOUS
  <1>3. PICK m \in I : \A i \in I : ~(<<i, m>> \in R)
    <2> HIDE DEF R
    <2> QED BY <1>1, WFMin
  <1>4. ASSUME NEW i \in I PROVE m <= i
    <2>1. i \in Nat /\ m \in Nat
      OBVIOUS
    <2>2. ~(i < m)
      BY <1>2, <1>3, <2>1
    <2> QED
      BY <2>1, <2>2
  <1> QED
    BY <1>4 DEF Min

\* The first index that passes a test, where one does.
LEMMA Passed ==
  ASSUME NEW checks, NEW len \in Nat, Len(checks) = len,
         \A i \in 1 .. len : checks[i].code # Nil,
         FirstFailure(checks) = Nil
  PROVE  \A i \in 1 .. len : ~checks[i].fails
  <1> DEFINE I == {i \in 1 .. len : checks[i].fails}
             n == IF I # {} THEN Min(I) ELSE 0
  <1>1. FirstFailure(checks) = IF n = 0 THEN Nil ELSE checks[n].code
    BY DEF FirstFailure, SelectInSeq
  <1>2. \A i \in I : i \in 1 .. len
    OBVIOUS
  <1>3. I # {} => Min(I) \in I
    <2>1. ASSUME NEW i \in 1 .. len PROVE i \in Nat
      OBVIOUS
    <2> HIDE DEF I
    <2>2. I \subseteq Nat
      BY <1>2, <2>1
    <2> QED BY <2>2, MinOfIndices
  <1>4. I = {}
    <2> HIDE DEF I
    <2> SUFFICES ASSUME I # {} PROVE FALSE
      OBVIOUS
    <2>1. Min(I) \in 1 .. len
      BY <1>2, <1>3
    <2>2. n = Min(I)
      OBVIOUS
    <2>3. n # 0 /\ checks[n].code # Nil
      BY <2>1, <2>2, ~(0 \in 1 .. len)
    <2> HIDE DEF n
    <2> QED BY <1>1, <2>2, <2>3
  <1> QED
    BY <1>4

\* The answer of a chain is that of the first provider that does not miss.
LEMMA FirstThatAnswers ==
  ASSUME NEW answers, NEW len \in Nat, Len(answers) = len,
         FirstAnswer(answers) # Miss
  PROVE  \E n \in 1 .. len :
           /\ FirstAnswer(answers) = answers[n] /\ answers[n] # Miss
           /\ \A m \in 1 .. (n - 1) : answers[m] = Miss
  <1> DEFINE I == {i \in 1 .. len : answers[i] # Miss}
             n == IF I # {} THEN Min(I) ELSE 0
  <1>1. FirstAnswer(answers) = IF n = 0 THEN Miss ELSE answers[n]
    BY DEF FirstAnswer, SelectInSeq
  <1>2. \A i \in I : i \in 1 .. len /\ answers[i] # Miss
    OBVIOUS
  <1>3. \A i \in 1 .. len : i \notin I => answers[i] = Miss
    OBVIOUS
  <1>4. I # {} => Min(I) \in I /\ \A i \in I : Min(I) <= i
    <2>1. ASSUME NEW i \in 1 .. len PROVE i \in Nat
      OBVIOUS
    <2> HIDE DEF I
    <2>2. I \subseteq Nat
      BY <1>2, <2>1
    <2> QED BY <2>2, MinOfIndices
  <1>5. n # 0
    BY <1>1
  <1>6. I # {} /\ n = Min(I)
    <2> HIDE DEF I
    <2> QED BY <1>5
  <1> HIDE DEF I, n
  <1>7. n \in 1 .. len /\ answers[n] # Miss
    BY <1>2, <1>4, <1>6
  <1>8. \A m \in 1 .. (n - 1) : answers[m] = Miss
    BY <1>3, <1>4, <1>6, <1>7
  <1> QED
    BY <1>1, <1>5, <1>7, <1>8

-----------------------------------------------------------------------------
(* The providers                                                           *)

\* Where an answer other than the assertion's can come from.
LEMMA AnswersDiffer ==
  /\ Miss.kind = "miss" /\ \A c : Refused(c).kind = "refused"
  /\ \A s, o, r, g : LET f == Found(s, o, r, g)
                     IN f.kind = "found" /\ f.subject = s /\ f.source = o
                        /\ f.roles = r /\ f.grade = g
  BY DEF Miss, Refused, Found

\* A sidecar's answer that is an identity names what its file holds.
LEMMA SpawnAnswers ==
  ASSUME NEW d, NEW c, NEW a, a = SpawnSidecar(d, c)
  PROVE  /\ a.kind \in {"found", "miss", "refused"}
         /\ a.kind = "found" =>
              d.first = "enabled" /\ a.subject = c.spawnFile /\ a.source = "sidecar"
  BY AnswersDiffer DEF SpawnSidecar, Sidecar

LEMMA SessionAnswers ==
  ASSUME NEW d, NEW c, NEW a, a = SessionSidecar(d, c)
  PROVE  /\ a.kind \in {"found", "miss", "refused"}
         /\ a.kind = "found" => a.source = "sidecar"
         /\ d.session /\ c.sessionVar = "set" /\ c.sessionFile = "unusable" =>
              a.kind = "refused"
  BY AnswersDiffer DEF SessionSidecar, Sidecar

\* A configured source that cannot be read refuses.
LEMMA ConfiguredAnswers ==
  ASSUME NEW d, NEW c, NEW a, a = Configured(d, c)
  PROVE  /\ a.kind \in {"found", "miss", "refused"}
         /\ a.kind = "found" => a.source = "configured"
         /\ d.configured /\ c.configured = "unreadable" => a.kind = "refused"
  BY AnswersDiffer DEF Configured, NoContent

\* The operating system's user never refuses.
LEMMA OSUserAnswers ==
  ASSUME NEW d, NEW c, NEW a, a = OSUser(d, c)
  PROVE  /\ a.kind \in {"found", "miss"}
         /\ a.kind = "found" => a.source = "builtin"
  BY AnswersDiffer DEF OSUser

-----------------------------------------------------------------------------
(* Verification                                                            *)

\* No check refuses with no code.
LEMMA CodesAreGiven ==
  /\ Nil \notin {"malformed", "alg_not_allowed", "issuer_untrusted", "key_not_found",
                 "signature_invalid", "contract_version_unsupported", "claims_invalid",
                 "expired", "not_yet_valid", "ttl_exceeded", "audience_unexpected",
                 "dir_mismatch"}
  BY Zenon DEF Nil

\* A token that passes what comes before the key set is of a trusted issuer.
LEMMA PassedBefore ==
  ASSUME NEW t, NEW trusted, FirstFailure(BeforeKeys(t, trusted)) = Nil
  PROVE  t.iss \in trusted
  <1> DEFINE checks == BeforeKeys(t, trusted)
  <1>1. Len(checks) = 3 /\ \A i \in 1 .. 3 : checks[i].code # Nil
    BY CodesAreGiven DEF BeforeKeys, Check
  <1>2. \A i \in 1 .. 3 : ~checks[i].fails
    <2> HIDE DEF checks
    <2> QED BY <1>1, Passed DEF checks
  <1>3. ~checks[3].fails
    BY <1>2
  <1> QED
    BY <1>3 DEF BeforeKeys, Check

\* One that passes the rest is signed by a key of the set, is of that directory
\* and is alive.
LEMMA PassedWithKeys ==
  ASSUME NEW t, t.iat \in Int, t.exp \in Int, NEW keys, NEW time \in Int, NEW dir,
         FirstFailure(WithKeys(t, keys, time, dir)) = Nil
  PROVE  /\ \E k \in keys : k.key = t.signer /\ k.use \in {Nil, "sig"}
         /\ t.dir = dir
         /\ time \in t.iat .. (t.exp - 1)
  <1> DEFINE checks == WithKeys(t, keys, time, dir)
  <1>1. Len(checks) = 10 /\ \A i \in 1 .. 10 : checks[i].code # Nil
    BY CodesAreGiven DEF WithKeys, DatesAndShape, Check
  <1>2. \A i \in 1 .. 10 : ~checks[i].fails
    <2> HIDE DEF checks
    <2> QED BY <1>1, Passed DEF checks
  <1>3. ~checks[2].fails /\ ~checks[5].fails /\ ~checks[6].fails /\ ~checks[10].fails
    BY <1>2
  <1>4. checks[2].fails = ~ \E k \in SigningKeys(keys, t.kid, t.alg) : VerifySignature(k, t)
    BY DEF WithKeys, DatesAndShape, Check
  <1>5. checks[5].fails = (t.exp <= time) /\ checks[10].fails = (t.dir # dir)
    BY DEF WithKeys, DatesAndShape, Check
  <1>6. checks[6].fails = (time < t.nbf \/ t.iat > time)
    BY DEF WithKeys, DatesAndShape, Check
  <1> HIDE DEF checks
  <1>7. \E k \in keys : k.key = t.signer /\ k.use \in {Nil, "sig"}
    BY <1>3, <1>4 DEF SigningKeys, VerifySignature
  <1>8. ~(t.exp <= time) /\ ~(t.iat > time) /\ t.dir = dir
    BY <1>3, <1>5, <1>6
  <1>9. time \in t.iat .. (t.exp - 1)
    BY <1>8
  <1> QED
    BY <1>7, <1>8, <1>9

-----------------------------------------------------------------------------
(* The inductive invariant                                                 *)

Early == {"start", "delivery", "keys", "others"}
ForMint == {"gate", "secrets", "github"}
ForA2A == {"policy", "key", "login", "oidc"}

\* What has happened by each step of a process.
PhaseInv ==
  /\ command \in {"mint", "mint-a2a"} /\ caller \in Callers /\ now \in Times
  /\ pc \in Early => identity = NoIdentity
  /\ pc \in Early \cup ForA2A \cup {"gate"} => audit = <<>> /\ reads = <<>>
  /\ pc \in ForMint \cup {"delivery", "keys"} => command = "mint"
  /\ pc \in ForA2A => command = "mint-a2a"
  /\ pc \in ForMint \cup ForA2A => identity.kind = "found"
  /\ pc # "minted" => token = NoToken

\* Whose word the identity is.
Vouched ==
  /\ AsksAssertion /\ identity = AssertionIdentity(Given)
  /\ Given.iss \in deployment.trusted /\ Given.dir = caller.dir
  /\ \E k \in keysSeen : k.key = Given.signer /\ k.use \in {Nil, "sig"}
  /\ now \in Given.iat .. (Given.exp - 1)

Provided ==
  /\ ~AsksAssertion
  /\ identity = Others(MintDomain, deployment, caller) /\ identity.kind = "found"

WhoInv ==
  /\ pc \in {"delivery", "keys"} => AsksAssertion
  /\ pc = "others" => ~AsksAssertion
  /\ pc = "keys" => Given.iss \in deployment.trusted
  /\ identity = NoIdentity \/ Vouched \/ Provided

\* What has been let through.
Gated ==
  IF identity.source = "assertion" THEN CheckAssertion
  ELSE identity.subject \in deployment.entitled

GateInv ==
  /\ pc \in {"secrets", "github"} \/ reads # <<>> \/ token.kind = "installation" =>
       /\ identity.kind = "found" /\ Gated
       /\ (audit # <<>>) = (identity.source = "assertion")
  /\ pc \in {"key", "login", "oidc"} => ~PolicyDenies

\* The secrets that were read; once the new App's is seen, so is every later one,
\* unless the broker held two Apps at a read.
NowNew == \A s \in DOMAIN broker : broker[s] = "app2"

ReadsInv ==
  /\ reads \in Seq(Apps) /\ Len(reads) <= 4 /\ broker \in [Range(Secrets) -> Apps]
  /\ pc = "secrets" => Len(reads) < 4
  /\ pc = "github" => Len(reads) = 4
  /\ pc \in {"secrets", "github"} /\ Len(reads) >= 3 => reads[3] = deployment.slug
  /\ torn \in BOOLEAN
  /\ ~torn =>
       /\ \A i \in 1 .. Len(reads) : reads[i] = "app2" => NowNew
       /\ \A i, j \in 1 .. Len(reads) : i <= j /\ reads[i] = "app2" => reads[j] = "app2"

AuditInv ==
  /\ Len(audit) <= 1
  /\ command = "mint-a2a" /\ deployment.valid /\ pc \in {"refused", "minted"} =>
       /\ Len(audit) = 1 /\ audit[1].permitted = (token # NoToken)
       /\ identity # NoIdentity => audit[1].subject = identity.subject

IInv ==
  /\ pc \in Early \cup ForMint \cup ForA2A \cup {"refused", "minted"}
  /\ PhaseInv /\ WhoInv /\ GateInv /\ ReadsInv /\ AuditInv /\ TokenOfConfiguredApp

\* Init's states satisfy it.
LEMMA InitHolds == Init => IInv
  <1> SUFFICES ASSUME Init PROVE IInv
    OBVIOUS
  <1> USE DEF Init
  <1>1. PhaseInv /\ WhoInv
    BY DEF PhaseInv, WhoInv, Early, ForMint, ForA2A
  <1>2. GateInv /\ AuditInv /\ TokenOfConfiguredApp
    BY DEF GateInv, AuditInv, TokenOfConfiguredApp, NoToken
  <1>3. ReadsInv
    <2>1. broker \in [Range(Secrets) -> Apps]
      <3>1. "app1" \in Apps
        BY DEF Apps
      <3> QED
        BY <3>1
    <2>2. reads \in Seq(Apps) /\ Len(reads) = 0
      OBVIOUS
    <2>3. 1 .. Len(reads) = {}
      BY <2>2
    <2>4. pc = "start" /\ ~torn /\ torn \in BOOLEAN
      OBVIOUS
    <2> HIDE DEF Init
    <2> QED
      BY <2>1, <2>2, <2>3, <2>4 DEF ReadsInv
  <1> QED
    BY <1>1, <1>2, <1>3 DEF IInv, Early

\* The steps, with what each changes of the phase.
LEMMA PhaseStep ==
  IInv /\ [Next]_vars =>
    PhaseInv' /\ pc' \in Early \cup ForMint \cup ForA2A \cup {"refused", "minted"}
  <1> SUFFICES ASSUME IInv, [Next]_vars
               PROVE  PhaseInv' /\ pc' \in Early \cup ForMint \cup ForA2A \cup {"refused", "minted"}
    OBVIOUS
  <1> USE DEF IInv, PhaseInv, Early, ForMint, ForA2A, inputs, attested, exchange, Refuse
  <1>1. CASE UNCHANGED vars
    BY <1>1 DEF vars
  <1>2. CASE Start
    BY <1>2 DEF Start, AsksAssertion
  <1>3. CASE ReadDelivery
    BY <1>3 DEF ReadDelivery
  <1>4. CASE JWKSUnavailable
    BY <1>4 DEF JWKSUnavailable
  <1>5. CASE Verify
    BY <1>5, AnswersDiffer DEF Verify, AssertionIdentity
  <1>6. CASE ResolveOthers
    BY <1>6 DEF ResolveOthers
  <1>7. CASE Gate
    BY <1>7 DEF Gate
  <1>8. CASE Replace
    BY <1>8 DEF Replace
  <1>9. CASE ReadSecret
    BY <1>9 DEF ReadSecret
  <1>10. CASE ReadFails
    BY <1>10 DEF ReadFails
  <1>11. CASE AskGitHub
    BY <1>11 DEF AskGitHub
  <1>12. CASE A2AGates
    BY <1>12 DEF A2AGates
  <1>13. CASE ReadKey \/ Login
    BY <1>13 DEF ReadKey, Login
  <1>14. CASE ReadOIDCToken \/ IssueFails
    BY <1>14 DEF ReadOIDCToken, IssueFails
  <1> QED
    BY <1>1, <1>2, <1>3, <1>4, <1>5, <1>6, <1>7, <1>8, <1>9, <1>10, <1>11, <1>12,
       <1>13, <1>14 DEF Next

\* Where the inputs and what was attested stay, so does whose word it was.
LEMMA WhoStays ==
  ASSUME WhoInv, UNCHANGED <<inputs, attested>>, pc' \notin {"delivery", "keys", "others"}
  PROVE  WhoInv'
  BY DEF WhoInv, Vouched, Provided, inputs, attested, AsksAssertion, MintDomain, Given

\* Every step keeps it.
LEMMA WhoStep == IInv /\ [Next]_vars => WhoInv'
  <1> SUFFICES ASSUME IInv, [Next]_vars PROVE WhoInv'
    OBVIOUS
  <1>0. WhoInv /\ PhaseInv
    BY DEF IInv
  <1>1. CASE UNCHANGED vars
    BY <1>0, <1>1 DEF vars, WhoInv, Vouched, Provided, AsksAssertion, MintDomain, Given
  <1>2. CASE Start
    <2>1. UNCHANGED <<inputs, attested>> /\ identity = NoIdentity
      BY <1>0, <1>2 DEF Start, PhaseInv, Early
    <2>2. AsksAssertion' = AsksAssertion
      BY <2>1 DEF inputs, attested, AsksAssertion, MintDomain
    <2>3. pc' \in {"delivery", "others", "refused"}
      BY <1>2 DEF Start, Refuse
    <2>4. (pc' = "delivery" => AsksAssertion) /\ (pc' = "others" => ~AsksAssertion)
      BY <1>2 DEF Start, Refuse
    <2> QED
      BY <2>1, <2>2, <2>3, <2>4 DEF WhoInv, attested
  <1>3. CASE ReadDelivery
    <2>1. UNCHANGED inputs /\ identity' = NoIdentity /\ AsksAssertion
      BY <1>0, <1>3 DEF ReadDelivery, PhaseInv, Early, WhoInv
    <2>2. AsksAssertion' = AsksAssertion /\ Given' = Given /\ deployment' = deployment
      BY <2>1 DEF inputs, AsksAssertion, MintDomain, Given
    <2>3. pc' \in {"keys", "refused"}
      BY <1>3 DEF ReadDelivery, Refuse
    <2>4. pc' = "keys" => FirstFailure(BeforeKeys(Given, deployment.trusted)) = Nil
      BY <1>3 DEF ReadDelivery, Refuse, Given
    <2> QED
      BY <2>1, <2>2, <2>3, <2>4, PassedBefore DEF WhoInv
  <1>4. CASE Verify
    <2>1. PICK keys \in KeySets :
            LET code == FirstFailure(WithKeys(Given, keys, now, caller.dir))
            IN /\ keysSeen' = keys
               /\ IF code = Nil
                  THEN identity' = AssertionIdentity(Given) /\ pc' = "gate"
                  ELSE Refuse /\ UNCHANGED identity
      BY <1>4 DEF Verify, Given
    <2>2. UNCHANGED inputs /\ identity = NoIdentity /\ AsksAssertion
          /\ Given.iss \in deployment.trusted
      BY <1>0, <1>4 DEF Verify, PhaseInv, Early, WhoInv
    <2>3. /\ AsksAssertion' = AsksAssertion /\ Given' = Given
          /\ UNCHANGED <<deployment, caller, now>>
      BY <2>2 DEF inputs, AsksAssertion, MintDomain, Given
    <2>4. CASE FirstFailure(WithKeys(Given, keys, now, caller.dir)) = Nil
      <3>1. now \in Int /\ Given.iat \in Int /\ Given.exp \in Int
        BY <1>0, TimesAssumption DEF PhaseInv, Given
      <3>2. /\ \E k \in keys : k.key = Given.signer /\ k.use \in {Nil, "sig"}
            /\ Given.dir = caller.dir /\ now \in Given.iat .. (Given.exp - 1)
        BY <2>4, <3>1, PassedWithKeys
      <3>3. keysSeen' = keys /\ identity' = AssertionIdentity(Given) /\ pc' = "gate"
        BY <2>1, <2>4
      <3>4. Vouched'
        BY <2>2, <2>3, <3>2, <3>3 DEF Vouched
      <3> QED
        BY <3>3, <3>4 DEF WhoInv
    <2>5. CASE FirstFailure(WithKeys(Given, keys, now, caller.dir)) # Nil
      BY <2>1, <2>2, <2>5 DEF WhoInv, Refuse
    <2> QED
      BY <2>4, <2>5
  <1>5. CASE ResolveOthers
    <2>1. UNCHANGED inputs /\ identity = NoIdentity /\ ~AsksAssertion
          /\ pc' \notin {"delivery", "keys", "others"}
      BY <1>0, <1>5 DEF ResolveOthers, PhaseInv, Early, WhoInv, Refuse
    <2>2. \/ identity' = NoIdentity
          \/ identity' = Others(MintDomain, deployment, caller) /\ identity'.kind = "found"
      BY <1>5, <2>1 DEF ResolveOthers
    <2>3. AsksAssertion' = AsksAssertion /\ MintDomain' = MintDomain
          /\ UNCHANGED <<deployment, caller>>
      BY <2>1 DEF inputs, AsksAssertion, MintDomain
    <2> QED
      BY <2>1, <2>2, <2>3 DEF WhoInv, Provided
  <1>6. CASE JWKSUnavailable
    BY <1>0, <1>6 DEF JWKSUnavailable, PhaseInv, Early, WhoInv, Refuse
  <1>7. CASE Gate \/ Replace \/ ReadSecret \/ ReadFails \/ AskGitHub
    <2>1. UNCHANGED <<inputs, attested>> /\ pc' \notin {"delivery", "keys", "others"}
      BY <1>7 DEF Gate, Replace, ReadSecret, ReadFails, AskGitHub, Refuse
    <2> QED
      BY <1>0, <2>1, WhoStays
  <1>8. CASE A2AGates \/ ReadKey \/ Login \/ ReadOIDCToken \/ IssueFails
    <2>1. UNCHANGED <<inputs, attested>> /\ pc' \notin {"delivery", "keys", "others"}
      BY <1>8 DEF A2AGates, ReadKey, Login, ReadOIDCToken, IssueFails, Refuse
    <2> QED
      BY <1>0, <2>1, WhoStays
  <1> QED
    BY <1>1, <1>2, <1>3, <1>4, <1>5, <1>6, <1>7, <1>8 DEF Next

\* An identity by another's word is not the assertion's.
LEMMA OthersAnswer ==
  ASSUME NEW domain, NEW d, NEW c, NEW a, a = Others(domain, d, c), a.kind = "found"
  PROVE  /\ a.source # "assertion"
         /\ domain # "local" => d.first = "enabled" /\ a.subject = c.spawnFile
         /\ domain = "local" => /\ d.configured => c.configured # "unreadable"
                                /\ a.source = "builtin" /\ d.session /\ c.sessionVar = "set"
                                     => c.sessionFile # "unusable"
  <1>1. CASE domain # "local"
    <2>1. a = SpawnSidecar(d, c)
      BY <1>1, AnswersDiffer DEF Others
    <2> QED
      BY <1>1, <2>1, SpawnAnswers
  <1>2. CASE domain = "local"
    <2> DEFINE answers == <<Configured(d, c), SpawnSidecar(d, c), SessionSidecar(d, c),
                            OSUser(d, c)>>
    <2>1. a = FirstAnswer(answers)
      BY <1>2 DEF Others, Chain
    <2>2. Len(answers) = 4 /\ answers[1] = Configured(d, c) /\ answers[2] = SpawnSidecar(d, c)
          /\ answers[3] = SessionSidecar(d, c) /\ answers[4] = OSUser(d, c)
      OBVIOUS
    <2> HIDE DEF answers
    <2>3. PICK n \in 1 .. 4 : a = answers[n] /\ \A m \in 1 .. (n - 1) : answers[m] = Miss
      <3>1. a # Miss
        BY AnswersDiffer
      <3> QED
        BY <2>1, <2>2, <3>1, FirstThatAnswers
    <2>4. d.configured /\ c.configured = "unreadable" => answers[1].kind = "refused"
      BY <2>2, ConfiguredAnswers
    <2>5. d.session /\ c.sessionVar = "set" /\ c.sessionFile = "unusable" =>
            answers[3].kind = "refused"
      BY <2>2, SessionAnswers
    <2>6. answers[1].kind = "found" => answers[1].source = "configured"
      BY <2>2, ConfiguredAnswers
    <2>7. /\ answers[2].kind = "found" => answers[2].source = "sidecar"
          /\ answers[3].kind = "found" => answers[3].source = "sidecar"
      BY <2>2, SpawnAnswers, SessionAnswers
    <2>8. answers[4].kind = "found" => answers[4].source = "builtin"
      BY <2>2, OSUserAnswers
    <2>9. n = 1 \/ n = 2 \/ n = 3 \/ n = 4
      BY <2>3
    <2>10. a.source # "assertion"
      BY <2>3, <2>6, <2>7, <2>8, <2>9
    <2>11. d.configured => c.configured # "unreadable"
      <3>1. n = 1 \/ answers[1] = Miss
        BY <2>3, <2>9
      <3> QED
        BY <2>3, <2>4, <3>1, AnswersDiffer
    <2>12. a.source = "builtin" /\ d.session /\ c.sessionVar = "set" =>
             c.sessionFile # "unusable"
      <3>1. a.source = "builtin" => n = 4
        BY <2>3, <2>6, <2>7, <2>9
      <3>2. n = 4 => answers[3] = Miss
        BY <2>3
      <3> QED
        BY <2>5, <3>1, <3>2, AnswersDiffer
    <2> QED
      BY <1>2, <2>10, <2>11, <2>12
  <1> QED
    BY <1>1, <1>2

\* An attested caller has the identity of its assertion, or of another provider.
LEMMA SourceTells ==
  ASSUME WhoInv, identity # NoIdentity
  PROVE  IF identity.source = "assertion" THEN Vouched ELSE Provided
  <1>1. Vouched => identity.source = "assertion"
    BY AnswersDiffer DEF Vouched, AssertionIdentity
  <1>2. Provided => identity.source # "assertion"
    BY OthersAnswer DEF Provided
  <1> QED
    BY <1>1, <1>2 DEF WhoInv

\* Nothing gets past a gate that has not passed it.
LEMMA GateStays ==
  ASSUME GateInv, UNCHANGED <<inputs, attested, audit>>,
         reads' # <<>> => pc \in {"secrets", "github"} \/ reads # <<>>,
         token'.kind = "installation" => pc = "github" \/ token.kind = "installation",
         pc' \in {"secrets", "github"} => pc \in {"secrets", "github"},
         pc' \in {"key", "login", "oidc"} => pc \in {"key", "login", "oidc"}
  PROVE  GateInv'
  BY DEF GateInv, Gated, CheckAssertion, MinGrade, PolicyDenies, inputs, attested

\* Every step keeps it.
LEMMA GateStep == IInv /\ [Next]_vars => GateInv'
  <1> SUFFICES ASSUME IInv, [Next]_vars PROVE GateInv'
    OBVIOUS
  <1>0. GateInv /\ PhaseInv
    BY DEF IInv
  <1>1. CASE UNCHANGED vars
    BY <1>0, <1>1, GateStays DEF vars, inputs, attested
  <1>2. CASE Start \/ ReadDelivery \/ JWKSUnavailable \/ Verify \/ ResolveOthers
    <2>1. /\ reads' = <<>> /\ token' = NoToken
          /\ pc' \in {"delivery", "keys", "others", "gate", "policy", "refused"}
      BY <1>0, <1>2 DEF Start, ReadDelivery, JWKSUnavailable, Verify, ResolveOthers, Refuse,
                        PhaseInv, Early, exchange
    <2> QED
      BY <2>1 DEF GateInv, NoToken
  <1>3. CASE Gate
    <2>1. reads' = <<>> /\ token' = NoToken /\ audit = <<>> /\ pc' \in {"secrets", "refused"}
      BY <1>0, <1>3 DEF Gate, Refuse, PhaseInv, Early, exchange
    <2>2. pc' = "secrets" => Gated
      BY <1>3 DEF Gate, Refuse, Gated
    <2>3. Gated' = Gated /\ identity' = identity
      BY <1>3 DEF Gate, Gated, CheckAssertion, MinGrade, inputs, attested
    <2>4. (audit' # <<>>) = (identity.source = "assertion")
      BY <1>3, <2>1 DEF Gate, Audit
    <2>5. identity.kind = "found"
      BY <1>0, <1>3 DEF Gate, PhaseInv, ForMint
    <2> QED
      BY <2>1, <2>2, <2>3, <2>4, <2>5 DEF GateInv, NoToken
  <1>4. CASE Replace \/ ReadSecret \/ AskGitHub
    <2>1. UNCHANGED <<inputs, attested, audit>>
      BY <1>4 DEF Replace, ReadSecret, AskGitHub
    <2>2. /\ reads' # <<>> => pc \in {"secrets", "github"} \/ reads # <<>>
          /\ token'.kind = "installation" => pc = "github" \/ token.kind = "installation"
          /\ pc' \in {"secrets", "github"} => pc \in {"secrets", "github"}
          /\ pc' \notin {"key", "login", "oidc"}
      BY <1>4 DEF Replace, ReadSecret, AskGitHub, exchange, Refuse
    <2> QED
      BY <1>0, <2>1, <2>2, GateStays
  <1>5. CASE ReadFails /\ command = "mint"
    BY <1>0, <1>5, GateStays DEF ReadFails, Refuse, exchange
  <1>6. CASE (ReadFails /\ command # "mint") \/ A2AGates \/ ReadKey \/ Login
             \/ ReadOIDCToken \/ IssueFails
    <2>1. pc \in ForA2A
      BY <1>0, <1>6 DEF ReadFails, A2AGates, ReadKey, Login, ReadOIDCToken, IssueFails,
                        PhaseInv, ForMint, ForA2A
    <2>2. reads' = <<>>
      BY <1>0, <1>6, <2>1 DEF ReadFails, A2AGates, ReadKey, Login, ReadOIDCToken, IssueFails,
                              PhaseInv
    <2>3. token'.kind # "installation"
      <3>1. token = NoToken
        BY <1>0, <2>1 DEF PhaseInv, ForA2A
      <3>2. CASE ReadOIDCToken
        BY <3>2 DEF ReadOIDCToken
      <3>3. CASE ~ReadOIDCToken
        <4>1. token' = token
          BY <1>6, <3>3 DEF ReadFails, A2AGates, ReadKey, Login, IssueFails, exchange
        <4>2. NoToken.kind = "none"
          BY DEF NoToken
        <4> QED
          BY <3>1, <4>1, <4>2
      <3> QED
        BY <3>2, <3>3
    <2>4. pc' \notin {"secrets", "github"}
      BY <1>6 DEF ReadFails, A2AGates, ReadKey, Login, ReadOIDCToken, IssueFails, Refuse
    <2>5. pc' \in {"key", "login", "oidc"} => ~PolicyDenies
      BY <1>0, <1>6 DEF ReadFails, A2AGates, ReadKey, Login, ReadOIDCToken, IssueFails, Refuse,
                        GateInv
    <2>6. PolicyDenies' = PolicyDenies
      BY <1>6 DEF ReadFails, A2AGates, ReadKey, Login, ReadOIDCToken, IssueFails, PolicyDenies,
                  inputs, attested
    <2> QED
      BY <2>2, <2>3, <2>4, <2>5, <2>6 DEF GateInv
  <1> QED
    BY <1>1, <1>2, <1>3, <1>4, <1>5, <1>6 DEF Next
-----------------------------------------------------------------------------
(* The secrets                                                             *)

\* The four secrets, in the order of the reads.
LEMMA Positions ==
  /\ Len(Order) = 4 /\ DOMAIN Order = 1 .. 4
  /\ Order[1] = "app_id" /\ Order[2] = "installation_id" /\ Order[3] = "app_slug"
  /\ Order[4] = "private_key"
  /\ Range(Secrets) = {"app_id", "installation_id", "app_slug", "private_key"}
  <1>1. Len(Order) = 4 /\ DOMAIN Order = 1 .. 4 /\ DOMAIN Secrets = 1 .. 4
    BY DEF Order, Secrets
  <1>2. /\ Order[1] = "app_id" /\ Order[2] = "installation_id"
        /\ Order[3] = "app_slug" /\ Order[4] = "private_key" /\ Order = Secrets
    BY DEF Order, Secrets
  <1>3. \A n \in 1 .. 4 : n = 1 \/ n = 2 \/ n = 3 \/ n = 4
    OBVIOUS
  <1>4. Range(Secrets) = {Secrets[n] : n \in 1 .. 4}
    BY <1>1 DEF Range
  <1>5. {Secrets[n] : n \in 1 .. 4} = {Secrets[1], Secrets[2], Secrets[3], Secrets[4]}
    BY <1>3
  <1> QED
    BY <1>1, <1>2, <1>4, <1>5

\* What was read of each name.
LEMMA ReadOf ==
  /\ Read("app_id") = reads[1] /\ Read("installation_id") = reads[2]
  /\ Read("app_slug") = reads[3] /\ Read("private_key") = reads[4]
  <1>1. \A n \in 1 .. 4 : n = 1 \/ n = 2 \/ n = 3 \/ n = 4
    OBVIOUS
  <1>2. ASSUME NEW s, NEW m \in 1 .. 4, Order[m] = s,
               \A n \in 1 .. 4 : Order[n] = s => n = m
        PROVE  Read(s) = reads[m]
    <2>1. (CHOOSE n \in DOMAIN Order : Order[n] = s) = m
      BY <1>2, Positions
    <2> QED
      BY <2>1 DEF Read
  <1>3. \A n \in 1 .. 4 : /\ Order[n] = "app_id" => n = 1
                          /\ Order[n] = "installation_id" => n = 2
                          /\ Order[n] = "app_slug" => n = 3
                          /\ Order[n] = "private_key" => n = 4
    BY <1>1, Positions
  <1> QED
    BY <1>2, <1>3, Positions

\* A read keeps what is known of those before it.
LEMMA ReadsStep == IInv /\ [Next]_vars => ReadsInv'
  <1> SUFFICES ASSUME IInv, [Next]_vars PROVE ReadsInv'
    OBVIOUS
  <1>0. ReadsInv /\ PhaseInv
    BY DEF IInv
  <1>1. ASSUME UNCHANGED <<reads, broker, torn, deployment>>,
               pc' \in {"secrets", "github"} => pc' = pc
        PROVE  ReadsInv'
    BY <1>0, <1>1 DEF ReadsInv, NowNew
  <1>2. CASE UNCHANGED vars
    BY <1>1, <1>2 DEF vars
  <1>3. CASE Start \/ ReadDelivery \/ JWKSUnavailable \/ Verify \/ ResolveOthers
    BY <1>1, <1>3 DEF Start, ReadDelivery, JWKSUnavailable, Verify, ResolveOthers, Refuse,
                      inputs
  <1>4. CASE ReadFails \/ AskGitHub \/ A2AGates \/ ReadKey \/ Login \/ ReadOIDCToken
             \/ IssueFails
    BY <1>1, <1>4 DEF ReadFails, AskGitHub, A2AGates, ReadKey, Login, ReadOIDCToken,
                      IssueFails, Refuse, inputs
  <1>5. CASE Gate
    <2>1. UNCHANGED <<reads, broker, torn, deployment>> /\ reads = <<>>
          /\ pc' \in {"secrets", "refused"}
      BY <1>0, <1>5 DEF Gate, Refuse, inputs, PhaseInv
    <2>2. Len(reads) = 0
      BY <2>1
    <2> QED
      BY <1>0, <2>1, <2>2 DEF ReadsInv, NowNew
  <1>6. CASE Replace
    <2>1. PICK s \in DOMAIN broker : broker[s] = "app1" /\ broker' = [broker EXCEPT ![s] = "app2"]
      BY <1>6 DEF Replace
    <2>2. UNCHANGED <<reads, torn, deployment, pc>>
      BY <1>6 DEF Replace, inputs
    <2>3. ~NowNew
      BY <2>1 DEF NowNew
    <2>4. broker' \in [Range(Secrets) -> Apps]
      BY <1>0, <2>1 DEF ReadsInv, Apps
    <2> QED
      BY <1>0, <2>2, <2>3, <2>4 DEF ReadsInv
  <1>7. CASE ReadSecret
    <2> DEFINE s == Order[Len(reads) + 1]
    <2>1. /\ reads \in Seq(Apps) /\ Len(reads) \in Nat /\ Len(reads) < 4
          /\ broker \in [Range(Secrets) -> Apps] /\ torn \in BOOLEAN
      BY <1>0, <1>7 DEF ReadSecret, ReadsInv
    <2>2. /\ pc = "secrets" /\ reads' = Append(reads, broker[s])
          /\ torn' = (torn \/ Torn) /\ UNCHANGED <<broker, deployment>>
          /\ pc' = CASE s = "app_slug" /\ broker[s] # deployment.slug -> "refused"
                     [] Len(reads') = Len(Order) -> "github"
                     [] OTHER -> "secrets"
      BY <1>7 DEF ReadSecret, inputs
    <2>3. Len(reads) = 0 \/ Len(reads) = 1 \/ Len(reads) = 2 \/ Len(reads) = 3
      <3>1. ASSUME NEW n \in Nat, n < 4 PROVE n = 0 \/ n = 1 \/ n = 2 \/ n = 3
        BY <3>1
      <3> QED
        BY <2>1, <3>1
    <2>4. s \in Range(Secrets) /\ (s = "app_slug" <=> Len(reads) = 2)
      <3>1. CASE Len(reads) = 0
        BY <3>1, Positions
      <3>2. CASE Len(reads) = 1
        BY <3>2, Positions
      <3>3. CASE Len(reads) = 2
        BY <3>3, Positions
      <3>4. CASE Len(reads) = 3
        BY <3>4, Positions
      <3> QED
        BY <2>3, <3>1, <3>2, <3>3, <3>4
    <2>5. broker[s] \in Apps
      BY <2>1, <2>4
    <2> HIDE DEF s
    <2>6. /\ reads' \in Seq(Apps) /\ Len(reads') = Len(reads) + 1
          /\ reads'[Len(reads) + 1] = broker[s]
          /\ \A i \in 1 .. Len(reads) : reads'[i] = reads[i]
      BY <2>1, <2>2, <2>5
    <2>7. /\ pc' = "secrets" => Len(reads') < 4
          /\ pc' = "github" => Len(reads') = 4
      BY <2>1, <2>2, <2>6, Positions
    <2>8. pc' \in {"secrets", "github"} /\ Len(reads') >= 3 => reads'[3] = deployment'.slug
      <3>1. CASE Len(reads) = 2
        <4>1. s = "app_slug" /\ reads'[3] = broker[s]
          BY <2>4, <2>6, <3>1
        <4>2. broker[s] # deployment.slug => pc' = "refused"
          <5>1. Len(reads') # Len(Order)
            BY <2>6, <3>1, Positions
          <5> QED
            BY <2>2, <4>1, <5>1
        <4> QED
          BY <2>2, <4>1, <4>2
      <3>2. CASE Len(reads) = 3
        BY <1>0, <2>2, <2>6, <3>2 DEF ReadsInv
      <3> QED
        BY <2>3, <2>6, <3>1, <3>2
    <2>9. ASSUME ~torn'
          PROVE  /\ \A i \in 1 .. Len(reads') : reads'[i] = "app2" => NowNew'
                 /\ \A i, j \in 1 .. Len(reads') :
                      i <= j /\ reads'[i] = "app2" => reads'[j] = "app2"
      <3>1. ~torn /\ ~Torn
        BY <2>1, <2>2, <2>9
      <3>2. \A t \in DOMAIN broker : broker[t] = broker[s]
        BY <2>1, <2>4, <3>1 DEF Torn
      <3>3. broker[s] = "app2" => NowNew
        BY <3>2 DEF NowNew
      <3>4. NowNew => broker[s] = "app2"
        BY <2>1, <2>4 DEF NowNew
      <3>5. NowNew' = NowNew
        BY <2>2 DEF NowNew
      <3>6. \A i \in 1 .. Len(reads') : i \in 1 .. Len(reads) \/ i = Len(reads) + 1
        BY <2>1, <2>6
      <3>7. \A i \in 1 .. Len(reads) : reads[i] = "app2" => NowNew
        BY <1>0, <3>1 DEF ReadsInv
      <3>8. \A i \in 1 .. Len(reads') : reads'[i] = "app2" => NowNew
        BY <2>6, <3>3, <3>6, <3>7
      <3>9. ASSUME NEW i \in 1 .. Len(reads'), NEW j \in 1 .. Len(reads'),
                   i <= j, reads'[i] = "app2"
            PROVE  reads'[j] = "app2"
        <4>1. CASE j = Len(reads) + 1
          BY <2>6, <3>4, <3>8, <3>9, <4>1
        <4>2. CASE j # Len(reads) + 1
          <5>1. i \in 1 .. Len(reads) /\ j \in 1 .. Len(reads)
            BY <2>1, <2>6, <3>9, <4>2
          <5> QED
            BY <1>0, <2>6, <3>1, <3>9, <5>1 DEF ReadsInv
        <4> QED
          BY <4>1, <4>2
      <3> QED
        BY <3>5, <3>8, <3>9
    <2>10. torn' \in BOOLEAN /\ broker' \in [Range(Secrets) -> Apps] /\ Len(reads') <= 4
      BY <2>1, <2>2, <2>6
    <2> QED
      BY <2>6, <2>7, <2>8, <2>9, <2>10 DEF ReadsInv
  <1> QED
    BY <1>2, <1>3, <1>4, <1>5, <1>6, <1>7 DEF Next
\* With no read between, all four are of one App if the key and the id are.
LEMMA TokenStep == IInv /\ [Next]_vars => TokenOfConfiguredApp'
  <1> SUFFICES ASSUME IInv, [Next]_vars PROVE TokenOfConfiguredApp'
    OBVIOUS
  <1>0. ReadsInv /\ PhaseInv /\ TokenOfConfiguredApp
    BY DEF IInv
  <1>1. NoToken.kind = "none"
    BY DEF NoToken
  <1>2. ASSUME token' = NoToken PROVE TokenOfConfiguredApp'
    BY <1>1, <1>2 DEF TokenOfConfiguredApp
  <1>3. CASE UNCHANGED vars
    BY <1>0, <1>3 DEF vars, TokenOfConfiguredApp
  <1>4. CASE Start \/ ReadDelivery \/ JWKSUnavailable \/ Verify \/ ResolveOthers \/ Gate
             \/ Replace \/ ReadSecret \/ ReadFails \/ A2AGates \/ ReadKey \/ Login
             \/ IssueFails
    <2>1. token' = token /\ pc # "minted"
      BY <1>4 DEF Start, ReadDelivery, JWKSUnavailable, Verify, ResolveOthers, Gate,
                  Replace, ReadSecret, ReadFails, A2AGates, ReadKey, Login, IssueFails,
                  exchange
    <2> QED
      BY <1>0, <1>2, <2>1 DEF PhaseInv
  <1>5. CASE ReadOIDCToken
    BY <1>5 DEF ReadOIDCToken, TokenOfConfiguredApp
  <1>6. CASE AskGitHub
    <2>1. UNCHANGED <<deployment, torn>> /\ pc = "github" /\ token = NoToken
      BY <1>0, <1>6 DEF AskGitHub, inputs, PhaseInv
    <2>2. CASE token' = token
      BY <1>2, <2>1, <2>2
    <2>3. CASE token' # token /\ ~torn
      <3>1. /\ reads[4] = reads[1]
            /\ token'.app = reads[1] /\ token'.slug = reads[3]
        BY <1>6, <2>3, ReadOf DEF AskGitHub
      <3>2. reads \in Seq(Apps) /\ Len(reads) = 4 /\ reads[3] = deployment.slug
        <4>1. reads \in Seq(Apps) /\ Len(reads) = 4
          BY <1>0, <2>1 DEF ReadsInv
        <4>2. Len(reads) >= 3 => reads[3] = deployment.slug
          BY <1>0, <2>1 DEF ReadsInv
        <4> QED
          BY <4>1, <4>2
      <3>3. \A i, j \in 1 .. 4 : i <= j /\ reads[i] = "app2" => reads[j] = "app2"
        BY <1>0, <2>3, <3>2 DEF ReadsInv
      <3>4. reads[1] = "app2" => reads[3] = "app2"
        BY <3>3
      <3>5. reads[3] = "app2" => reads[4] = "app2"
        BY <3>3
      <3>6. reads[1] \in {"app1", "app2"} /\ reads[3] \in {"app1", "app2"}
        BY <3>2 DEF Apps
      <3> QED
        BY <2>1, <3>1, <3>2, <3>4, <3>5, <3>6 DEF TokenOfConfiguredApp
    <2>4. CASE torn
      BY <2>1, <2>4 DEF TokenOfConfiguredApp
    <2> QED
      BY <2>2, <2>3, <2>4
  <1> QED
    BY <1>3, <1>4, <1>5, <1>6 DEF Next

-----------------------------------------------------------------------------
(* The events                                                              *)

\* One event, for the caller and of what came of it.
LEMMA OneEvent ==
  ASSUME NEW permitted, NEW role, audit = <<>>, Audit(permitted, role)
  PROVE  /\ Len(audit') = 1 /\ audit'[1].permitted = permitted
         /\ identity # NoIdentity => audit'[1].subject = identity.subject
  BY DEF Audit

\* Every step keeps the account of them.
LEMMA AuditStep == IInv /\ [Next]_vars => AuditInv'
  <1> SUFFICES ASSUME IInv, [Next]_vars PROVE AuditInv'
    OBVIOUS
  <1>0. AuditInv /\ PhaseInv
    BY DEF IInv
  <1>1. ASSUME UNCHANGED audit, command' = "mint" \/ ~deployment'.valid
                                \/ pc' \notin {"refused", "minted"}
        PROVE  AuditInv'
    BY <1>0, <1>1 DEF AuditInv
  <1>2. CASE UNCHANGED vars
    BY <1>0, <1>2 DEF vars, AuditInv
  <1>3. CASE Start
    BY <1>0, <1>1, <1>3 DEF Start, Refuse, inputs, PhaseInv
  <1>4. CASE ReadDelivery \/ JWKSUnavailable \/ Verify \/ Replace \/ ReadSecret \/ AskGitHub
    <2>1. UNCHANGED <<audit, command>> /\ command = "mint"
      BY <1>0, <1>4 DEF ReadDelivery, JWKSUnavailable, Verify, Replace, ReadSecret,
                        AskGitHub, inputs, PhaseInv, ForMint
    <2> QED
      BY <1>1, <2>1
  <1>5. CASE ReadKey \/ Login
    BY <1>1, <1>5 DEF ReadKey, Login
  <1>6. CASE Gate
    <2>1. command' = "mint" /\ audit = <<>>
      BY <1>0, <1>6 DEF Gate, inputs, PhaseInv, ForMint
    <2>2. Len(audit') <= 1
      <3>1. CASE UNCHANGED audit
        BY <2>1, <3>1
      <3>2. CASE Audit(CheckAssertion, caller.role)
        BY <2>1, <3>2 DEF Audit
      <3> QED
        BY <1>6, <3>1, <3>2 DEF Gate
    <2> QED
      BY <2>1, <2>2 DEF AuditInv
  <1>7. CASE ReadFails /\ command = "mint"
    BY <1>1, <1>7 DEF ReadFails, inputs
  <1>8. ASSUME NEW permitted, NEW role, audit = <<>>, Audit(permitted, role),
               identity' = identity, permitted = (token' # NoToken)
        PROVE  AuditInv'
    <2>1. /\ Len(audit') = 1 /\ audit'[1].permitted = permitted
          /\ identity # NoIdentity => audit'[1].subject = identity.subject
      BY <1>8, OneEvent
    <2> QED
      BY <1>8, <2>1 DEF AuditInv
  <1>9. ASSUME NEW role, audit = <<>>, Audit(FALSE, role), identity' = identity,
               token' = NoToken
        PROVE  AuditInv'
    BY <1>8, <1>9
  <1>10. CASE ResolveOthers
    <2>1. audit = <<>> /\ token' = NoToken
      BY <1>0, <1>10 DEF ResolveOthers, PhaseInv, Early, exchange
    <2>2. CASE pc' = "refused" /\ command = "mint-a2a"
      <3>1. Audit(FALSE, "none") /\ identity' = identity
        BY <1>10, <2>2 DEF ResolveOthers
      <3> QED
        BY <1>9, <2>1, <3>1
    <2>3. CASE pc' # "refused" \/ command = "mint"
      BY <1>1, <1>10, <2>3 DEF ResolveOthers, inputs, Refuse
    <2> QED
      BY <1>0, <2>2, <2>3 DEF PhaseInv
  <1>11. CASE ReadFails /\ command # "mint"
    <2>1. audit = <<>> /\ token' = NoToken /\ identity' = identity
      BY <1>0, <1>11 DEF ReadFails, PhaseInv, ForA2A, ForMint, exchange, attested
    <2>2. Audit(FALSE, deployment.a2a[identity.subject].role)
      BY <1>0, <1>11 DEF ReadFails, PhaseInv
    <2> QED
      BY <1>9, <2>1, <2>2
  <1>12. CASE A2AGates
    <2>1. audit = <<>> /\ token' = NoToken /\ identity' = identity
      BY <1>0, <1>12 DEF A2AGates, PhaseInv, ForA2A, exchange, attested
    <2>2. \/ Audit(FALSE, "none") \/ Audit(FALSE, A2ARole)
          \/ pc' = "key" /\ UNCHANGED audit
      BY <1>12 DEF A2AGates
    <2> QED
      BY <1>1, <1>9, <2>1, <2>2
  <1>13. CASE IssueFails
    BY <1>0, <1>9, <1>13 DEF IssueFails, PhaseInv, ForA2A, exchange, attested
  <1>14. CASE ReadOIDCToken
    <2>1. audit = <<>> /\ identity' = identity /\ Audit(TRUE, A2ARole)
      BY <1>0, <1>14 DEF ReadOIDCToken, PhaseInv, ForA2A, attested
    <2>2. token'.kind = "peer" /\ NoToken.kind = "none"
      BY <1>14 DEF ReadOIDCToken, NoToken
    <2>3. TRUE = (token' # NoToken)
      BY <2>2
    <2> QED
      BY <1>8, <2>1, <2>3
  <1> QED
    BY <1>0, <1>2, <1>3, <1>4, <1>5, <1>6, <1>7, <1>10, <1>11, <1>12, <1>13, <1>14 DEF Next
-----------------------------------------------------------------------------
(* The theorems                                                            *)

\* What each position of a process has established is an inductive invariant of
\* minting (runMint, runMintA2A and the services they call).
THEOREM MintInvariant == Spec => []IInv
  <1>1. Init => IInv
    BY InitHolds
  <1>2. IInv /\ [Next]_vars => IInv'
    <2>1. IInv /\ [Next]_vars =>
            /\ pc' \in Early \cup ForMint \cup ForA2A \cup {"refused", "minted"}
            /\ PhaseInv' /\ WhoInv' /\ GateInv' /\ ReadsInv' /\ AuditInv'
            /\ TokenOfConfiguredApp'
      BY PhaseStep, WhoStep, GateStep, ReadsStep, AuditStep, TokenStep
    <2> QED
      BY <2>1 DEF IInv, Early, ForMint, ForA2A
  <1> QED
    BY <1>1, <1>2, PTL DEF Spec

\* A process given a delivery directory mints for nobody but the actor of a
\* genuine, live assertion for that directory (assertionProvider.Resolve).
THEOREM AssertionAlwaysDecides == Spec => []AssertionDecides
  <1>1. IInv => AssertionDecides
    <2> SUFFICES ASSUME IInv, command = "mint", deployment.assertion,
                        caller.dir # "unset", identity # NoIdentity
                 PROVE  /\ identity.source = "assertion" /\ identity.roles = Given.roles
                        /\ Given.iss \in deployment.trusted /\ Given.dir = caller.dir
                        /\ \E k \in keysSeen : k.key = Given.signer /\ k.use # "enc"
                        /\ now \in Given.iat .. (Given.exp - 1)
      BY DEF AssertionDecides
    <2>1. Vouched \/ Provided
      BY DEF IInv, WhoInv
    <2>2. CASE Vouched
      <3>1. identity.source = "assertion" /\ identity.roles = Given.roles
        BY <2>2, AnswersDiffer DEF Vouched, AssertionIdentity
      <3>2. "enc" \notin {Nil, "sig"}
        BY Zenon DEF Nil
      <3>3. \A k : k.use \in {Nil, "sig"} => k.use # "enc"
        BY <3>2
      <3> QED
        BY <2>2, <3>1, <3>3 DEF Vouched
    <2>3. CASE Provided
      <3>1. MintDomain = "local-subagent" /\ deployment.first # "enabled"
        BY <2>3 DEF Provided, AsksAssertion
      <3>2. deployment.first = "enabled"
        BY <2>3, <3>1, OthersAnswer DEF Provided
      <3> QED
        BY <3>1, <3>2
    <2> QED
      BY <2>1, <2>2, <2>3
  <1> QED
    BY <1>1, MintInvariant, PTL

\* No identity stands in for another (Resolver.Resolve, DomainResolver.Resolve).
THEOREM NeverSubstituted == Spec => []NoSubstitute
  <1>1. IInv => NoFallback
    <2> SUFFICES ASSUME IInv, identity # NoIdentity, MintDomain = "local",
                        identity.source # "assertion"
                 PROVE  /\ deployment.configured => caller.configured # "unreadable"
                        /\ identity.source = "builtin" /\ deployment.session
                             /\ caller.sessionVar = "set" => caller.sessionFile # "unusable"
      BY DEF NoFallback
    <2>1. Provided
      BY SourceTells DEF IInv
    <2> QED
      BY <2>1, OthersAnswer DEF Provided
  <1>2. IInv => NeverAsParent
    <2> SUFFICES ASSUME IInv, identity # NoIdentity, identity.source # "assertion",
                        command = "mint-a2a"
                          \/ (deployment.first # "none" /\ caller.spawnVar # "unset")
                 PROVE  deployment.first = "enabled" /\ identity.subject = caller.spawnFile
      BY DEF NeverAsParent
    <2>1. Provided
      BY SourceTells DEF IInv
    <2>2. MintDomain # "local"
      <3>1. CASE command = "mint-a2a"
        BY <3>1 DEF MintDomain
      <3>2. CASE command = "mint" /\ deployment.first # "none" /\ caller.spawnVar # "unset"
        BY <3>2 DEF MintDomain
      <3> QED
        BY <3>1, <3>2 DEF IInv, PhaseInv
    <2> QED
      BY <2>1, <2>2, OthersAnswer DEF Provided
  <1>3. IInv => NoSubstitute
    BY <1>1, <1>2 DEF NoSubstitute
  <1> QED
    BY <1>3, MintInvariant, PTL

\* Secrets are read, and tokens issued, only past the gates (mintForDomain,
\* checkAssertion, Policy.Check).
THEOREM SecretsOnlyForEntitled == Spec => []SecretsForEntitled
  <1>1. IInv => SecretsForEntitled
    <2> SUFFICES ASSUME IInv PROVE SecretsForEntitled
      OBVIOUS
    <2>0. GateInv /\ PhaseInv /\ WhoInv
      BY DEF IInv
    <2>1. ASSUME reads # <<>> \/ token.kind = "installation", identity.source = "assertion"
          PROVE  /\ caller.role \in Given.roles
                 /\ deployment.minGrade = "workload" => Given.grade = "workload"
                 /\ \/ deployment.entitled = {}
                    \/ identity.subject \in deployment.entitled
      <3>1. CheckAssertion
        BY <2>0, <2>1 DEF GateInv, Gated
      <3>2. identity.kind = "found"
        BY <2>0, <2>1 DEF GateInv
      <3>3. identity # NoIdentity
        BY <3>2 DEF NoIdentity
      <3>4. Vouched
        BY <2>0, <2>1, <3>3, SourceTells
      <3>5. identity.roles = Given.roles /\ identity.grade = Given.grade
        BY <3>4, AnswersDiffer DEF Vouched, AssertionIdentity
      <3>6. "workload" # Nil
        BY Zenon DEF Nil
      <3>7. deployment.minGrade = "workload" => MinGrade = "workload"
        BY <3>6 DEF MinGrade
      <3>8. \A g : GradeRank(g) >= GradeRank("workload") => g = "workload"
        BY DEF GradeRank
      <3> QED
        BY <3>1, <3>5, <3>7, <3>8 DEF CheckAssertion
    <2>2. reads # <<>> \/ token.kind = "installation" =>
            (identity.source # "assertion" => identity.subject \in deployment.entitled)
      BY <2>0 DEF GateInv, Gated
    <2>3. pc \in {"key", "login", "oidc"} =>
            caller.audience \in deployment.a2a[identity.subject].audiences
      BY <2>0 DEF GateInv, PolicyDenies
    <2> QED
      BY <2>1, <2>2, <2>3 DEF SecretsForEntitled
  <1> QED
    BY <1>1, MintInvariant, PTL

\* A token is of the App that the role is bound to, unless a secret is read
\* while its replacement is half done (Service.mint).
THEOREM TokenAlwaysOfConfiguredApp == Spec => []TokenOfConfiguredApp
  <1>1. IInv => TokenOfConfiguredApp
    BY DEF IInv
  <1> QED
    BY <1>1, MintInvariant, PTL

\* One event for every outcome of mint-a2a, one for the gate's decision of mint
\* (a2amint.Service.Mint, Service.checkAssertion).
THEOREM AlwaysAudited == Spec => []Audited
  <1>1. IInv => TypeOK
    <2> SUFFICES ASSUME IInv PROVE TypeOK
      OBVIOUS
    <2>1. NoIdentity.kind = "none"
      BY DEF NoIdentity
    <2>2. identity.kind \in {"none", "found"}
      <3>1. CASE identity = NoIdentity
        BY <2>1, <3>1
      <3>2. CASE Vouched
        BY <3>2, AnswersDiffer DEF Vouched, AssertionIdentity
      <3>3. CASE Provided
        BY <3>3 DEF Provided
      <3> QED
        BY <3>1, <3>2, <3>3 DEF IInv, WhoInv
    <2>3. Len(Secrets) = 4
      BY DEF Secrets
    <2> QED
      BY <2>2, <2>3 DEF TypeOK, IInv, Early, ForMint, ForA2A, ReadsInv, AuditInv
  <1>2. IInv /\ command = "mint" /\ reads # <<>> =>
          (audit # <<>>) = (identity.source = "assertion")
    BY DEF IInv, GateInv
  <1>3. IInv => Audited
    BY <1>1, <1>2 DEF Audited, IInv, AuditInv
  <1> QED
    BY <1>3, MintInvariant, PTL
-----------------------------------------------------------------------------
(* The order of verification                                               *)

\* The code of a chain is that of the first of its checks that fails.
LEMMA FirstFails ==
  ASSUME NEW checks, NEW len \in Nat, Len(checks) = len
  PROVE  \/ FirstFailure(checks) = Nil /\ \A i \in 1 .. len : ~checks[i].fails
         \/ \E n \in 1 .. len : /\ FirstFailure(checks) = checks[n].code
                                /\ checks[n].fails
                                /\ \A i \in 1 .. (n - 1) : ~checks[i].fails
  <1> DEFINE I == {i \in 1 .. len : checks[i].fails}
             n == IF I # {} THEN Min(I) ELSE 0
  <1>1. FirstFailure(checks) = IF n = 0 THEN Nil ELSE checks[n].code
    BY DEF FirstFailure, SelectInSeq
  <1>2. \A i \in I : i \in 1 .. len /\ checks[i].fails
    OBVIOUS
  <1>3. \A i \in 1 .. len : i \notin I => ~checks[i].fails
    OBVIOUS
  <1>4. I # {} => Min(I) \in I /\ \A i \in I : Min(I) <= i
    <2>1. ASSUME NEW i \in 1 .. len PROVE i \in Nat
      OBVIOUS
    <2> HIDE DEF I
    <2> QED BY <1>2, <2>1, MinOfIndices
  <1>5. n = IF I # {} THEN Min(I) ELSE 0
    OBVIOUS
  <1> HIDE DEF I, n
  <1>6. CASE I = {}
    BY <1>1, <1>3, <1>5, <1>6
  <1>7. CASE I # {}
    <2>1. n \in I /\ \A i \in I : n <= i
      BY <1>4, <1>5, <1>7
    <2>2. n \in 1 .. len /\ checks[n].fails
      BY <1>2, <2>1
    <2>3. \A i \in 1 .. (n - 1) : ~checks[i].fails
      BY <1>3, <2>1, <2>2
    <2>4. FirstFailure(checks) = checks[n].code
      BY <1>1, <2>2
    <2> QED
      BY <2>2, <2>3, <2>4
  <1> QED
    BY <1>6, <1>7

\* Chains that make the same checks in the same order have the same code.
LEMMA SameChecks ==
  ASSUME NEW a, NEW b, NEW len \in Nat, Len(a) = len, Len(b) = len,
         \A i \in 1 .. len : a[i].code = b[i].code /\ (a[i].fails <=> b[i].fails)
  PROVE  FirstFailure(a) = FirstFailure(b)
  <1>1. \/ FirstFailure(a) = Nil /\ \A i \in 1 .. len : ~a[i].fails
        \/ \E n \in 1 .. len : /\ FirstFailure(a) = a[n].code
                               /\ a[n].fails
                               /\ \A i \in 1 .. (n - 1) : ~a[i].fails
    BY FirstFails
  <1>2. \/ FirstFailure(b) = Nil /\ \A i \in 1 .. len : ~b[i].fails
        \/ \E n \in 1 .. len : /\ FirstFailure(b) = b[n].code
                               /\ b[n].fails
                               /\ \A i \in 1 .. (n - 1) : ~b[i].fails
    BY FirstFails
  <1>3. ASSUME NEW n \in 1 .. len, a[n].fails, \A i \in 1 .. (n - 1) : ~a[i].fails,
               NEW k \in 1 .. len, b[k].fails, \A i \in 1 .. (k - 1) : ~b[i].fails
        PROVE  n = k
    <2>1. ~(k < n)
      <3>1. k < n => k \in 1 .. (n - 1)
        OBVIOUS
      <3> QED BY <1>3, <3>1
    <2>2. ~(n < k)
      <3>1. n < k => n \in 1 .. (k - 1)
        OBVIOUS
      <3> QED BY <1>3, <3>1
    <2> QED
      BY <2>1, <2>2
  <1> QED
    BY <1>1, <1>2, <1>3

\* Of two chains, one after the other, the second is asked if the first passes.
LEMMA FirstOfTwo ==
  ASSUME NEW a, NEW b, NEW c, Len(a) \in Nat, Len(b) \in Nat, Len(c) = Len(a) + Len(b),
         \A i \in 1 .. Len(a) : c[i] = a[i] /\ a[i].code # Nil,
         \A i \in 1 .. Len(b) : c[Len(a) + i] = b[i]
  PROVE  FirstFailure(c) = IF FirstFailure(a) # Nil THEN FirstFailure(a)
                                                    ELSE FirstFailure(b)
  <1> DEFINE m == Len(a)
             n == Len(b)
  <1>a. m \in Nat /\ n \in Nat /\ Len(a) = m /\ Len(b) = n /\ Len(c) = m + n
    OBVIOUS
  <1>b. /\ \A i \in 1 .. m : c[i] = a[i] /\ a[i].code # Nil
        /\ \A i \in 1 .. n : c[m + i] = b[i]
    OBVIOUS
  <1> HIDE DEF m, n
  <1> USE <1>a, <1>b
  <1>1. \/ FirstFailure(a) = Nil /\ \A i \in 1 .. m : ~a[i].fails
        \/ \E j \in 1 .. m : /\ FirstFailure(a) = a[j].code /\ a[j].fails
                             /\ \A i \in 1 .. (j - 1) : ~a[i].fails
    BY FirstFails
  <1>2. \/ FirstFailure(b) = Nil /\ \A i \in 1 .. n : ~b[i].fails
        \/ \E j \in 1 .. n : /\ FirstFailure(b) = b[j].code /\ b[j].fails
                             /\ \A i \in 1 .. (j - 1) : ~b[i].fails
    BY FirstFails
  <1>3. \/ FirstFailure(c) = Nil /\ \A i \in 1 .. (m + n) : ~c[i].fails
        \/ \E j \in 1 .. (m + n) : /\ FirstFailure(c) = c[j].code /\ c[j].fails
                                   /\ \A i \in 1 .. (j - 1) : ~c[i].fails
    BY FirstFails
  <1>4. CASE \E j \in 1 .. m : /\ FirstFailure(a) = a[j].code /\ a[j].fails
                               /\ \A i \in 1 .. (j - 1) : ~a[i].fails
    <2>1. PICK j \in 1 .. m : /\ FirstFailure(a) = a[j].code /\ a[j].fails
                              /\ \A i \in 1 .. (j - 1) : ~a[i].fails
      BY <1>4
    <2>2. j \in 1 .. (m + n) /\ c[j].fails /\ FirstFailure(a) # Nil
      BY <2>1
    <2>3. PICK k \in 1 .. (m + n) : /\ FirstFailure(c) = c[k].code /\ c[k].fails
                                    /\ \A i \in 1 .. (k - 1) : ~c[i].fails
      BY <1>3, <2>2
    <2>4. ~(j < k)
      <3>1. j < k => j \in 1 .. (k - 1)
        OBVIOUS
      <3> QED BY <2>2, <2>3, <3>1
    <2>5. ~(k < j)
      <3>1. k < j => k \in 1 .. (j - 1) /\ k \in 1 .. m
        OBVIOUS
      <3> QED BY <2>1, <2>3, <3>1
    <2>6. k = j
      BY <2>4, <2>5
    <2> QED
      BY <2>1, <2>2, <2>3, <2>6
  <1>5. CASE FirstFailure(a) = Nil /\ \A i \in 1 .. m : ~a[i].fails
    <2>1. \A i \in 1 .. (m + n) : c[i].fails =>
            i \notin 1 .. m /\ (i - m) \in 1 .. n /\ c[i] = b[i - m]
      <3> SUFFICES ASSUME NEW i \in 1 .. (m + n), c[i].fails
                   PROVE  i \notin 1 .. m /\ (i - m) \in 1 .. n /\ c[i] = b[i - m]
        OBVIOUS
      <3>1. i \notin 1 .. m
        BY <1>5
      <3>2. (i - m) \in 1 .. n /\ m + (i - m) = i
        BY <3>1
      <3> QED
        BY <3>1, <3>2
    <2>2. CASE FirstFailure(c) = Nil /\ \A i \in 1 .. (m + n) : ~c[i].fails
      <3>1. \A j \in 1 .. n : ~b[j].fails
        <4>1. \A j \in 1 .. n : m + j \in 1 .. (m + n)
          OBVIOUS
        <4> QED
          BY <2>2, <4>1
      <3> QED
        BY <1>2, <1>5, <2>2, <3>1
    <2>3. CASE \E j \in 1 .. (m + n) : /\ FirstFailure(c) = c[j].code /\ c[j].fails
                                       /\ \A i \in 1 .. (j - 1) : ~c[i].fails
      <3>1. PICK k \in 1 .. (m + n) : /\ FirstFailure(c) = c[k].code /\ c[k].fails
                                      /\ \A i \in 1 .. (k - 1) : ~c[i].fails
        BY <2>3
      <3>2. (k - m) \in 1 .. n /\ c[k] = b[k - m]
        BY <2>1, <3>1
      <3>3. PICK j \in 1 .. n : /\ FirstFailure(b) = b[j].code /\ b[j].fails
                                /\ \A i \in 1 .. (j - 1) : ~b[i].fails
        BY <1>2, <3>1, <3>2
      <3>4. ~(k - m < j)
        <4>1. k - m < j => (k - m) \in 1 .. (j - 1)
          BY <3>2
        <4> QED BY <3>1, <3>2, <3>3, <4>1
      <3>5. ~(j < k - m)
        <4>1. j < k - m => m + j \in 1 .. (k - 1)
          OBVIOUS
        <4>2. c[m + j] = b[j]
          OBVIOUS
        <4> QED BY <3>1, <3>3, <4>1, <4>2
      <3>6. j = k - m
        BY <3>2, <3>4, <3>5
      <3> QED
        BY <1>5, <3>1, <3>2, <3>3, <3>6
    <2> QED
      BY <1>3, <2>2, <2>3
  <1> QED
    BY <1>1, <1>4, <1>5

\* What is checked with the key set at hand, as the contract states it.
ContractRest(t, keys, time, dir) ==
  <<Check("key_not_found", ~ \E k \in keys : k.kid = t.kid),
    Check("signature_invalid",
          ~ \E k \in keys : k.kid = t.kid /\ VerifySignature(k, t)),
    Check("contract_version_unsupported", t.cia \notin {1, 2}),
    Check("claims_invalid", ~t.dates),
    Check("expired", t.exp <= time),
    Check("not_yet_valid", t.nbf > time \/ t.iat > time),
    Check("ttl_exceeded", t.exp > t.iat + MaxLifetime),
    Check("claims_invalid", ~ClaimsShapeValid(t)),
    Check("audience_unexpected", t.aud # "none"),
    Check("dir_mismatch", t.dir # dir)>>

\* Where the keys of its kid declare no other use or alg, a token that passes
\* what comes first is judged as the contract says.
LEMMA RestAsContract ==
  ASSUME NEW t, t.iat \in Int, t.exp \in Int, t.nbf \in Int, NEW keys,
         NEW time \in Int, NEW dir,
         \A k \in keys : k.kid = t.kid => k.use \in {Nil, "sig"}
                                          /\ k.alg \in {Nil, t.alg}
  PROVE  FirstFailure(WithKeys(t, keys, time, dir))
           = FirstFailure(ContractRest(t, keys, time, dir))
  <1> DEFINE a == WithKeys(t, keys, time, dir)
             b == ContractRest(t, keys, time, dir)
  <1>1. Len(a) = 10 /\ Len(b) = 10
    BY DEF WithKeys, DatesAndShape, ContractRest
  <1>2. \A i \in 1 .. 10 : a[i].code = b[i].code
    BY DEF WithKeys, DatesAndShape, ContractRest, Check
  <1>3. /\ a[1].fails <=> b[1].fails
        /\ a[2].fails <=> b[2].fails
    <2>1. SigningKeys(keys, t.kid, t.alg) = {k \in keys : k.kid = t.kid}
      BY DEF SigningKeys
    <2>2. a[1].fails = ((SigningKeys(keys, t.kid, t.alg) = {}))
      BY DEF WithKeys, DatesAndShape, Check
    <2>3. a[2].fails = (~ \E k \in SigningKeys(keys, t.kid, t.alg) : VerifySignature(k, t))
      BY DEF WithKeys, DatesAndShape, Check
    <2>4. b[1].fails = (~ \E k \in keys : k.kid = t.kid)
      BY DEF ContractRest, Check
    <2>5. b[2].fails = (~ \E k \in keys : k.kid = t.kid /\ VerifySignature(k, t))
      BY DEF ContractRest, Check
    <2> HIDE DEF a, b
    <2> QED
      BY <2>1, <2>2, <2>3, <2>4, <2>5
  <1>4. a[3].fails <=> b[3].fails
    <2>1. 1 .. SupportedMajor = {1, 2}
      BY DEF SupportedMajor
    <2>2. a[3].fails = (t.cia \notin 1 .. SupportedMajor)
      BY DEF WithKeys, DatesAndShape, Check
    <2>3. b[3].fails = (t.cia \notin {1, 2})
      BY DEF ContractRest, Check
    <2> HIDE DEF a, b
    <2> QED
      BY <2>1, <2>2, <2>3
  <1>5. /\ a[4].fails <=> b[4].fails
        /\ a[5].fails <=> b[5].fails
        /\ a[8].fails <=> b[8].fails
        /\ a[9].fails <=> b[9].fails
        /\ a[10].fails <=> b[10].fails
    BY DEF WithKeys, DatesAndShape, ContractRest, Check
  <1>6. /\ a[6].fails <=> b[6].fails
        /\ a[7].fails <=> b[7].fails
    <2>1. a[6].fails = ((time < t.nbf \/ t.iat > time))
      BY DEF WithKeys, DatesAndShape, Check
    <2>2. a[7].fails = (t.exp - t.iat > MaxLifetime)
      BY DEF WithKeys, DatesAndShape, Check
    <2>3. b[6].fails = ((t.nbf > time \/ t.iat > time))
      BY DEF ContractRest, Check
    <2>4. b[7].fails = (t.exp > t.iat + MaxLifetime)
      BY DEF ContractRest, Check
    <2> HIDE DEF a, b
    <2> QED
      BY <2>1, <2>2, <2>3, <2>4, LifetimeAssumption
  <1> HIDE DEF a, b
  <1>7. \A i \in 1 .. 10 : a[i].fails <=> b[i].fails
    BY <1>3, <1>4, <1>5, <1>6
  <1>8. FirstFailure(a) = FirstFailure(b)
    BY <1>1, <1>2, <1>7, SameChecks
  <1> QED
    BY <1>8 DEF a, b

\* The contract's code is that of what comes before the keys, or of the rest.
LEMMA ContractInTwo ==
  LET first == FirstFailure(BeforeKeys(Given, deployment.trusted))
  IN ContractCode =
       IF first # Nil THEN first
       ELSE FirstFailure(ContractRest(Given, keysSeen, now, caller.dir))
  <1> DEFINE a == BeforeKeys(Given, deployment.trusted)
             b == ContractRest(Given, keysSeen, now, caller.dir)
             c == a \o b
             m == 3
             n == 10
  <1>1. ContractCode = FirstFailure(c)
    BY DEF ContractCode, ContractRest
  <1>2. m \in Nat /\ n \in Nat /\ Len(a) = m /\ Len(b) = n
    BY DEF BeforeKeys, ContractRest
  <1>3. \A i \in 1 .. 3 : a[i].code # Nil
    BY CodesAreGiven DEF BeforeKeys, Check
  <1>4. Len(c) = m + n /\ \A i \in 1 .. n : c[m + i] = b[i]
    BY DEF BeforeKeys, ContractRest
  <1>5. \A i \in 1 .. m : c[i] = a[i] /\ a[i].code # Nil
    BY <1>3 DEF BeforeKeys, ContractRest
  <1>6. /\ Len(a) \in Nat /\ Len(b) \in Nat /\ Len(c) = Len(a) + Len(b)
        /\ \A i \in 1 .. Len(a) : c[i] = a[i] /\ a[i].code # Nil
        /\ \A i \in 1 .. Len(b) : c[Len(a) + i] = b[i]
    <2> HIDE DEF a, b, c, m, n
    <2> QED
      BY <1>2, <1>4, <1>5
  <1> HIDE DEF a, b, c, m, n
  <1>7. FirstFailure(c) = IF FirstFailure(a) # Nil THEN FirstFailure(a)
                                                   ELSE FirstFailure(b)
    BY <1>6, FirstOfTwo
  <1> QED
    BY <1>1, <1>7 DEF a, b

\* What a verdict was given on: a file that is delivered whole, then the checks
\* before the key set, then those with it.
VerdictInv ==
  /\ caller \in Callers /\ now \in Times
  /\ pc \in {"start", "delivery", "keys"} => verdict = "none"
  /\ pc = "keys" =>
       FirstFailure(BeforeKeys(Given, deployment.trusted)) = Nil
  /\ Judged =>
       LET first == FirstFailure(BeforeKeys(Given, deployment.trusted))
       IN verdict = IF first # Nil THEN first
                    ELSE FirstFailure(WithKeys(Given, keysSeen, now, caller.dir))

\* No step but the two that verify touches a verdict or what it was given on.
LEMMA VerdictStays ==
  ASSUME VerdictInv, UNCHANGED <<inputs, verdict, keysSeen>>,
         \/ pc' \notin {"start", "delivery", "keys"}
         \/ verdict = "none" /\ pc' # "keys"
         \/ pc' = pc
  PROVE  VerdictInv'
  BY DEF VerdictInv, Judged, Given, inputs

LEMMA VerdictStarts == Init => VerdictInv
  BY DEF Init, VerdictInv, Judged

LEMMA VerdictStep == VerdictInv /\ [Next]_vars => VerdictInv'
  <1> SUFFICES ASSUME VerdictInv, [Next]_vars PROVE VerdictInv'
    OBVIOUS
  <1>1. CASE UNCHANGED vars
    BY <1>1, VerdictStays DEF vars, inputs
  <1>2. CASE Start
    BY <1>2, VerdictStays DEF Start, Refuse, attested, VerdictInv
  <1>3. CASE ReadDelivery
    <2> DEFINE first == FirstFailure(BeforeKeys(Given, deployment.trusted))
    <2>1. /\ verdict = "none" /\ pc' \in {"keys", "refused"} /\ UNCHANGED inputs
          /\ UNCHANGED keysSeen
      BY <1>3 DEF ReadDelivery, VerdictInv, Refuse
    <2>2. first' = first /\ UNCHANGED <<caller, now, deployment, Given>>
      BY <2>1 DEF inputs, Given
    <2>3. CASE caller.delivery.code # Nil
      <3>1. pc' = "refused"
        BY <1>3, <2>3 DEF ReadDelivery, Refuse
      <3>2. ~Judged'
        BY <2>2, <2>3 DEF Judged
      <3> QED
        BY <2>2, <3>1, <3>2 DEF VerdictInv
    <2>4. CASE caller.delivery.code = Nil /\ first # Nil
      <3>1. pc' = "refused" /\ verdict' = first
        BY <1>3, <2>4 DEF ReadDelivery, Refuse, Given
      <3> QED
        BY <2>2, <2>4, <3>1 DEF VerdictInv
    <2>5. CASE caller.delivery.code = Nil /\ first = Nil
      <3>1. pc' = "keys" /\ verdict' = "none"
        BY <1>3, <2>1, <2>5 DEF ReadDelivery, Given
      <3>2. ~Judged'
        BY <3>1 DEF Judged
      <3> QED
        BY <2>2, <2>5, <3>1, <3>2 DEF VerdictInv
    <2> QED
      BY <2>3, <2>4, <2>5
  <1>4. CASE JWKSUnavailable
    <2>1. pc' = "refused" /\ verdict' = "jwks_unavailable" /\ UNCHANGED inputs
      BY <1>4 DEF JWKSUnavailable, Refuse
    <2> QED
      BY <2>1 DEF VerdictInv, Judged, inputs
  <1>5. CASE Verify
    <2> DEFINE first == FirstFailure(BeforeKeys(Given, deployment.trusted))
    <2>1. PICK keys \in KeySets :
            keysSeen' = keys /\ verdict' = FirstFailure(WithKeys(Given, keys, now, caller.dir))
      BY <1>5 DEF Verify, Given
    <2>2. UNCHANGED inputs /\ pc' \in {"gate", "refused"} /\ first = Nil
      BY <1>5 DEF Verify, Refuse, VerdictInv
    <2>3. first' = first /\ UNCHANGED <<caller, now, deployment, Given>>
      BY <2>2 DEF inputs, Given
    <2> QED
      BY <2>1, <2>2, <2>3 DEF VerdictInv
  <1>6. CASE ResolveOthers \/ Gate \/ Replace \/ ReadSecret \/ ReadFails \/ AskGitHub
    <2>1. UNCHANGED <<inputs, verdict, keysSeen>> /\ pc' \notin {"start", "delivery", "keys"}
      BY <1>6 DEF ResolveOthers, Gate, Replace, ReadSecret, ReadFails, AskGitHub,
                  Refuse, attested
    <2> QED
      BY <2>1, VerdictStays
  <1>7. CASE A2AGates \/ ReadKey \/ Login \/ ReadOIDCToken \/ IssueFails
    <2>1. UNCHANGED <<inputs, verdict, keysSeen>> /\ pc' \notin {"start", "delivery", "keys"}
      BY <1>7 DEF A2AGates, ReadKey, Login, ReadOIDCToken, IssueFails, Refuse, attested
    <2> QED
      BY <2>1, VerdictStays
  <1> QED
    BY <1>1, <1>2, <1>3, <1>4, <1>5, <1>6, <1>7 DEF Next

\* A token with several faults is refused for the first in the order of the
\* contract (verifyAssertion, verifyClaims), whatever its keys and the time.
THEOREM RefusedInContractOrder == Spec => []ContractOrder
  <1>1. VerdictInv => ContractOrder
    <2> SUFFICES ASSUME VerdictInv, Judged,
                        \A k \in keysSeen : k.kid = Given.kid =>
                          k.use \in {Nil, "sig"} /\ k.alg \in {Nil, Given.alg}
                 PROVE  verdict = ContractCode
      BY DEF ContractOrder
    <2>1. now \in Int /\ Given.iat \in Int /\ Given.exp \in Int /\ Given.nbf \in Int
      BY TimesAssumption DEF VerdictInv, Given
    <2>2. FirstFailure(WithKeys(Given, keysSeen, now, caller.dir))
            = FirstFailure(ContractRest(Given, keysSeen, now, caller.dir))
      BY <2>1, RestAsContract
    <2> QED
      BY <2>2, ContractInTwo DEF VerdictInv
  <1> QED
    BY <1>1, VerdictStarts, VerdictStep, PTL DEF Spec
=============================================================================
