-------------------------------- MODULE MCMint --------------------------------
(* Deployments, callers and tokens small enough to enumerate: a token has at *)
(* most two faults, and what is no part of the question is left at a default. *)
EXTENDS Mint

Genuine ==
  [form |-> TRUE, alg |-> "EdDSA", iss |-> "local", kid |-> "k1", signer |-> "K1",
   cia |-> 2, dates |-> TRUE, iat |-> 1, exp |-> 4, nbf |-> 0, shape |-> TRUE,
   sub |-> "human:ada", act |-> "agent:builder", spawn |-> TRUE,
   origin |-> "human", grade |-> "harness", roles |-> {"builder"},
   dir |-> "/d1", aud |-> "none"]

\* One fault, as an edit of a token.
Edits(t) ==
  {[t EXCEPT !.form = FALSE], [t EXCEPT !.alg = "none"],
   [t EXCEPT !.alg = "ES256"], [t EXCEPT !.iss = "other"],
   [t EXCEPT !.kid = "k9"], [t EXCEPT !.signer = "K9"], [t EXCEPT !.cia = 3],
   [t EXCEPT !.cia = 1], [t EXCEPT !.dates = FALSE], [t EXCEPT !.exp = 2],
   [t EXCEPT !.exp = 6], [t EXCEPT !.iat = 3], [t EXCEPT !.nbf = 3],
   [t EXCEPT !.shape = FALSE], [t EXCEPT !.act = "none"],
   [t EXCEPT !.origin = "driven"], [t EXCEPT !.grade = "workload"],
   [t EXCEPT !.roles = {}], [t EXCEPT !.dir = "/d2"], [t EXCEPT !.dir = "none"],
   [t EXCEPT !.aud = "peer"]}

OneFault == Edits(Genuine)
TwoFaults == UNION {Edits(t) : t \in OneFault}

Delivered(t) == [code |-> Nil, token |-> t]
Undelivered(c) == [code |-> c, token |-> Genuine]

Key(kid, key, type, alg, use) ==
  [kid |-> kid, key |-> key, type |-> type, alg |-> alg, use |-> use]
MCKeySets ==
  {{Key("k1", "K1", "EdDSA", Nil, "sig")},
   {Key("k1", "K2", "EdDSA", "EdDSA", Nil), Key("k1", "K1", "EdDSA", "EdDSA", Nil)},
   {Key("k1", "K1", "EdDSA", "EdDSA", "enc")},
   {Key("k2", "K2", "ES256", "ES256", "sig")}}

Plain ==
  [dir |-> "unset", delivery |-> Delivered(Genuine),
   spawnVar |-> "unset", spawnFile |-> "absent",
   sessionVar |-> "set", sessionFile |-> "lead",
   configured |-> "absent", user |-> "root", role |-> "builder",
   audience |-> "p1"]

\* Callers with an assertion, and callers with sources of the other kinds.
MCCallers ==
  {[Plain EXCEPT !.dir = "/d1", !.delivery = d] :
     d \in {Delivered(t) : t \in TwoFaults \cup {Genuine}}
           \cup {Undelivered("identity_file_missing"),
                 Undelivered("identity_dir_unsafe")}}
  \cup {[Plain EXCEPT !.dir = dir, !.spawnVar = v, !.spawnFile = f,
                      !.sessionFile = s, !.configured = g] :
          dir \in {"unset", "/d1"}, v \in {"unset", "blank", "set"},
          f \in {"absent", "blank", "unusable", "agent:builder"},
          s \in {"absent", "unusable", "lead"},
          g \in {"absent", "unreadable", "service"}}
  \cup {[Plain EXCEPT !.spawnVar = "set", !.spawnFile = f, !.audience = a] :
          f \in {"agent:builder", "agent:other"}, a \in {"p1", "p2"}}

Base ==
  [valid |-> TRUE, assertion |-> TRUE, trusted |-> {"local"},
   first |-> "enabled", structured |-> FALSE, session |-> TRUE,
   configured |-> TRUE, osUser |-> TRUE, bound |-> TRUE, minGrade |-> Nil,
   entitled |-> {}, slug |-> "app1",
   a2a |-> [s \in {"agent:builder"} |-> [role |-> "caller",
                                          audiences |-> {"p1"}]],
   authRole |-> [r \in {"caller"} |-> "auth"],
   oidcRole |-> [r \in {"caller"} |-> "oidc"]]

Everyone == {"agent:builder", "lead", "service", "root"}

MCDeployments ==
  {[Base EXCEPT !.assertion = a, !.first = f, !.entitled = Everyone] :
     a \in BOOLEAN, f \in {"none", "partial", "enabled"}}
  \cup {[Base EXCEPT !.entitled = e, !.minGrade = g] :
          e \in {{}, {"lead"}}, g \in {Nil, "workload"}}
  \cup {[Base EXCEPT !.entitled = Everyone, !.slug = s] : s \in {"app2", "none"}}
  \cup {[Base EXCEPT !.valid = FALSE], [Base EXCEPT !.bound = FALSE],
        [Base EXCEPT !.structured = TRUE, !.session = FALSE, !.osUser = FALSE],
        [Base EXCEPT !.configured = FALSE],
        [Base EXCEPT !.oidcRole = [r \in {"caller"} |-> Nil]]}
===============================================================================
