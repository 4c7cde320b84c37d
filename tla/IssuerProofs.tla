---------------------------- MODULE IssuerProofs ----------------------------
(***************************************************************************)
(* Proofs about Issuer, for every number of handlers, processes, ids, keys *)
(* and definitions, and every bound: first its assertions, then the        *)
(* delivery directories, what an answered client finds there, what a       *)
(* failed request leaves, and which processes are ever bound.              *)
(***************************************************************************)
EXTENDS Issuer, TLAPS

-----------------------------------------------------------------------------
(* Types                                                                   *)

\* A request in one of its phases is a Request.
LEMMA RequestTypes ==
  /\ Idle \in Request
  /\ \A n \in Nat, p \in Peer, d \in Def \cup {NoDef} :
       [pc |-> "session", now |-> n, peer |-> p, def |-> d] \in Request
  /\ \A n \in Nat, p \in Peer, d \in Def, a \in Assertion :
       [pc |-> "child", now |-> n, peer |-> p, def |-> d, parent |-> a]
         \in Request
  /\ \A n \in Nat, p \in Peer, d \in Def, a \in Assertion, e \in IssuedTo :
       [pc |-> "found", now |-> n, peer |-> p, def |-> d, parent |-> a,
        entry |-> e] \in Request
  /\ \A n \in Nat, d \in Draft :
       [pc |-> "create", now |-> n, draft |-> d] \in Request
  /\ \A pc \in Finishing, n \in Nat, t \in Assertion :
       [pc |-> pc, now |-> n, tok |-> t] \in Request
  BY DEF Request, Finishing

\* What the pc of a request says of its fields.
LEMMA RequestFields ==
  ASSUME NEW q \in Request
  PROVE  /\ q.pc = "session" => /\ q.now \in Nat /\ q.peer \in Peer
                                /\ q.def \in Def \cup {NoDef}
         /\ q.pc = "child" => /\ q.now \in Nat /\ q.peer \in Peer
                              /\ q.def \in Def /\ q.parent \in Assertion
         /\ q.pc = "found" => /\ q.now \in Nat /\ q.peer \in Peer
                              /\ q.def \in Def /\ q.parent \in Assertion
                              /\ q.entry \in IssuedTo
         /\ q.pc = "create" => q.now \in Nat /\ q.draft \in Draft
         /\ q.pc \in Finishing => q.now \in Nat /\ q.tok \in Assertion
  BY DEF Request, Idle, Finishing

\* Replacing one handler's request by a Request keeps req well-typed.
LEMMA RequestUpdate ==
  ASSUME TypeOK, NEW h \in Handler, NEW q \in Request,
         req' = [req EXCEPT ![h] = q]
  PROVE  req' \in [Handler -> Request]
  BY DEF TypeOK

\* bindRuntime returns a live process of the peer's uid.
LEMMA BoundIsLive ==
  ASSUME NEW q, NEW p \in BindRuntime(q)
  PROVE  p \in procs /\ p.uid = q.uid
  BY DEF BindRuntime, LeadsTo

\* The requests the two grant steps leave behind are Requests.
LEMMA GrantTypes ==
  ASSUME TypeOK, NEW h \in Handler
  PROVE  /\ GrantSession(h) => req' \in [Handler -> Request]
         /\ GrantChild(h) => req' \in [Handler -> Request]
  <1>1. ASSUME GrantSession(h) PROVE req' \in [Handler -> Request]
    <2>1. PICK p \in BindRuntime(req[h].peer) :
            req' = [req EXCEPT ![h] =
              [pc |-> "create", now |-> req[h].now,
               draft |-> [sid |-> NoJti, parent |-> NoJti,
                     roles |-> IF req[h].def = NoDef THEN RuntimeRoles
                                                     ELSE defs[req[h].def],
                     exp |-> req[h].now + SessionTTL,
                     bound |-> p]]]
      BY <1>1 DEF GrantSession
    <2>2. p \in Process
      BY <2>1, BoundIsLive DEF TypeOK
    <2>3. req[h] \in Request /\ req[h].pc = "session"
      BY <1>1 DEF GrantSession, TypeOK
    <2>4. req[h].now \in Nat
      BY <2>3, RequestFields
    <2>5. (IF req[h].def = NoDef THEN RuntimeRoles ELSE defs[req[h].def])
            \in SUBSET Role
      BY <1>1, RoleAssumption DEF GrantSession, SessionGrantable, Known, TypeOK
    <2>6. [sid |-> NoJti, parent |-> NoJti,
           roles |-> IF req[h].def = NoDef THEN RuntimeRoles
                                           ELSE defs[req[h].def],
           exp |-> req[h].now + SessionTTL, bound |-> p] \in Draft
      BY <2>2, <2>4, <2>5, TTLAssumption DEF Draft
    <2>7. QED
      BY <2>1, <2>4, <2>6, RequestTypes, RequestUpdate
  <1>2. ASSUME GrantChild(h) PROVE req' \in [Handler -> Request]
    <2>1. PICK p \in ChildRuntimes(req[h]) :
            req' = [req EXCEPT ![h] =
              [pc |-> "create", now |-> req[h].now,
               draft |-> [sid |-> req[h].parent.sid,
                     parent |-> req[h].parent.jti,
                     roles |-> ChildRoles(req[h]),
                     exp |-> ChildExpiry(req[h]),
                     bound |-> p]]]
      BY <1>2 DEF GrantChild
    <2>2. p \in Process
      BY <2>1, BoundIsLive DEF ChildRuntimes, TypeOK
    <2>3. req[h] \in Request /\ req[h].pc = "found"
      BY <1>2 DEF GrantChild, TypeOK
    <2>4. req[h].now \in Nat /\ req[h].parent \in Assertion
      BY <2>3, RequestFields
    <2>5. ChildRoles(req[h]) \in SUBSET Role
      BY <2>4 DEF ChildRoles, Assertion
    <2>6. ChildExpiry(req[h]) \in Nat
      BY <2>4, TTLAssumption DEF ChildExpiry, Earlier, Assertion
    <2>7. [sid |-> req[h].parent.sid, parent |-> req[h].parent.jti,
           roles |-> ChildRoles(req[h]), exp |-> ChildExpiry(req[h]),
           bound |-> p] \in Draft
      BY <2>2, <2>4, <2>5, <2>6 DEF Draft, Assertion
    <2>8. QED
      BY <2>1, <2>4, <2>7, RequestTypes, RequestUpdate
  <1>3. QED
    BY <1>1, <1>2

\* A draft signed under fresh ids is an Assertion.
LEMMA SignType ==
  ASSUME TypeOK, NEW d \in Draft, NEW j \in Jti, NEW n \in Nat
  PROVE  Sign(d, j, n) \in Assertion
  BY DEF Sign, Draft, Assertion, TypeOK

\* The initial state is well-typed.
LEMMA TypeInit == Init => TypeOK
  <1> SUFFICES ASSUME Init PROVE TypeOK
    OBVIOUS
  <1>1. procs \subseteq Process
    <2>1. PICK f \in [Pid -> Exe \X Uid] :
            procs = {[pid |-> p, uid |-> f[p][2], start |-> 0,
                      exe |-> f[p][1]] : p \in Pid}
      BY DEF Init
    <2>2. QED
      BY <2>1 DEF Process
  <1>2. req \in [Handler -> Request]
    BY RequestTypes DEF Init
  <1>3. QED
    BY <1>1, <1>2 DEF Init, TypeOK

\* Time, processes and edited definition files keep the types.
LEMMA TypeHost == TypeOK /\ Host => TypeOK'
  <1> SUFFICES ASSUME TypeOK, Host PROVE TypeOK'
    OBVIOUS
  <1>1. CASE Tick
    BY <1>1 DEF Tick, TypeOK
  <1>2. ASSUME NEW pid \in Pid, NEW uid \in Uid, NEW exe \in Exe,
               Spawn(pid, uid, exe)
        PROVE  TypeOK'
    <2>1. procs' \subseteq Process
      BY <1>2 DEF Spawn, TypeOK, Process
    <2>2. QED
      BY <1>2, <2>1 DEF Spawn, TypeOK
  <1>3. ASSUME NEW p \in procs, Exit(p) PROVE TypeOK'
    BY <1>3 DEF Exit, TypeOK
  <1>4. ASSUME NEW p \in procs, NEW exe \in Exe, Exec(p, exe) PROVE TypeOK'
    <2>1. procs' \subseteq Process
      BY <1>4 DEF Exec, TypeOK, Process
    <2>2. QED
      BY <1>4, <2>1 DEF Exec, TypeOK
  <1>5. ASSUME NEW names \in SUBSET Def, EditDefinitions(names) PROVE TypeOK'
    BY <1>5 DEF EditDefinitions, TypeOK
  <1>6. QED
    BY <1>1, <1>2, <1>3, <1>4, <1>5 DEF Host

\* Accepting issue-session or issue-child keeps the types.
LEMMA TypeAdmit ==
  ASSUME TypeOK, NEW h \in Handler, Admit(h)
  PROVE  TypeOK'
  <1> PICK p \in procs, via \in Via :
        \/ \E def \in Def \cup {NoDef} : AdmitSession(h, p, via, def)
        \/ \E def \in Def, a \in assertions : AdmitChild(h, p, via, def, a)
    BY DEF Admit
  <1>1. PeerOf(p, via) \in Peer
    BY DEF PeerOf, Peer, TypeOK, Process
  <1>2. ASSUME NEW def \in Def \cup {NoDef}, AdmitSession(h, p, via, def)
        PROVE  TypeOK'
    <2>1. req' \in [Handler -> Request]
      BY <1>1, <1>2, RequestTypes, RequestUpdate DEF AdmitSession, TypeOK
    <2>2. QED
      BY <1>2, <2>1 DEF AdmitSession, TypeOK, world
  <1>3. ASSUME NEW def \in Def, NEW a \in assertions,
               AdmitChild(h, p, via, def, a)
        PROVE  TypeOK'
    <2>1. req' \in [Handler -> Request]
      BY <1>1, <1>3, RequestTypes, RequestUpdate DEF AdmitChild, TypeOK
    <2>2. QED
      BY <1>3, <2>1 DEF AdmitChild, TypeOK, world
  <1>4. QED
    BY <1>2, <1>3

\* Every step of serving a request keeps the types.
LEMMA TypeServe ==
  ASSUME TypeOK, NEW h \in Handler, Serve(h)
  PROVE  TypeOK'
  <1>1. CASE GrantSession(h)
    BY <1>1, GrantTypes DEF GrantSession, TypeOK, world
  <1>2. CASE LookupParent(h)
    <2>1. PICK e \in EntryFor(req[h]) :
            req' = [req EXCEPT ![h] =
              [pc |-> "found", now |-> req[h].now, peer |-> req[h].peer,
               def |-> req[h].def, parent |-> req[h].parent, entry |-> e]]
      BY <1>2 DEF LookupParent
    <2>2. e \in IssuedTo
      BY <2>1 DEF EntryFor, TypeOK
    <2>3. req[h] \in Request /\ req[h].pc = "child"
      BY <1>2 DEF LookupParent, TypeOK
    <2>4. req' \in [Handler -> Request]
      BY <2>1, <2>2, <2>3, RequestFields, RequestTypes, RequestUpdate
    <2>5. QED
      BY <1>2, <2>4 DEF LookupParent, TypeOK, world
  <1>3. CASE GrantChild(h)
    BY <1>3, GrantTypes DEF GrantChild, TypeOK, world
  <1>4. CASE Refuse(h)
    <2>1. req' \in [Handler -> Request]
      BY <1>4, RequestTypes, RequestUpdate DEF Refuse
    <2>2. QED
      BY <1>4, <2>1 DEF Refuse, TypeOK, world
  <1>5. ASSUME NEW j \in Jti, CreateDir(h, j) PROVE TypeOK'
    <2>1. req[h] \in Request /\ req[h].pc = "create"
      BY <1>5 DEF CreateDir, TypeOK
    <2>2. req[h].now \in Nat /\ req[h].draft \in Draft
      BY <2>1, RequestFields
    <2>3. Sign(req[h].draft, j, req[h].now) \in Assertion
      BY <2>2, SignType
    <2>4. req' \in [Handler -> Request]
      BY <1>5, <2>2, <2>3, RequestTypes, RequestUpdate
         DEF CreateDir, Finishing
    <2>5. [name |-> j, created |-> req[h].now, jwt |-> FALSE, tmp |-> FALSE]
            \in Directory
      BY <2>2, Zenon DEF Directory
    <2>6. dirs' \subseteq Directory
      BY <1>5, <2>5 DEF CreateDir, TypeOK
    <2>7. QED
      BY <1>5, <2>4, <2>6 DEF CreateDir, TypeOK, world
  <1>6. CASE PublishToken(h)
    <2>1. req[h] \in Request /\ req[h].pc \in Finishing
      BY <1>6 DEF PublishToken, TypeOK, Finishing
    <2>2. req[h].now \in Nat /\ req[h].tok \in Assertion
      BY <2>1, RequestFields
    <2>3. req' \in [Handler -> Request]
      BY <1>6, <2>2, RequestTypes, RequestUpdate DEF PublishToken, Finishing
    <2>4. dirs' \subseteq Directory
      BY <1>6 DEF PublishToken, DirNamed, TypeOK, Directory
    <2>5. QED
      BY <1>6, <2>2, <2>3, <2>4 DEF PublishToken, TypeOK, world
  <1>7. CASE PublishTmp(h)
    <2>1. req[h] \in Request /\ req[h].pc \in Finishing
      BY <1>7 DEF PublishTmp, TypeOK, Finishing
    <2>2. req[h].now \in Nat /\ req[h].tok \in Assertion
      BY <2>1, RequestFields
    <2>3. req' \in [Handler -> Request]
      BY <1>7, <2>2, RequestTypes, RequestUpdate DEF PublishTmp, Finishing
    <2>4. dirs' \subseteq Directory
      BY <1>7 DEF PublishTmp, DirNamed, TypeOK, Directory
    <2>5. QED
      BY <1>7, <2>3, <2>4 DEF PublishTmp, TypeOK, world
  <1>8. CASE Record(h)
    <2>1. req[h] \in Request /\ req[h].pc \in Finishing
      BY <1>8 DEF Record, TypeOK, Finishing
    <2>2. req[h].tok \in Assertion
      BY <2>1, RequestFields
    <2>3. [jti |-> req[h].tok.jti, bound |-> req[h].tok.bound,
           exp |-> req[h].tok.exp] \in IssuedTo
      BY <2>2 DEF Assertion, IssuedTo
    <2>4. registry' \subseteq IssuedTo
      BY <1>8, <2>3 DEF Record, Put, TypeOK
    <2>5. req' \in [Handler -> Request]
      BY <1>8, RequestTypes, RequestUpdate DEF Record
    <2>6. QED
      BY <1>8, <2>2, <2>4, <2>5 DEF Record, TypeOK, world, Assertion
  <1>9. QED
    BY <1>1, <1>2, <1>3, <1>4, <1>5, <1>6, <1>7, <1>8 DEF Serve

\* The error paths of finish keep the types.
LEMMA TypeFault ==
  ASSUME TypeOK, NEW h \in Handler, Fault(h)
  PROVE  TypeOK'
  <1>1. req' \in [Handler -> Request]
    BY RequestTypes, RequestUpdate
       DEF Fault, CreateFails, PublishFails, DiscardFails
  <1>2. CASE CreateFails(h)
    BY <1>1, <1>2 DEF CreateFails, TypeOK, world
  <1>3. CASE PublishFails(h)
    BY <1>1, <1>3 DEF PublishFails, TypeOK, world
  <1>4. CASE DiscardFails(h)
    <2>1. req[h] \in Request /\ req[h].pc \in Finishing
      BY <1>4 DEF DiscardFails, TypeOK, Finishing
    <2>2. req[h].tok \in Assertion
      BY <2>1, RequestFields
    <2>3. QED
      BY <1>1, <1>4, <2>2 DEF DiscardFails, TypeOK, world, Assertion
  <1>5. QED
    BY <1>2, <1>3, <1>4 DEF Fault

\* The sweep keeps the types.
LEMMA TypeReap == TypeOK /\ Reap => TypeOK'
  <1> SUFFICES ASSUME TypeOK, Reap PROVE TypeOK'
    OBVIOUS
  <1>1. CASE ReapStart
    <2>1. reaper' \subseteq Jti
      BY <1>1 DEF ReapStart, Stale, TypeOK, Directory
    <2>2. QED
      BY <1>1, <2>1 DEF ReapStart, TypeOK, world
  <1>2. ASSUME NEW j \in Jti, ReapDir(j) PROVE TypeOK'
    BY <1>2 DEF ReapDir, TypeOK, world
  <1>3. QED
    BY <1>1, <1>2 DEF Reap

\* Restarting the issuer keeps the types.
LEMMA TypeRestart ==
  ASSUME TypeOK, NEW k \in Key, Restart(k)
  PROVE  TypeOK'
  <1>1. InFlight \subseteq Jti
    BY RequestFields DEF InFlight, TypeOK, Assertion
  <1>2. req' \in [Handler -> Request]
    BY RequestTypes DEF Restart
  <1>3. QED
    BY <1>1, <1>2 DEF Restart, TypeOK, world

\* Every variable has its type in every reachable state.
THEOREM TypeCorrect == Spec => []TypeOK
  <1>1. TypeOK /\ [Next]_vars => TypeOK'
    <2> SUFFICES ASSUME TypeOK, [Next]_vars PROVE TypeOK'
      OBVIOUS
    <2>1. CASE UNCHANGED vars
      BY <2>1 DEF vars, TypeOK
    <2>2. CASE Next
      BY <2>2, TypeHost, TypeAdmit, TypeServe, TypeFault, TypeReap, TypeRestart
         DEF Next
    <2>3. QED
      BY <2>1, <2>2
  <1>2. QED
    BY TypeInit, <1>1, PTL DEF Spec

-----------------------------------------------------------------------------
(* The inductive invariant                                                 *)

\* A step that touches neither requests, ids, assertions nor the registry.
LEMMA QuietStep ==
  ASSUME Core, UNCHANGED <<req, assertions, drawn, registry, run, key>>
  PROVE  Core'
  <1>1. IdsUnique'
    BY DEF Core, IdsUnique
  <1>2. \A h \in Handler : PhaseInv(req[h])'
    BY DEF Core, PhaseInv, DraftEntitled, TokEntitled, CutFrom, Truthful
  <1>3. SessionCeiling' /\ ChildWithinParent' /\ SessionPinned'
    BY DEF Core, SessionCeiling, ChildWithinParent, SessionPinned
  <1>4. RegistryTruthful'
    BY DEF Core, RegistryTruthful
  <1>5. QED
    BY <1>1, <1>2, <1>3, <1>4 DEF Core

\* A step that moves one request to q, not past the drawing of its ids.
LEMMA RequestStep ==
  ASSUME TypeOK, Core, NEW h \in Handler, NEW q,
         req' = [req EXCEPT ![h] = q], q.pc \notin Finishing, PhaseInv(q),
         UNCHANGED <<assertions, drawn, registry, run, key>>
  PROVE  Core'
  <1>1. \A g \in Handler : req'[g] = IF g = h THEN q ELSE req[g]
    BY DEF TypeOK
  <1>2. IdsUnique'
    BY <1>1 DEF Core, IdsUnique
  <1>3. \A g \in Handler : PhaseInv(req[g])'
    <2> SUFFICES ASSUME NEW g \in Handler PROVE PhaseInv(req[g])'
      OBVIOUS
    <2>1. PhaseInv(req[g])' <=> PhaseInv(req'[g])
      BY DEF PhaseInv, DraftEntitled, TokEntitled, CutFrom, Truthful
    <2>2. QED
      BY <1>1, <2>1 DEF Core
  <1>4. SessionCeiling' /\ ChildWithinParent' /\ SessionPinned'
    BY DEF Core, SessionCeiling, ChildWithinParent, SessionPinned
  <1>5. RegistryTruthful'
    BY DEF Core, RegistryTruthful
  <1>6. QED
    BY <1>2, <1>3, <1>4, <1>5 DEF Core

\* An idle handler has established nothing and holds no id.
LEMMA IdleInv == PhaseInv(Idle) /\ Idle.pc \notin Finishing
  BY DEF PhaseInv, Idle, Finishing

\* The inductive invariant holds at the start.
LEMMA CoreInit == Init => Core
  BY DEF Init, Core, IdsUnique, PhaseInv, Idle, Finishing, SessionCeiling,
         ChildWithinParent, SessionPinned, RegistryTruthful

\* The host cannot disturb it: it says nothing of live processes or files.
LEMMA CoreHost == Core /\ Host => Core'
  BY QuietStep DEF Host, Tick, Spawn, Exit, Exec, EditDefinitions

\* Nor can the sweep: it says nothing of directories.
LEMMA CoreReap == Core /\ Reap => Core'
  BY QuietStep DEF Reap, ReapStart, ReapDir

\* issue-child is admitted with an assertion of this key, unexpired at its now.
LEMMA CoreAdmit ==
  ASSUME TypeOK, Core, NEW h \in Handler, Admit(h)
  PROVE  Core'
  <1> PICK p \in procs, via \in Via :
        \/ \E def \in Def \cup {NoDef} : AdmitSession(h, p, via, def)
        \/ \E def \in Def, a \in assertions : AdmitChild(h, p, via, def, a)
    BY DEF Admit
  <1>1. ASSUME NEW def \in Def \cup {NoDef}, AdmitSession(h, p, via, def)
        PROVE  Core'
    <2> DEFINE q == [pc |-> "session", now |-> clock, peer |-> PeerOf(p, via),
                     def |-> def]
    <2>1. PhaseInv(q) /\ q.pc \notin Finishing
      BY DEF PhaseInv, Finishing
    <2>2. QED
      BY <1>1, <2>1, RequestStep DEF AdmitSession
  <1>2. ASSUME NEW def \in Def, NEW a \in assertions,
               AdmitChild(h, p, via, def, a)
        PROVE  Core'
    <2> DEFINE q == [pc |-> "child", now |-> clock, peer |-> PeerOf(p, via),
                     def |-> def, parent |-> a]
    <2>1. clock < a.exp /\ a.key = key
      BY <1>2 DEF AdmitChild, TypeOK, Assertion
    <2>2. PhaseInv(q) /\ q.pc \notin Finishing
      BY <2>1 DEF PhaseInv, Finishing
    <2>3. QED
      BY <1>2, <2>2, RequestStep DEF AdmitChild
  <1>3. QED
    BY <1>1, <1>2

\* The registry entry found is that of the parent assertion.
LEMMA CoreLookup ==
  ASSUME TypeOK, Core, NEW h \in Handler, LookupParent(h)
  PROVE  Core'
  <1>1. PICK e \in EntryFor(req[h]) :
          req' = [req EXCEPT ![h] =
            [pc |-> "found", now |-> req[h].now, peer |-> req[h].peer,
             def |-> req[h].def, parent |-> req[h].parent, entry |-> e]]
    BY DEF LookupParent
  <1> DEFINE q == [pc |-> "found", now |-> req[h].now, peer |-> req[h].peer,
                   def |-> req[h].def, parent |-> req[h].parent, entry |-> e]
  <1>2. /\ req[h].pc = "child"
        /\ req[h].parent \in assertions
        /\ req[h].parent.key = key
        /\ req[h].now < req[h].parent.exp
    BY DEF LookupParent, Core, PhaseInv
  <1>3. e \in registry /\ e.jti = req[h].parent.jti
                      /\ e.bound.uid = req[h].peer.uid
    BY <1>1 DEF EntryFor
  <1>4. Truthful(e.jti, e.bound, e.exp)
    BY <1>3 DEF Core, RegistryTruthful, Truthful
  <1>5. PhaseInv(q) /\ q.pc \notin Finishing
    BY <1>2, <1>3, <1>4 DEF PhaseInv, Finishing
  <1>6. QED
    BY <1>1, <1>5, RequestStep DEF LookupParent

\* A session's draft claims no parent.
LEMMA CoreGrantSession ==
  ASSUME TypeOK, Core, NEW h \in Handler, GrantSession(h)
  PROVE  Core'
  <1>1. PICK p \in BindRuntime(req[h].peer) :
          req' = [req EXCEPT ![h] =
            [pc |-> "create", now |-> req[h].now,
             draft |-> [sid |-> NoJti, parent |-> NoJti,
                   roles |-> IF req[h].def = NoDef THEN RuntimeRoles
                                                   ELSE defs[req[h].def],
                   exp |-> req[h].now + SessionTTL,
                   bound |-> p]]]
    BY DEF GrantSession
  <1> DEFINE q == [pc |-> "create", now |-> req[h].now,
             draft |-> [sid |-> NoJti, parent |-> NoJti,
                   roles |-> IF req[h].def = NoDef THEN RuntimeRoles
                                                   ELSE defs[req[h].def],
                   exp |-> req[h].now + SessionTTL,
                   bound |-> p]]
  <1>2. PhaseInv(q) /\ q.pc \notin Finishing
    BY DEF PhaseInv, DraftEntitled, Finishing
  <1>3. QED
    BY <1>1, <1>2, RequestStep DEF GrantSession

\* The runtime a child is bound to is the process its parent was bound to:
\* equal pid, start time, executable and uid leave no other.
LEMMA SameProcess ==
  ASSUME NEW p \in Process, NEW e \in IssuedTo, SameRuntime(p, e),
         p.uid = e.bound.uid
  PROVE  p = e.bound
  BY DEF SameRuntime, Process, IssuedTo

\* A child's draft is cut from its parent: roles, expiry, process, run.
LEMMA CoreGrantChild ==
  ASSUME TypeOK, Core, NEW h \in Handler, GrantChild(h)
  PROVE  Core'
  <1>1. PICK p \in ChildRuntimes(req[h]) :
          req' = [req EXCEPT ![h] =
            [pc |-> "create", now |-> req[h].now,
             draft |-> [sid |-> req[h].parent.sid,
                   parent |-> req[h].parent.jti,
                   roles |-> ChildRoles(req[h]),
                   exp |-> ChildExpiry(req[h]),
                   bound |-> p]]]
    BY DEF GrantChild
  <1> DEFINE a == req[h].parent
  <1> DEFINE d == [sid |-> a.sid, parent |-> a.jti,
                   roles |-> ChildRoles(req[h]), exp |-> ChildExpiry(req[h]),
                   bound |-> p]
  <1> DEFINE q == [pc |-> "create", now |-> req[h].now, draft |-> d]
  <1>2. /\ req[h] \in Request /\ req[h].pc = "found"
        /\ a \in assertions /\ a.key = key /\ req[h].now < a.exp
        /\ req[h].entry.jti = a.jti
        /\ Truthful(req[h].entry.jti, req[h].entry.bound, req[h].entry.exp)
        /\ req[h].entry.bound.uid = req[h].peer.uid
    BY DEF GrantChild, Core, PhaseInv, TypeOK
  <1>3. /\ req[h].now \in Nat /\ req[h].entry \in IssuedTo /\ a \in Assertion
        /\ a.sid \in Jti /\ a.jti \in Jti /\ a.exp \in Nat
    BY <1>2, RequestFields DEF Assertion
  <1>4. p = req[h].entry.bound
    <2>1. p \in Process /\ p.uid = req[h].peer.uid
          /\ SameRuntime(p, req[h].entry)
      BY <1>1, BoundIsLive DEF ChildRuntimes, TypeOK
    <2>2. QED
      BY <1>2, <1>3, <2>1, SameProcess
  <1>5. a.bound = p /\ a.run = run
    <2>1. PICK b \in assertions : b.jti = a.jti /\ b.bound = p /\ b.run = run
      BY <1>2, <1>4 DEF Truthful
    <2>2. b = a
      BY <1>2, <2>1 DEF Core, IdsUnique
    <2>3. QED
      BY <2>1, <2>2
  <1>6. d.roles \subseteq a.roles /\ d.roles \subseteq Delegable
    BY DEF ChildRoles
  <1>7. d.exp <= a.exp
    BY <1>3, TTLAssumption DEF ChildExpiry, Earlier
  <1>8. CutFrom(q.draft.sid, q.draft.parent, q.draft.roles, q.draft.exp, q.now,
                q.draft.bound, a)
    BY <1>2, <1>5, <1>6, <1>7 DEF CutFrom
  <1>9. DraftEntitled(q)
    BY <1>2, <1>3, <1>8, JtiAssumption DEF DraftEntitled
  <1>10. PhaseInv(q) /\ q.pc \notin Finishing
    BY <1>9 DEF PhaseInv, Finishing
  <1>11. QED
    BY <1>1, <1>10, RequestStep DEF GrantChild

\* Refusals and the error paths of finish free the handler.
LEMMA CoreRefuse ==
  ASSUME TypeOK, Core, NEW h \in Handler, Refuse(h) \/ Fault(h)
  PROVE  Core'
  BY RequestStep, IdleInv
     DEF Refuse, Fault, CreateFails, PublishFails, DiscardFails

\* The id drawn for a draft is new, and what the draft is entitled to stays.
LEMMA CoreCreateDir ==
  ASSUME TypeOK, Core, NEW h \in Handler, NEW j \in Jti, CreateDir(h, j)
  PROVE  Core'
  <1> PICK t, n : t = Sign(req[h].draft, j, req[h].now) /\ n = req[h].now
    OBVIOUS
  <1> DEFINE q == [pc |-> "publish", now |-> n, tok |-> t]
  <1>1. \A g \in Handler : req'[g] = IF g = h THEN q ELSE req[g]
    BY DEF CreateDir, TypeOK
  <1>2. /\ UNCHANGED <<assertions, registry, run, key>>
        /\ drawn' = drawn \cup {j} /\ j \notin drawn
    BY DEF CreateDir
  <1>3. t.jti = j /\ q.tok = t /\ q.pc = "publish"
    BY DEF Sign
  <1>4. IdsUnique'
    <2>1. \A g \in Handler : req[g].pc \in Finishing => req[g].tok.jti \in drawn
      BY DEF Core, PhaseInv
    <2>2. QED
      BY <1>1, <1>2, <1>3, <2>1 DEF Core, IdsUnique
  <1>5. PhaseInv(q)'
    <2>1. req[h].pc = "create" /\ DraftEntitled(req[h])
      BY DEF CreateDir, Core, PhaseInv
    <2>2. TokEntitled(t)
      BY <2>1 DEF DraftEntitled, TokEntitled, Sign
    <2>3. TokEntitled(t)'
      BY <1>2, <2>2 DEF TokEntitled, CutFrom
    <2>4. \A a \in assertions' : a.jti # j /\ a.sid # j
      BY <1>2 DEF Core, IdsUnique
    <2>5. QED
      BY <1>2, <1>3, <2>3, <2>4 DEF PhaseInv, Finishing
  <1>6. \A g \in Handler : PhaseInv(req[g])'
    <2> SUFFICES ASSUME NEW g \in Handler PROVE PhaseInv(req[g])'
      OBVIOUS
    <2>1. CASE g = h
      BY <1>1, <1>5, <2>1
    <2>2. CASE g # h
      BY <1>1, <1>2, <2>2 DEF Core, PhaseInv, DraftEntitled, TokEntitled,
                              CutFrom, Truthful
    <2>3. QED
      BY <2>1, <2>2
  <1>7. SessionCeiling' /\ ChildWithinParent' /\ SessionPinned'
    BY <1>2 DEF Core, SessionCeiling, ChildWithinParent, SessionPinned
  <1>8. RegistryTruthful'
    BY <1>2 DEF Core, RegistryTruthful
  <1>9. QED
    BY <1>4, <1>6, <1>7, <1>8 DEF Core

\* The step that adds an assertion: every part of the invariant is at stake.
LEMMA CorePublishToken ==
  ASSUME TypeOK, Core, NEW h \in Handler, PublishToken(h)
  PROVE  Core'
  <1> PICK t, n : t = req[h].tok /\ n = req[h].now
    OBVIOUS
  <1> DEFINE q == [pc |-> "tmp", now |-> n, tok |-> t]
  <1>1. \A g \in Handler : req'[g] = IF g = h THEN q ELSE req[g]
    BY DEF PublishToken, TypeOK
  <1>2. /\ UNCHANGED <<drawn, registry, run, key>>
        /\ assertions' = assertions \cup {t}
        /\ req[h].pc = "publish"
    BY DEF PublishToken
  <1>3. /\ t \in Assertion /\ t.jti \in drawn /\ TokEntitled(t)
        /\ \A a \in assertions : a.jti # t.jti /\ a.sid # t.jti
    BY <1>2, RequestFields DEF Core, PhaseInv, Finishing, TypeOK
  <1>4. \/ t.sid = t.jti /\ t.parent = t.jti
        \/ \E p \in assertions :
             CutFrom(t.sid, t.parent, t.roles, t.exp, t.iat, t.bound, p)
    BY <1>3 DEF TokEntitled
  <1>5. t.sid \in drawn
    BY <1>3, <1>4 DEF CutFrom, Core, IdsUnique
  <1>6. IdsUnique'
    <2>1. \A a \in assertions' : a.jti \in drawn' /\ a.sid \in drawn'
      BY <1>2, <1>3, <1>5 DEF Core, IdsUnique
    <2>2. \A a, b \in assertions' : a.jti = b.jti => a = b
      BY <1>2, <1>3 DEF Core, IdsUnique
    <2>3. \A g, k \in Handler :
            (g # k /\ req'[g].pc \in Finishing /\ req'[k].pc \in Finishing)
              => req'[g].tok.jti # req'[k].tok.jti
      <3>1. \A g \in Handler : req'[g].pc \in Finishing =>
              req[g].pc \in Finishing /\ req'[g].tok = req[g].tok
        BY <1>1, <1>2 DEF Finishing
      <3>2. QED
        BY <3>1 DEF Core, IdsUnique
    <2>4. QED
      BY <2>1, <2>2, <2>3 DEF IdsUnique
  <1>7. \A g \in Handler : PhaseInv(req[g])'
    <2> SUFFICES ASSUME NEW g \in Handler PROVE PhaseInv(req[g])'
      OBVIOUS
    <2>1. CASE g = h
      <3>1. TokEntitled(t)'
        BY <1>2, <1>3 DEF TokEntitled, CutFrom
      <3>2. PhaseInv(q)'
        BY <1>2, <1>3, <3>1 DEF PhaseInv, Finishing
      <3>3. QED
        BY <1>1, <2>1, <3>2
    <2>2. CASE g # h
      <3> PICK r : r = req[g]
        OBVIOUS
      <3>1. PhaseInv(r) /\ req'[g] = r
        BY <1>1, <2>2 DEF Core
      <3>2. r.pc = "publish" =>
              \A a \in assertions' : a.jti # r.tok.jti /\ a.sid # r.tok.jti
        <4> SUFFICES ASSUME r.pc = "publish" PROVE t.jti # r.tok.jti
                                                   /\ t.sid # r.tok.jti
          BY <1>2, <3>1 DEF PhaseInv
        <4>1. t.jti # r.tok.jti
          BY <1>2, <2>2 DEF Core, IdsUnique, Finishing
        <4>2. \A a \in assertions : a.sid # r.tok.jti
          BY <3>1 DEF PhaseInv
        <4>3. t.sid # r.tok.jti
          BY <1>4, <4>1, <4>2 DEF CutFrom
        <4>4. QED
          BY <4>1, <4>3
      <3>3. PhaseInv(r)'
        <4>1. r.pc \in {"child", "found"} =>
                r.parent \in assertions' /\ r.parent.key = key'
                /\ r.now < r.parent.exp
          BY <1>2, <3>1 DEF PhaseInv
        <4>2. r.pc = "found" =>
                /\ r.entry.jti = r.parent.jti
                /\ Truthful(r.entry.jti, r.entry.bound, r.entry.exp)'
                /\ r.entry.bound.uid = r.peer.uid
          BY <1>2, <3>1 DEF PhaseInv, Truthful
        <4>3. r.pc = "create" => DraftEntitled(r)'
          BY <1>2, <3>1 DEF PhaseInv, DraftEntitled, CutFrom
        <4>4. r.pc \in Finishing =>
                r.tok.jti \in drawn' /\ TokEntitled(r.tok)'
          BY <1>2, <3>1 DEF PhaseInv, TokEntitled, CutFrom
        <4>5. r.pc \in {"tmp", "record"} => r.tok \in assertions'
          BY <1>2, <3>1 DEF PhaseInv
        <4>6. QED
          BY <3>2, <4>1, <4>2, <4>3, <4>4, <4>5 DEF PhaseInv
      <3>4. QED
        BY <3>1, <3>3
    <2>3. QED
      BY <2>1, <2>2
  <1>8. SessionCeiling'
    <2>1. \A a \in assertions : \E root \in assertions' :
            /\ root.jti = a.sid /\ root.sid = root.jti
            /\ a.roles \subseteq root.roles /\ a.exp <= root.exp
      BY <1>2 DEF Core, SessionCeiling
    <2>2. \E root \in assertions' :
            /\ root.jti = t.sid /\ root.sid = root.jti
            /\ t.roles \subseteq root.roles /\ t.exp <= root.exp
      <3>1. CASE t.sid = t.jti
        BY <1>2, <1>3, <3>1 DEF Assertion
      <3>2. ASSUME NEW p \in assertions,
                   CutFrom(t.sid, t.parent, t.roles, t.exp, t.iat, t.bound, p)
            PROVE  \E root \in assertions' :
                     /\ root.jti = t.sid /\ root.sid = root.jti
                     /\ t.roles \subseteq root.roles /\ t.exp <= root.exp
        <4>1. PICK root \in assertions' :
                /\ root.jti = p.sid /\ root.sid = root.jti
                /\ p.roles \subseteq root.roles /\ p.exp <= root.exp
          BY <2>1
        <4>2. t.roles \subseteq p.roles /\ t.exp <= p.exp /\ p.sid = t.sid
          BY <3>2 DEF CutFrom
        <4>3. p \in Assertion /\ root \in Assertion
          BY <1>2, <1>3 DEF TypeOK
        <4>4. t.exp <= root.exp
          BY <1>3, <4>1, <4>2, <4>3 DEF Assertion
        <4>5. QED
          BY <4>1, <4>2, <4>4
      <3>3. QED
        BY <1>4, <3>1, <3>2
    <2>3. QED
      BY <1>2, <2>1, <2>2 DEF SessionCeiling
  <1>9. ChildWithinParent'
    <2>1. t.parent # t.jti => \E p \in assertions :
            CutFrom(t.sid, t.parent, t.roles, t.exp, t.iat, t.bound, p)
      BY <1>4
    <2>2. QED
      BY <1>2, <2>1 DEF Core, ChildWithinParent, CutFrom, Delegable
  <1>10. SessionPinned'
    <2>1. \A a \in assertions : a.sid = t.sid =>
            a.bound = t.bound /\ a.run = t.run /\ a.key = t.key
      <3>1. CASE t.sid = t.jti
        BY <1>3, <3>1
      <3>2. CASE \E p \in assertions :
              CutFrom(t.sid, t.parent, t.roles, t.exp, t.iat, t.bound, p)
        BY <1>3, <3>2 DEF CutFrom, Core, SessionPinned, TokEntitled
      <3>3. QED
        BY <1>4, <3>1, <3>2
    <2>2. QED
      BY <1>2, <2>1 DEF Core, SessionPinned
  <1>11. RegistryTruthful'
    BY <1>2 DEF Core, RegistryTruthful
  <1>12. QED
    BY <1>6, <1>7, <1>8, <1>9, <1>10, <1>11 DEF Core

\* Completing the directory changes no assertion.
LEMMA CorePublishTmp ==
  ASSUME TypeOK, Core, NEW h \in Handler, PublishTmp(h)
  PROVE  Core'
  <1> PICK t, n : t = req[h].tok /\ n = req[h].now
    OBVIOUS
  <1> DEFINE q == [pc |-> "record", now |-> n, tok |-> t]
  <1>1. \A g \in Handler : req'[g] = IF g = h THEN q ELSE req[g]
    BY DEF PublishTmp, TypeOK
  <1>2. /\ UNCHANGED <<assertions, drawn, registry, run, key>>
        /\ req[h].pc = "tmp"
    BY DEF PublishTmp
  <1>3. t.jti \in drawn /\ TokEntitled(t) /\ t \in assertions
    BY <1>2 DEF Core, PhaseInv, Finishing
  <1>4. IdsUnique'
    <2>1. \A g \in Handler : req'[g].pc \in Finishing =>
            req[g].pc \in Finishing /\ req'[g].tok = req[g].tok
      BY <1>1, <1>2 DEF Finishing
    <2>2. QED
      BY <1>2, <2>1 DEF Core, IdsUnique
  <1>5. PhaseInv(q)'
    <2>1. TokEntitled(t)'
      BY <1>2, <1>3 DEF TokEntitled, CutFrom
    <2>2. QED
      BY <1>2, <1>3, <2>1 DEF PhaseInv, Finishing
  <1>6. \A g \in Handler : PhaseInv(req[g])'
    <2> SUFFICES ASSUME NEW g \in Handler PROVE PhaseInv(req[g])'
      OBVIOUS
    <2>1. CASE g = h
      BY <1>1, <1>5, <2>1
    <2>2. CASE g # h
      BY <1>1, <1>2, <2>2 DEF Core, PhaseInv, DraftEntitled, TokEntitled,
                              CutFrom, Truthful
    <2>3. QED
      BY <2>1, <2>2
  <1>7. SessionCeiling' /\ ChildWithinParent' /\ SessionPinned'
    BY <1>2 DEF Core, SessionCeiling, ChildWithinParent, SessionPinned
  <1>8. RegistryTruthful'
    BY <1>2 DEF Core, RegistryTruthful
  <1>9. QED
    BY <1>4, <1>6, <1>7, <1>8 DEF Core

\* The entry recorded is that of the assertion just published.
LEMMA CoreRecord ==
  ASSUME TypeOK, Core, NEW h \in Handler, Record(h)
  PROVE  Core'
  <1>1. \A g \in Handler : req'[g] = IF g = h THEN Idle ELSE req[g]
    BY DEF Record, TypeOK
  <1>2. UNCHANGED <<assertions, drawn, run, key>>
    BY DEF Record
  <1>3. IdsUnique'
    BY <1>1, <1>2, IdleInv DEF Core, IdsUnique
  <1>4. \A g \in Handler : PhaseInv(req[g])'
    <2> SUFFICES ASSUME NEW g \in Handler PROVE PhaseInv(req[g])'
      OBVIOUS
    <2>1. CASE g = h
      BY <1>1, <2>1 DEF PhaseInv, Idle, Finishing
    <2>2. CASE g # h
      BY <1>1, <1>2, <2>2 DEF Core, PhaseInv, DraftEntitled, TokEntitled,
                              CutFrom, Truthful
    <2>3. QED
      BY <2>1, <2>2
  <1>5. SessionCeiling' /\ ChildWithinParent' /\ SessionPinned'
    BY <1>2 DEF Core, SessionCeiling, ChildWithinParent, SessionPinned
  <1>6. RegistryTruthful'
    <2>1. req[h].tok \in assertions /\ req[h].tok.run = run
          /\ req[h].tok.key = key
      BY DEF Record, Core, PhaseInv, TokEntitled, Finishing
    <2>2. \A e \in registry' : \/ e \in registry
                               \/ e = [jti |-> req[h].tok.jti,
                                       bound |-> req[h].tok.bound,
                                       exp |-> req[h].tok.exp]
      BY DEF Record, Put
    <2>3. QED
      BY <1>2, <2>1, <2>2 DEF Core, RegistryTruthful
  <1>7. QED
    BY <1>3, <1>4, <1>5, <1>6 DEF Core

\* A restart forgets the requests and the registry, so nothing of the old
\* run or key is vouched for.
LEMMA CoreRestart ==
  ASSUME TypeOK, Core, NEW k \in Key, Restart(k)
  PROVE  Core'
  <1>1. \A g \in Handler : req'[g] = Idle
    BY DEF Restart
  <1>2. UNCHANGED <<assertions, drawn>> /\ registry' = {}
    BY DEF Restart
  <1>3. IdsUnique'
    BY <1>1, <1>2, IdleInv DEF Core, IdsUnique
  <1>4. \A g \in Handler : PhaseInv(req[g])'
    BY <1>1 DEF PhaseInv, Idle, Finishing
  <1>5. SessionCeiling' /\ ChildWithinParent' /\ SessionPinned'
    BY <1>2 DEF Core, SessionCeiling, ChildWithinParent, SessionPinned
  <1>6. RegistryTruthful'
    BY <1>2 DEF RegistryTruthful
  <1>7. QED
    BY <1>3, <1>4, <1>5, <1>6 DEF Core

\* Every lifetime is fixed when a request is granted, and carried to its token.
LEMMA TimelyStep == TypeOK /\ Timely /\ [Next]_vars => Timely'
  <1> SUFFICES ASSUME TypeOK, Timely, [Next]_vars PROVE Timely'
    OBVIOUS
  <1>1. ASSUME UNCHANGED req PROVE Timely'
    BY <1>1 DEF Timely
  \* A request that is freed, or moves to a phase without a draft or token.
  <1>2. ASSUME NEW h \in Handler, NEW q, req' = [req EXCEPT ![h] = q],
               q.pc # "create", q.pc \notin Finishing
        PROVE  Timely'
    BY <1>2 DEF Timely, TypeOK
  \* A token that stays as it is.
  <1>3. ASSUME NEW h \in Handler, req[h].pc \in Finishing, NEW pc \in Finishing,
               NEW n,
               req' = [req EXCEPT ![h] = [pc |-> pc, now |-> n, tok |-> req[h].tok]]
        PROVE  Timely'
    BY <1>3 DEF Timely, TypeOK, Finishing
  <1>4. CASE UNCHANGED vars
    BY <1>1, <1>4 DEF vars
  <1>5. CASE Host
    BY <1>1, <1>5 DEF Host, Tick, Spawn, Exit, Exec, EditDefinitions
  <1>6. ASSUME NEW h \in Handler, Admit(h) PROVE Timely'
    <2>1. PICK q : req' = [req EXCEPT ![h] = q] /\ q.pc \in {"session", "child"}
      <3>1. ASSUME NEW p, NEW via, NEW def, AdmitSession(h, p, via, def)
            PROVE  \E q : req' = [req EXCEPT ![h] = q]
                          /\ q.pc \in {"session", "child"}
        <4>1. [pc |-> "session", now |-> clock, peer |-> PeerOf(p, via),
               def |-> def].pc = "session"
          OBVIOUS
        <4>2. QED
          BY <3>1, <4>1 DEF AdmitSession
      <3>2. ASSUME NEW p, NEW via, NEW def, NEW a, AdmitChild(h, p, via, def, a)
            PROVE  \E q : req' = [req EXCEPT ![h] = q]
                          /\ q.pc \in {"session", "child"}
        <4>1. [pc |-> "child", now |-> clock, peer |-> PeerOf(p, via),
               def |-> def, parent |-> a].pc = "child"
          OBVIOUS
        <4>2. QED
          BY <3>2, <4>1 DEF AdmitChild
      <3>3. QED
        BY <1>6, <3>1, <3>2 DEF Admit
    <2>2. QED
      BY <1>2, <2>1 DEF Finishing
  <1>7. ASSUME NEW h \in Handler, Fault(h) \/ Refuse(h) \/ Record(h) PROVE Timely'
    BY <1>2, <1>7 DEF Fault, CreateFails, PublishFails, DiscardFails, Refuse,
                      Record, Idle, Finishing
  <1>8. ASSUME NEW h \in Handler, LookupParent(h) PROVE Timely'
    BY <1>2, <1>8 DEF LookupParent, Finishing
  <1>9. ASSUME NEW h \in Handler, GrantSession(h) PROVE Timely'
    <2>1. req[h].now \in Nat
      BY <1>9, RequestFields DEF GrantSession, TypeOK
    <2> DEFINE d(p) == [sid |-> NoJti, parent |-> NoJti,
                        roles |-> IF req[h].def = NoDef THEN RuntimeRoles
                                                        ELSE defs[req[h].def],
                        exp |-> req[h].now + SessionTTL, bound |-> p]
    <2>2. PICK p : req' = [req EXCEPT ![h] =
                     [pc |-> "create", now |-> req[h].now, draft |-> d(p)]]
      BY <1>9 DEF GrantSession
    <2>3. req[h].now < d(p).exp /\ d(p).exp <= req[h].now + MaxLifetime
      BY <2>1, TTLAssumption
    <2> HIDE DEF d
    <2>4. QED
      BY <2>2, <2>3 DEF Timely, TypeOK, Finishing
  <1>10. ASSUME NEW h \in Handler, GrantChild(h) PROVE Timely'
    <2>1. req[h].now \in Nat /\ req[h].parent \in Assertion
      BY <1>10, RequestFields DEF GrantChild, TypeOK
    <2> DEFINE d(p) == [sid |-> req[h].parent.sid, parent |-> req[h].parent.jti,
                        roles |-> ChildRoles(req[h]),
                        exp |-> ChildExpiry(req[h]), bound |-> p]
    <2>2. PICK p : req' = [req EXCEPT ![h] =
                     [pc |-> "create", now |-> req[h].now, draft |-> d(p)]]
      BY <1>10 DEF GrantChild
    <2>3. req[h].now < d(p).exp
      BY <1>10 DEF GrantChild, ChildGrantable
    <2>4. d(p).exp <= req[h].now + MaxLifetime
      BY <2>1, TTLAssumption DEF ChildExpiry, Earlier, Assertion
    <2> HIDE DEF d
    <2>5. QED
      BY <2>2, <2>3, <2>4 DEF Timely, TypeOK, Finishing
  <1>11. ASSUME NEW h \in Handler, NEW j \in Jti, CreateDir(h, j) PROVE Timely'
    <2> DEFINE t == Sign(req[h].draft, j, req[h].now)
    <2>1. /\ req' = [req EXCEPT ![h] =
                 [pc |-> "publish", now |-> req[h].now, tok |-> t]]
          /\ t.iat = req[h].now /\ t.exp = req[h].draft.exp
      BY <1>11 DEF CreateDir, Sign
    <2>2. t.iat < t.exp /\ t.exp <= t.iat + MaxLifetime
      BY <1>11, <2>1 DEF CreateDir, Timely
    <2> HIDE DEF t
    <2>3. QED
      BY <2>1, <2>2 DEF Timely, TypeOK, Finishing
  <1>12. ASSUME NEW h \in Handler, PublishToken(h) \/ PublishTmp(h) PROVE Timely'
    BY <1>3, <1>12 DEF PublishToken, PublishTmp, Finishing
  <1>13. CASE Reap
    BY <1>1, <1>13 DEF Reap, ReapStart, ReapDir
  <1>14. ASSUME NEW k \in Key, Restart(k) PROVE Timely'
    BY <1>14 DEF Restart, Timely, Idle, Finishing
  <1>15. QED
    BY <1>4, <1>5, <1>6, <1>7, <1>8, <1>9, <1>10, <1>11, <1>12, <1>13, <1>14
       DEF Next, Serve

\* The inductive invariant of issuing: what each phase of a request has
\* established, ids that name one thing, and the claims of every assertion.
THEOREM InductiveInvariant == Spec => []IInv
  <1>1. Init => Core
    BY CoreInit
  <1>2. TypeOK /\ Core /\ [Next]_vars => Core'
    <2> SUFFICES ASSUME TypeOK, Core, [Next]_vars PROVE Core'
      OBVIOUS
    <2>1. CASE UNCHANGED vars
      BY <2>1, QuietStep DEF vars
    <2>2. ASSUME NEW h \in Handler, Serve(h) PROVE Core'
      BY <2>2, CoreGrantSession, CoreLookup, CoreGrantChild, CoreRefuse,
         CoreCreateDir, CorePublishToken, CorePublishTmp, CoreRecord DEF Serve
    <2>3. ASSUME NEW h \in Handler, Admit(h) \/ Fault(h) PROVE Core'
      BY <2>3, CoreAdmit, CoreRefuse
    <2>4. QED
      BY <2>1, <2>2, <2>3, CoreHost, CoreReap, CoreRestart DEF Next
  <1>3. Init => Timely
    <2>1. Init => req = [h \in Handler |-> Idle]
      BY DEF Init
    <2>2. Idle.pc = "idle"
      BY DEF Idle
    <2>3. QED
      BY <2>1, <2>2 DEF Timely, Finishing
  <1>4. QED
    BY <1>1, <1>2, <1>3, TimelyStep, TypeCorrect, PTL DEF Spec, IInv

\* Delegation never widens a session, whatever the chain of issue-child and
\* whatever happens to definition files in between.
THEOREM CeilingHolds == Spec => []SessionCeiling
  BY InductiveInvariant, PTL DEF IInv, Core

\* A child lies within its parent: roles, delegable policy, expiry.
THEOREM WithinParentHolds == Spec => []ChildWithinParent
  BY InductiveInvariant, PTL DEF IInv, Core

\* A session never leaves the process, issuer run and key it began with.
THEOREM PinnedHolds == Spec => []SessionPinned
  BY InductiveInvariant, PTL DEF IInv, Core

\* The registry never vouches for a process an assertion was not issued to.
THEOREM RegistryHolds == Spec => []RegistryTruthful
  BY InductiveInvariant, PTL DEF IInv, Core

-----------------------------------------------------------------------------
(* The issuer implements the abstract authority                            *)

\* The one step that adds an assertion is an Issue of the authority.
LEMMA PublishIssues ==
  ASSUME IInv, NEW h \in Handler, PublishToken(h)
  PROVE  Promised!Issue
  <1> PICK t : t = req[h].tok
    OBVIOUS
  <1>1. /\ req[h].pc = "publish" /\ assertions' = assertions \cup {t}
        /\ UNCHANGED <<run, key>>
    BY DEF PublishToken
  <1>2. PhaseInv(req[h])
    BY DEF IInv, Core
  <1>3. TokEntitled(t) /\ \A a \in assertions : a.jti # t.jti /\ a.sid # t.jti
    BY <1>1, <1>2 DEF PhaseInv, Finishing
  <1>4. Promised!Fresh(t) /\ Promised!OfThisEra(t)
    BY <1>3 DEF TokEntitled, Promised!Fresh, Promised!OfThisEra
  <1>5. Promised!Lives(t)
    BY <1>1 DEF IInv, Timely, Finishing, Promised!Lives
  <1>6. Promised!Begin(t) \/ \E p \in assertions : Promised!Cut(t, p)
    BY <1>3 DEF TokEntitled, CutFrom, Promised!Begin, Promised!Cut,
                Promised!OfThisEra
  <1>7. QED
    BY <1>1, <1>4, <1>5, <1>6 DEF Promised!Issue

\* Every step of the issuer is a step of the authority or changes nothing it
\* promises: only PublishToken adds an assertion, only a restart begins an era.
LEMMA StepIsPromised == IInv /\ [Next]_vars => [Promised!Next]_Promised!vars
  <1> SUFFICES ASSUME IInv, [Next]_vars
               PROVE  Promised!Next \/ UNCHANGED <<assertions, run, key>>
    BY DEF Promised!vars
  <1>1. CASE UNCHANGED vars
    BY <1>1 DEF vars
  <1>2. CASE Host
    BY <1>2 DEF Host, Tick, Spawn, Exit, Exec, EditDefinitions
  <1>3. ASSUME NEW h \in Handler, Admit(h) \/ Fault(h)
        PROVE  UNCHANGED <<assertions, run, key>>
    BY <1>3 DEF Admit, AdmitSession, AdmitChild, Fault, CreateFails,
                PublishFails, DiscardFails
  <1>4. ASSUME NEW h \in Handler, Serve(h)
        PROVE  Promised!Issue \/ UNCHANGED <<assertions, run, key>>
    BY <1>4, PublishIssues
       DEF Serve, GrantSession, LookupParent, GrantChild, Refuse, CreateDir,
           PublishTmp, Record
  <1>5. CASE Reap
    BY <1>5 DEF Reap, ReapStart, ReapDir
  <1>6. ASSUME NEW k \in Key, Restart(k) PROVE Promised!NewEra
    BY <1>6 DEF Restart, Promised!NewEra
  <1>7. QED
    BY <1>1, <1>2, <1>3, <1>4, <1>5, <1>6 DEF Next, Promised!Next

\* Whoever trusts assertions may forget handlers, registry, processes, disk and
\* crashes: the issuer only ever begins sessions and cuts from what it issued in
\* this run (IssueSession, IssueChild, finish).
THEOREM PromiseKept == Spec => KeepsThePromise
  <1>1. Init => Promised!Init
    BY DEF Init, Promised!Init
  <1>2. QED
    BY <1>1, StepIsPromised, InductiveInvariant, PTL
       DEF Spec, KeepsThePromise, Promised!Spec

-----------------------------------------------------------------------------
(* The uid of what is bound                                                *)

\* A request, once admitted, stays with the serving uid.
ServedBy(q) ==
  /\ q.pc \in {"session", "child", "found"} => q.peer.uid = ServingUid
  /\ q.pc = "create" => q.draft.bound.uid = ServingUid
  /\ q.pc \in Finishing => q.tok.bound.uid = ServingUid

Served == OnlyServingUid /\ \A h \in Handler : ServedBy(req[h])

\* Only a permitted peer's request is kept, and it binds a process of its uid.
LEMMA ServedStep == TypeOK /\ Served /\ [Next]_vars => Served'
  <1> SUFFICES ASSUME TypeOK, Served, [Next]_vars PROVE Served'
    OBVIOUS
  \* One handler's request is replaced by one of the serving uid.
  <1>1. ASSUME NEW h \in Handler, NEW q, ServedBy(q),
               req' = [req EXCEPT ![h] = q], UNCHANGED assertions
        PROVE  Served'
    BY <1>1 DEF Served, ServedBy, OnlyServingUid, TypeOK
  <1>2. ASSUME UNCHANGED <<req, assertions>> PROVE Served'
    BY <1>2 DEF Served, ServedBy, OnlyServingUid
  <1>3. ServedBy(Idle)
    BY DEF ServedBy, Idle, Finishing
  <1>4. CASE UNCHANGED vars \/ Host \/ Reap
    BY <1>2, <1>4 DEF vars, Host, Tick, Spawn, Exit, Exec, EditDefinitions, Reap,
                      ReapStart, ReapDir
  <1>5. ASSUME NEW h \in Handler, Admit(h) PROVE Served'
    <2>1. PICK p \in procs, via \in Via :
            \/ \E def \in Def \cup {NoDef} : AdmitSession(h, p, via, def)
            \/ \E def \in Def, a \in assertions : AdmitChild(h, p, via, def, a)
      BY <1>5 DEF Admit
    <2>2. ASSUME NEW def, AdmitSession(h, p, via, def) PROVE Served'
      <3> DEFINE q == [pc |-> "session", now |-> clock, peer |-> PeerOf(p, via),
                       def |-> def]
      <3>1. ServedBy(q)
        BY <2>2 DEF AdmitSession, Permitted, ServedBy, Finishing
      <3>2. QED
        BY <1>1, <2>2, <3>1 DEF AdmitSession
    <2>3. ASSUME NEW def, NEW a, AdmitChild(h, p, via, def, a) PROVE Served'
      <3> DEFINE q == [pc |-> "child", now |-> clock, peer |-> PeerOf(p, via),
                       def |-> def, parent |-> a]
      <3>1. ServedBy(q)
        BY <2>3 DEF AdmitChild, Permitted, ServedBy, Finishing
      <3>2. QED
        BY <1>1, <2>3, <3>1 DEF AdmitChild
    <2>4. QED
      BY <2>1, <2>2, <2>3
  <1>6. ASSUME NEW h \in Handler, GrantSession(h) PROVE Served'
    <2>1. PICK p \in BindRuntime(req[h].peer) :
            req' = [req EXCEPT ![h] =
              [pc |-> "create", now |-> req[h].now,
               draft |-> [sid |-> NoJti, parent |-> NoJti,
                     roles |-> IF req[h].def = NoDef THEN RuntimeRoles
                                                     ELSE defs[req[h].def],
                     exp |-> req[h].now + SessionTTL,
                     bound |-> p]]]
      BY <1>6 DEF GrantSession
    <2>2. p.uid = ServingUid
      BY <1>6, <2>1, BoundIsLive DEF GrantSession, Served, ServedBy
    <2> DEFINE q == [pc |-> "create", now |-> req[h].now,
                     draft |-> [sid |-> NoJti, parent |-> NoJti,
                           roles |-> IF req[h].def = NoDef THEN RuntimeRoles
                                                     ELSE defs[req[h].def],
                           exp |-> req[h].now + SessionTTL,
                           bound |-> p]]
    <2>3. ServedBy(q)
      BY <2>2 DEF ServedBy, Finishing
    <2>4. QED
      BY <1>1, <1>6, <2>1, <2>3 DEF GrantSession
  <1>7. ASSUME NEW h \in Handler, LookupParent(h) PROVE Served'
    <2>1. PICK e : req' = [req EXCEPT ![h] =
            [pc |-> "found", now |-> req[h].now, peer |-> req[h].peer,
             def |-> req[h].def, parent |-> req[h].parent, entry |-> e]]
      BY <1>7 DEF LookupParent
    <2>2. req[h].peer.uid = ServingUid
      BY <1>7 DEF LookupParent, Served, ServedBy
    <2>3. QED
      BY <1>1, <1>7, <2>1, <2>2 DEF LookupParent, ServedBy, Finishing
  <1>8. ASSUME NEW h \in Handler, GrantChild(h) PROVE Served'
    <2>1. PICK p \in ChildRuntimes(req[h]) :
            req' = [req EXCEPT ![h] =
              [pc |-> "create", now |-> req[h].now,
               draft |-> [sid |-> req[h].parent.sid,
                     parent |-> req[h].parent.jti,
                     roles |-> ChildRoles(req[h]),
                     exp |-> ChildExpiry(req[h]),
                     bound |-> p]]]
      BY <1>8 DEF GrantChild
    <2>2. p.uid = ServingUid
      BY <1>8, <2>1, BoundIsLive DEF GrantChild, ChildRuntimes, Served, ServedBy
    <2> DEFINE q == [pc |-> "create", now |-> req[h].now,
                     draft |-> [sid |-> req[h].parent.sid,
                           parent |-> req[h].parent.jti,
                           roles |-> ChildRoles(req[h]),
                           exp |-> ChildExpiry(req[h]),
                           bound |-> p]]
    <2>3. ServedBy(q)
      BY <2>2 DEF ServedBy, Finishing
    <2>4. QED
      BY <1>1, <1>8, <2>1, <2>3 DEF GrantChild
  <1>9. ASSUME NEW h \in Handler, Refuse(h) \/ Record(h) \/ Fault(h) PROVE Served'
    BY <1>1, <1>3, <1>9 DEF Refuse, Record, Fault, CreateFails, PublishFails,
                            DiscardFails
  <1>10. ASSUME NEW h \in Handler, NEW j \in Jti, CreateDir(h, j) PROVE Served'
    <2> DEFINE t == Sign(req[h].draft, j, req[h].now)
               q == [pc |-> "publish", now |-> req[h].now, tok |-> t]
    <2>1. t.bound.uid = ServingUid
      BY <1>10 DEF CreateDir, Sign, Served, ServedBy
    <2>2. req' = [req EXCEPT ![h] = q] /\ UNCHANGED assertions
      BY <1>10 DEF CreateDir
    <2> HIDE DEF t
    <2>3. ServedBy(q)
      BY <2>1 DEF ServedBy, Finishing
    <2>4. QED
      BY <1>1, <2>2, <2>3
  <1>11. ASSUME NEW h \in Handler, PublishToken(h) \/ PublishTmp(h) PROVE Served'
    <2>1. req[h].tok.bound.uid = ServingUid
      BY <1>11 DEF PublishToken, PublishTmp, Served, ServedBy, Finishing
    <2>2. PICK pc \in Finishing : req' = [req EXCEPT ![h] =
            [pc |-> pc, now |-> req[h].now, tok |-> req[h].tok]]
      BY <1>11 DEF PublishToken, PublishTmp, Finishing
    <2>3. assertions' \subseteq assertions \cup {req[h].tok}
      BY <1>11 DEF PublishToken, PublishTmp
    <2>4. QED
      BY <2>1, <2>2, <2>3 DEF Served, ServedBy, OnlyServingUid, TypeOK, Finishing
  <1>12. ASSUME NEW k \in Key, Restart(k) PROVE Served'
    BY <1>3, <1>12 DEF Restart, Served, OnlyServingUid
  <1>13. QED
    BY <1>4, <1>5, <1>6, <1>7, <1>8, <1>9, <1>10, <1>11, <1>12 DEF Next, Serve

\* Whatever takes over the pid of a peer between its accept and the read of
\* /proc, no process of another uid is ever bound (bindRuntime).
THEOREM ServingUidHolds == Spec => []OnlyServingUid
  <1>1. Init => Served
    BY DEF Init, Served, ServedBy, OnlyServingUid, Idle, Finishing
  <1>2. Served => OnlyServingUid
    BY DEF Served
  <1>3. QED
    BY <1>1, <1>2, ServedStep, TypeCorrect, PTL DEF Spec

-----------------------------------------------------------------------------
(* The delivery directories                                                *)

InUse(n) == \E h \in Handler : req[h].pc \in Finishing /\ req[h].tok.jti = n

\* A directory outlives what it delivers.
Outlives(d, t) == t.jti = d.name => t.exp <= d.created + MaxLifetime

\* What a directory's name and age say.
DirsInv ==
  /\ \A d \in dirs : d.name \in drawn /\ (InUse(d.name) \/ d.name \in answered \cup leaked)
  /\ \A d, e \in dirs : d.name = e.name => d = e
  /\ \A d \in dirs, a \in assertions : Outlives(d, a)
  /\ \A d \in dirs, h \in Handler : req[h].pc \in Finishing => Outlives(d, req[h].tok)
  /\ reaper \subseteq drawn
  /\ \A d \in dirs : d.name \in reaper => clock > d.created + MaxAge

\* What an unexpired delivery has in its directory by then.
Has(t, jwt, tmp) ==
  clock < t.exp =>
    \E d \in dirs : d.name = t.jti /\ (jwt => d.jwt) /\ (tmp => d.tmp)

Underway(q) ==
  /\ q.pc \in Finishing => q.tok.jti \notin answered
  /\ q.pc = "tmp" => Has(q.tok, TRUE, FALSE)
  /\ q.pc = "record" => Has(q.tok, TRUE, TRUE)

DeliveredInv ==
  /\ answered \subseteq drawn
  /\ \A h \in Handler : Underway(req[h])
  /\ \A a \in assertions : a.jti \in answered => Has(a, TRUE, TRUE)

Delivery == DirsInv /\ DeliveredInv

\* A step that touches neither directories nor what is being delivered.
LEMMA QuietDelivery ==
  ASSUME TypeOK, Delivery, clock' \in Nat, clock' >= clock, leaked \subseteq leaked',
         UNCHANGED <<dirs, assertions, answered, drawn>>, reaper' \subseteq reaper,
         \A h \in Handler : req'[h].pc \in Finishing => req'[h] = req[h],
         \A h \in Handler : req[h].pc \in Finishing =>
           req'[h] = req[h] \/ req[h].tok.jti \in leaked'
  PROVE  Delivery'
  <1> USE DEF Delivery
  <1>1. \A d \in dirs : d.created \in Nat /\ d.created + MaxAge \in Nat
    BY TTLAssumption DEF TypeOK, Directory, MaxAge
  <1>2. DirsInv'
    BY <1>1 DEF DirsInv, InUse, Outlives, TypeOK
  <1>3. \A t : t.exp \in Nat /\ Has(t, TRUE, FALSE) => Has(t, TRUE, FALSE)'
    BY DEF Has, TypeOK
  <1>4. \A t : t.exp \in Nat /\ Has(t, TRUE, TRUE) => Has(t, TRUE, TRUE)'
    BY DEF Has, TypeOK
  <1>5. \A h \in Handler : req[h].pc \in Finishing => req[h].tok.exp \in Nat
    BY RequestFields DEF TypeOK, Assertion
  <1>6. \A a \in assertions : a.exp \in Nat
    BY DEF TypeOK, Assertion
  <1>7. DeliveredInv'
    BY <1>3, <1>4, <1>5, <1>6 DEF DeliveredInv, Underway, Finishing
  <1>8. QED
    BY <1>2, <1>7

\* A new directory: its name is of no assertion yet, and it carries the clock
\* sample the lifetime is counted from.
LEMMA DeliveryCreateDir ==
  ASSUME IInv, Delivery, NEW h \in Handler, NEW j \in Jti, CreateDir(h, j)
  PROVE  Delivery'
  <1> PICK t, n : t = Sign(req[h].draft, j, req[h].now) /\ n = req[h].now
    OBVIOUS
  <1> DEFINE q == [pc |-> "publish", now |-> n, tok |-> t]
             d == [name |-> j, created |-> n, jwt |-> FALSE, tmp |-> FALSE]
  <1>1. /\ \A g \in Handler : req'[g] = IF g = h THEN q ELSE req[g]
        /\ dirs' = dirs \cup {d} /\ drawn' = drawn \cup {j} /\ j \notin drawn
        /\ UNCHANGED <<clock, assertions, answered, leaked, reaper>>
        /\ req[h].pc = "create"
    BY DEF CreateDir, TypeOK, IInv, world
  <1>2. t.jti = j /\ q.tok = t /\ q.pc = "publish" /\ d.name = j
    BY DEF Sign
  <1>3. Outlives(d, t)
    BY <1>1 DEF Outlives, Sign, IInv, Timely
  <1>4. \A a \in assertions : a.jti # j
    BY <1>1 DEF IInv, Core, IdsUnique
  <1>5. \A g \in Handler : req[g].pc \in Finishing => req[g].tok.jti # j
    BY <1>1 DEF IInv, Core, PhaseInv
  <1> HIDE DEF d
  <1>6. DirsInv'
    <2>1. \A e \in dirs' : /\ e.name \in drawn'
                           /\ InUse(e.name)' \/ e.name \in answered' \cup leaked'
      <3>1. InUse(j)'
        BY <1>1, <1>2 DEF InUse, Finishing
      <3>2. \A m : InUse(m) => InUse(m)'
        BY <1>1 DEF InUse, Finishing
      <3>3. QED
        BY <1>1, <1>2, <3>1, <3>2 DEF Delivery, DirsInv
    <2>2. \A e, f \in dirs' : e.name = f.name => e = f
      BY <1>1, <1>2 DEF Delivery, DirsInv
    <2>3. \A e \in dirs', a \in assertions' : Outlives(e, a)
      BY <1>1, <1>2, <1>4 DEF Delivery, DirsInv, Outlives
    <2>4. \A e \in dirs', g \in Handler :
            req'[g].pc \in Finishing => Outlives(e, req'[g].tok)
      BY <1>1, <1>2, <1>3, <1>5 DEF Delivery, DirsInv, Outlives
    <2>5. /\ reaper' \subseteq drawn'
          /\ \A e \in dirs' : e.name \in reaper' => clock' > e.created + MaxAge
      BY <1>1, <1>2 DEF Delivery, DirsInv
    <2>6. QED
      BY <2>1, <2>2, <2>3, <2>4, <2>5 DEF DirsInv, Outlives
  <1>7. DeliveredInv'
    <2>1. \A a, jwt, tmp : Has(a, jwt, tmp) => Has(a, jwt, tmp)'
      BY <1>1 DEF Has
    <2>2. QED
      BY <1>1, <1>2, <2>1 DEF Delivery, DeliveredInv, Underway, Finishing
  <1>8. QED
    BY <1>6, <1>7 DEF Delivery

\* A directory is filled in: it keeps its name and age.
LEMMA FilledDirs ==
  ASSUME TypeOK, NEW d \in dirs, NEW e,
         e = [d EXCEPT !.jwt = TRUE] \/ e = [d EXCEPT !.tmp = TRUE]
  PROVE  /\ e.name = d.name /\ e.created = d.created
         /\ (d.jwt => e.jwt) /\ (d.tmp => e.tmp)
         /\ e = [d EXCEPT !.jwt = TRUE] => e.jwt
         /\ e = [d EXCEPT !.tmp = TRUE] => e.tmp
  BY DEF TypeOK, Directory

\* A directory that keeps its name and age keeps what DirsInv says of it.
LEMMA DeliveryFill ==
  ASSUME TypeOK, Delivery, NEW h \in Handler, NEW d \in dirs, NEW e,
         NEW pc \in {"tmp", "record"},
         req[h].pc \in Finishing, d.name = req[h].tok.jti,
         e.name = d.name, e.created = d.created,
         dirs' = (dirs \ {d}) \cup {e},
         req' = [req EXCEPT ![h] = [pc |-> pc, now |-> req[h].now, tok |-> req[h].tok]],
         assertions' \subseteq assertions \cup {req[h].tok},
         UNCHANGED <<clock, drawn, answered, leaked, reaper>>
  PROVE  DirsInv'
  <1>1. \A g \in Handler : /\ req'[g].pc \in Finishing <=> req[g].pc \in Finishing
                           /\ req[g].pc \in Finishing => req'[g].tok = req[g].tok
    BY DEF TypeOK, Finishing
  <1>2. \A n : InUse(n)' <=> InUse(n)
    BY <1>1 DEF InUse
  <1>3. \A f \in dirs' : \E g \in dirs : f.name = g.name /\ f.created = g.created
    OBVIOUS
  <1>4. \A f, g \in dirs' : f.name = g.name => f = g
    BY DEF Delivery, DirsInv
  <1>5. \A f \in dirs', g \in Handler :
          req'[g].pc \in Finishing => Outlives(f, req'[g].tok)
    BY <1>1, <1>3 DEF Delivery, DirsInv, Outlives
  <1>6. \A f \in dirs', a \in assertions' : Outlives(f, a)
    BY <1>3 DEF Delivery, DirsInv, Outlives
  <1>7. \A f \in dirs' : /\ f.name \in drawn'
                         /\ InUse(f.name)' \/ f.name \in answered' \cup leaked'
    BY <1>2, <1>3 DEF Delivery, DirsInv
  <1>8. QED
    BY <1>3, <1>4, <1>5, <1>6, <1>7 DEF Delivery, DirsInv, Outlives

\* identity.jwt, then tmp/, are put into the directory of the request.
LEMMA DeliveryPublish ==
  ASSUME TypeOK, Delivery, NEW h \in Handler, PublishToken(h) \/ PublishTmp(h)
  PROVE  Delivery'
  <1> PICK pc, d, e :
        /\ d \in dirs /\ d.name = req[h].tok.jti /\ dirs' = (dirs \ {d}) \cup {e}
        /\ \/ PublishToken(h) /\ pc = "tmp" /\ e = [d EXCEPT !.jwt = TRUE]
           \/ PublishTmp(h) /\ pc = "record" /\ e = [d EXCEPT !.tmp = TRUE]
    BY DEF PublishToken, PublishTmp, DirNamed
  <1>1. /\ e.name = d.name /\ e.created = d.created
        /\ (d.jwt => e.jwt) /\ (d.tmp => e.tmp)
        /\ pc = "tmp" => e.jwt
        /\ pc = "record" => e.tmp
    BY FilledDirs
  <1>2. /\ req[h].pc \in Finishing
        /\ req' = [req EXCEPT ![h] =
             [pc |-> pc, now |-> req[h].now, tok |-> req[h].tok]]
        /\ assertions' \subseteq assertions \cup {req[h].tok}
        /\ UNCHANGED <<clock, drawn, answered, leaked, reaper>>
    BY DEF PublishToken, PublishTmp, Finishing, world
  <1>3. DirsInv'
    BY <1>1, <1>2, DeliveryFill
  <1>4. \A t : /\ Has(t, TRUE, FALSE) => Has(t, TRUE, FALSE)'
               /\ Has(t, TRUE, TRUE) => Has(t, TRUE, TRUE)'
    BY <1>1, <1>2 DEF Has
  <1>5. pc = "tmp" => Has(req[h].tok, TRUE, FALSE)'
    BY <1>1, <1>2 DEF Has
  <1>6. pc = "record" => Has(req[h].tok, TRUE, TRUE)'
    <2> SUFFICES ASSUME pc = "record", clock < req[h].tok.exp
                 PROVE  e.jwt /\ e.tmp
      BY <1>1, <1>2 DEF Has
    <2>1. req[h].pc = "tmp"
      BY DEF PublishTmp
    <2>2. PICK f \in dirs : f.name = req[h].tok.jti /\ f.jwt
      BY <2>1 DEF Delivery, DeliveredInv, Underway, Has
    <2>3. f = d
      BY <2>2 DEF Delivery, DirsInv
    <2>4. QED
      BY <1>1, <2>2, <2>3
  <1>7. \A g \in Handler : Underway(req[g])'
    <2> SUFFICES ASSUME NEW g \in Handler PROVE Underway(req[g])'
      OBVIOUS
    <2>1. CASE g # h
      <3>1. req'[g] = req[g] /\ answered' = answered
        BY <1>2, <2>1 DEF TypeOK
      <3>2. Underway(req[g])
        BY DEF Delivery, DeliveredInv
      <3>3. QED
        BY <1>4, <3>1, <3>2, Zenon DEF Underway
    <2>2. CASE g = h
      <3>1. req'[g].pc = pc /\ req'[g].tok = req[h].tok /\ answered' = answered
        BY <1>2, <2>2 DEF TypeOK
      <3>2. req[h].tok.jti \notin answered
        BY <1>2 DEF Delivery, DeliveredInv, Underway
      <3>3. QED
        BY <2>2, <1>5, <1>6, <3>1, <3>2, Zenon DEF Underway
    <2>3. QED
      BY <2>1, <2>2
  <1>8. \A a \in assertions' : a.jti \in answered => Has(a, TRUE, TRUE)'
    BY <1>2, <1>4, Zenon DEF Delivery, DeliveredInv, Underway
  <1>9. DeliveredInv'
    BY <1>2, <1>7, <1>8, Zenon DEF Delivery, DeliveredInv
  <1>10. QED
    BY <1>3, <1>9 DEF Delivery

\* A directory that is discarded or reaped is nobody's delivery any more: its
\* request has failed, or what it delivered has expired.
LEMMA DeliveryRemove ==
  ASSUME IInv, Delivery, NEW j, dirs' = dirs \ DirNamed(j),
         reaper' \subseteq reaper,
         UNCHANGED <<clock, drawn, assertions, answered, leaked>>,
         \A g \in Handler : req'[g].pc \in Finishing => req'[g] = req[g],
         \A g \in Handler :
           req[g].pc \in Finishing /\ req[g].tok.jti # j => req'[g] = req[g],
         \A g \in Handler :
           req'[g].pc \in Finishing /\ req[g].tok.jti = j => clock >= req[g].tok.exp,
         j \in answered => \A a \in assertions : a.jti = j => clock >= a.exp
  PROVE  Delivery'
  <1>1. \A d \in dirs' : d \in dirs /\ d.name # j
    BY DEF DirNamed
  <1>2. \A n : n # j /\ InUse(n) => InUse(n)'
    BY DEF InUse
  <1>3. DirsInv'
    BY <1>1, <1>2 DEF Delivery, DirsInv, Outlives
  <1>4. \A t : t.jti # j => /\ Has(t, TRUE, FALSE) => Has(t, TRUE, FALSE)'
                            /\ Has(t, TRUE, TRUE) => Has(t, TRUE, TRUE)'
    BY DEF Has, DirNamed
  <1>5. \A t : clock >= t.exp /\ t.exp \in Nat =>
                 Has(t, TRUE, FALSE)' /\ Has(t, TRUE, TRUE)'
    BY DEF Has, IInv, TypeOK
  <1>6. \A g \in Handler : req[g].pc \in Finishing => req[g].tok.exp \in Nat
    BY RequestFields DEF IInv, TypeOK, Assertion
  <1>7. \A a \in assertions : a.exp \in Nat
    BY DEF IInv, TypeOK, Assertion
  <1>8. DeliveredInv'
    BY <1>4, <1>5, <1>6, <1>7 DEF Delivery, DeliveredInv, Underway, Finishing
  <1>9. QED
    BY <1>3, <1>8 DEF Delivery

\* A request that fails to publish takes its directory with it, or leaves it
\* accounted for.
LEMMA DeliveryFails ==
  ASSUME IInv, Delivery, NEW h \in Handler, PublishFails(h) \/ DiscardFails(h)
  PROVE  Delivery'
  <1>1. /\ req[h].pc \in Finishing /\ req' = [req EXCEPT ![h] = Idle]
        /\ UNCHANGED <<clock, drawn, assertions, answered, reaper>>
    BY DEF PublishFails, DiscardFails, Finishing, world
  <1>2. \A g \in Handler : /\ g # h => req'[g] = req[g]
                           /\ req'[h] = Idle /\ req'[h].pc \notin Finishing
    BY <1>1 DEF IInv, TypeOK, Idle, Finishing
  <1>3. \A g \in Handler : g # h /\ req[g].pc \in Finishing =>
          req[g].tok.jti # req[h].tok.jti
    BY <1>1 DEF IInv, Core, IdsUnique
  <1>4. req[h].tok.jti \notin answered
    BY <1>1 DEF Delivery, DeliveredInv, Underway
  <1>5. CASE PublishFails(h)
    <2>1. dirs' = dirs \ DirNamed(req[h].tok.jti) /\ UNCHANGED leaked
      BY <1>5 DEF PublishFails
    <2>2. QED
      BY <1>1, <1>2, <1>3, <1>4, <2>1, DeliveryRemove
  <1>6. CASE DiscardFails(h)
    <2>1. dirs' = dirs /\ leaked' = leaked \cup {req[h].tok.jti}
      BY <1>6 DEF DiscardFails
    <2>2. clock' \in Nat /\ clock' >= clock
      BY <1>1 DEF IInv, TypeOK
    <2>3. QED
      BY <1>1, <1>2, <2>1, <2>2, QuietDelivery DEF IInv
  <1>7. QED
    BY <1>5, <1>6

\* The client is answered: what it was promised is there unless it has expired.
LEMMA DeliveryRecord ==
  ASSUME IInv, Delivery, NEW h \in Handler, Record(h)
  PROVE  Delivery'
  <1> PICK t : t = req[h].tok
    OBVIOUS
  <1>1. /\ req[h].pc = "record" /\ req' = [req EXCEPT ![h] = Idle]
        /\ answered' = answered \cup {t.jti}
        /\ UNCHANGED <<clock, drawn, dirs, assertions, leaked, reaper>>
    BY DEF Record, world
  <1>2. \A g \in Handler : /\ g # h => req'[g] = req[g]
                           /\ req'[h] = Idle
    BY <1>1 DEF IInv, TypeOK
  <1>3. Idle.pc = "idle"
    BY DEF Idle
  <1>4. \A g \in Handler : g # h /\ req[g].pc \in Finishing =>
          req[g].tok.jti # t.jti
    BY <1>1 DEF IInv, Core, IdsUnique, Finishing
  <1>5. t \in assertions /\ t.jti \in drawn
    BY <1>1 DEF IInv, Core, PhaseInv, Finishing
  <1>6. Has(t, TRUE, TRUE)
    BY <1>1 DEF Delivery, DeliveredInv, Underway
  <1>7. DirsInv'
    <2>1. \A n : InUse(n) => InUse(n)' \/ n \in answered'
      BY <1>1, <1>2 DEF InUse
    <2>2. \A d \in dirs, g \in Handler :
            req'[g].pc \in Finishing => Outlives(d, req'[g].tok)
      BY <1>2, <1>3 DEF Delivery, DirsInv, Finishing
    <2>3. QED
      BY <1>1, <2>1, <2>2 DEF Delivery, DirsInv, Outlives
  <1>8. \A a, jwt, tmp : Has(a, jwt, tmp) => Has(a, jwt, tmp)'
    BY <1>1 DEF Has
  <1>9. \A g \in Handler : Underway(req[g])'
    <2> SUFFICES ASSUME NEW g \in Handler PROVE Underway(req[g])'
      OBVIOUS
    <2>1. CASE g = h
      BY <1>2, <1>3, <2>1 DEF Underway, Finishing
    <2>2. CASE g # h
      <3>1. req'[g] = req[g] /\ Underway(req[g])
        BY <1>2, <2>2 DEF Delivery, DeliveredInv
      <3>2. req[g].pc \in Finishing => req[g].tok.jti \notin answered'
        BY <1>1, <1>4, <2>2, <3>1 DEF Underway
      <3>3. QED
        BY <1>8, <3>1, <3>2, Zenon DEF Underway
    <2>3. QED
      BY <2>1, <2>2
  <1>10. \A a \in assertions' : a.jti \in answered' => Has(a, TRUE, TRUE)'
    <2> SUFFICES ASSUME NEW a \in assertions, a.jti \in answered \cup {t.jti}
                 PROVE  Has(a, TRUE, TRUE)
      BY <1>1, <1>8
    <2>1. CASE a.jti \in answered
      BY <2>1 DEF Delivery, DeliveredInv
    <2>2. CASE a.jti = t.jti
      BY <1>5, <1>6, <2>2 DEF IInv, Core, IdsUnique
    <2>3. QED
      BY <2>1, <2>2
  <1>11. DeliveredInv'
    BY <1>1, <1>5, <1>9, <1>10, Zenon DEF Delivery, DeliveredInv
  <1>12. QED
    BY <1>7, <1>11 DEF Delivery

\* The sweep lists, and removes, only what is older than any lifetime.
LEMMA DeliveryReap == IInv /\ Delivery /\ Reap => Delivery'
  <1> SUFFICES ASSUME IInv, Delivery, Reap PROVE Delivery'
    OBVIOUS
  <1>1. \A d \in dirs : /\ d.created \in Nat
                        /\ d.created + MaxLifetime <= d.created + MaxAge
                        /\ d.created + MaxAge \in Nat
    BY TTLAssumption DEF IInv, TypeOK, Directory, MaxAge
  <1>2. clock \in Nat
    BY DEF IInv, TypeOK
  <1>3. CASE ReapStart
    <2>1. /\ reaper' = Stale(clock)
          /\ UNCHANGED <<clock, req, drawn, dirs, assertions, answered, leaked>>
      BY <1>3 DEF ReapStart, world
    <2>2. reaper' \subseteq drawn
      BY <2>1 DEF Stale, Delivery, DirsInv
    <2>3. \A d \in dirs : d.name \in reaper' => clock > d.created + MaxAge
      <3> SUFFICES ASSUME NEW d \in dirs, d.name \in Stale(clock)
                   PROVE  clock > d.created + MaxAge
        BY <2>1
      <3>1. PICK e \in dirs : clock - e.created > MaxAge /\ e.name = d.name
        BY DEF Stale
      <3>2. e = d
        BY <3>1 DEF Delivery, DirsInv
      <3>3. QED
        BY <1>1, <1>2, <3>1, <3>2, TTLAssumption DEF MaxAge
    <2>4. DirsInv'
      BY <2>1, <2>2, <2>3 DEF Delivery, DirsInv, InUse, Outlives
    <2>5. DeliveredInv'
      BY <2>1 DEF Delivery, DeliveredInv, Underway, Has
    <2>6. QED
      BY <2>4, <2>5 DEF Delivery
  <1>4. ASSUME NEW j \in Jti, ReapDir(j) PROVE Delivery'
    <2>1. /\ j \in reaper /\ reaper' = reaper \ {j}
          /\ UNCHANGED <<clock, req, drawn, assertions, answered, leaked>>
          /\ dirs' = dirs \ DirNamed(j) \/ dirs' = dirs
      BY <1>4 DEF ReapDir, world
    <2>2. CASE dirs' = dirs
      <3>1. DirsInv'
        BY <2>1, <2>2 DEF Delivery, DirsInv, InUse, Outlives
      <3>2. DeliveredInv'
        BY <2>1, <2>2 DEF Delivery, DeliveredInv, Underway, Has
      <3>3. QED
        BY <3>1, <3>2 DEF Delivery
    <2>3. CASE DirNamed(j) = {}
      <3>1. dirs' = dirs
        BY <2>1, <2>3
      <3>2. QED
        BY <2>2, <3>1
    <2>4. CASE dirs' = dirs \ DirNamed(j) /\ DirNamed(j) # {}
      <3>1. PICK d \in dirs : d.name = j
        BY <2>4 DEF DirNamed
      <3>2. clock > d.created + MaxAge
        BY <2>1, <3>1 DEF Delivery, DirsInv
      <3>3. \A g \in Handler :
              req[g].pc \in Finishing /\ req[g].tok.jti = j => clock >= req[g].tok.exp
        <4> SUFFICES ASSUME NEW g \in Handler, req[g].pc \in Finishing,
                            req[g].tok.jti = j
                     PROVE  clock >= req[g].tok.exp
          OBVIOUS
        <4>1. req[g].tok.exp \in Nat
          BY RequestFields DEF IInv, TypeOK, Assertion
        <4>2. req[g].tok.exp <= d.created + MaxLifetime
          BY <3>1 DEF Delivery, DirsInv, Outlives
        <4>3. QED
          BY <1>1, <1>2, <3>2, <4>1, <4>2, TTLAssumption DEF MaxAge
      <3>4. \A a \in assertions : a.jti = j => clock >= a.exp
        <4> SUFFICES ASSUME NEW a \in assertions, a.jti = j PROVE clock >= a.exp
          OBVIOUS
        <4>1. a.exp \in Nat
          BY DEF IInv, TypeOK, Assertion
        <4>2. a.exp <= d.created + MaxLifetime
          BY <3>1 DEF Delivery, DirsInv, Outlives
        <4>3. QED
          BY <1>1, <1>2, <3>2, <4>1, <4>2, TTLAssumption DEF MaxAge
      <3>5. QED
        BY <2>1, <2>4, <3>3, <3>4, DeliveryRemove
    <2>5. QED
      BY <2>1, <2>2, <2>3, <2>4
  <1>5. QED
    BY <1>3, <1>4 DEF Reap

\* Nothing else touches the directories or what is being delivered.
LEMMA DeliveryStep == IInv /\ Delivery /\ [Next]_vars => Delivery'
  <1> SUFFICES ASSUME IInv, Delivery, [Next]_vars PROVE Delivery'
    OBVIOUS
  <1>t. TypeOK /\ clock \in Nat
    BY DEF IInv, TypeOK
  \* A step of one handler between phases without a directory.
  <1>1. ASSUME NEW h \in Handler, req[h].pc \notin Finishing, NEW q,
               q.pc \notin Finishing, req' = [req EXCEPT ![h] = q],
               UNCHANGED <<clock, dirs, assertions, answered, reaper, drawn, leaked>>
        PROVE  Delivery'
    <2>1. \A g \in Handler : req'[g] = IF g = h THEN q ELSE req[g]
      BY <1>1, <1>t DEF TypeOK
    <2>2. QED
      BY <1>1, <1>t, <2>1, QuietDelivery
  <1>2. CASE UNCHANGED vars \/ Host
    <2>1. /\ UNCHANGED <<req, dirs, assertions, answered, reaper, drawn, leaked>>
          /\ clock' = clock \/ clock' = clock + 1
      BY <1>2 DEF vars, Host, Tick, Spawn, Exit, Exec, EditDefinitions
    <2>2. QED
      BY <1>t, <2>1, QuietDelivery
  <1>3. ASSUME NEW h \in Handler, Admit(h) PROVE Delivery'
    <2>1. ASSUME NEW p, NEW via, NEW def, AdmitSession(h, p, via, def)
          PROVE  Delivery'
      <3> DEFINE q == [pc |-> "session", now |-> clock, peer |-> PeerOf(p, via),
                       def |-> def]
      <3>1. q.pc = "session" /\ Idle.pc = "idle"
        BY DEF Idle
      <3>2. QED
        BY <1>1, <2>1, <3>1 DEF AdmitSession, Finishing, world
    <2>2. ASSUME NEW p, NEW via, NEW def, NEW a, AdmitChild(h, p, via, def, a)
          PROVE  Delivery'
      <3> DEFINE q == [pc |-> "child", now |-> clock, peer |-> PeerOf(p, via),
                       def |-> def, parent |-> a]
      <3>1. q.pc = "child" /\ Idle.pc = "idle"
        BY DEF Idle
      <3>2. QED
        BY <1>1, <2>2, <3>1 DEF AdmitChild, Finishing, world
    <2>3. QED
      BY <1>3, <2>1, <2>2 DEF Admit
  <1>4. ASSUME NEW h \in Handler, Refuse(h) \/ CreateFails(h) PROVE Delivery'
    BY <1>1, <1>4 DEF Refuse, CreateFails, Idle, Finishing, world
  <1>5. ASSUME NEW h \in Handler, GrantSession(h) PROVE Delivery'
    <2>1. PICK d : req' = [req EXCEPT ![h] =
                     [pc |-> "create", now |-> req[h].now, draft |-> d]]
      BY <1>5 DEF GrantSession
    <2>2. QED
      BY <1>1, <1>5, <2>1 DEF GrantSession, Finishing, world
  <1>6. ASSUME NEW h \in Handler, GrantChild(h) PROVE Delivery'
    <2>1. PICK d : req' = [req EXCEPT ![h] =
                     [pc |-> "create", now |-> req[h].now, draft |-> d]]
      BY <1>6 DEF GrantChild
    <2>2. QED
      BY <1>1, <1>6, <2>1 DEF GrantChild, Finishing, world
  <1>7. ASSUME NEW h \in Handler, LookupParent(h) PROVE Delivery'
    <2>1. PICK e : req' = [req EXCEPT ![h] =
            [pc |-> "found", now |-> req[h].now, peer |-> req[h].peer,
             def |-> req[h].def, parent |-> req[h].parent, entry |-> e]]
      BY <1>7 DEF LookupParent
    <2>2. QED
      BY <1>1, <1>7, <2>1 DEF LookupParent, Finishing, world
  <1>8. ASSUME NEW h \in Handler, Serve(h) \/ Fault(h) PROVE Delivery'
    BY <1>t, <1>4, <1>5, <1>6, <1>7, <1>8, DeliveryCreateDir, DeliveryPublish,
       DeliveryRecord, DeliveryFails DEF Serve, Fault
  <1>9. ASSUME NEW k \in Key, Restart(k) PROVE Delivery'
    <2>1. /\ UNCHANGED <<clock, dirs, assertions, answered, drawn>>
          /\ reaper' = {} /\ leaked' = leaked \cup InFlight
          /\ \A h \in Handler : req'[h] = Idle
      BY <1>9 DEF Restart, world
    <2>2. \A h \in Handler : req[h].pc \in Finishing => req[h].tok.jti \in leaked'
      BY <2>1 DEF InFlight
    <2>3. Idle.pc \notin Finishing
      BY DEF Idle, Finishing
    <2>4. QED
      BY <1>t, <2>1, <2>2, <2>3, QuietDelivery
  <1>10. QED
    BY <1>2, <1>3, <1>8, <1>9, DeliveryReap DEF Next

\* What holds of the directories in every behaviour of the issuer.
THEOREM DeliveryInvariant == Spec => []Delivery
  <1>1. Init => Delivery
    <2>1. Idle.pc = "idle"
      BY DEF Idle
    <2>2. QED
      BY <2>1 DEF Init, Delivery, DirsInv, DeliveredInv, Underway, Finishing
  <1>2. QED
    BY <1>1, DeliveryStep, InductiveInvariant, PTL DEF Spec

\* A client that was answered finds its delivery complete until it expires,
\* however stale the clock sample its directory was named from and whenever the
\* sweeps ran (finish, Reap).
THEOREM DeliveredHolds == Spec => []AnsweredIsDelivered
  <1>1. Delivery => AnsweredIsDelivered
    BY DEF Delivery, DeliveredInv, AnsweredIsDelivered, Has
  <1>2. QED
    BY <1>1, DeliveryInvariant, PTL

\* A request that fails leaves no directory but one that its error path could
\* not remove (finish, Discard).
THEOREM NoOrphanHolds == Spec => []NoOrphanDirectory
  <1>1. Delivery => NoOrphanDirectory
    BY DEF Delivery, DirsInv, NoOrphanDirectory, InUse, InFlight
  <1>2. QED
    BY <1>1, DeliveryInvariant, PTL

-----------------------------------------------------------------------------
(* What the registry keeps                                                 *)

\* No request carries a clock sample that is still to come, so its sweep drops
\* nothing that is alive (IssueSession and IssueChild sample once, put sweeps by it).
Sampled == \A h \in Handler : req[h].pc # "idle" => req[h].now <= clock

\* Every step carries a request's sample along, drops it or takes a new one.
LEMMA SampledStep == TypeOK /\ Sampled /\ [Next]_vars => Sampled'
  <1> SUFFICES ASSUME TypeOK, Sampled, [Next]_vars PROVE Sampled'
    OBVIOUS
  <1>t. clock \in Nat /\ req \in [Handler -> Request]
    BY DEF TypeOK
  <1>f. \A h \in Handler : req[h].pc # "idle" => req[h].now \in Nat
    <2> SUFFICES ASSUME NEW h \in Handler, req[h].pc # "idle" PROVE req[h].now \in Nat
      OBVIOUS
    <2>1. req[h] \in Request
      BY <1>t
    <2>2. req[h].pc \in {"idle", "session", "child", "found", "create"} \cup Finishing
      BY <2>1 DEF Request, Idle, Finishing
    <2>3. QED
      BY <2>1, <2>2, RequestFields
  \* One handler's request becomes q, with the sample it had or the time of now.
  <1>1. ASSUME NEW h \in Handler, NEW q, req' = [req EXCEPT ![h] = q], clock' = clock,
               \/ q.pc = "idle"
               \/ q.now = clock
               \/ req[h].pc # "idle" /\ q.now = req[h].now
        PROVE  Sampled'
    <2>1. \A g \in Handler : req'[g] = IF g = h THEN q ELSE req[g]
      BY <1>1, <1>t
    <2>2. q.pc # "idle" => q.now <= clock
      BY <1>1, <1>t DEF Sampled
    <2>3. QED
      BY <1>1, <2>1, <2>2 DEF Sampled
  <1>2. CASE UNCHANGED vars \/ Host
    <2>1. UNCHANGED req /\ (clock' = clock \/ clock' = clock + 1)
      BY <1>2 DEF vars, Host, Tick, Spawn, Exit, Exec, EditDefinitions
    <2>2. clock' \in Nat /\ clock <= clock'
      BY <1>t, <2>1
    <2>3. QED
      BY <1>t, <1>f, <2>1, <2>2 DEF Sampled
  <1>3. ASSUME NEW h \in Handler, Admit(h) PROVE Sampled'
    <2>1. ASSUME NEW p, NEW via, NEW def, AdmitSession(h, p, via, def)
          PROVE  Sampled'
      <3> DEFINE q == [pc |-> "session", now |-> clock, peer |-> PeerOf(p, via),
                       def |-> def]
      <3>1. req' = [req EXCEPT ![h] = q] /\ clock' = clock /\ q.now = clock
        BY <2>1 DEF AdmitSession, world
      <3> HIDE DEF q
      <3>2. QED
        BY <1>1, <3>1
    <2>2. ASSUME NEW p, NEW via, NEW def, NEW a, AdmitChild(h, p, via, def, a)
          PROVE  Sampled'
      <3> DEFINE q == [pc |-> "child", now |-> clock, peer |-> PeerOf(p, via),
                       def |-> def, parent |-> a]
      <3>1. req' = [req EXCEPT ![h] = q] /\ clock' = clock /\ q.now = clock
        BY <2>2 DEF AdmitChild, world
      <3> HIDE DEF q
      <3>2. QED
        BY <1>1, <3>1
    <2>3. QED
      BY <1>3, <2>1, <2>2 DEF Admit
  <1>4. ASSUME NEW h \in Handler, Fault(h) \/ Refuse(h) \/ Record(h) PROVE Sampled'
    <2>1. req' = [req EXCEPT ![h] = Idle] /\ clock' = clock
      BY <1>4 DEF Fault, CreateFails, PublishFails, DiscardFails, Refuse, Record, world
    <2>2. Idle.pc = "idle"
      BY DEF Idle
    <2>3. QED
      BY <1>1, <2>1, <2>2
  <1>5. ASSUME NEW h \in Handler, Serve(h) PROVE Sampled'
    <2>1. CASE Refuse(h) \/ Record(h)
      BY <1>4, <2>1
    <2>2. CASE GrantSession(h)
      <3>1. PICK d : req' = [req EXCEPT ![h] =
                       [pc |-> "create", now |-> req[h].now, draft |-> d]]
        BY <2>2 DEF GrantSession
      <3>2. req[h].pc # "idle" /\ clock' = clock
        BY <2>2 DEF GrantSession, world
      <3>3. QED
        BY <1>1, <3>1, <3>2
    <2>3. CASE GrantChild(h)
      <3>1. PICK d : req' = [req EXCEPT ![h] =
                       [pc |-> "create", now |-> req[h].now, draft |-> d]]
        BY <2>3 DEF GrantChild
      <3>2. req[h].pc # "idle" /\ clock' = clock
        BY <2>3 DEF GrantChild, world
      <3>3. QED
        BY <1>1, <3>1, <3>2
    <2>4. CASE LookupParent(h)
      <3>1. PICK e : req' = [req EXCEPT ![h] =
              [pc |-> "found", now |-> req[h].now, peer |-> req[h].peer,
               def |-> req[h].def, parent |-> req[h].parent, entry |-> e]]
        BY <2>4 DEF LookupParent
      <3>2. req[h].pc # "idle" /\ clock' = clock
        BY <2>4 DEF LookupParent, world
      <3>3. QED
        BY <1>1, <3>1, <3>2
    <2>5. ASSUME NEW j \in Jti, CreateDir(h, j) PROVE Sampled'
      <3>1. req' = [req EXCEPT ![h] =
              [pc |-> "publish", now |-> req[h].now,
               tok |-> Sign(req[h].draft, j, req[h].now)]]
        BY <2>5 DEF CreateDir
      <3>2. req[h].pc # "idle" /\ clock' = clock
        BY <2>5 DEF CreateDir, world
      <3>3. QED
        BY <1>1, <3>1, <3>2
    <2>6. CASE PublishToken(h) \/ PublishTmp(h)
      <3>1. PICK pc : req' = [req EXCEPT ![h] =
                        [pc |-> pc, now |-> req[h].now, tok |-> req[h].tok]]
        BY <2>6 DEF PublishToken, PublishTmp
      <3>2. req[h].pc # "idle" /\ clock' = clock
        BY <2>6 DEF PublishToken, PublishTmp, world
      <3>3. QED
        BY <1>1, <3>1, <3>2
    <2>7. QED
      BY <1>5, <2>1, <2>2, <2>3, <2>4, <2>5, <2>6 DEF Serve
  <1>6. CASE Reap
    BY <1>6 DEF Reap, ReapStart, ReapDir, Sampled, world
  <1>7. ASSUME NEW k \in Key, Restart(k) PROVE Sampled'
    BY <1>7 DEF Restart, Sampled, Idle
  <1>8. QED
    BY <1>2, <1>3, <1>4, <1>5, <1>6, <1>7 DEF Next

\* Only a request that is recorded sweeps, and only a restart forgets the rest.
LEMMA DropsTheExpired ==
  ASSUME TypeOK, Sampled, [Next]_vars, NEW e \in registry, e \notin registry'
  PROVE  e.exp <= clock \/ run' # run
  <1>1. CASE UNCHANGED vars \/ Host \/ Reap
    BY <1>1 DEF vars, Host, Tick, Spawn, Exit, Exec, EditDefinitions, Reap,
                ReapStart, ReapDir
  <1>2. ASSUME NEW h \in Handler, Admit(h) \/ Fault(h) PROVE FALSE
    BY <1>2 DEF Admit, AdmitSession, AdmitChild, Fault, CreateFails, PublishFails,
                DiscardFails
  <1>3. ASSUME NEW h \in Handler, Serve(h) PROVE e.exp <= clock
    <2>1. Record(h)
      BY <1>3 DEF Serve, GrantSession, LookupParent, GrantChild, Refuse, CreateDir,
                  PublishToken, PublishTmp
    <2>2. req[h] \in Request /\ req[h].pc = "record"
      BY <2>1 DEF TypeOK, Record
    <2>3. req[h].now \in Nat /\ req[h].now <= clock
      BY <2>2, RequestFields DEF Finishing, Sampled
    <2>4. ~(e.exp > req[h].now)
      BY <2>1 DEF Record, Put
    <2>5. e.exp \in Nat /\ clock \in Nat
      BY DEF TypeOK, IssuedTo
    <2>6. QED
      BY <2>3, <2>4, <2>5
  <1>4. ASSUME NEW k \in Key, Restart(k) PROVE run' # run
    BY <1>4 DEF Restart, TypeOK
  <1>5. QED
    BY <1>1, <1>2, <1>3, <1>4 DEF Next

\* An assertion's entry outlives every sweep but those after it expired, however
\* out of order requests reach Registry.put.
THEOREM RegistryKeepsLiveHolds == Spec => RegistryKeepsLive
  <1>1. Init => Sampled
    <2>1. Idle.pc = "idle"
      BY DEF Idle
    <2>2. QED
      BY <2>1 DEF Init, Sampled
  <1>2. TypeOK /\ Sampled /\ [Next]_vars =>
          [\A e \in registry :
             e \notin registry' => (e.exp <= clock \/ run' # run)]_vars
    BY DropsTheExpired
  <1>3. QED
    BY <1>1, <1>2, SampledStep, TypeCorrect, PTL DEF Spec, RegistryKeepsLive
=============================================================================
