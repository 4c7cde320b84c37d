-------------------------- MODULE ServeSocketProofs --------------------------
(***************************************************************************)
(* Proofs about ServeSocket, for every number of servers and keys, any of  *)
(* the servers listening elsewhere, and every bound.                       *)
(***************************************************************************)
EXTENDS ServeSocket, TLAPS

-----------------------------------------------------------------------------
(* The inductive invariant                                                 *)

BeforeLink == {"off", "loaded", "private", "bound", "moded"}
Linked == {"linked", "publish", "serving", "failed"}

\* What a server's program counter says of the rest of its state.
Phase(s) ==
  /\ pc[s] \in BeforeLink => s \notin owned
  /\ pc[s] \in Linked => s \in owned
  /\ At(s, "moded") \/ s \in owned => mode[s] = "configured"
  /\ At(s, "failed") => failures > 0
  /\ pc[s] # "off" => loaded[s] \in Key
  /\ s \in issued => s \in owned

PhaseInv == \A s \in Server : Phase(s)

\* A path names a server only at the server's own address and after its link.
PathInv ==
  \A s \in Server, k \in Sockets :
    path[k] = s => s \in owned /\ SocketFor(s) = k

\* Until a call fails, a server that has linked keeps its path while it listens.
HoldsItsPath ==
  failures = 0 =>
    \A s \in owned : Listening(s) => path[SocketFor(s)] = s

IInv == TypeOK /\ PhaseInv /\ PathInv /\ HoldsItsPath /\ KeysAreTheOwners

-----------------------------------------------------------------------------
(* Preservation                                                            *)

\* Init's states satisfy the inductive invariant.
LEMMA InitHolds == Init => IInv
  <1> SUFFICES ASSUME Init PROVE IInv
    OBVIOUS
  <1>1. TypeOK
    BY ServerAssumption, BoundAssumption DEF Init, TypeOK, Pcs
  <1>2. PhaseInv /\ PathInv /\ HoldsItsPath /\ KeysAreTheOwners
    BY ServerAssumption
       DEF Init, PhaseInv, Phase, PathInv, HoldsItsPath, KeysAreTheOwners, BeforeLink,
           Linked, At, Listening
  <1>3. QED
    BY <1>1, <1>2 DEF IInv

\* Every step keeps the types.
LEMMA TypeStep == TypeOK /\ [Next]_vars => TypeOK'
  <1> SUFFICES ASSUME TypeOK, [Next]_vars PROVE TypeOK'
    OBVIOUS
  <1> USE BoundAssumption DEF TypeOK, At, Goto, Pcs, keys, Sockets
  <1>1. CASE UNCHANGED vars
    BY <1>1 DEF vars
  <1>2. ASSUME NEW s \in Server,
               LoadKeyring(s) \/ MakePrivate(s) \/ Bind(s) \/ SetMode(s)
        PROVE  TypeOK'
    BY <1>2 DEF LoadKeyring, MakePrivate, Bind, SetMode
  <1>3. ASSUME NEW s \in Server, Link(s) \/ Refuse(s) PROVE TypeOK'
    BY <1>3 DEF Link, Refuse, SocketFor
  <1>4. ASSUME NEW s \in Server, ListenFails(s) \/ RemovePrivate(s) PROVE TypeOK'
    BY <1>4 DEF ListenFails, RemovePrivate
  <1>5. ASSUME NEW s \in Server, PublishKeys(s) \/ PublishFails(s) PROVE TypeOK'
    BY <1>5 DEF PublishKeys, PublishFails
  <1>6. ASSUME NEW s \in Server, RemoveSocket(s) \/ Stop(s) \/ Crash(s) \/ Issue(s)
        PROVE  TypeOK'
    BY <1>6 DEF RemoveSocket, Stop, Crash, Issue, SocketFor
  <1>7. ASSUME NEW k \in Sockets, CleanUp(k) \/ PutForeign(k) PROVE TypeOK'
    BY <1>7 DEF CleanUp, PutForeign
  <1>8. ASSUME NEW k \in Key, Rotate(k) PROVE TypeOK'
    BY <1>8 DEF Rotate
  <1>9. QED
    BY <1>1, <1>2, <1>3, <1>4, <1>5, <1>6, <1>7, <1>8 DEF Next

\* Before its link a server owns nothing and afterwards it does; its socket has
\* the configured mode by then (SetMode comes first).
LEMMA PhaseStep == TypeOK /\ PhaseInv /\ [Next]_vars => PhaseInv'
  <1> SUFFICES ASSUME TypeOK, PhaseInv, [Next]_vars, NEW t \in Server
               PROVE  Phase(t)'
    BY DEF PhaseInv
  <1> USE DEF TypeOK, PhaseInv, Phase, At, Goto, keys, BeforeLink, Linked
  <1>1. CASE UNCHANGED vars
    BY <1>1 DEF vars
  <1>2. ASSUME NEW s \in Server,
               LoadKeyring(s) \/ MakePrivate(s) \/ Bind(s) \/ SetMode(s)
        PROVE  Phase(t)'
    BY <1>2 DEF LoadKeyring, MakePrivate, Bind, SetMode
  <1>3. ASSUME NEW s \in Server, Link(s) \/ Refuse(s) PROVE Phase(t)'
    BY <1>3 DEF Link, Refuse
  <1>4. ASSUME NEW s \in Server, ListenFails(s) \/ RemovePrivate(s)
        PROVE  Phase(t)'
    BY <1>4 DEF ListenFails, RemovePrivate
  <1>5. ASSUME NEW s \in Server, PublishKeys(s) \/ PublishFails(s)
        PROVE  Phase(t)'
    BY <1>5, BoundAssumption DEF PublishKeys, PublishFails
  <1>6. ASSUME NEW s \in Server, RemoveSocket(s) \/ Stop(s) \/ Crash(s) \/ Issue(s)
        PROVE  Phase(t)'
    BY <1>6 DEF RemoveSocket, Stop, Crash, Issue
  <1>7. ASSUME NEW k \in Sockets, CleanUp(k) \/ PutForeign(k) PROVE Phase(t)'
    BY <1>7 DEF CleanUp, PutForeign
  <1>8. ASSUME NEW k \in Key, Rotate(k) PROVE Phase(t)'
    BY <1>8 DEF Rotate
  <1>9. QED
    BY <1>1, <1>2, <1>3, <1>4, <1>5, <1>6, <1>7, <1>8 DEF Next

\* Only Link gives a server a name, the one it was started for.
LEMMA PathStep == TypeOK /\ PathInv /\ [Next]_vars => PathInv'
  <1> SUFFICES ASSUME TypeOK, PathInv, [Next]_vars PROVE PathInv'
    OBVIOUS
  <1> USE DEF PathInv, keys
  <1>1. ASSUME NEW s \in Server, Link(s) PROVE PathInv'
    BY <1>1 DEF Link, TypeOK, SocketFor, Sockets
  <1>2. ASSUME NEW s \in Server, RemoveSocket(s) PROVE PathInv'
    BY <1>2, ServerAssumption DEF RemoveSocket, TypeOK, SocketFor, Sockets
  <1>3. ASSUME NEW k \in Sockets, CleanUp(k) \/ PutForeign(k) PROVE PathInv'
    BY <1>3, ServerAssumption DEF CleanUp, PutForeign, TypeOK
  <1>4. CASE UNCHANGED <<path, owned>>
    BY <1>4 DEF SocketFor, Sockets
  <1>5. QED
    BY <1>1, <1>2, <1>3, <1>4
       DEF Next, vars, LoadKeyring, MakePrivate, Bind, SetMode, Refuse,
           ListenFails, RemovePrivate, PublishKeys, PublishFails, Stop, Crash,
           Issue, Rotate

\* A listening server's name goes only to a start that failed after its link,
\* which counts as a failure: link never replaces and the operator leaves a
\* used socket alone.
LEMMA HoldStep ==
  TypeOK /\ PhaseInv /\ HoldsItsPath /\ [Next]_vars => HoldsItsPath'
  <1> SUFFICES ASSUME TypeOK, PhaseInv, HoldsItsPath, [Next]_vars,
                      failures' = 0, NEW t \in owned', Listening(t)'
               PROVE  path'[SocketFor(t)] = t
    BY DEF HoldsItsPath, SocketFor
  <1> USE DEF TypeOK, HoldsItsPath, Listening, SocketFor, Sockets, At, Goto, keys
  <1>1. CASE UNCHANGED vars
    BY <1>1 DEF vars
  <1>2. ASSUME NEW s \in Server,
               LoadKeyring(s) \/ MakePrivate(s) \/ SetMode(s) \/ Refuse(s)
        PROVE  path'[SocketFor(t)] = t
    BY <1>2 DEF LoadKeyring, MakePrivate, SetMode, Refuse
  <1>3. ASSUME NEW s \in Server, Bind(s) PROVE path'[SocketFor(t)] = t
    BY <1>3 DEF Bind, PhaseInv, Phase, BeforeLink
  <1>4. ASSUME NEW s \in Server, Link(s) PROVE path'[SocketFor(t)] = t
    BY <1>4, ServerAssumption DEF Link
  <1>5. ASSUME NEW s \in Server, ListenFails(s) \/ RemovePrivate(s)
        PROVE  path'[SocketFor(t)] = t
    BY <1>5 DEF ListenFails, RemovePrivate
  <1>6. ASSUME NEW s \in Server, PublishKeys(s) \/ PublishFails(s)
        PROVE  path'[SocketFor(t)] = t
    BY <1>6 DEF PublishKeys, PublishFails
  <1>7. ASSUME NEW s \in Server, RemoveSocket(s) PROVE path'[SocketFor(t)] = t
    BY <1>7 DEF RemoveSocket, PhaseInv, Phase
  <1>8. ASSUME NEW s \in Server, Stop(s) \/ Crash(s) \/ Issue(s)
        PROVE  path'[SocketFor(t)] = t
    BY <1>8 DEF Stop, Crash, Issue
  <1>9. ASSUME NEW k \in Sockets, CleanUp(k) \/ PutForeign(k)
        PROVE  path'[SocketFor(t)] = t
    BY <1>9, ServerAssumption DEF CleanUp, PutForeign
  <1>10. ASSUME NEW k \in Key, Rotate(k) PROVE path'[SocketFor(t)] = t
    BY <1>10 DEF Rotate
  <1>11. QED
    BY <1>1, <1>2, <1>3, <1>4, <1>5, <1>6, <1>7, <1>8, <1>9, <1>10 DEF Next

\* A key set is published by a server that holds its path, so never over that
\* of a live owner of the same path.
LEMMA KeysStep == IInv /\ [Next]_vars => KeysAreTheOwners'
  <1> SUFFICES ASSUME IInv, [Next]_vars PROVE KeysAreTheOwners'
    OBVIOUS
  <1> USE DEF IInv, TypeOK, KeysAreTheOwners, At, Goto, keys
  <1>1. CASE UNCHANGED vars
    BY <1>1 DEF vars
  <1>2. ASSUME NEW s \in Server,
               \/ LoadKeyring(s) \/ MakePrivate(s) \/ Bind(s) \/ SetMode(s)
               \/ Refuse(s) \/ Stop(s) \/ Crash(s) \/ Issue(s)
        PROVE  KeysAreTheOwners'
    BY <1>2 DEF LoadKeyring, MakePrivate, Bind, SetMode, Refuse, Stop, Crash, Issue
  <1>3. ASSUME NEW s \in Server, Link(s) PROVE KeysAreTheOwners'
    BY <1>3, ServerAssumption DEF Link, SocketFor, Sockets
  <1>4. ASSUME NEW s \in Server, ListenFails(s) \/ RemovePrivate(s)
        PROVE  KeysAreTheOwners'
    BY <1>4 DEF ListenFails, RemovePrivate
  <1>5. ASSUME NEW s \in Server, PublishKeys(s) PROVE KeysAreTheOwners'
    <2>1. s \in owned
      BY <1>5 DEF PublishKeys, PhaseInv, Phase, Linked
    <2>2. ASSUME failures = 0, s \notin Elsewhere PROVE path["configured"] = s
      BY <1>5, <2>1, <2>2 DEF PublishKeys, HoldsItsPath, Listening, SocketFor
    <2>3. QED
      BY <1>5, <2>1, <2>2 DEF PublishKeys
  <1>6. ASSUME NEW s \in Server, PublishFails(s) PROVE KeysAreTheOwners'
    <2>1. s \in owned /\ failures' # 0
      BY <1>6 DEF PublishFails, PhaseInv, Phase, Linked
    <2>2. QED
      BY <1>6, <2>1 DEF PublishFails
  <1>7. ASSUME NEW s \in Server, RemoveSocket(s) PROVE KeysAreTheOwners'
    BY <1>7, ServerAssumption DEF RemoveSocket, SocketFor, Sockets
  <1>8. ASSUME NEW k \in Sockets, CleanUp(k) \/ PutForeign(k)
        PROVE  KeysAreTheOwners'
    BY <1>8, ServerAssumption DEF CleanUp, PutForeign, Sockets
  <1>9. ASSUME NEW k \in Key, Rotate(k) PROVE KeysAreTheOwners'
    BY <1>9 DEF Rotate
  <1>10. QED
    BY <1>1, <1>2, <1>3, <1>4, <1>5, <1>6, <1>7, <1>8, <1>9 DEF Next

-----------------------------------------------------------------------------
(* What follows                                                            *)

\* The invariant holds of every start of serve (Listen, runServe).
THEOREM StartInvariant == Spec => []IInv
  <1>1. IInv /\ [Next]_vars => IInv'
    BY TypeStep, PhaseStep, PathStep, HoldStep, KeysStep DEF IInv
  <1>2. QED
    BY InitHolds, <1>1, PTL DEF Spec

\* A socket path never names a socket whose mode is still to be set (Listen).
THEOREM ModeBeforeNameHolds == Spec => []ModeBeforeName
  <1>1. IInv => ModeBeforeName
    BY DEF IInv, PathInv, PhaseInv, Phase, ModeBeforeName
  <1>2. QED
    BY <1>1, StartInvariant, PTL

\* Two servers never listen behind one path each believes to be its own, as
\* long as no start fails (Listen: link never replaces).
THEOREM OneOwnerHolds == Spec => []OneOwner
  <1>1. IInv => OneOwner
    BY DEF IInv, TypeOK, HoldsItsPath, OneOwner
  <1>2. QED
    BY <1>1, StartInvariant, PTL

\* A start that is refused never overwrites the live server's key set
\* (runServe calls WriteJWKS after Listen).
THEOREM KeysAreTheOwnersHolds == Spec => []KeysAreTheOwners
  <1>1. IInv => KeysAreTheOwners
    BY DEF IInv
  <1>2. QED
    BY <1>1, StartInvariant, PTL

\* mint accepts exactly what carries the live owner's key (fetchJWKS,
\* buildAssertionProvider): the key set it is handed is the owner's.
THEOREM MintGoesByTheOwnerHolds == Spec => []MintGoesByTheOwner
  <1>1. IInv => MintGoesByTheOwner
    <2> SUFFICES ASSUME IInv, NEW s \in Server,
                        failures = 0, Located, jwks \notin Elsewhere,
                        At(s, "serving"), path["configured"] = s,
                        NEW t \in issued, config.issuer \/ t \notin Elsewhere
                 PROVE  (Verdict(t) = "") = (loaded[t] = loaded[s])
      BY DEF MintGoesByTheOwner
    <2>1. loaded[s] # NoKey
      BY ServerAssumption DEF IInv, PhaseInv, Phase, At
    <2>2. PublishedKey = loaded[s]
      <3>1. CASE config.jwks
        BY <3>1, ServerAssumption DEF IInv, KeysAreTheOwners, PublishedKey
      <3>2. CASE ~config.jwks
        BY <3>2 DEF PublishedKey
      <3>3. QED
        BY <3>1, <3>2
    <2>3. Trusted(t)
      BY DEF Trusted, IssuerName, LocalIss, SocketFor
    <2>4. QED
      BY <2>1, <2>2, <2>3 DEF Verdict
  <1>2. QED
    BY <1>1, StartInvariant, PTL
=============================================================================
