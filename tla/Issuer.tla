------------------------------- MODULE Issuer -------------------------------
(***************************************************************************)
(* The identity issuer of `gatekeeper serve` (internal/identity): the      *)
(* concurrent handlers of issue-session and issue-child, the in-memory     *)
(* registry, the delivery directories, the reaper that ages them, the      *)
(* processes the assertions are bound to, and restarts of the issuer.      *)
(*                                                                         *)
(* A handler takes one step per access to state it shares with another     *)
(* handler, the reaper, the process table or the disk.  Requests refused   *)
(* before their first such access (a foreign uid, a malformed name, an     *)
(* unverifiable or expired parent token) change nothing and are stutters.  *)
(*                                                                         *)
(* Random 128-bit ids are drawn fresh from Jti; a draw names the assertion *)
(* (jti) and its delivery directory, and the sid of a session is the jti   *)
(* of its session assertion.  Times are whole seconds of one clock that    *)
(* does not step back.                                                     *)
(***************************************************************************)
EXTENDS Integers

CONSTANTS
  Handler,          \* request handlers that can run at once
  Jti, NoJti,       \* random ids, and the empty sid of an unfinished claim set
  Pid, Uid, Exe,    \* process ids, user ids, executable files (device, inode)
  Subreaper,        \* pids whose process adopts orphans in place of init
  Via,              \* how peers reach the socket: "direct", "helper", or both
  ServingUid,       \* the uid `serve` runs as
  Key,              \* signing keys the operator may configure
  Role, Def, NoDef, \* roles, definition names, "the request names none"
  RuntimeRoles,     \* identity.runtime_roles
  DelegableRoles,   \* identity.delegable_roles, and
  Restricted,       \* whether that list is configured (non-nil) at all
  SessionTTL,       \* identity.session_ttl_seconds
  MaxLifetime       \* the contract's cap on exp - iat (MaxLifetimeSeconds)

CONSTANTS           \* bounds of the instance, not of the program
  MaxClock, MaxSpawns, MaxEdits, MaxFaults, MaxRestarts

ASSUME PeerAssumption ==
  /\ ServingUid \in Uid
  /\ Subreaper \subseteq Pid
  /\ Via \subseteq {"direct", "helper"}
ASSUME JtiAssumption == NoJti \notin Jti
ASSUME DefAssumption == NoDef \notin Def
ASSUME RoleAssumption ==
  /\ RuntimeRoles \in SUBSET Role
  /\ DelegableRoles \in SUBSET Role
  /\ Restricted \in BOOLEAN
\* NewIssuer refuses any other session TTL.
ASSUME TTLAssumption ==
  /\ SessionTTL \in Nat \ {0}
  /\ MaxLifetime \in Nat
  /\ SessionTTL <= MaxLifetime
ASSUME BoundAssumption ==
  /\ MaxClock \in Nat /\ MaxSpawns \in Nat /\ MaxEdits \in Nat
  /\ MaxFaults \in Nat /\ MaxRestarts \in Nat

VARIABLES
  clock,       \* the wall clock, in seconds
  procs,       \* the live processes
  defs,        \* the agent definitions on disk: name -> roles
  key,         \* the signing key this issuer process loaded
  req,         \* the request each handler is serving
  registry,    \* Registry.entries: the process each assertion went to
  dirs,        \* the delivery directories under the spawn root
  drawn,       \* the ids drawn so far
  assertions,  \* every assertion whose identity.jwt ever became visible
  answered,    \* the ids of the assertions a client was answered with
  leaked,      \* directories a crash or a failed Discard left behind
  reaper,      \* the hourly sweep: the stale names it has still to remove
  run,         \* which run of the issuer this is
  spawns, edits, faults \* how much of each bound is used

world == <<clock, procs, defs, spawns, edits>>
vars == <<clock, procs, defs, key, req, registry, dirs, drawn, assertions,
          answered, leaked, reaper, run, spawns, edits, faults>>

-----------------------------------------------------------------------------
(* Data                                                                    *)

\* A process: (pid, start) names one incarnation of a pid; exec changes exe.
Process == [pid: Pid, uid: Uid, start: Nat, exe: Exe]

\* The peer of a connection: the credentials read at accept.  `direct` peers
\* are their own runtime; a `helper` is a hook or CLI process whose parent
\* chain led to the runtime (pid, start) when it was started.
Peer == [pid: Pid, uid: Uid, start: Nat, via: Via]

\* The claims the properties tell apart, with the parent, the run of the
\* issuer and the bound process kept beside them for the properties.
Assertion == [jti: Jti, sid: Jti, parent: Jti, roles: SUBSET Role,
              iat: Nat, exp: Nat, key: Key, run: Nat, bound: Process]

\* Claims as the handlers build them for `finish`.  sid = NoJti: a session.
Draft == [sid: Jti \cup {NoJti}, parent: Jti \cup {NoJti},
          roles: SUBSET Role, exp: Nat, bound: Process]

\* A registry entry, keyed by jti.
IssuedTo == [jti: Jti, bound: Process, exp: Nat]

Directory == [name: Jti, created: Nat, jwt: BOOLEAN, tmp: BOOLEAN]

Idle == [pc |-> "idle"]

Request ==
  {Idle}
  \cup [pc: {"session"}, now: Nat, peer: Peer, def: Def \cup {NoDef}]
  \cup [pc: {"child"}, now: Nat, peer: Peer, def: Def, parent: Assertion]
  \cup [pc: {"found"}, now: Nat, peer: Peer, def: Def, parent: Assertion,
        entry: IssuedTo]
  \cup [pc: {"create"}, now: Nat, draft: Draft]
  \cup [pc: {"publish", "tmp", "record"}, now: Nat, tok: Assertion]

Finishing == {"publish", "tmp", "record"}

DirNamed(n) == {d \in dirs : d.name = n}

\* maxAge of reapLoop: twice the longest lifetime.
MaxAge == 2 * MaxLifetime

Earlier(s, t) == IF s < t THEN s ELSE t

\* The roles that may be delegated: every role under a nil policy, the members
\* of a configured one even when it is empty.
Delegable == IF Restricted THEN DelegableRoles ELSE Role

-----------------------------------------------------------------------------
(* The host: time, processes, definition files                             *)

Tick ==
  /\ clock < MaxClock
  /\ clock' = clock + 1
  /\ UNCHANGED <<procs, defs, key, req, registry, dirs, drawn, assertions,
                 answered, leaked, reaper, run, spawns, edits, faults>>

\* The kernel reuses a free pid for a new process, with a later start time.
Spawn(pid, uid, exe) ==
  /\ spawns < MaxSpawns
  /\ \A p \in procs : p.pid # pid
  /\ spawns' = spawns + 1
  /\ procs' = procs \cup
                {[pid |-> pid, uid |-> uid, start |-> spawns + 1, exe |-> exe]}
  /\ UNCHANGED <<clock, defs, key, req, registry, dirs, drawn, assertions,
                 answered, leaked, reaper, run, edits, faults>>

Exit(p) ==
  /\ p \in procs
  /\ procs' = procs \ {p}
  /\ UNCHANGED <<clock, defs, key, req, registry, dirs, drawn, assertions,
                 answered, leaked, reaper, run, spawns, edits, faults>>

\* An exec keeps pid and start time and changes the executable file.
Exec(p, exe) ==
  /\ p \in procs
  /\ spawns < MaxSpawns
  /\ spawns' = spawns + 1
  /\ procs' = (procs \ {p}) \cup {[p EXCEPT !.exe = exe]}
  /\ UNCHANGED <<clock, defs, key, req, registry, dirs, drawn, assertions,
                 answered, leaked, reaper, run, edits, faults>>

\* An operator edits, adds or removes definition files while serve runs.
EditDefinitions(names) ==
  /\ edits < MaxEdits
  /\ edits' = edits + 1
  /\ defs' \in [names -> SUBSET Role]
  /\ UNCHANGED <<clock, procs, key, req, registry, dirs, drawn, assertions,
                 answered, leaked, reaper, run, spawns, faults>>

-----------------------------------------------------------------------------
(* Requests up to finish                                                   *)

\* The peer of a request that process p makes, directly or through a helper.
PeerOf(p, via) == [pid |-> p.pid, uid |-> p.uid, start |-> p.start, via |-> via]

\* SO_PEERCRED alone decides who is served.
Permitted(peer) == peer.uid = ServingUid

\* The processes the kernel's view of the peer leads to: a direct peer is
\* whatever process now has its pid; a helper leads to the very process that
\* started it, or, once that exited, to the subreaper that adopted it.
LeadsTo(peer) ==
  {p \in procs : p.pid = peer.pid /\ (peer.via = "helper" => p.start = peer.start)}
  \cup {p \in procs :
          /\ peer.via = "helper" /\ p.pid \in Subreaper
          /\ \A o \in procs : o.pid = peer.pid => o.start # peer.start}

\* Broken form: the uid of the process now at the pid is not compared.
BindRuntime_AnyUid(peer) == LeadsTo(peer)

\* What bindRuntime may return as the process table stands.  The walk itself,
\* and what its second pass makes of the instant, is module RuntimeBinding.
BindRuntime(peer) == {p \in LeadsTo(peer) : p.uid = peer.uid}

\* Definitions.Load reads the file at each request; there is no cache.
Known(def) == def \in DOMAIN defs

AdmitSession(h, p, via, def) ==
  /\ req[h] = Idle
  /\ Permitted(PeerOf(p, via))
  /\ req' = [req EXCEPT ![h] =
       [pc |-> "session", now |-> clock, peer |-> PeerOf(p, via), def |-> def]]
  /\ UNCHANGED <<world, key, registry, dirs, drawn, assertions, answered,
                 leaked, reaper, run, faults>>

SessionGrantable(q) ==
  /\ BindRuntime(q.peer) # {}
  /\ q.def = NoDef \/ Known(q.def)

\* IssueSession after admission: bind, then the roles of the definition named,
\* or the runtime roles.
GrantSession(h) ==
  /\ req[h].pc = "session"
  /\ SessionGrantable(req[h])
  /\ \E p \in BindRuntime(req[h].peer) :
       req' = [req EXCEPT ![h] =
         [pc |-> "create", now |-> req[h].now,
          draft |-> [sid |-> NoJti, parent |-> NoJti,
                     roles |-> IF req[h].def = NoDef THEN RuntimeRoles
                                                     ELSE defs[req[h].def],
                     exp |-> req[h].now + SessionTTL,
                     bound |-> p]]]
  /\ UNCHANGED <<world, key, registry, dirs, drawn, assertions, answered,
                 leaked, reaper, run, faults>>

\* One clock sample serves the parent's expiry check and the child's iat; the
\* parent token must verify against the key this process loaded.
AdmitChild(h, p, via, def, parent) ==
  /\ req[h] = Idle
  /\ Permitted(PeerOf(p, via))
  /\ parent.key = key
  /\ parent.exp > clock
  /\ req' = [req EXCEPT ![h] =
       [pc |-> "child", now |-> clock, peer |-> PeerOf(p, via), def |-> def,
        parent |-> parent]]
  /\ UNCHANGED <<world, key, registry, dirs, drawn, assertions, answered,
                 leaked, reaper, run, faults>>

\* Broken form: any entry of the uid vouches for the parent.
EntryFor_AnyOfUid(q) == {e \in registry : e.bound.uid = q.peer.uid}

\* The registry entry of the parent token that this peer's uid may use.
EntryFor(q) ==
  {e \in registry : e.jti = q.parent.jti /\ e.bound.uid = q.peer.uid}

LookupParent(h) ==
  /\ req[h].pc = "child"
  /\ \E e \in EntryFor(req[h]) :
       req' = [req EXCEPT ![h] =
         [pc |-> "found", now |-> req[h].now, peer |-> req[h].peer,
          def |-> req[h].def, parent |-> req[h].parent, entry |-> e]]
  /\ UNCHANGED <<world, key, registry, dirs, drawn, assertions, answered,
                 leaked, reaper, run, faults>>

\* Broken form: a pid and an executable are taken for a process.
SameRuntime_NoStart(p, e) == p.pid = e.bound.pid /\ p.exe = e.bound.exe

\* The runtime above the peer must be the process the parent token went to.
SameRuntime(p, e) ==
  /\ p.pid = e.bound.pid
  /\ p.start = e.bound.start
  /\ p.exe = e.bound.exe

ChildRuntimes(q) == {p \in BindRuntime(q.peer) : SameRuntime(p, q.entry)}

\* Broken form: the parent's roles do not bound the child's.
ChildRoles_NoParent(q) == defs[q.def] \cap Delegable

\* Broken form: any role of the parent may be delegated.
ChildRoles_NoPolicy(q) == defs[q.def] \cap q.parent.roles

\* Delegation never widens.
ChildRoles(q) ==
  defs[q.def] \cap Delegable \cap q.parent.roles

\* Broken form: every assertion gets the full lifetime.
ChildExpiry_Unclamped(q) == q.now + SessionTTL

ChildExpiry(q) == Earlier(q.parent.exp, q.now + SessionTTL)

ChildGrantable(q) ==
  /\ ChildRuntimes(q) # {}
  /\ Known(q.def)
  /\ q.now < ChildExpiry(q)

GrantChild(h) ==
  /\ req[h].pc = "found"
  /\ ChildGrantable(req[h])
  /\ \E p \in ChildRuntimes(req[h]) :
       req' = [req EXCEPT ![h] =
         [pc |-> "create", now |-> req[h].now,
          draft |-> [sid |-> req[h].parent.sid, parent |-> req[h].parent.jti,
                     roles |-> ChildRoles(req[h]),
                     exp |-> ChildExpiry(req[h]),
                     bound |-> p]]]
  /\ UNCHANGED <<world, key, registry, dirs, drawn, assertions, answered,
                 leaked, reaper, run, faults>>

\* Every refusal after admission: nothing was created, nothing is recorded.
Refuse(h) ==
  /\ \/ req[h].pc = "session" /\ ~SessionGrantable(req[h])
     \/ req[h].pc = "child" /\ EntryFor(req[h]) = {}
     \/ req[h].pc = "found" /\ ~ChildGrantable(req[h])
  /\ req' = [req EXCEPT ![h] = Idle]
  /\ UNCHANGED <<world, key, registry, dirs, drawn, assertions, answered,
                 leaked, reaper, run, faults>>

-----------------------------------------------------------------------------
(* finish: directory, signature, publication, registry                     *)

\* The claims as signed, once their ids are drawn.
Sign(d, j, now) ==
  [jti |-> j,
   sid |-> IF d.sid = NoJti THEN j ELSE d.sid,
   parent |-> IF d.parent = NoJti THEN j ELSE d.parent,
   roles |-> d.roles, iat |-> now, exp |-> d.exp,
   key |-> key, run |-> run, bound |-> d.bound]

\* mkdir; the name carries the request's clock sample, not the time of the call.
CreateDir(h, j) ==
  /\ req[h].pc = "create"
  /\ j \notin drawn
  /\ drawn' = drawn \cup {j}
  /\ dirs' = dirs \cup
       {[name |-> j, created |-> req[h].now, jwt |-> FALSE, tmp |-> FALSE]}
  /\ req' = [req EXCEPT ![h] =
       [pc |-> "publish", now |-> req[h].now,
        tok |-> Sign(req[h].draft, j, req[h].now)]]
  /\ UNCHANGED <<world, key, registry, assertions, answered, leaked, reaper,
                 run, faults>>

CreateFails(h) ==
  /\ req[h].pc = "create"
  /\ faults < MaxFaults
  /\ faults' = faults + 1
  /\ req' = [req EXCEPT ![h] = Idle]
  /\ UNCHANGED <<world, key, registry, dirs, drawn, assertions, answered,
                 leaked, reaper, run>>

\* identity.jwt is linked into the directory: the assertion can be read.
PublishToken(h) ==
  /\ req[h].pc = "publish"
  /\ \E d \in DirNamed(req[h].tok.jti) :
       dirs' = (dirs \ {d}) \cup {[d EXCEPT !.jwt = TRUE]}
  /\ assertions' = assertions \cup {req[h].tok}
  /\ req' = [req EXCEPT ![h] =
       [pc |-> "tmp", now |-> req[h].now, tok |-> req[h].tok]]
  /\ UNCHANGED <<world, key, registry, drawn, answered, leaked, reaper, run,
                 faults>>

\* tmp/ is made and the directory flushed.
PublishTmp(h) ==
  /\ req[h].pc = "tmp"
  /\ \E d \in DirNamed(req[h].tok.jti) :
       dirs' = (dirs \ {d}) \cup {[d EXCEPT !.tmp = TRUE]}
  /\ req' = [req EXCEPT ![h] =
       [pc |-> "record", now |-> req[h].now, tok |-> req[h].tok]]
  /\ UNCHANGED <<world, key, registry, drawn, assertions, answered, leaked,
                 reaper, run, faults>>

\* Broken form: the error is returned without a Discard.
PublishFails_NoDiscard(h) ==
  /\ req[h].pc \in {"publish", "tmp"}
  /\ \/ DirNamed(req[h].tok.jti) = {} /\ UNCHANGED faults
     \/ faults < MaxFaults /\ faults' = faults + 1
  /\ req' = [req EXCEPT ![h] = Idle]
  /\ UNCHANGED <<world, key, registry, dirs, drawn, assertions, answered,
                 leaked, reaper, run>>

\* Publishing fails, because the directory is gone or by an I/O fault: the
\* directory is discarded (ENOENT is ignored) and nothing is registered.
PublishFails(h) ==
  /\ req[h].pc \in {"publish", "tmp"}
  /\ \/ DirNamed(req[h].tok.jti) = {} /\ UNCHANGED faults
     \/ faults < MaxFaults /\ faults' = faults + 1
  /\ dirs' = dirs \ DirNamed(req[h].tok.jti)
  /\ req' = [req EXCEPT ![h] = Idle]
  /\ UNCHANGED <<world, key, registry, drawn, assertions, answered, leaked,
                 reaper, run>>

\* As above, and the Discard fails too: its error is dropped.
DiscardFails(h) ==
  /\ req[h].pc \in {"publish", "tmp"}
  /\ DirNamed(req[h].tok.jti) # {}
  /\ faults + 1 < MaxFaults
  /\ faults' = faults + 2
  /\ leaked' = leaked \cup {req[h].tok.jti}
  /\ req' = [req EXCEPT ![h] = Idle]
  /\ UNCHANGED <<world, key, registry, dirs, drawn, assertions, answered,
                 reaper, run>>

\* Broken form: a runtime has one entry, its latest.
Put_OnePerRuntime(e, now) ==
  {f \in registry : f.exp > now /\ f.bound # e.bound} \cup {e}

\* Registry.put: entries expired at the caller's now are swept first.
Put(e, now) == {f \in registry : f.exp > now} \cup {e}

\* Recorded against the bound runtime, and answered.
Record(h) ==
  /\ req[h].pc = "record"
  /\ LET t == req[h].tok
     IN /\ registry' = Put([jti |-> t.jti, bound |-> t.bound, exp |-> t.exp],
                           req[h].now)
        /\ answered' = answered \cup {t.jti}
  /\ req' = [req EXCEPT ![h] = Idle]
  /\ UNCHANGED <<world, key, dirs, drawn, assertions, leaked, reaper, run,
                 faults>>

-----------------------------------------------------------------------------
(* The reaper, and restarts                                                *)

\* Broken form: what the registry does not know is stale.
Stale_Unregistered(now) ==
  {d.name : d \in {e \in dirs : \A f \in registry : f.jti # e.name}}

\* Broken form: only completed deliveries are aged.
Stale_Complete(now) ==
  {d.name : d \in {e \in dirs : e.tmp /\ now - e.created > MaxAge}}

\* One sweep samples the clock and lists the spawn root.  Entries not older
\* than MaxAge by the time in their name are passed over.
Stale(now) == {d.name : d \in {e \in dirs : now - e.created > MaxAge}}

ReapStart ==
  /\ reaper = {}
  /\ reaper' = Stale(clock)
  /\ UNCHANGED <<world, key, req, registry, dirs, drawn, assertions, answered,
                 leaked, run, faults>>

\* A vanished entry is skipped; a failed removal leaves the entry to the next
\* sweep and does not stop this one.
ReapDir(j) ==
  /\ j \in reaper
  /\ reaper' = reaper \ {j}
  /\ \/ /\ dirs' = dirs \ DirNamed(j)
        /\ UNCHANGED faults
     \/ /\ faults < MaxFaults
        /\ faults' = faults + 1
        /\ UNCHANGED dirs
  /\ UNCHANGED <<world, key, req, registry, drawn, assertions, answered,
                 leaked, run>>

\* The ids of the directories requests in flight have made.
InFlight == {req[h].tok.jti : h \in {g \in Handler : req[g].pc \in Finishing}}

\* Broken form: the registry is persisted across a restart.
Restart_Persistent(k) ==
  /\ run < MaxRestarts
  /\ run' = run + 1
  /\ key' = k
  /\ reaper' = {}
  /\ req' = [h \in Handler |-> Idle]
  /\ leaked' = leaked \cup InFlight
  /\ UNCHANGED <<world, registry, dirs, drawn, assertions, answered, faults>>

\* A crash, or a stop (Serve returns without waiting for its handlers), and the
\* next start, perhaps with another signing key.  The registry is memory only.
Restart(k) ==
  /\ run < MaxRestarts
  /\ run' = run + 1
  /\ key' = k
  /\ registry' = {}
  /\ reaper' = {}
  /\ req' = [h \in Handler |-> Idle]
  /\ leaked' = leaked \cup InFlight
  /\ UNCHANGED <<world, dirs, drawn, assertions, answered, faults>>

-----------------------------------------------------------------------------
Init ==
  /\ clock = 0
  /\ \E f \in [Pid -> Exe \X Uid] :
       procs = {[pid |-> p, uid |-> f[p][2], start |-> 0, exe |-> f[p][1]] :
                  p \in Pid}
  /\ defs \in [Def -> SUBSET Role]
  /\ key \in Key
  /\ req = [h \in Handler |-> Idle]
  /\ registry = {} /\ dirs = {} /\ drawn = {} /\ assertions = {}
  /\ answered = {} /\ leaked = {} /\ reaper = {}
  /\ run = 0 /\ spawns = 0 /\ edits = 0 /\ faults = 0

Host ==
  \/ Tick
  \/ \E pid \in Pid, uid \in Uid, exe \in Exe : Spawn(pid, uid, exe)
  \/ \E p \in procs : Exit(p)
  \/ \E p \in procs, exe \in Exe : Exec(p, exe)
  \/ \E names \in SUBSET Def : EditDefinitions(names)

Serve(h) ==
  \/ GrantSession(h) \/ LookupParent(h) \/ GrantChild(h) \/ Refuse(h)
  \/ \E j \in Jti : CreateDir(h, j)
  \/ PublishToken(h) \/ PublishTmp(h) \/ Record(h)

Fault(h) == CreateFails(h) \/ PublishFails(h) \/ DiscardFails(h)

Admit(h) ==
  \E p \in procs, via \in Via :
    \/ \E def \in Def \cup {NoDef} : AdmitSession(h, p, via, def)
    \/ \E def \in Def, a \in assertions : AdmitChild(h, p, via, def, a)

Reap == ReapStart \/ \E j \in Jti : ReapDir(j)

Next ==
  \/ Host
  \/ \E h \in Handler : Admit(h) \/ Serve(h) \/ Fault(h)
  \/ Reap
  \/ \E k \in Key : Restart(k)

Spec == Init /\ [][Next]_vars

\* Requests are handled, the reaper's ticker fires and time passes; faults are
\* bounded.  Clients, restarts and the host owe nothing.
Fairness ==
  /\ WF_vars(Tick)
  /\ \A h \in Handler : WF_vars(Serve(h)) /\ WF_vars(PublishFails(h))
  /\ WF_vars(ReapStart)
  /\ \A j \in Jti : WF_vars(ReapDir(j))

FairSpec == Spec /\ Fairness

-----------------------------------------------------------------------------
(* Properties                                                              *)

\* Every variable has its type; one process per pid.
TypeOK ==
  /\ clock \in Nat
  /\ procs \subseteq Process
  /\ DOMAIN defs \subseteq Def /\ defs \in [DOMAIN defs -> SUBSET Role]
  /\ key \in Key
  /\ req \in [Handler -> Request]
  /\ registry \subseteq IssuedTo
  /\ dirs \subseteq Directory
  /\ drawn \subseteq Jti
  /\ assertions \subseteq Assertion
  /\ answered \subseteq Jti
  /\ leaked \subseteq Jti
  /\ reaper \subseteq Jti
  /\ run \in Nat /\ spawns \in Nat /\ edits \in Nat /\ faults \in Nat

\* Delegation never widens: through any chain of issue-child, with definition
\* files edited in between, no assertion of a session holds a role, or outlives,
\* the assertion the session began with (IssueChild's narrowing and exp clamp).
SessionCeiling ==
  \A a \in assertions : \E root \in assertions :
    /\ root.jti = a.sid
    /\ root.sid = root.jti
    /\ a.roles \subseteq root.roles
    /\ a.exp <= root.exp

\* Every child was cut from a parent of its session that was unexpired at the
\* child's iat, that it cannot outlive and whose roles bound its own, and holds
\* only what delegable_roles lets out, an empty list letting out nothing.
ChildWithinParent ==
  \A a \in assertions : a.parent # a.jti =>
    \E p \in assertions :
      /\ p.jti = a.parent
      /\ p.sid = a.sid
      /\ a.iat < p.exp
      /\ a.exp <= p.exp
      /\ a.roles \subseteq p.roles
      /\ Restricted => a.roles \subseteq DelegableRoles

\* A session stays with the one process incarnation and executable it was
\* issued to, the one run of the issuer that issued it and that run's key,
\* whatever exits, pid reuse, execs, restarts and key changes fall between an
\* issue-child's checks (registry.go: the binding never outlives the process).
SessionPinned ==
  \A a, b \in assertions : a.sid = b.sid =>
    a.bound = b.bound /\ a.run = b.run /\ a.key = b.key

\* Only processes of the serving uid are ever bound, also when a foreign
\* process takes over the pid of a peer that exited between the accept, where
\* its uid was attested, and the read of /proc.
OnlyServingUid == \A a \in assertions : a.bound.uid = ServingUid

\* A client is never left with an answer it cannot use: the delivery directory
\* of an answered, unexpired assertion is there, complete, however stale the
\* clock sample the directory was named from and whenever the sweeps ran.
AnsweredIsDelivered ==
  \A a \in assertions : (a.jti \in answered /\ clock < a.exp) =>
    \E d \in dirs : d.name = a.jti /\ d.jwt /\ d.tmp

\* A request that is refused or fails leaves no directory: one is either in
\* use by a request in flight, answered for, or accounted to a crash or to a
\* Discard that failed (finish's error path).
NoOrphanDirectory ==
  \A d \in dirs : d.name \in InFlight \cup answered \cup leaked

\* A registered assertion is one that was signed by this run for exactly that
\* process and expiry: issue-child never consults an entry of another.
RegistryTruthful ==
  \A e \in registry : \E a \in assertions :
    /\ a.jti = e.jti
    /\ a.bound = e.bound
    /\ a.exp = e.exp
    /\ a.run = run
    /\ a.key = key

\* Registry.put sweeps with the clock sample of whichever request reaches it,
\* out of order; it never drops an assertion that is still unexpired.
RegistryKeepsLive ==
  [][\A e \in registry :
       e \notin registry' => (e.exp <= clock \/ run' # run)]_vars

\* Every directory that is old enough while the issuer has time to run is
\* removed in the end, whether answered, leaked by a crash or by a failed
\* Discard, and although single removals fail.
StaleDirsReaped ==
  \A j \in Jti :
    (\E d \in dirs : d.name = j /\ d.created + MaxAge < MaxClock)
      ~> (\A d \in dirs : d.name # j)

-----------------------------------------------------------------------------
(* The inductive invariant behind SessionCeiling, ChildWithinParent,       *)
(* SessionPinned and RegistryTruthful                                      *)

\* What entitles claims to descend from assertion p.
CutFrom(sid, parent, roles, exp, now, bound, p) ==
  /\ p.jti = parent
  /\ p.sid = sid
  /\ now < p.exp
  /\ exp <= p.exp
  /\ roles \subseteq p.roles
  /\ roles \subseteq Delegable
  /\ p.bound = bound
  /\ p.run = run
  /\ p.key = key

DraftEntitled(q) ==
  \/ q.draft.sid = NoJti /\ q.draft.parent = NoJti
  \/ /\ q.draft.sid # NoJti /\ q.draft.parent # NoJti
     /\ \E p \in assertions :
          CutFrom(q.draft.sid, q.draft.parent, q.draft.roles, q.draft.exp,
                  q.now, q.draft.bound, p)

TokEntitled(t) ==
  /\ t.run = run /\ t.key = key
  /\ \/ t.sid = t.jti /\ t.parent = t.jti
     \/ \E p \in assertions :
          CutFrom(t.sid, t.parent, t.roles, t.exp, t.iat, t.bound, p)

\* The assertion an entry or a request was made from is one of this run.
Truthful(jti, bound, exp) ==
  \E a \in assertions : /\ a.jti = jti /\ a.bound = bound /\ a.exp = exp
                        /\ a.run = run /\ a.key = key

\* What each phase of a request has established.
PhaseInv(q) ==
  /\ q.pc \in {"child", "found"} =>
       q.parent \in assertions /\ q.parent.key = key /\ q.now < q.parent.exp
  /\ q.pc = "found" =>
       /\ q.entry.jti = q.parent.jti
       /\ Truthful(q.entry.jti, q.entry.bound, q.entry.exp)
       /\ q.entry.bound.uid = q.peer.uid
  /\ q.pc = "create" => DraftEntitled(q)
  /\ q.pc \in Finishing => q.tok.jti \in drawn /\ TokEntitled(q.tok)
  /\ q.pc = "publish" =>
       \A a \in assertions : a.jti # q.tok.jti /\ a.sid # q.tok.jti
  /\ q.pc \in {"tmp", "record"} => q.tok \in assertions

\* Ids name one thing each.
IdsUnique ==
  /\ \A a \in assertions : a.jti \in drawn /\ a.sid \in drawn
  /\ \A a, b \in assertions : a.jti = b.jti => a = b
  /\ \A g, h \in Handler :
       (g # h /\ req[g].pc \in Finishing /\ req[h].pc \in Finishing)
         => req[g].tok.jti # req[h].tok.jti

Core ==
  /\ IdsUnique
  /\ \A h \in Handler : PhaseInv(req[h])
  /\ SessionCeiling
  /\ ChildWithinParent
  /\ SessionPinned
  /\ RegistryTruthful

\* Nothing expired or beyond the cap is ever on its way to be issued.
Timely ==
  \A h \in Handler : LET q == req[h] IN
    /\ q.pc = "create" =>
         q.now < q.draft.exp /\ q.draft.exp <= q.now + MaxLifetime
    /\ q.pc \in Finishing =>
         q.tok.iat < q.tok.exp /\ q.tok.exp <= q.tok.iat + MaxLifetime

IInv == TypeOK /\ Core /\ Timely

-----------------------------------------------------------------------------
(* What is promised of the assertions alone                                *)

Promised == INSTANCE Authority WITH issued <- assertions

\* Concurrent handlers, the registry, the process table, the reaper and crashes
\* together do no more than the abstract authority: every step adds at most one
\* assertion, that begins a session or lies within a parent of the same run, key
\* and process, and no assertion is ever changed (IssueSession, IssueChild).
KeepsThePromise == Promised!Spec
=============================================================================
