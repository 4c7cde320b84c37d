----------------------------- MODULE HookAdapter -----------------------------
(***************************************************************************)
(* The Claude Code adapter (internal/hook): one short-lived process per    *)
(* hook event, all of them working on one state store of record files and  *)
(* on the delivery directories the issuer makes for them.                  *)
(*                                                                         *)
(* The runtime starts hooks concurrently, gives each a timeout and kills   *)
(* it when that passes.  A hook takes one step per access to the store, to *)
(* a delivery directory or to the issuer; whatever it holds is its own     *)
(* memory and is gone when it ends or is killed.  The adapter runs in      *)
(* enforce mode, for commands that need an identity and carry none.        *)
(*                                                                         *)
(* The session token is read from its directory in the step that reads its *)
(* record: the directory goes only when its assertion has expired, and the *)
(* issuer then refuses the token.                                          *)
(***************************************************************************)
EXTENDS Integers, Sequences

CONSTANTS
  Hook,            \* hook processes that can run at once
  Session, Agent,  \* runtime sessions and the agent ids of their subagents
  NoAgent,         \* a payload without an agent_id: the session's own call
  Type, NoType,    \* agent_type values, and a payload without one
  Plain,           \* the types that are safe file names (safeName)
  TTL,             \* lifetime of an assertion
  RefreshBelow,    \* --refresh-below
  PruneAfter,      \* pruneAfter: how long an untouched session is kept
  ReapAfter        \* maxAge of the issuer's reaper

CONSTANTS          \* bounds of the instance, not of the program
  MaxClock, MaxDirs, MaxFaults

ASSUME NamesAssumption ==
  /\ NoAgent \notin Agent /\ NoType \notin Type /\ Plain \subseteq Type
  /\ Session # {}
\* An assertion lives at most twelve hours; the reaper waits a day, Prune two.
ASSUME TimesAssumption ==
  /\ TTL \in Nat \ {0} /\ RefreshBelow \in Nat
  /\ ReapAfter \in Nat /\ TTL <= ReapAfter
  /\ PruneAfter \in Nat /\ TTL <= PruneAfter
ASSUME BoundAssumption == MaxClock \in Nat /\ MaxDirs \in Nat /\ MaxFaults \in Nat

VARIABLES
  clock,
  sess,       \* session.json of each session
  agts,       \* agent-<id>.json of each session and agent
  touched,    \* mtime of each session's state directory, or Absent
  dirs,       \* the delivery directories there are
  grants,     \* what each directory was issued for; they are numbered in order
  hook,       \* the running hooks
  delivered,  \* history: directories exported to commands of agents
  stopped,    \* history: directories whose subagent-stop ran to its end
  dropped,    \* history: directories whose record was deleted or pruned
  lost,       \* history: directories whose cleaner died, failed or missed them
  faults      \* how much of MaxFaults is used

store == <<sess, agts, touched>>
disk == <<dirs, grants>>
history == <<delivered, stopped, dropped, lost>>
vars == <<clock, store, disk, hook, history, faults>>

-----------------------------------------------------------------------------
(* Data                                                                    *)

Dir == 1 .. MaxDirs
NoDir == 0
Absent == -1

\* Record: Dir, ExpiresAt, Definition, StartAgentType.
Record == [dir: Dir \cup {NoDir}, exp: Nat, def: Type \cup {NoType},
           start: Type \cup {NoType}]

NoRec == [dir |-> NoDir, exp |-> 0, def |-> NoType, start |-> NoType]

Grant == [s: Session, a: Agent \cup {NoAgent}, def: Type \cup {NoType},
          made: Nat, exp: Nat]

Pcs == {"idle", "prune", "issue", "put", "prompt", "renew", "agent", "parent",
        "child", "putnew", "yield", "discard", "winner", "session", "deliver",
        "stop", "delete", "remove"}

\* A hook: its payload, whether a command waits for its reply, the record it
\* holds, the sessions Prune has still to look at and the one it found old, and
\* for a command what had been stopped before it began.
Process == [pc: Pcs, s: Session, a: Agent \cup {NoAgent}, type: Type \cup {NoType},
            bash: BOOLEAN, rec: Record, todo: SUBSET Session,
            doomed: SUBSET Session, old: SUBSET Dir]

Idle == [pc |-> "idle", s |-> CHOOSE s \in Session : TRUE, a |-> NoAgent,
         type |-> NoType, bash |-> FALSE, rec |-> NoRec, todo |-> {},
         doomed |-> {}, old |-> {}]

\* The definition a session-start asks for: its type, if that is a safe name.
DefinitionFor(type) == IF type \in Plain THEN type ELSE NoType

At(h, pc) == hook[h].pc = pc
Goto(h, pc) == hook' = [hook EXCEPT ![h].pc = pc]
Hold(h, pc, r) == hook' = [hook EXCEPT ![h].pc = pc, ![h].rec = r]
Done(h) == hook' = [hook EXCEPT ![h] = Idle]

\* Every access to the store makes the session's directory if there is none
\* (recordPath); one that changes an entry also touches it.
Opens(s) == touched' = [touched EXCEPT ![s] = IF @ = Absent THEN clock ELSE @]
Touches(s) == touched' = [touched EXCEPT ![s] = clock]

\* A child directory the hook alone answers for.
Holding(h) ==
  IF hook[h].pc \in {"putnew", "yield", "discard", "remove"}
    THEN {hook[h].rec.dir} ELSE {}

\* The issuer makes a directory holding an assertion for agent a of session s.
Issues(s, a, def, exp) ==
  /\ Len(grants) < MaxDirs
  /\ dirs' = dirs \cup {Len(grants) + 1}
  /\ grants' = Append(grants, [s |-> s, a |-> a, def |-> def, made |-> clock, exp |-> exp])

-----------------------------------------------------------------------------
(* Events                                                                  *)

Begin(h, pc, s, a, type, bash, todo) ==
  /\ hook[h] = Idle
  /\ hook' = [hook EXCEPT ![h] =
       [pc |-> pc, s |-> s, a |-> a, type |-> type, bash |-> bash, rec |-> NoRec,
        todo |-> todo, doomed |-> {}, old |-> IF bash THEN stopped ELSE {}]]
  /\ UNCHANGED <<clock, store, disk, history, faults>>

SessionStart(h, s, type) == Begin(h, "prune", s, NoAgent, type, FALSE, Session)
UserPromptSubmit(h, s) ==
  RefreshBelow > 0 /\ Begin(h, "prompt", s, NoAgent, NoType, FALSE, {})
SubagentStart(h, s, a, type) == Begin(h, "agent", s, a, type, FALSE, {})
SubagentStop(h, s, a) == Begin(h, "stop", s, a, NoType, FALSE, {})

\* A command is an agent's exactly when its payload carries an agent_id.
PreToolUseBash(h, s, a, type) ==
  Begin(h, IF a = NoAgent THEN "session" ELSE "agent", s, a, type, TRUE, {})

Event(h) ==
  \E s \in Session, type \in Type \cup {NoType} :
    \/ SessionStart(h, s, type)
    \/ UserPromptSubmit(h, s)
    \/ \E a \in Agent : SubagentStart(h, s, a, type) \/ SubagentStop(h, s, a)
    \/ \E a \in Agent \cup {NoAgent} : PreToolUseBash(h, s, a, type)

-----------------------------------------------------------------------------
(* session-start: prune, issue, store                                      *)

\* Prune stats one session's directory: young enough, or to be removed.
PruneLooks(h, x) ==
  /\ At(h, "prune") /\ hook[h].doomed = {}
  /\ x \in hook[h].todo
  /\ hook' = [hook EXCEPT ![h].todo = @ \ {x},
       ![h].doomed = IF touched[x] # Absent /\ clock - touched[x] > PruneAfter
                       THEN {x} ELSE {}]
  /\ UNCHANGED <<clock, store, disk, history, faults>>

\* Records that leave the store with session x.
RecordedIn(x) ==
  {agts[x][a].dir : a \in Agent} \ {NoDir}

PruneRemoves(h, x) ==
  /\ At(h, "prune") /\ x \in hook[h].doomed
  /\ sess' = [sess EXCEPT ![x] = NoRec]
  /\ agts' = [agts EXCEPT ![x] = [a \in Agent |-> NoRec]]
  /\ dropped' = dropped \cup RecordedIn(x)
  /\ lost' = lost \cup RecordedIn(x)
  /\ touched' = [touched EXCEPT ![x] = Absent]
  /\ hook' = [hook EXCEPT ![h].doomed = {}]
  /\ UNCHANGED <<clock, disk, delivered, stopped, faults>>

IssueSession(h) ==
  LET p == hook[h]
      new == [dir |-> Len(grants) + 1, exp |-> clock + TTL,
              def |-> DefinitionFor(p.type), start |-> p.type]
  IN  /\ At(h, "prune") /\ p.todo = {} /\ p.doomed = {}
      /\ Issues(p.s, NoAgent, new.def, new.exp)
      /\ Hold(h, "put", new)
      /\ UNCHANGED <<clock, store, history, faults>>

\* Broken form: a refresh that updates the fields it renewed in whatever record
\* is there by then.
PutSession_Merge(h) ==
  LET p == hook[h]
  IN  /\ At(h, "put")
      /\ sess' = [sess EXCEPT ![p.s] =
           IF @ = NoRec THEN p.rec ELSE [@ EXCEPT !.dir = p.rec.dir, !.exp = p.rec.exp]]
      /\ Touches(p.s)
      /\ Done(h)
      /\ UNCHANGED <<clock, agts, disk, history, faults>>

\* Store.Put replaces the whole record, by a rename.
PutSession(h) ==
  LET p == hook[h]
  IN  /\ At(h, "put")
      /\ sess' = [sess EXCEPT ![p.s] = p.rec]
      /\ Touches(p.s)
      /\ Done(h)
      /\ UNCHANGED <<clock, agts, disk, history, faults>>

-----------------------------------------------------------------------------
(* user-prompt-submit: read the session's record, renew what runs out       *)

PromptReads(h) ==
  LET p == hook[h]  r == sess[p.s]
  IN  /\ At(h, "prompt")
      /\ IF r = NoRec \/ r.exp - clock > RefreshBelow
           THEN Done(h) ELSE Hold(h, "renew", r)
      /\ Opens(p.s) /\ UNCHANGED <<clock, sess, agts, disk, history, faults>>

RenewSession(h) ==
  LET p == hook[h]
      new == [p.rec EXCEPT !.dir = Len(grants) + 1, !.exp = clock + TTL]
  IN  /\ At(h, "renew")
      /\ Issues(p.s, NoAgent, p.rec.def, new.exp)
      /\ Hold(h, "put", new)
      /\ UNCHANGED <<clock, store, history, faults>>

-----------------------------------------------------------------------------
(* ensureAgent, for subagent-start and for an agent's command              *)

\* What a hook does with the record of its agent: hand it to a waiting command.
Answer(h, r) == IF hook[h].bash THEN Hold(h, "deliver", r) ELSE Done(h)

AgentReads(h) ==
  LET p == hook[h]  r == agts[p.s][p.a]
  IN  /\ At(h, "agent")
      /\ \/ r # NoRec /\ Answer(h, r)
         \/ r = NoRec /\ p.type \in Plain /\ Goto(h, "parent")
         \/ r = NoRec /\ p.type \notin Plain /\ Done(h)
      /\ Opens(p.s) /\ UNCHANGED <<clock, sess, agts, disk, history, faults>>

ParentReads(h) ==
  LET r == sess[hook[h].s]
  IN  /\ At(h, "parent")
      /\ IF r.dir \in dirs THEN Hold(h, "child", r) ELSE Done(h)
      /\ Opens(hook[h].s) /\ UNCHANGED <<clock, sess, agts, disk, history, faults>>

\* The issuer clamps a child to its parent and refuses an expired parent.
IssueChild(h) ==
  LET p == hook[h]
      limit == grants[p.rec.dir].exp
      exp == IF limit < clock + TTL THEN limit ELSE clock + TTL
  IN  /\ At(h, "child")
      /\ IF limit > clock
           THEN /\ Issues(p.s, p.a, p.type, exp)
                /\ Hold(h, "putnew", [NoRec EXCEPT !.dir = Len(grants) + 1, !.exp = exp])
           ELSE Done(h) /\ UNCHANGED disk
      /\ UNCHANGED <<clock, store, history, faults>>

\* Broken form: a rename where the link is, so that the last racer wins.
PutNew_Replaces(h) ==
  LET p == hook[h]
  IN  /\ At(h, "putnew")
      /\ agts' = [agts EXCEPT ![p.s][p.a] = p.rec] /\ Answer(h, p.rec)
      /\ Touches(p.s)
      /\ UNCHANGED <<clock, sess, disk, history, faults>>

\* Store.PutNew links the record in: of several hooks one creates the name.
PutNew(h) ==
  LET p == hook[h]
  IN  /\ At(h, "putnew")
      /\ IF agts[p.s][p.a] = NoRec
           THEN agts' = [agts EXCEPT ![p.s][p.a] = p.rec] /\ Answer(h, p.rec)
           ELSE agts' = agts /\ Goto(h, "yield")
      /\ Touches(p.s)
      /\ UNCHANGED <<clock, sess, disk, history, faults>>

\* Broken form: the loser leaves its directory behind.
Yield_Keeps(h) ==
  /\ At(h, "yield")
  /\ Hold(h, "winner", NoRec)
  /\ UNCHANGED <<clock, store, disk, history, faults>>

\* The loser removes the directory it was issued and uses the winner's.
Yield(h) ==
  /\ At(h, "yield")
  /\ dirs' = dirs \ {hook[h].rec.dir}
  /\ Hold(h, "winner", NoRec)
  /\ UNCHANGED <<clock, store, grants, history, faults>>

\* A store that failed leaves nobody to use the directory.
Discard(h) ==
  /\ At(h, "discard")
  /\ dirs' = dirs \ {hook[h].rec.dir}
  /\ Done(h)
  /\ UNCHANGED <<clock, store, grants, history, faults>>

WinnerReads(h) ==
  LET p == hook[h]  r == agts[p.s][p.a]
  IN  /\ At(h, "winner")
      /\ IF r = NoRec THEN Done(h) ELSE Answer(h, r)
      /\ Opens(p.s) /\ UNCHANGED <<clock, sess, agts, disk, history, faults>>

-----------------------------------------------------------------------------
(* pre-tool-use-bash                                                       *)

\* Broken form: the claimed type is not compared.
OwnType_Any(type, r) == r \in Record

\* An agentless call may claim no type, or the one its session started with.
OwnType(type, r) == type = NoType \/ type = r.start

SessionReads(h) ==
  LET p == hook[h]  r == sess[p.s]
  IN  /\ At(h, "session")
      /\ IF r # NoRec /\ OwnType(p.type, r) THEN Hold(h, "deliver", r) ELSE Done(h)
      /\ Opens(p.s) /\ UNCHANGED <<clock, sess, agts, disk, history, faults>>

\* The statement goes in front of the command unless the assertion has expired
\* or its directory is gone.
Delivers(h) ==
  At(h, "deliver") /\ hook[h].rec.exp > clock /\ hook[h].rec.dir \in dirs

Deliver(h) ==
  /\ At(h, "deliver")
  /\ delivered' = delivered \cup
       {d \in {hook[h].rec.dir} : Delivers(h) /\ hook[h].a # NoAgent}
  /\ Done(h)
  /\ UNCHANGED <<clock, store, disk, stopped, dropped, lost, faults>>

-----------------------------------------------------------------------------
(* subagent-stop: the record goes first, then the directory it named       *)

\* Broken form: the directory goes and the record stays.
StopReads_KeepsRecord(h) ==
  LET p == hook[h]  r == agts[p.s][p.a]
  IN  /\ At(h, "stop")
      /\ IF r = NoRec THEN Done(h) ELSE Hold(h, "remove", r)
      /\ Opens(p.s) /\ UNCHANGED <<clock, sess, agts, disk, history, faults>>

StopReads(h) ==
  LET p == hook[h]  r == agts[p.s][p.a]
  IN  /\ At(h, "stop")
      /\ IF r = NoRec THEN Done(h) ELSE Hold(h, "delete", r)
      /\ Opens(p.s) /\ UNCHANGED <<clock, sess, agts, disk, history, faults>>

\* Store.Delete removes the file by name, whatever it holds by then.
StopDeletes(h) ==
  LET p == hook[h]  there == {agts[p.s][p.a].dir} \ {NoDir}
  IN  /\ At(h, "delete")
      /\ agts' = [agts EXCEPT ![p.s][p.a] = NoRec]
      /\ IF there = {} THEN Opens(p.s) ELSE Touches(p.s)
      /\ dropped' = dropped \cup there
      /\ lost' = lost \cup (there \ {p.rec.dir})
      /\ Goto(h, "remove")
      /\ UNCHANGED <<clock, sess, disk, delivered, stopped, faults>>

StopRemoves(h) ==
  LET d == hook[h].rec.dir
  IN  /\ At(h, "remove")
      /\ dirs' = dirs \ {d}
      /\ stopped' = stopped \cup {d}
      /\ Done(h)
      /\ UNCHANGED <<clock, store, grants, delivered, dropped, lost, faults>>

Step(h) ==
  \/ \E x \in Session : PruneLooks(h, x) \/ PruneRemoves(h, x)
  \/ IssueSession(h) \/ PutSession(h)
  \/ PromptReads(h) \/ RenewSession(h)
  \/ AgentReads(h) \/ ParentReads(h) \/ IssueChild(h) \/ PutNew(h)
  \/ Yield(h) \/ Discard(h) \/ WinnerReads(h)
  \/ SessionReads(h) \/ Deliver(h)
  \/ StopReads(h) \/ StopDeletes(h) \/ StopRemoves(h)

-----------------------------------------------------------------------------
(* Faults and the environment                                              *)

\* An access fails.  A hook that cannot store a child's record still has the
\* directory to remove; one that cannot remove the directory it lost with goes
\* on to the winner's; every other failure is logged and ends the hook.
AccessFails(h) ==
  LET p == hook[h]
  IN  /\ p.pc \notin {"idle", "deliver"}
      /\ faults < MaxFaults /\ faults' = faults + 1
      /\ \/ At(h, "putnew") /\ Goto(h, "discard") /\ lost' = lost
         \/ At(h, "yield") /\ Hold(h, "winner", NoRec) /\ lost' = lost \cup Holding(h)
         \/ p.pc \notin {"putnew", "yield"} /\ Done(h) /\ lost' = lost \cup Holding(h)
      /\ stopped' = IF At(h, "remove") THEN stopped \cup {p.rec.dir} ELSE stopped
      /\ UNCHANGED <<clock, store, disk, delivered, dropped>>

\* The runtime kills a hook whose timeout passed.
Killed(h) ==
  /\ ~At(h, "idle")
  /\ faults < MaxFaults /\ faults' = faults + 1
  /\ Done(h)
  /\ lost' = lost \cup Holding(h)
  /\ UNCHANGED <<clock, store, disk, delivered, stopped, dropped>>

\* The issuer's reaper removes an old directory.
Reap(d) ==
  /\ d \in dirs
  /\ clock - grants[d].made > ReapAfter
  /\ dirs' = dirs \ {d}
  /\ UNCHANGED <<clock, store, grants, hook, history, faults>>

Tick ==
  /\ clock < MaxClock
  /\ clock' = clock + 1
  /\ UNCHANGED <<store, disk, hook, history, faults>>

-----------------------------------------------------------------------------
Init ==
  /\ clock = 0
  /\ sess = [s \in Session |-> NoRec]
  /\ agts = [s \in Session |-> [a \in Agent |-> NoRec]]
  /\ touched = [s \in Session |-> Absent]
  /\ dirs = {} /\ grants = <<>>
  /\ hook = [h \in Hook |-> Idle]
  /\ delivered = {} /\ stopped = {} /\ dropped = {} /\ lost = {}
  /\ faults = 0

Next ==
  \/ \E h \in Hook : Event(h) \/ Step(h) \/ AccessFails(h) \/ Killed(h)
  \/ \E d \in Dir : Reap(d)
  \/ Tick

Spec == Init /\ [][Next]_vars

-----------------------------------------------------------------------------
(* Properties                                                              *)

TypeOK ==
  /\ clock \in Nat /\ faults \in Nat
  /\ sess \in [Session -> Record]
  /\ agts \in [Session -> [Agent -> Record]]
  /\ touched \in [Session -> Nat \cup {Absent}]
  /\ grants \in Seq(Grant) /\ Len(grants) <= MaxDirs
  /\ dirs \subseteq 1 .. Len(grants)
  /\ hook \in [Hook -> Process]
  /\ delivered \subseteq Dir /\ stopped \subseteq Dir /\ dropped \subseteq Dir /\ lost \subseteq Dir

\* An agent's record that has not expired names a directory that is there,
\* issued for that very agent: neither a stop, a lost race, Prune nor the
\* reaper takes a directory from under a record a command would be given.
NoDanglingRecord ==
  \A s \in Session, a \in Agent :
    LET r == agts[s][a]
    IN  r # NoRec /\ r.exp > clock =>
          r.dir \in dirs /\ grants[r.dir].s = s /\ grants[r.dir].a = a

\* The types hold and no live agent record dangles.
StoreSound == TypeOK /\ NoDanglingRecord

\* However many hooks of one agent race, its commands are given one directory:
\* two differ only if the record of one was deleted by a stop or pruned.
RacersAgree ==
  \A d, e \in delivered :
    grants[d].s = grants[e].s /\ grants[d].a = grants[e].a =>
      d = e \/ {d, e} \cap dropped # {}

\* A directory whose stop has run to its end, even one it could not remove, is
\* never given to a command that begins afterwards (claude.go, subagentStop).
StoppedNotDelivered ==
  \A h \in Hook : Delivers(h) => hook[h].rec.dir \notin hook[h].old

\* Every child's directory is named by its agent's record or held by a hook
\* that will store or remove it, unless that hook was killed or failed, the
\* record was pruned, or a stop deleted it after reading an earlier one.
NoLeakedChild ==
  \A d \in dirs :
    grants[d].a # NoAgent =>
      \/ agts[grants[d].s][grants[d].a].dir = d
      \/ \E h \in Hook : d \in Holding(h)
      \/ d \in lost

\* A command is given only what was issued for its own session and agent; a
\* call without an agent id that claims a type gets the definition of that type.
DeliveredMatchesCaller ==
  \A h \in Hook :
    Delivers(h) =>
      LET p == hook[h]  g == grants[p.rec.dir]
      IN  /\ g.s = p.s /\ g.a = p.a
          /\ p.a = NoAgent /\ p.type # NoType => g.def = DefinitionFor(p.type)

\* A session's record describes the assertion in the directory it names, also
\* when a refresh overtakes a session-start that changed the definition.
RecordMatchesDirectory ==
  \A s \in Session :
    LET r == sess[s]
    IN  r # NoRec =>
          /\ grants[r.dir].s = s /\ grants[r.dir].a = NoAgent
          /\ r.def = grants[r.dir].def /\ r.exp = grants[r.dir].exp
          /\ r.def = DefinitionFor(r.start)
=============================================================================
