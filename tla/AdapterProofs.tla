---------------------------- MODULE AdapterProofs ----------------------------
(***************************************************************************)
(* Proofs about HookAdapter, for every number of hooks, sessions, agents,  *)
(* definitions and delivery directories, and every lifetime: first what a  *)
(* hook has established, then the records of agents and the directories    *)
(* they name, and who owns a directory at each moment of every             *)
(* interleaving of starts, commands, stops, failures and kills.            *)
(***************************************************************************)
EXTENDS HookAdapter, TLAPS

-----------------------------------------------------------------------------
(* What the steps of a hook have established                               *)

Made == 1 .. Len(grants)

\* Record r is that of a directory issued, in gs, for agent a of session s.
Of(gs, r, s, a) ==
  /\ r.dir \in 1 .. Len(gs)
  /\ gs[r.dir].s = s /\ gs[r.dir].a = a
  /\ r.exp = gs[r.dir].exp

OfSession(gs, r, s) ==
  /\ Of(gs, r, s, NoAgent)
  /\ r.def = gs[r.dir].def
  /\ r.def = DefinitionFor(r.start)

\* No assertion outlives its lifetime.
GrantsInv == \A d \in Made : grants[d].exp <= grants[d].made + TTL

SessionsInv == \A s \in Session : sess[s] # NoRec => OfSession(grants, sess[s], s)

AgentsInv ==
  \A s \in Session, a \in Agent : agts[s][a] # NoRec => Of(grants, agts[s][a], s, a)

\* The phases of a hook that works for a session, and for an agent.
OfNoAgent == {"prune", "prompt", "session", "put", "renew"}
OfAnAgent == {"agent", "parent", "child", "putnew", "yield", "discard", "winner",
              "stop", "delete", "remove"}

\* What a hook holds in each phase.
HoldsInv(gs, q) ==
  /\ q.pc \in OfNoAgent => q.a = NoAgent
  /\ q.pc \in OfAnAgent => q.a \in Agent
  /\ q.pc \in {"put", "renew"} => OfSession(gs, q.rec, q.s)
  /\ q.pc = "child" => q.rec.dir \in 1 .. Len(gs)
  /\ q.pc \in {"putnew", "yield", "discard", "delete", "remove"} => Of(gs, q.rec, q.s, q.a)
  /\ q.pc = "deliver" /\ q.a # NoAgent => Of(gs, q.rec, q.s, q.a)
  /\ q.pc = "deliver" /\ q.a = NoAgent => OfSession(gs, q.rec, q.s) /\ OwnType(q.type, q.rec)

HooksInv == \A h \in Hook : HoldsInv(grants, hook[h])

Core == TypeOK /\ GrantsInv /\ SessionsInv /\ AgentsInv /\ HooksInv

-----------------------------------------------------------------------------
(* What a step does to one hook, to the store and to the grants            *)

\* NoRec is a record of no directory.
LEMMA NoRecFacts == NoRec \in Record /\ NoRec.dir = NoDir
  BY DEF NoRec, Record, NoDir

\* An idle hook.
LEMMA IdleFacts == Idle \in Process /\ Idle.pc = "idle" /\ Idle.a = NoAgent
  BY NoRecFacts, NamesAssumption DEF Idle, Process, Pcs

\* A hook that goes on keeps its payload.
LEMMA HoldFacts ==
  ASSUME hook \in [Hook -> Process], NEW h \in Hook, NEW pc \in Pcs, NEW r \in Record,
         Hold(h, pc, r)
  PROVE  /\ hook' \in [Hook -> Process]
         /\ \A g \in Hook : g # h => hook'[g] = hook[g]
         /\ hook'[h].pc = pc /\ hook'[h].rec = r
         /\ hook'[h].s = hook[h].s /\ hook'[h].a = hook[h].a
         /\ hook'[h].type = hook[h].type /\ hook'[h].old = hook[h].old
  BY DEF Hold, Process

\* The same, keeping the record it holds.
LEMMA GotoFacts ==
  ASSUME hook \in [Hook -> Process], NEW h \in Hook, NEW pc \in Pcs, Goto(h, pc)
  PROVE  /\ hook' \in [Hook -> Process]
         /\ \A g \in Hook : g # h => hook'[g] = hook[g]
         /\ hook'[h].pc = pc /\ hook'[h].rec = hook[h].rec
         /\ hook'[h].s = hook[h].s /\ hook'[h].a = hook[h].a
         /\ hook'[h].type = hook[h].type /\ hook'[h].old = hook[h].old
  BY DEF Goto, Process

\* A hook that ends.
LEMMA DoneFacts ==
  ASSUME hook \in [Hook -> Process], NEW h \in Hook, Done(h)
  PROVE  /\ hook' \in [Hook -> Process]
         /\ \A g \in Hook : g # h => hook'[g] = hook[g]
         /\ hook'[h] = Idle /\ hook'[h].pc = "idle"
  BY IdleFacts DEF Done

\* What a directory was issued for.
LEMMA GrantFacts ==
  ASSUME TypeOK, NEW d \in Made
  PROVE  /\ grants[d].s \in Session /\ grants[d].a \in Agent \cup {NoAgent}
         /\ grants[d].made \in Nat /\ grants[d].exp \in Nat
  <1>1. grants[d] \in Grant
    BY DEF TypeOK, Made
  <1> QED
    BY <1>1 DEF Grant

\* A directory is issued under the next number; the others stay what they are.
LEMMA IssueFacts ==
  ASSUME TypeOK, NEW s \in Session, NEW a \in Agent \cup {NoAgent},
         NEW def \in Type \cup {NoType}, NEW exp \in Nat, Issues(s, a, def, exp)
  PROVE  LET n == Len(grants) + 1
         IN  /\ grants' \in Seq(Grant) /\ Len(grants') = n /\ n \in Dir
             /\ Made' = Made \cup {n} /\ n \notin Made
             /\ \A d \in Made : grants'[d] = grants[d]
             /\ grants'[n].s = s /\ grants'[n].a = a /\ grants'[n].def = def
             /\ grants'[n].made = clock /\ grants'[n].exp = exp
             /\ dirs' = dirs \cup {n} /\ dirs' \subseteq Made'
  <1> DEFINE g == [s |-> s, a |-> a, def |-> def, made |-> clock, exp |-> exp]
  <1>1. g \in Grant
    BY DEF TypeOK, Grant
  <1>2. grants' = Append(grants, g) /\ dirs' = dirs \cup {Len(grants) + 1}
        /\ Len(grants) < MaxDirs
    BY DEF Issues
  <1>3. grants \in Seq(Grant) /\ Len(grants) \in Nat /\ dirs \subseteq Made
    BY DEF TypeOK, Made
  <1>4. g.s = s /\ g.a = a /\ g.def = def /\ g.made = clock /\ g.exp = exp
    OBVIOUS
  <1> HIDE DEF g
  <1>5. /\ grants' \in Seq(Grant) /\ Len(grants') = Len(grants) + 1
        /\ grants'[Len(grants) + 1] = g
        /\ \A d \in Made : grants'[d] = grants[d]
    BY <1>1, <1>2, <1>3 DEF Made
  <1>6. Len(grants) + 1 \in Dir
    BY <1>2, <1>3, BoundAssumption DEF Dir
  <1>7. Made' = Made \cup {Len(grants) + 1} /\ Len(grants) + 1 \notin Made
    BY <1>3, <1>5 DEF Made
  <1>8. QED
    BY <1>2, <1>3, <1>4, <1>5, <1>6, <1>7

\* Grants are only added.
Extends(gs, new) ==
  /\ gs \in Seq(Grant) /\ new \in Seq(Grant)
  /\ Len(gs) <= Len(new)
  /\ \A d \in 1 .. Len(gs) : new[d] = gs[d]

\* What is held stays true as grants are added.
LEMMA HeldStays ==
  ASSUME NEW gs, NEW new, Extends(gs, new)
  PROVE  /\ \A r, s, a : Of(gs, r, s, a) => Of(new, r, s, a)
         /\ \A r, s : OfSession(gs, r, s) => OfSession(new, r, s)
         /\ \A q : HoldsInv(gs, q) => HoldsInv(new, q)
  <1>0. Len(gs) \in Nat /\ Len(new) \in Nat /\ 1 .. Len(gs) \subseteq 1 .. Len(new)
    BY DEF Extends
  <1>1. \A r, s, a : Of(gs, r, s, a) => Of(new, r, s, a)
    BY <1>0 DEF Extends, Of
  <1>2. \A r, s : OfSession(gs, r, s) => OfSession(new, r, s)
    <2> TAKE r, s
    <2> HAVE OfSession(gs, r, s)
    <2>1. Of(new, r, s, NoAgent) /\ new[r.dir] = gs[r.dir]
      BY <1>0, <1>1 DEF Extends, Of, OfSession
    <2> QED
      BY <2>1 DEF OfSession
  <1>3. \A q : HoldsInv(gs, q) => HoldsInv(new, q)
    BY <1>0, <1>1, <1>2, Zenon DEF HoldsInv
  <1> QED
    BY <1>1, <1>2, <1>3

\* A step of one hook keeps what the others hold.
LEMMA OthersKeep ==
  ASSUME HooksInv, NEW h \in Hook, Extends(grants, grants'),
         \A g \in Hook : g # h => hook'[g] = hook[g],
         HoldsInv(grants', hook'[h])
  PROVE  HooksInv'
  <1>1. ASSUME NEW g \in Hook PROVE HoldsInv(grants', hook'[g])
    <2>1. HoldsInv(grants', hook[g])
      BY HeldStays, Zenon DEF HooksInv
    <2> QED
      BY <2>1, Zenon
  <1> QED
    BY <1>1 DEF HooksInv

\* A step that leaves the grants alone extends them.
LEMMA SameGrants ==
  ASSUME TypeOK, grants' = grants
  PROVE  Extends(grants, grants') /\ Made' = Made
  BY DEF TypeOK, Extends, Made

-----------------------------------------------------------------------------
(* The core is inductive                                                   *)

\* A step of one hook that changes neither records nor grants.
LEMMA QuietStep ==
  ASSUME Core, NEW h \in Hook, TypeOK',
         grants' = grants, sess' = sess, agts' = agts,
         \A g \in Hook : g # h => hook'[g] = hook[g],
         HoldsInv(grants, hook'[h])
  PROVE  Core'
  <1>1. Extends(grants, grants') /\ Made' = Made
    BY SameGrants DEF Core
  <1>2. HooksInv'
    BY <1>1, OthersKeep DEF Core
  <1>3. GrantsInv' /\ SessionsInv' /\ AgentsInv'
    BY <1>1 DEF Core, GrantsInv, SessionsInv, AgentsInv
  <1> QED
    BY <1>2, <1>3 DEF Core

\* A hook that ends holds nothing.
LEMMA IdleHolds == \A gs : HoldsInv(gs, Idle)
  BY IdleFacts DEF HoldsInv, OfNoAgent, OfAnAgent

LEMMA BeginFacts ==
  ASSUME TypeOK, NEW h \in Hook, NEW pc \in Pcs, NEW s \in Session,
         NEW a \in Agent \cup {NoAgent}, NEW type \in Type \cup {NoType},
         NEW bash \in BOOLEAN, NEW todo \in SUBSET Session,
         Begin(h, pc, s, a, type, bash, todo)
  PROVE  /\ hook' \in [Hook -> Process]
         /\ \A g \in Hook : g # h => hook'[g] = hook[g]
         /\ hook'[h].pc = pc /\ hook'[h].s = s /\ hook'[h].a = a
         /\ hook'[h].type = type /\ hook'[h].rec = NoRec
         /\ hook'[h].old \subseteq stopped
         /\ UNCHANGED <<clock, store, disk, history, faults>>
  <1> DEFINE o == IF bash THEN stopped ELSE {}
             q == [pc |-> pc, s |-> s, a |-> a, type |-> type, bash |-> bash, rec |-> NoRec,
                   todo |-> todo, doomed |-> {}, old |-> o]
  <1>1. o \in SUBSET Dir /\ o \subseteq stopped
    BY DEF TypeOK
  <1>2. hook' = [hook EXCEPT ![h] = q] /\ UNCHANGED <<clock, store, disk, history, faults>>
    BY DEF Begin
  <1>3. hook \in [Hook -> Process]
    BY DEF TypeOK
  <1> HIDE DEF o
  <1>4. q \in Process
    BY <1>1, NoRecFacts DEF Process
  <1> QED
    BY <1>1, <1>2, <1>3, <1>4

\* The types when only hooks, and the times of the store's directories, change.
LEMMA StillTyped ==
  ASSUME TypeOK, hook' \in [Hook -> Process],
         touched' \in [Session -> Nat \cup {Absent}],
         UNCHANGED <<clock, sess, agts, disk, history, faults>>
  PROVE  TypeOK'
  BY DEF TypeOK, disk, history

\* Accesses to the store leave times of directories.
LEMMA TouchFacts ==
  ASSUME TypeOK, NEW s \in Session, Opens(s) \/ Touches(s)
  PROVE  touched' \in [Session -> Nat \cup {Absent}]
  BY DEF TypeOK, Opens, Touches

LEMMA EventKeepsCore ==
  ASSUME Core, NEW h \in Hook, Event(h)
  PROVE  Core'
  <1>1. ASSUME NEW pc \in Pcs, NEW s \in Session, NEW a \in Agent \cup {NoAgent},
               NEW type \in Type \cup {NoType}, NEW bash \in BOOLEAN, NEW todo \in SUBSET Session,
               Begin(h, pc, s, a, type, bash, todo),
               \/ pc \in {"prune", "prompt", "session"} /\ a = NoAgent
               \/ pc \in {"agent", "stop"} /\ a \in Agent
        PROVE  Core'
    <2>0. TypeOK
      BY DEF Core
    <2>1. /\ hook' \in [Hook -> Process]
          /\ \A g \in Hook : g # h => hook'[g] = hook[g]
          /\ hook'[h].pc = pc /\ hook'[h].a = a
          /\ UNCHANGED <<clock, store, disk, history, faults>>
      BY <1>1, <2>0, BeginFacts
    <2>2. HoldsInv(grants, hook'[h])
      BY <1>1, <2>1 DEF HoldsInv, OfNoAgent, OfAnAgent
    <2>3. TypeOK'
      BY <2>0, <2>1, StillTyped DEF store, TypeOK
    <2> QED
      BY <2>1, <2>2, <2>3, QuietStep DEF store, disk
  <1>2. PICK s \in Session, type \in Type \cup {NoType} :
          \/ SessionStart(h, s, type)
          \/ UserPromptSubmit(h, s)
          \/ \E a \in Agent : SubagentStart(h, s, a, type) \/ SubagentStop(h, s, a)
          \/ \E a \in Agent \cup {NoAgent} : PreToolUseBash(h, s, a, type)
    BY DEF Event
  <1>3. /\ {"prune", "prompt", "session", "agent", "stop"} \subseteq Pcs
        /\ {} \in SUBSET Session /\ Session \in SUBSET Session
        /\ NoType \in Type \cup {NoType} /\ NoAgent \in Agent \cup {NoAgent}
    BY DEF Pcs
  <1>4. CASE SessionStart(h, s, type)
    BY <1>1, <1>3, <1>4 DEF SessionStart
  <1>5. CASE UserPromptSubmit(h, s)
    BY <1>1, <1>3, <1>5 DEF UserPromptSubmit
  <1>6. CASE \E a \in Agent : SubagentStart(h, s, a, type) \/ SubagentStop(h, s, a)
    BY <1>1, <1>3, <1>6 DEF SubagentStart, SubagentStop
  <1>7. CASE \E a \in Agent \cup {NoAgent} : PreToolUseBash(h, s, a, type)
    <2> PICK a \in Agent \cup {NoAgent} : PreToolUseBash(h, s, a, type)
      BY <1>7
    <2>1. CASE a = NoAgent
      BY <1>1, <1>3, <2>1 DEF PreToolUseBash
    <2>2. CASE a # NoAgent
      BY <1>1, <1>3, <2>2 DEF PreToolUseBash
    <2> QED
      BY <2>1, <2>2
  <1> QED
    BY <1>2, <1>4, <1>5, <1>6, <1>7

-----------------------------------------------------------------------------
(* The steps that only read                                                *)

LEMMA ReadStep ==
  ASSUME Core, NEW h \in Hook, NEW s \in Session, Opens(s),
         UNCHANGED <<clock, sess, agts, disk, history, faults>>,
         hook' \in [Hook -> Process],
         \A g \in Hook : g # h => hook'[g] = hook[g],
         HoldsInv(grants, hook'[h])
  PROVE  Core'
  <1>1. TypeOK /\ touched' \in [Session -> Nat \cup {Absent}]
    BY TouchFacts DEF Core
  <1>2. TypeOK'
    BY <1>1, StillTyped
  <1> QED
    BY <1>2, QuietStep DEF disk

\* The record of an agent goes to a waiting command, or the hook ends.
LEMMA AnswerFacts ==
  ASSUME TypeOK, NEW h \in Hook, NEW r \in Record, Answer(h, r),
         NEW gs, hook[h].a \in Agent, hook[h].a # NoAgent, Of(gs, r, hook[h].s, hook[h].a)
  PROVE  /\ hook' \in [Hook -> Process]
         /\ \A g \in Hook : g # h => hook'[g] = hook[g]
         /\ HoldsInv(gs, hook'[h])
  <1>0. hook \in [Hook -> Process] /\ "deliver" \in Pcs
    BY DEF TypeOK, Pcs
  <1>1. CASE Hold(h, "deliver", r)
    <2>1. /\ hook' \in [Hook -> Process]
          /\ \A g \in Hook : g # h => hook'[g] = hook[g]
          /\ hook'[h].pc = "deliver" /\ hook'[h].rec = r
          /\ hook'[h].s = hook[h].s /\ hook'[h].a = hook[h].a
      BY <1>0, <1>1, HoldFacts
    <2> QED
      BY <2>1 DEF HoldsInv, OfNoAgent, OfAnAgent
  <1>2. CASE Done(h)
    BY <1>0, <1>2, DoneFacts, IdleHolds
  <1> QED
    BY <1>1, <1>2, Zenon DEF Answer

\* What the hook and the records are in a step that begins here.
LEMMA CoreFacts ==
  ASSUME Core, NEW h \in Hook
  PROVE  /\ TypeOK /\ hook \in [Hook -> Process] /\ hook[h] \in Process
         /\ hook[h].s \in Session /\ hook[h].a \in Agent \cup {NoAgent}
         /\ hook[h].type \in Type \cup {NoType} /\ hook[h].rec \in Record
         /\ HoldsInv(grants, hook[h])
         /\ hook[h].pc \in OfNoAgent => hook[h].a = NoAgent
         /\ hook[h].pc \in OfAnAgent => hook[h].a \in Agent /\ hook[h].a # NoAgent
                                        /\ agts[hook[h].s][hook[h].a] \in Record
         /\ sess[hook[h].s] \in Record
  BY NamesAssumption DEF Core, TypeOK, Process, HooksInv, HoldsInv

LEMMA PromptReadsKeepsCore ==
  ASSUME Core, NEW h \in Hook, PromptReads(h)
  PROVE  Core'
  <1> DEFINE r == sess[hook[h].s]
  <1>0. hook[h].pc = "prompt" /\ hook[h].a = NoAgent
    BY CoreFacts DEF PromptReads, At, OfNoAgent
  <1>1. CASE Done(h)
    BY <1>1, CoreFacts, DoneFacts, IdleHolds, ReadStep DEF PromptReads
  <1>2. CASE r # NoRec /\ Hold(h, "renew", r)
    <2>1. OfSession(grants, r, hook[h].s)
      BY <1>2, CoreFacts DEF Core, SessionsInv
    <2>2. /\ hook' \in [Hook -> Process]
          /\ \A g \in Hook : g # h => hook'[g] = hook[g]
          /\ hook'[h].pc = "renew" /\ hook'[h].rec = r
          /\ hook'[h].s = hook[h].s /\ hook'[h].a = hook[h].a
      BY <1>2, CoreFacts, HoldFacts DEF Pcs
    <2>3. HoldsInv(grants, hook'[h])
      BY <1>0, <2>1, <2>2 DEF HoldsInv, OfNoAgent, OfAnAgent
    <2> QED
      BY <2>2, <2>3, CoreFacts, ReadStep DEF PromptReads
  <1> QED
    BY <1>1, <1>2 DEF PromptReads

LEMMA AgentReadsKeepsCore ==
  ASSUME Core, NEW h \in Hook, AgentReads(h)
  PROVE  Core'
  <1> DEFINE r == agts[hook[h].s][hook[h].a]
  <1>0. hook[h].pc = "agent" /\ hook[h].a \in Agent /\ hook[h].a # NoAgent /\ r \in Record
    BY CoreFacts DEF AgentReads, At, OfAnAgent
  <1>1. CASE r # NoRec /\ Answer(h, r)
    <2>1. Of(grants, r, hook[h].s, hook[h].a)
      BY <1>0, <1>1, CoreFacts DEF Core, AgentsInv
    <2>2. /\ hook' \in [Hook -> Process]
          /\ \A g \in Hook : g # h => hook'[g] = hook[g]
          /\ HoldsInv(grants, hook'[h])
      BY <1>0, <1>1, <2>1, CoreFacts, AnswerFacts
    <2> QED
      BY <2>2, CoreFacts, ReadStep DEF AgentReads
  <1>2. CASE Goto(h, "parent")
    <2>1. /\ hook' \in [Hook -> Process]
          /\ \A g \in Hook : g # h => hook'[g] = hook[g]
          /\ hook'[h].pc = "parent" /\ hook'[h].a = hook[h].a
      BY <1>2, CoreFacts, GotoFacts DEF Pcs
    <2>2. HoldsInv(grants, hook'[h])
      BY <1>0, <2>1 DEF HoldsInv, OfNoAgent, OfAnAgent
    <2> QED
      BY <2>1, <2>2, CoreFacts, ReadStep DEF AgentReads
  <1>3. CASE Done(h)
    BY <1>3, CoreFacts, DoneFacts, IdleHolds, ReadStep DEF AgentReads
  <1> QED
    BY <1>1, <1>2, <1>3 DEF AgentReads

LEMMA ParentReadsKeepsCore ==
  ASSUME Core, NEW h \in Hook, ParentReads(h)
  PROVE  Core'
  <1> DEFINE r == sess[hook[h].s]
  <1>0. hook[h].pc = "parent" /\ hook[h].a \in Agent
    BY CoreFacts DEF ParentReads, At, OfAnAgent
  <1>1. CASE r.dir \in dirs /\ Hold(h, "child", r)
    <2>1. /\ hook' \in [Hook -> Process]
          /\ \A g \in Hook : g # h => hook'[g] = hook[g]
          /\ hook'[h].pc = "child" /\ hook'[h].rec = r /\ hook'[h].a = hook[h].a
      BY <1>1, CoreFacts, HoldFacts DEF Pcs
    <2>2. r.dir \in 1 .. Len(grants)
      BY <1>1, CoreFacts DEF TypeOK
    <2>3. HoldsInv(grants, hook'[h])
      BY <1>0, <2>1, <2>2 DEF HoldsInv, OfNoAgent, OfAnAgent
    <2> QED
      BY <2>1, <2>3, CoreFacts, ReadStep DEF ParentReads
  <1>2. CASE Done(h)
    BY <1>2, CoreFacts, DoneFacts, IdleHolds, ReadStep DEF ParentReads
  <1> QED
    BY <1>1, <1>2 DEF ParentReads

LEMMA WinnerReadsKeepsCore ==
  ASSUME Core, NEW h \in Hook, WinnerReads(h)
  PROVE  Core'
  <1> DEFINE r == agts[hook[h].s][hook[h].a]
  <1>0. hook[h].pc = "winner" /\ hook[h].a \in Agent /\ hook[h].a # NoAgent /\ r \in Record
    BY CoreFacts DEF WinnerReads, At, OfAnAgent
  <1>1. CASE r # NoRec /\ Answer(h, r)
    <2>1. Of(grants, r, hook[h].s, hook[h].a)
      BY <1>0, <1>1, CoreFacts DEF Core, AgentsInv
    <2>2. /\ hook' \in [Hook -> Process]
          /\ \A g \in Hook : g # h => hook'[g] = hook[g]
          /\ HoldsInv(grants, hook'[h])
      BY <1>0, <1>1, <2>1, CoreFacts, AnswerFacts
    <2> QED
      BY <2>2, CoreFacts, ReadStep DEF WinnerReads
  <1>2. CASE Done(h)
    BY <1>2, CoreFacts, DoneFacts, IdleHolds, ReadStep DEF WinnerReads
  <1> QED
    BY <1>1, <1>2 DEF WinnerReads

LEMMA SessionReadsKeepsCore ==
  ASSUME Core, NEW h \in Hook, SessionReads(h)
  PROVE  Core'
  <1> DEFINE r == sess[hook[h].s]
  <1>0. hook[h].pc = "session" /\ hook[h].a = NoAgent
    BY CoreFacts DEF SessionReads, At, OfNoAgent
  <1>1. CASE r # NoRec /\ OwnType(hook[h].type, r) /\ Hold(h, "deliver", r)
    <2>1. OfSession(grants, r, hook[h].s)
      BY <1>1, CoreFacts DEF Core, SessionsInv
    <2>2. /\ hook' \in [Hook -> Process]
          /\ \A g \in Hook : g # h => hook'[g] = hook[g]
          /\ hook'[h].pc = "deliver" /\ hook'[h].rec = r /\ hook'[h].type = hook[h].type
          /\ hook'[h].s = hook[h].s /\ hook'[h].a = hook[h].a
      BY <1>1, CoreFacts, HoldFacts DEF Pcs
    <2>3. HoldsInv(grants, hook'[h])
      BY <1>0, <1>1, <2>1, <2>2 DEF HoldsInv, OfNoAgent, OfAnAgent
    <2> QED
      BY <2>2, <2>3, CoreFacts, ReadStep DEF SessionReads
  <1>2. CASE Done(h)
    BY <1>2, CoreFacts, DoneFacts, IdleHolds, ReadStep DEF SessionReads
  <1> QED
    BY <1>1, <1>2 DEF SessionReads

LEMMA StopReadsKeepsCore ==
  ASSUME Core, NEW h \in Hook, StopReads(h)
  PROVE  Core'
  <1> DEFINE r == agts[hook[h].s][hook[h].a]
  <1>0. hook[h].pc = "stop" /\ hook[h].a \in Agent /\ r \in Record
    BY CoreFacts DEF StopReads, At, OfAnAgent
  <1>1. CASE r # NoRec /\ Hold(h, "delete", r)
    <2>1. Of(grants, r, hook[h].s, hook[h].a)
      BY <1>0, <1>1, CoreFacts DEF Core, AgentsInv
    <2>2. /\ hook' \in [Hook -> Process]
          /\ \A g \in Hook : g # h => hook'[g] = hook[g]
          /\ hook'[h].pc = "delete" /\ hook'[h].rec = r
          /\ hook'[h].s = hook[h].s /\ hook'[h].a = hook[h].a
      BY <1>0, <1>1, CoreFacts, HoldFacts DEF Pcs
    <2>3. HoldsInv(grants, hook'[h])
      BY <1>0, <2>1, <2>2 DEF HoldsInv, OfNoAgent, OfAnAgent
    <2> QED
      BY <2>2, <2>3, CoreFacts, ReadStep DEF StopReads
  <1>2. CASE Done(h)
    BY <1>2, CoreFacts, DoneFacts, IdleHolds, ReadStep DEF StopReads
  <1> QED
    BY <1>1, <1>2 DEF StopReads

-----------------------------------------------------------------------------
(* The steps that issue                                                    *)

\* A hook holds what has just been issued to it.
LEMMA IssueStep ==
  ASSUME Core, NEW h \in Hook, NEW s \in Session, NEW a \in Agent \cup {NoAgent},
         NEW def \in Type \cup {NoType}, NEW exp \in Nat, exp <= clock + TTL,
         Issues(s, a, def, exp),
         NEW pc \in Pcs, NEW r \in Record, Hold(h, pc, r),
         HoldsInv(grants', hook'[h]),
         UNCHANGED <<clock, store, history, faults>>
  PROVE  Core'
  <1> DEFINE n == Len(grants) + 1
  <1>0. TypeOK /\ hook \in [Hook -> Process]
    BY CoreFacts DEF Core, TypeOK
  <1>1. /\ grants' \in Seq(Grant) /\ Len(grants') = n /\ n \in Dir
        /\ Made' = Made \cup {n} /\ n \notin Made
        /\ \A d \in Made : grants'[d] = grants[d]
        /\ grants'[n].made = clock /\ grants'[n].exp = exp
        /\ dirs' \subseteq Made'
    BY <1>0, IssueFacts
  <1>2. /\ hook' \in [Hook -> Process]
        /\ \A g \in Hook : g # h => hook'[g] = hook[g]
    BY <1>0, HoldFacts
  <1>3. Extends(grants, grants')
    BY <1>0, <1>1 DEF Extends, TypeOK, Made
  <1>4. TypeOK'
    BY <1>0, <1>1, <1>2, BoundAssumption DEF TypeOK, store, history, Dir, Made
  <1>5. GrantsInv'
    BY <1>0, <1>1, TimesAssumption DEF Core, GrantsInv
  <1>6. SessionsInv' /\ AgentsInv'
    BY <1>3, HeldStays DEF Core, SessionsInv, AgentsInv, store
  <1>7. HooksInv'
    BY <1>2, <1>3, OthersKeep DEF Core
  <1> QED
    BY <1>4, <1>5, <1>6, <1>7 DEF Core

LEMMA IssueSessionKeepsCore ==
  ASSUME Core, NEW h \in Hook, IssueSession(h)
  PROVE  Core'
  <1> DEFINE p == hook[h]
             n == Len(grants) + 1
             new == [dir |-> n, exp |-> clock + TTL, def |-> DefinitionFor(p.type),
                     start |-> p.type]
  <1>0. /\ TypeOK /\ p.pc = "prune" /\ p.a = NoAgent /\ p.s \in Session
        /\ p.type \in Type \cup {NoType} /\ DefinitionFor(p.type) \in Type \cup {NoType}
        /\ clock + TTL \in Nat
    BY CoreFacts, TimesAssumption DEF IssueSession, At, OfNoAgent, DefinitionFor, TypeOK
  <1>1. /\ Issues(p.s, NoAgent, DefinitionFor(p.type), clock + TTL) /\ Hold(h, "put", new)
        /\ UNCHANGED <<clock, store, history, faults>>
    BY DEF IssueSession
  <1>a. PICK s \in Session, def \in Type \cup {NoType}, exp \in Nat :
          s = p.s /\ def = DefinitionFor(p.type) /\ exp = clock + TTL
    BY <1>0
  <1>b. Issues(s, NoAgent, def, exp) /\ NoAgent \in Agent \cup {NoAgent}
    BY <1>1, <1>a
  <1>2. /\ Len(grants') = n /\ n \in Dir /\ grants'[n].s = p.s /\ grants'[n].a = NoAgent
        /\ grants'[n].def = DefinitionFor(p.type) /\ grants'[n].exp = clock + TTL
    <2>1. TypeOK
      BY <1>0
    <2>2. /\ Len(grants') = n /\ n \in Dir /\ grants'[n].s = s /\ grants'[n].a = NoAgent
          /\ grants'[n].def = def /\ grants'[n].exp = exp
      BY <1>b, <2>1, IssueFacts
    <2> QED
      BY <1>a, <2>2
  <1>3. new \in Record
    BY <1>0, <1>2 DEF Record
  <1>4. /\ new.dir = n /\ new.exp = clock + TTL /\ new.def = DefinitionFor(p.type)
        /\ new.start = p.type
    OBVIOUS
  <1>5. "put" \in Pcs
    BY DEF Pcs
  <1> HIDE DEF new
  <1>6. hook'[h].pc = "put" /\ hook'[h].rec = new /\ hook'[h].s = p.s /\ hook'[h].a = NoAgent
    BY <1>0, <1>1, <1>3, <1>5, HoldFacts, CoreFacts
  <1>7. OfSession(grants', new, p.s)
    BY <1>2, <1>4 DEF OfSession, Of, Dir
  <1>8. HoldsInv(grants', hook'[h])
    BY <1>6, <1>7 DEF HoldsInv, OfNoAgent, OfAnAgent
  <1> QED
    <2>1. exp <= clock + TTL /\ Hold(h, "put", new) /\ UNCHANGED <<clock, store, history, faults>>
      BY <1>0, <1>1, <1>a
    <2> QED
      BY <1>b, <1>3, <1>5, <1>8, <2>1, IssueStep

LEMMA RenewSessionKeepsCore ==
  ASSUME Core, NEW h \in Hook, RenewSession(h)
  PROVE  Core'
  <1> DEFINE p == hook[h]
             n == Len(grants) + 1
             new == [p.rec EXCEPT !.dir = n, !.exp = clock + TTL]
  <1>0. /\ TypeOK /\ p.pc = "renew" /\ p.a = NoAgent /\ p.s \in Session
        /\ p.rec \in Record /\ OfSession(grants, p.rec, p.s)
        /\ clock + TTL \in Nat
    BY CoreFacts, TimesAssumption DEF RenewSession, At, OfNoAgent, TypeOK, HoldsInv
  <1>1. /\ Issues(p.s, NoAgent, p.rec.def, clock + TTL) /\ Hold(h, "put", new)
        /\ UNCHANGED <<clock, store, history, faults>>
    BY <1>0 DEF RenewSession, Record
  <1>a. PICK s \in Session, def \in Type \cup {NoType}, exp \in Nat :
          s = p.s /\ def = p.rec.def /\ exp = clock + TTL
    BY <1>0 DEF Record
  <1>b. Issues(s, NoAgent, def, exp) /\ NoAgent \in Agent \cup {NoAgent}
    BY <1>1, <1>a
  <1>2. /\ Len(grants') = n /\ n \in Dir /\ grants'[n].s = p.s /\ grants'[n].a = NoAgent
        /\ grants'[n].def = p.rec.def /\ grants'[n].exp = clock + TTL
    <2>1. TypeOK
      BY <1>0
    <2>2. /\ Len(grants') = n /\ n \in Dir /\ grants'[n].s = s /\ grants'[n].a = NoAgent
          /\ grants'[n].def = def /\ grants'[n].exp = exp
      BY <1>b, <2>1, IssueFacts
    <2> QED
      BY <1>a, <2>2
  <1>3. new \in Record /\ new.dir = n /\ new.exp = clock + TTL /\ new.def = p.rec.def
        /\ new.start = p.rec.start
    BY <1>0, <1>2 DEF Record
  <1>5. "put" \in Pcs
    BY DEF Pcs
  <1> HIDE DEF new
  <1>6. hook'[h].pc = "put" /\ hook'[h].rec = new /\ hook'[h].s = p.s /\ hook'[h].a = NoAgent
    BY <1>0, <1>1, <1>3, <1>5, HoldFacts, CoreFacts
  <1>7. OfSession(grants', new, p.s)
    BY <1>0, <1>2, <1>3 DEF OfSession, Of, Dir
  <1>8. HoldsInv(grants', hook'[h])
    BY <1>6, <1>7 DEF HoldsInv, OfNoAgent, OfAnAgent
  <1> QED
    <2>1. exp <= clock + TTL /\ Hold(h, "put", new) /\ UNCHANGED <<clock, store, history, faults>>
      BY <1>0, <1>1, <1>a
    <2> QED
      BY <1>b, <1>3, <1>5, <1>8, <2>1, IssueStep

\* What a child is given and what its hook then holds.
LEMMA IssueChildFacts ==
  ASSUME Core, NEW h \in Hook, IssueChild(h), ~Done(h)
  PROVE  \E s \in Session, a \in Agent, def \in Type \cup {NoType}, exp \in Nat, r \in Record :
           /\ s = hook[h].s /\ a = hook[h].a /\ def = hook[h].type
           /\ exp <= clock + TTL /\ Issues(s, a, def, exp)
           /\ Hold(h, "putnew", r)
           /\ r.dir = Len(grants) + 1 /\ r.exp = exp /\ exp > clock
           /\ Of(grants', r, s, a)
  <1> DEFINE p == hook[h]
             n == Len(grants) + 1
             limit == grants[p.rec.dir].exp
             due == IF limit < clock + TTL THEN limit ELSE clock + TTL
  <1>0. /\ TypeOK /\ p.pc = "child" /\ p.a \in Agent /\ p.s \in Session
        /\ p.type \in Type \cup {NoType} /\ p.rec.dir \in 1 .. Len(grants)
        /\ clock \in Nat /\ TTL \in Nat /\ TTL > 0
    BY CoreFacts, TimesAssumption DEF IssueChild, At, OfAnAgent, TypeOK, HoldsInv
  <1>1. limit \in Nat
    BY <1>0, GrantFacts DEF Made
  <1>2. limit > clock /\ Issues(p.s, p.a, p.type, due)
        /\ Hold(h, "putnew", [NoRec EXCEPT !.dir = n, !.exp = due])
    <2>1. limit > clock
      BY Zenon DEF IssueChild
    <2>2. Issues(p.s, p.a, p.type, due)
        /\ Hold(h, "putnew", [NoRec EXCEPT !.dir = n, !.exp = due])
      BY Zenon DEF IssueChild
    <2> QED BY <2>1, <2>2
  <1>3. due \in Nat /\ due <= clock + TTL /\ due > clock
    BY <1>0, <1>1, <1>2
  <1> HIDE DEF due
  <1>4. PICK s \in Session, a \in Agent, def \in Type \cup {NoType}, exp \in Nat :
          s = p.s /\ a = p.a /\ def = p.type /\ exp = due
    BY <1>0, <1>3
  <1>5. Issues(s, a, def, exp) /\ Hold(h, "putnew", [NoRec EXCEPT !.dir = n, !.exp = exp])
    BY <1>2, <1>4
  <1>6. TypeOK /\ a \in Agent \cup {NoAgent}
    BY <1>0
  <1>7. /\ Len(grants') = n /\ n \in Dir /\ grants'[n].s = s /\ grants'[n].a = a
        /\ grants'[n].exp = exp
    <2> HIDE DEF p, limit
    <2>1. Issues(s, a, def, exp)
      BY <1>5
    <2> QED
      BY <2>1, <1>6, IssueFacts
  <1>8. PICK r \in Record :
          r = [NoRec EXCEPT !.dir = n, !.exp = exp] /\ r.dir = n /\ r.exp = exp
    <2> DEFINE new == [NoRec EXCEPT !.dir = n, !.exp = exp]
    <2>1. new \in Record
      BY <1>7, NoRecFacts DEF Record
    <2>2. new.dir = n /\ new.exp = exp
      BY NoRecFacts DEF Record
    <2> QED
      BY <2>1, <2>2
  <1>9. Hold(h, "putnew", r)
    BY <1>5, <1>8
  <1>10. Of(grants', r, s, a)
    BY <1>7, <1>8 DEF Of, Dir
  <1> QED
    BY <1>3, <1>4, <1>5, <1>8, <1>9, <1>10

LEMMA IssueChildKeepsCore ==
  ASSUME Core, NEW h \in Hook, IssueChild(h)
  PROVE  Core'
  <1>1. CASE Done(h) /\ UNCHANGED disk
    <2>1. TypeOK'
      BY <1>1, CoreFacts, DoneFacts, StillTyped DEF IssueChild, store, TypeOK
    <2> QED
      BY <1>1, <2>1, CoreFacts, DoneFacts, IdleHolds, QuietStep DEF IssueChild, store, disk
  <1>2. CASE ~Done(h)
    <2>1. PICK s \in Session, a \in Agent, def \in Type \cup {NoType}, exp \in Nat, r \in Record :
             /\ s = hook[h].s /\ a = hook[h].a
             /\ exp <= clock + TTL /\ Issues(s, a, def, exp)
             /\ Hold(h, "putnew", r)
             /\ Of(grants', r, s, a)
      BY <1>2, IssueChildFacts
    <2>2. "putnew" \in Pcs /\ UNCHANGED <<clock, store, history, faults>>
      BY DEF IssueChild, Pcs
    <2>3. hook'[h].pc = "putnew" /\ hook'[h].rec = r /\ hook'[h].s = s /\ hook'[h].a = a
      BY <2>1, <2>2, HoldFacts, CoreFacts
    <2>4. HoldsInv(grants', hook'[h])
      BY <2>1, <2>3 DEF HoldsInv, OfNoAgent, OfAnAgent
    <2>5. a \in Agent \cup {NoAgent}
      OBVIOUS
    <2> QED
      BY <2>1, <2>2, <2>4, <2>5, IssueStep
  <1>3. CASE Done(h) /\ ~UNCHANGED disk
    <2>1. hook'[h].pc = "idle"
      BY <1>3, CoreFacts, DoneFacts
    <2>2. \E r : Hold(h, "putnew", r)
      BY <1>3, Zenon DEF IssueChild
    <2> QED
      BY <2>1, <2>2, CoreFacts DEF Hold
  <1> QED
    BY <1>1, <1>2, <1>3

-----------------------------------------------------------------------------
(* The steps that prune, write and remove                                  *)

LEMMA PruneLooksKeepsCore ==
  ASSUME Core, NEW h \in Hook, NEW x \in Session, PruneLooks(h, x)
  PROVE  Core'
  <1>0. TypeOK /\ hook \in [Hook -> Process] /\ hook[h] \in Process
    BY CoreFacts
  <1>1. PICK doom \in SUBSET Session :
          hook' = [hook EXCEPT ![h].todo = @ \ {x}, ![h].doomed = doom]
    <2>1. CASE touched[x] # Absent /\ clock - touched[x] > PruneAfter
      BY <2>1, Zenon DEF PruneLooks
    <2>2. CASE ~(touched[x] # Absent /\ clock - touched[x] > PruneAfter)
      BY <2>2, Zenon DEF PruneLooks
    <2> QED
      BY <2>1, <2>2, Zenon
  <1>2. /\ hook' \in [Hook -> Process]
        /\ \A g \in Hook : g # h => hook'[g] = hook[g]
        /\ hook'[h].pc = hook[h].pc /\ hook'[h].a = hook[h].a
    BY <1>0, <1>1 DEF Process
  <1>3. hook[h].pc = "prune" /\ hook[h].a = NoAgent
    BY CoreFacts DEF PruneLooks, At, OfNoAgent
  <1>4. HoldsInv(grants, hook'[h])
    BY <1>2, <1>3 DEF HoldsInv, OfNoAgent, OfAnAgent
  <1>5. TypeOK'
    BY <1>0, <1>2, StillTyped DEF PruneLooks, store, TypeOK
  <1> QED
    BY <1>2, <1>4, <1>5, QuietStep DEF PruneLooks, store, disk

\* A step of one hook that writes records and adds no grant.
LEMMA WriteStep ==
  ASSUME Core, NEW h \in Hook, TypeOK', grants' = grants,
         \A g \in Hook : g # h => hook'[g] = hook[g],
         HoldsInv(grants, hook'[h]),
         \A s \in Session : sess'[s] # NoRec => OfSession(grants, sess'[s], s),
         \A s \in Session, a \in Agent : agts'[s][a] # NoRec => Of(grants, agts'[s][a], s, a)
  PROVE  Core'
  <1>1. Extends(grants, grants') /\ Made' = Made
    BY SameGrants DEF Core
  <1>2. HooksInv'
    BY <1>1, OthersKeep DEF Core
  <1>3. GrantsInv'
    BY <1>1 DEF Core, GrantsInv
  <1>4. SessionsInv' /\ AgentsInv'
    BY DEF SessionsInv, AgentsInv
  <1> QED
    BY <1>2, <1>3, <1>4 DEF Core

\* The directories recorded in a session.
LEMMA RecordedFacts ==
  ASSUME TypeOK, NEW x \in Session
  PROVE  RecordedIn(x) \subseteq Dir
  <1>1. \A a \in Agent : agts[x][a].dir \in Dir \cup {NoDir}
    BY DEF TypeOK, Record
  <1> QED
    BY <1>1 DEF RecordedIn

LEMMA PruneRemovesKeepsCore ==
  ASSUME Core, NEW h \in Hook, NEW x \in Session, PruneRemoves(h, x)
  PROVE  Core'
  <1>0. /\ TypeOK /\ hook \in [Hook -> Process] /\ hook[h] \in Process
        /\ sess \in [Session -> Record] /\ agts \in [Session -> [Agent -> Record]]
    BY CoreFacts DEF TypeOK
  <1>1. /\ hook' = [hook EXCEPT ![h].doomed = {}]
        /\ sess' = [sess EXCEPT ![x] = NoRec]
        /\ agts' = [agts EXCEPT ![x] = [a \in Agent |-> NoRec]]
        /\ touched' = [touched EXCEPT ![x] = Absent]
        /\ dropped' = dropped \cup RecordedIn(x)
        /\ lost' = lost \cup RecordedIn(x)
        /\ UNCHANGED <<clock, dirs, grants, delivered, stopped, faults>>
    BY DEF PruneRemoves, disk
  <1>2. /\ hook' \in [Hook -> Process]
        /\ \A g \in Hook : g # h => hook'[g] = hook[g]
        /\ hook'[h].pc = hook[h].pc /\ hook'[h].a = hook[h].a
    BY <1>0, <1>1 DEF Process
  <1>3. hook[h].pc = "prune" /\ hook[h].a = NoAgent
    BY CoreFacts DEF PruneRemoves, At, OfNoAgent
  <1>4. HoldsInv(grants, hook'[h])
    BY <1>2, <1>3 DEF HoldsInv, OfNoAgent, OfAnAgent
  <1>5. sess' \in [Session -> Record] /\ agts' \in [Session -> [Agent -> Record]]
    BY <1>0, <1>1, NoRecFacts
  <1>6. TypeOK'
    BY <1>0, <1>1, <1>2, <1>5, RecordedFacts DEF TypeOK
  <1>7. \A s \in Session : sess'[s] = sess[s] \/ sess'[s] = NoRec
    BY <1>0, <1>1
  <1>8. \A s \in Session, a \in Agent : agts'[s][a] = agts[s][a] \/ agts'[s][a] = NoRec
    BY <1>0, <1>1
  <1>9. /\ \A s \in Session : sess'[s] # NoRec => OfSession(grants, sess'[s], s)
        /\ \A s \in Session, a \in Agent :
             agts'[s][a] # NoRec => Of(grants, agts'[s][a], s, a)
    BY <1>7, <1>8 DEF Core, SessionsInv, AgentsInv
  <1> QED
    BY <1>1, <1>2, <1>4, <1>6, <1>9, WriteStep

LEMMA PutSessionKeepsCore ==
  ASSUME Core, NEW h \in Hook, PutSession(h)
  PROVE  Core'
  <1> DEFINE p == hook[h]
  <1>0. /\ TypeOK /\ p.pc = "put" /\ p.s \in Session /\ p.rec \in Record
        /\ OfSession(grants, p.rec, p.s)
        /\ sess \in [Session -> Record]
    BY CoreFacts DEF PutSession, At, HoldsInv, TypeOK
  <1>1. /\ sess' = [sess EXCEPT ![p.s] = p.rec] /\ Done(h) /\ Touches(p.s)
        /\ UNCHANGED <<clock, agts, dirs, grants, delivered, stopped, dropped, lost, faults>>
    BY DEF PutSession, disk, history
  <1>2. /\ hook' \in [Hook -> Process]
        /\ \A g \in Hook : g # h => hook'[g] = hook[g]
        /\ HoldsInv(grants, hook'[h])
    BY <1>1, CoreFacts, DoneFacts, IdleHolds
  <1>3. touched' \in [Session -> Nat \cup {Absent}]
    BY <1>0, <1>1, TouchFacts
  <1>4. sess' \in [Session -> Record]
    BY <1>0, <1>1
  <1>5. TypeOK'
    BY <1>0, <1>1, <1>2, <1>3, <1>4 DEF TypeOK
  <1>6. \A s \in Session : sess'[s] = sess[s] \/ (s = p.s /\ sess'[s] = p.rec)
    BY <1>0, <1>1
  <1>7. \A s \in Session : sess'[s] # NoRec => OfSession(grants, sess'[s], s)
    BY <1>0, <1>6 DEF Core, SessionsInv
  <1>8. \A s \in Session, a \in Agent : agts'[s][a] # NoRec => Of(grants, agts'[s][a], s, a)
    BY <1>1 DEF Core, AgentsInv
  <1> QED
    BY <1>1, <1>2, <1>5, <1>7, <1>8, WriteStep

LEMMA PutNewKeepsCore ==
  ASSUME Core, NEW h \in Hook, PutNew(h)
  PROVE  Core'
  <1> DEFINE p == hook[h]
  <1>0. /\ TypeOK /\ p.pc = "putnew" /\ p.s \in Session /\ p.rec \in Record
        /\ p.a \in Agent /\ p.a # NoAgent
        /\ Of(grants, p.rec, p.s, p.a)
        /\ agts \in [Session -> [Agent -> Record]]
    BY CoreFacts DEF PutNew, At, HoldsInv, TypeOK, OfAnAgent
  <1>1. /\ Touches(p.s)
        /\ UNCHANGED <<clock, sess, dirs, grants, delivered, stopped, dropped, lost, faults>>
    BY DEF PutNew, disk, history
  <1>2. touched' \in [Session -> Nat \cup {Absent}]
    BY <1>0, <1>1, TouchFacts
  <1>3. CASE agts' = [agts EXCEPT ![p.s][p.a] = p.rec] /\ Answer(h, p.rec)
    <2>1. /\ hook' \in [Hook -> Process]
          /\ \A g \in Hook : g # h => hook'[g] = hook[g]
          /\ HoldsInv(grants, hook'[h])
      BY <1>0, <1>3, AnswerFacts
    <2>2. agts' \in [Session -> [Agent -> Record]]
      BY <1>0, <1>3
    <2>3. TypeOK'
      BY <1>0, <1>1, <1>2, <2>1, <2>2 DEF TypeOK
    <2>4. \A s \in Session, a \in Agent :
            \/ agts'[s][a] = agts[s][a]
            \/ s = p.s /\ a = p.a /\ agts'[s][a] = p.rec
      BY <1>0, <1>3
    <2>5. \A s \in Session, a \in Agent : agts'[s][a] # NoRec => Of(grants, agts'[s][a], s, a)
      BY <1>0, <2>4 DEF Core, AgentsInv
    <2>6. \A s \in Session : sess'[s] # NoRec => OfSession(grants, sess'[s], s)
      BY <1>1 DEF Core, SessionsInv
    <2> QED
      BY <1>1, <2>1, <2>3, <2>5, <2>6, WriteStep
  <1>4. CASE agts' = agts /\ Goto(h, "yield")
    <2>1. /\ hook' \in [Hook -> Process]
          /\ \A g \in Hook : g # h => hook'[g] = hook[g]
          /\ hook'[h].pc = "yield" /\ hook'[h].rec = p.rec
          /\ hook'[h].s = p.s /\ hook'[h].a = p.a
      BY <1>4, CoreFacts, GotoFacts DEF Pcs
    <2>2. HoldsInv(grants, hook'[h])
      BY <1>0, <2>1 DEF HoldsInv, OfNoAgent, OfAnAgent
    <2>3. TypeOK'
      BY <1>0, <1>1, <1>2, <1>4, <2>1 DEF TypeOK
    <2> QED
      BY <1>1, <1>4, <2>1, <2>2, <2>3, QuietStep
  <1> QED
    BY <1>3, <1>4, Zenon DEF PutNew

\* A step that changes neither records nor grants, and removes at most directories.
LEMMA RemoveStep ==
  ASSUME Core, NEW h \in Hook,
         hook' \in [Hook -> Process],
         \A g \in Hook : g # h => hook'[g] = hook[g],
         HoldsInv(grants, hook'[h]),
         dirs' \subseteq dirs, faults' \in Nat,
         delivered' \subseteq Dir, stopped' \subseteq Dir, dropped' \subseteq Dir, lost' \subseteq Dir,
         UNCHANGED <<clock, store, grants>>
  PROVE  Core'
  <1>1. TypeOK'
    BY DEF Core, TypeOK, store
  <1> QED
    BY <1>1, QuietStep DEF store

LEMMA YieldKeepsCore ==
  ASSUME Core, NEW h \in Hook, Yield(h)
  PROVE  Core'
  <1>0. hook[h].pc = "yield" /\ hook[h].a \in Agent
    BY CoreFacts DEF Yield, At, OfAnAgent
  <1>1. /\ hook' \in [Hook -> Process]
        /\ \A g \in Hook : g # h => hook'[g] = hook[g]
        /\ hook'[h].pc = "winner" /\ hook'[h].a = hook[h].a
    BY CoreFacts, HoldFacts, NoRecFacts DEF Yield, Pcs
  <1>2. HoldsInv(grants, hook'[h])
    BY <1>0, <1>1 DEF HoldsInv, OfNoAgent, OfAnAgent
  <1>3. dirs' \subseteq dirs /\ UNCHANGED <<clock, store, grants, history, faults>>
    BY DEF Yield
  <1> QED
    BY <1>1, <1>2, <1>3, RemoveStep DEF Core, TypeOK, history

LEMMA DiscardKeepsCore ==
  ASSUME Core, NEW h \in Hook, Discard(h)
  PROVE  Core'
  <1>1. /\ hook' \in [Hook -> Process]
        /\ \A g \in Hook : g # h => hook'[g] = hook[g]
        /\ HoldsInv(grants, hook'[h])
    BY CoreFacts, DoneFacts, IdleHolds DEF Discard
  <1>2. dirs' \subseteq dirs /\ UNCHANGED <<clock, store, grants, history, faults>>
    BY DEF Discard
  <1> QED
    BY <1>1, <1>2, RemoveStep DEF Core, TypeOK, history

LEMMA DeliverKeepsCore ==
  ASSUME Core, NEW h \in Hook, Deliver(h)
  PROVE  Core'
  <1>1. /\ hook' \in [Hook -> Process]
        /\ \A g \in Hook : g # h => hook'[g] = hook[g]
        /\ HoldsInv(grants, hook'[h])
    BY CoreFacts, DoneFacts, IdleHolds DEF Deliver
  <1>2. UNCHANGED <<clock, store, disk, stopped, dropped, lost, faults>>
    BY DEF Deliver
  <1>3. delivered' \subseteq Dir
    <2>1. dirs \subseteq Dir /\ delivered \subseteq Dir
      BY BoundAssumption DEF Core, TypeOK, Dir
    <2>2. \A d \in delivered' : d \in delivered \/ (d = hook[h].rec.dir /\ Delivers(h))
      BY DEF Deliver
    <2> QED
      BY <2>1, <2>2 DEF Delivers
  <1> QED
    BY <1>1, <1>2, <1>3, RemoveStep DEF Core, TypeOK, disk

LEMMA StopDeletesKeepsCore ==
  ASSUME Core, NEW h \in Hook, StopDeletes(h)
  PROVE  Core'
  <1> DEFINE p == hook[h]
             there == {agts[p.s][p.a].dir} \ {NoDir}
  <1>0. /\ TypeOK /\ p.pc = "delete" /\ p.s \in Session /\ p.a \in Agent
        /\ p.rec \in Record /\ Of(grants, p.rec, p.s, p.a)
        /\ agts \in [Session -> [Agent -> Record]]
    BY CoreFacts DEF StopDeletes, At, HoldsInv, OfAnAgent, TypeOK
  <1>1. /\ agts' = [agts EXCEPT ![p.s][p.a] = NoRec] /\ Goto(h, "remove")
        /\ Opens(p.s) \/ Touches(p.s)
        /\ dropped' = dropped \cup there /\ lost' = lost \cup (there \ {p.rec.dir})
        /\ UNCHANGED <<clock, sess, dirs, grants, delivered, stopped, faults>>
    BY DEF StopDeletes, disk
  <1>2. touched' \in [Session -> Nat \cup {Absent}]
    BY <1>0, <1>1, TouchFacts
  <1>3. there \subseteq Dir
    BY <1>0 DEF Record
  <1>4. /\ hook' \in [Hook -> Process]
        /\ \A g \in Hook : g # h => hook'[g] = hook[g]
        /\ hook'[h].pc = "remove" /\ hook'[h].rec = p.rec
        /\ hook'[h].s = p.s /\ hook'[h].a = p.a
    BY <1>1, CoreFacts, GotoFacts DEF Pcs
  <1>5. HoldsInv(grants, hook'[h])
    BY <1>0, <1>4 DEF HoldsInv, OfNoAgent, OfAnAgent
  <1>6. agts' \in [Session -> [Agent -> Record]]
    BY <1>0, <1>1, NoRecFacts
  <1>7. TypeOK'
    BY <1>0, <1>1, <1>2, <1>3, <1>4, <1>6 DEF TypeOK
  <1>8. \A s \in Session, a \in Agent : agts'[s][a] = agts[s][a] \/ agts'[s][a] = NoRec
    BY <1>0, <1>1
  <1>9. /\ \A s \in Session : sess'[s] # NoRec => OfSession(grants, sess'[s], s)
        /\ \A s \in Session, a \in Agent :
             agts'[s][a] # NoRec => Of(grants, agts'[s][a], s, a)
    BY <1>1, <1>8 DEF Core, SessionsInv, AgentsInv
  <1> QED
    BY <1>1, <1>4, <1>5, <1>7, <1>9, WriteStep

\* The directory an agent's hook holds is one there can be.
LEMMA HeldInDir ==
  ASSUME Core, NEW h \in Hook,
         hook[h].pc \in {"putnew", "yield", "discard", "delete", "remove"}
  PROVE  hook[h].rec.dir \in Made /\ hook[h].rec.dir \in Dir
  <1>1. hook[h].rec.dir \in 1 .. Len(grants)
    BY CoreFacts DEF HoldsInv, Of
  <1> QED
    BY <1>1, BoundAssumption DEF Core, TypeOK, Made, Dir

LEMMA StopRemovesKeepsCore ==
  ASSUME Core, NEW h \in Hook, StopRemoves(h)
  PROVE  Core'
  <1>1. /\ hook' \in [Hook -> Process]
        /\ \A g \in Hook : g # h => hook'[g] = hook[g]
        /\ HoldsInv(grants, hook'[h])
    BY CoreFacts, DoneFacts, IdleHolds DEF StopRemoves
  <1>2. /\ dirs' \subseteq dirs /\ stopped' = stopped \cup {hook[h].rec.dir}
        /\ UNCHANGED <<clock, store, grants, delivered, dropped, lost, faults>>
    BY DEF StopRemoves
  <1>3. hook[h].rec.dir \in Dir
    BY HeldInDir DEF StopRemoves, At
  <1> QED
    BY <1>1, <1>2, <1>3, RemoveStep DEF Core, TypeOK

LEMMA HoldingFacts ==
  ASSUME Core, NEW h \in Hook
  PROVE  Holding(h) \subseteq Dir
  BY HeldInDir DEF Holding

LEMMA AccessFailsKeepsCore ==
  ASSUME Core, NEW h \in Hook, AccessFails(h)
  PROVE  Core'
  <1> DEFINE p == hook[h]
  <1>0. /\ faults' = faults + 1
        /\ stopped' = IF p.pc = "remove" THEN stopped \cup {p.rec.dir} ELSE stopped
        /\ UNCHANGED <<clock, store, dirs, grants, delivered, dropped>>
    BY DEF AccessFails, At, disk
  <1>1. faults' \in Nat /\ stopped' \subseteq Dir
    BY <1>0, HeldInDir DEF Core, TypeOK
  <1>2. lost' \subseteq Dir
    BY HoldingFacts DEF AccessFails, Core, TypeOK
  <1>3. CASE At(h, "putnew") /\ Goto(h, "discard")
    <2>1. /\ hook' \in [Hook -> Process]
          /\ \A g \in Hook : g # h => hook'[g] = hook[g]
          /\ hook'[h].pc = "discard" /\ hook'[h].rec = p.rec
          /\ hook'[h].s = p.s /\ hook'[h].a = p.a
      BY <1>3, CoreFacts, GotoFacts DEF Pcs
    <2>2. Of(grants, p.rec, p.s, p.a) /\ p.a \in Agent
      BY <1>3, CoreFacts DEF At, HoldsInv, OfAnAgent
    <2>3. HoldsInv(grants, hook'[h])
      BY <2>1, <2>2 DEF HoldsInv, OfNoAgent, OfAnAgent
    <2> QED
      BY <1>0, <1>1, <1>2, <2>1, <2>3, RemoveStep DEF Core, TypeOK
  <1>4. CASE At(h, "yield") /\ Hold(h, "winner", NoRec)
    <2>1. /\ hook' \in [Hook -> Process]
          /\ \A g \in Hook : g # h => hook'[g] = hook[g]
          /\ hook'[h].pc = "winner" /\ hook'[h].a = p.a
      BY <1>4, CoreFacts, HoldFacts, NoRecFacts DEF Pcs
    <2>2. p.a \in Agent
      BY <1>4, CoreFacts DEF At, OfAnAgent
    <2>3. HoldsInv(grants, hook'[h])
      BY <2>1, <2>2 DEF HoldsInv, OfNoAgent, OfAnAgent
    <2> QED
      BY <1>0, <1>1, <1>2, <2>1, <2>3, RemoveStep DEF Core, TypeOK
  <1>5. CASE Done(h)
    <2>1. /\ hook' \in [Hook -> Process]
          /\ \A g \in Hook : g # h => hook'[g] = hook[g]
          /\ HoldsInv(grants, hook'[h])
      BY <1>5, CoreFacts, DoneFacts, IdleHolds
    <2> QED
      BY <1>0, <1>1, <1>2, <2>1, RemoveStep DEF Core, TypeOK
  <1> QED
    BY <1>3, <1>4, <1>5 DEF AccessFails

LEMMA KilledKeepsCore ==
  ASSUME Core, NEW h \in Hook, Killed(h)
  PROVE  Core'
  <1>1. /\ hook' \in [Hook -> Process]
        /\ \A g \in Hook : g # h => hook'[g] = hook[g]
        /\ HoldsInv(grants, hook'[h])
    BY CoreFacts, DoneFacts, IdleHolds DEF Killed
  <1>2. /\ faults' = faults + 1 /\ lost' = lost \cup Holding(h)
        /\ UNCHANGED <<clock, store, dirs, grants, delivered, stopped, dropped>>
    BY DEF Killed, disk
  <1> QED
    BY <1>1, <1>2, HoldingFacts, RemoveStep DEF Core, TypeOK

\* A step of the environment moves no hook and writes no record.
LEMMA OutsideKeepsCore ==
  ASSUME Core, Tick \/ \E d \in Dir : Reap(d)
  PROVE  Core'
  <1>1. /\ UNCHANGED <<store, grants, hook, history, faults>>
        /\ dirs' \subseteq dirs /\ clock' \in Nat
    BY DEF Tick, Reap, Core, TypeOK, disk
  <1>2. TypeOK'
    BY <1>1 DEF Core, TypeOK, store, history
  <1>3. GrantsInv' /\ SessionsInv' /\ AgentsInv' /\ HooksInv'
    BY <1>1 DEF Core, GrantsInv, SessionsInv, AgentsInv, HooksInv, store, Made
  <1> QED
    BY <1>2, <1>3 DEF Core

-----------------------------------------------------------------------------
(* The theorems about the core                                             *)

LEMMA InitCore ==
  ASSUME Init
  PROVE  Core
  <1>1. TypeOK
    <2>1. grants \in Seq(Grant) /\ Len(grants) <= MaxDirs /\ dirs \subseteq 1 .. Len(grants)
      BY BoundAssumption DEF Init
    <2>2. /\ sess \in [Session -> Record] /\ agts \in [Session -> [Agent -> Record]]
          /\ touched \in [Session -> Nat \cup {Absent}] /\ hook \in [Hook -> Process]
      BY NoRecFacts, IdleFacts DEF Init
    <2> QED
      BY <2>1, <2>2 DEF Init, TypeOK
  <1>2. GrantsInv /\ SessionsInv /\ AgentsInv
    BY DEF Init, GrantsInv, SessionsInv, AgentsInv, Made
  <1>3. HooksInv
    BY IdleHolds DEF Init, HooksInv
  <1> QED
    BY <1>1, <1>2, <1>3 DEF Core

LEMMA StepKeepsCore ==
  ASSUME Core, NEW h \in Hook, Step(h)
  PROVE  Core'
  <1>1. CASE \E x \in Session : PruneLooks(h, x) \/ PruneRemoves(h, x)
    BY <1>1, PruneLooksKeepsCore, PruneRemovesKeepsCore
  <1>2. CASE IssueSession(h) \/ PutSession(h) \/ PromptReads(h) \/ RenewSession(h)
    BY <1>2, IssueSessionKeepsCore, PutSessionKeepsCore, PromptReadsKeepsCore,
       RenewSessionKeepsCore
  <1>3. CASE AgentReads(h) \/ ParentReads(h) \/ IssueChild(h) \/ PutNew(h)
    BY <1>3, AgentReadsKeepsCore, ParentReadsKeepsCore, IssueChildKeepsCore, PutNewKeepsCore
  <1>4. CASE Yield(h) \/ Discard(h) \/ WinnerReads(h)
    BY <1>4, YieldKeepsCore, DiscardKeepsCore, WinnerReadsKeepsCore
  <1>5. CASE SessionReads(h) \/ Deliver(h)
    BY <1>5, SessionReadsKeepsCore, DeliverKeepsCore
  <1>6. CASE StopReads(h) \/ StopDeletes(h) \/ StopRemoves(h)
    BY <1>6, StopReadsKeepsCore, StopDeletesKeepsCore, StopRemovesKeepsCore
  <1> QED
    BY <1>1, <1>2, <1>3, <1>4, <1>5, <1>6 DEF Step

LEMMA NextKeepsCore ==
  ASSUME Core, [Next]_vars
  PROVE  Core'
  <1>1. CASE \E h \in Hook : Event(h) \/ Step(h) \/ AccessFails(h) \/ Killed(h)
    BY <1>1, EventKeepsCore, StepKeepsCore, AccessFailsKeepsCore, KilledKeepsCore
  <1>2. CASE Tick \/ \E d \in Dir : Reap(d)
    BY <1>2, OutsideKeepsCore
  <1>3. CASE UNCHANGED vars
    BY <1>3 DEF vars, store, disk, history, Core, TypeOK, GrantsInv, SessionsInv, AgentsInv,
                HooksInv, Made
  <1> QED
    BY <1>1, <1>2, <1>3 DEF Next

\* What every hook, record and grant is worth holds at every moment.
THEOREM CoreInvariant == Spec => []Core
  <1>1. Init => Core
    BY InitCore
  <1>2. Core /\ [Next]_vars => Core'
    BY NextKeepsCore
  <1> QED
    BY <1>1, <1>2, PTL DEF Spec

\* A session's record describes the assertion in the directory it names, also
\* when a refresh overtakes a session-start (Store.Put writes whole records).
THEOREM RecordMatchesDirectoryHolds == Spec => []RecordMatchesDirectory
  <1>1. Core => RecordMatchesDirectory
    BY DEF Core, SessionsInv, OfSession, Of, RecordMatchesDirectory
  <1> QED
    BY <1>1, CoreInvariant, PTL

\* A command is given only what was issued for its own session and agent, and
\* under a claimed type the definition of that type (claude.go, preToolUseBash).
THEOREM DeliveredMatchesCallerHolds == Spec => []DeliveredMatchesCaller
  <1>1. ASSUME Core, NEW h \in Hook, Delivers(h)
        PROVE  LET p == hook[h]  g == grants[p.rec.dir]
               IN  /\ g.s = p.s /\ g.a = p.a
                   /\ p.a = NoAgent /\ p.type # NoType => g.def = DefinitionFor(p.type)
    <2>1. HoldsInv(grants, hook[h]) /\ hook[h].pc = "deliver"
      BY <1>1, CoreFacts DEF Delivers, At
    <2>2. CASE hook[h].a # NoAgent
      BY <2>1, <2>2 DEF HoldsInv, Of
    <2>3. CASE hook[h].a = NoAgent
      BY <2>1, <2>3 DEF HoldsInv, OfSession, Of, OwnType
    <2> QED
      BY <2>2, <2>3
  <1>2. Core => DeliveredMatchesCaller
    BY <1>1 DEF DeliveredMatchesCaller
  <1> QED
    BY <1>2, CoreInvariant, PTL

-----------------------------------------------------------------------------
(* The inductive invariant                                                 *)

\* A hook in one of these phases has a directory no record names yet.
Owning == {"putnew", "yield", "discard"}
\* In one of these it will store, remove or forget the directory it holds.
Taking == Owning \cup {"delete", "remove"}

Named(s, a) == agts[s][a].dir

\* What an owner has, no record, no other such hook and no stop has.
Exclusive ==
  \A h \in Hook :
    LET p == hook[h]
    IN  p.pc \in Owning =>
          /\ Named(p.s, p.a) # p.rec.dir
          /\ p.rec.dir \notin stopped
          /\ \A g \in Hook \ {h} : hook[g].pc \in Taking => hook[g].rec.dir # p.rec.dir

\* A stop removes a directory only when no record names it.
Withdrawn ==
  \A h \in Hook :
    LET p == hook[h] IN p.pc = "remove" => Named(p.s, p.a) # p.rec.dir

\* What is about to be recorded is there while it is of use.
Present ==
  \A h \in Hook :
    LET p == hook[h] IN p.pc = "putnew" /\ p.rec.exp > clock => p.rec.dir \in dirs

\* What a stop took has been taken for good.
Silent ==
  \A d \in stopped :
    /\ d \in Made /\ grants[d].a \in Agent
    /\ Named(grants[d].s, grants[d].a) # d

\* A hook knows only stops that were, and delivers nothing that one took before.
Later ==
  \A h \in Hook :
    LET p == hook[h]
    IN p.old \subseteq stopped /\ (p.pc = "deliver" => p.rec.dir \notin p.old)

\* What commands of an agent are or were given is what its record names, or was.
Agreed ==
  /\ \A d \in delivered :
       /\ d \in Made /\ grants[d].a \in Agent
       /\ Named(grants[d].s, grants[d].a) = d \/ d \in dropped
  /\ \A h \in Hook :
       LET p == hook[h]
       IN  p.pc = "deliver" /\ p.a # NoAgent => Named(p.s, p.a) = p.rec.dir \/ p.rec.dir \in dropped

Owned ==
  /\ Exclusive /\ Withdrawn /\ Present /\ Silent /\ Later /\ Agreed
  /\ NoDanglingRecord /\ NoLeakedChild

-----------------------------------------------------------------------------
(* What the invariant says of one record, and of one hook                  *)

\* The record of an agent names nothing, or a directory issued for it.
LEMMA NamedFacts ==
  ASSUME Core, NEW s \in Session, NEW a \in Agent
  PROVE  /\ agts[s][a] \in Record /\ Named(s, a) = agts[s][a].dir
         /\ agts[s][a] = NoRec => Named(s, a) = NoDir
         /\ Named(s, a) # NoDir => agts[s][a] # NoRec
         /\ agts[s][a] # NoRec => Of(grants, agts[s][a], s, a) /\ Named(s, a) # NoDir
  <1>1. agts[s][a] \in Record
    BY DEF Core, TypeOK
  <1>2. agts[s][a] # NoRec => Of(grants, agts[s][a], s, a)
    BY DEF Core, AgentsInv
  <1>3. Len(grants) \in Nat
    BY DEF Core, TypeOK
  <1> QED
    BY <1>1, <1>2, <1>3, NoRecFacts DEF Named, Of, NoDir

\* A hook that holds a directory holds one issued for its agent.
LEMMA HeldFacts ==
  ASSUME Core, NEW h \in Hook, hook[h].pc \in Taking
  PROVE  /\ hook[h].s \in Session /\ hook[h].a \in Agent /\ hook[h].a # NoAgent
         /\ Of(grants, hook[h].rec, hook[h].s, hook[h].a)
         /\ hook[h].rec \in Record /\ hook[h].rec.dir \in Made /\ hook[h].rec.dir # NoDir
  <1>1. /\ hook[h].s \in Session /\ hook[h].a \in Agent /\ hook[h].a # NoAgent
        /\ Of(grants, hook[h].rec, hook[h].s, hook[h].a) /\ hook[h].rec \in Record
    BY CoreFacts DEF Taking, Owning, HoldsInv, OfAnAgent
  <1>2. Len(grants) \in Nat
    BY DEF Core, TypeOK
  <1> QED
    BY <1>1, <1>2 DEF Of, Made, NoDir

\* One directory is issued for one agent.
LEMMA OfOne ==
  \A gs, r, q, s, t, a, b :
    Of(gs, r, s, a) /\ Of(gs, q, t, b) /\ r.dir = q.dir => s = t /\ a = b
  BY DEF Of

\* No record names what a hook owns or removes.
LEMMA Apart ==
  ASSUME Core, Exclusive, Withdrawn, NEW k \in Hook,
         hook[k].pc \in Owning \cup {"remove"}, NEW s \in Session, NEW a \in Agent
  PROVE  Named(s, a) # hook[k].rec.dir
  <1>1. SUFFICES ASSUME Named(s, a) = hook[k].rec.dir PROVE FALSE
    OBVIOUS
  <1>2. /\ Of(grants, hook[k].rec, hook[k].s, hook[k].a) /\ hook[k].rec.dir # NoDir
    BY HeldFacts DEF Taking
  <1>3. Of(grants, agts[s][a], s, a)
    BY <1>1, <1>2, NamedFacts
  <1>4. s = hook[k].s /\ a = hook[k].a
    BY <1>1, <1>2, <1>3, OfOne, NamedFacts
  <1> QED
    BY <1>1, <1>4 DEF Exclusive, Withdrawn

\* No record names what a stop took.
LEMMA Taken ==
  ASSUME Core, Silent, NEW d \in stopped, NEW s \in Session, NEW a \in Agent
  PROVE  Named(s, a) # d
  <1>1. SUFFICES ASSUME Named(s, a) = d PROVE FALSE
    OBVIOUS
  <1>2. d \in Made /\ Named(grants[d].s, grants[d].a) # d
    BY DEF Silent
  <1>3. d # NoDir
    BY <1>2 DEF Made, NoDir, Core, TypeOK
  <1>4. grants[d].s = s /\ grants[d].a = a
    BY <1>1, <1>3, NamedFacts DEF Of
  <1> QED
    BY <1>1, <1>2, <1>4

-----------------------------------------------------------------------------
(* Steps that leave records, directories and history alone                 *)

LEMMA CalmStep ==
  ASSUME Core, Owned, NEW h \in Hook,
         UNCHANGED <<clock, agts, dirs, grants, delivered, stopped, dropped, lost>>,
         \A g \in Hook : g # h => hook'[g] = hook[g],
         hook[h].pc \notin Owning \cup {"remove"},
         hook'[h].pc \notin Owning \cup {"remove"},
         hook'[h].old \subseteq stopped,
         hook'[h].pc = "delete" =>
           /\ hook'[h].s \in Session /\ hook'[h].a \in Agent
           /\ agts[hook'[h].s][hook'[h].a].dir = hook'[h].rec.dir,
         hook'[h].pc = "deliver" => hook'[h].rec.dir \notin hook'[h].old,
         hook'[h].pc = "deliver" /\ hook'[h].a # NoAgent =>
           agts[hook'[h].s][hook'[h].a].dir = hook'[h].rec.dir
  PROVE  Owned'
  <1>1. Exclusive'
    <2>1. SUFFICES ASSUME NEW k \in Hook, hook'[k].pc \in Owning
                   PROVE  /\ agts'[hook'[k].s][hook'[k].a].dir # hook'[k].rec.dir
                          /\ hook'[k].rec.dir \notin stopped'
                          /\ \A g \in Hook \ {k} :
                               hook'[g].pc \in Taking => hook'[g].rec.dir # hook'[k].rec.dir
      BY DEF Exclusive, Named
    <2>2. k # h /\ hook'[k] = hook[k]
      BY <2>1
    <2>3. /\ agts[hook[k].s][hook[k].a].dir # hook[k].rec.dir
          /\ hook[k].rec.dir \notin stopped
          /\ \A g \in Hook \ {k} : hook[g].pc \in Taking => hook[g].rec.dir # hook[k].rec.dir
      BY <2>1, <2>2 DEF Owned, Exclusive, Named
    <2>4. hook'[h].pc = "delete" => hook'[h].rec.dir # hook[k].rec.dir
      BY <2>1, <2>2, Apart DEF Owned, Named
    <2> QED
      BY <2>2, <2>3, <2>4 DEF Taking
  <1>2. Withdrawn'
    BY DEF Owned, Withdrawn, Named
  <1>3. Present'
    BY DEF Owned, Present, Owning
  <1>4. Silent'
    BY DEF Owned, Silent, Named, Made
  <1>5. Later'
    BY DEF Owned, Later
  <1>6. Agreed'
    BY DEF Owned, Agreed, Named, Made
  <1>7. NoDanglingRecord'
    BY DEF Owned, NoDanglingRecord
  <1>8. NoLeakedChild'
    <2>1. \A k \in Hook : Holding(k) \subseteq Holding(k)'
      BY DEF Holding, Owning
    <2> QED
      BY <2>1 DEF Owned, NoLeakedChild
  <1> QED
    BY <1>1, <1>2, <1>3, <1>4, <1>5, <1>6, <1>7, <1>8 DEF Owned

\* A calm step that ends the hook, or takes it to a phase where it has nothing.
LEMMA CalmEnd ==
  ASSUME Core, Owned, NEW h \in Hook,
         UNCHANGED <<clock, agts, dirs, grants, delivered, stopped, dropped, lost>>,
         hook[h].pc \notin Owning \cup {"remove"},
         \/ Done(h)
         \/ /\ \A g \in Hook : g # h => hook'[g] = hook[g]
            /\ hook'[h].pc \in {"prune", "prompt", "renew", "agent", "parent", "child",
                                "session", "stop"}
            /\ hook'[h].old \subseteq stopped
  PROVE  Owned'
  <1>1. /\ \A g \in Hook : g # h => hook'[g] = hook[g]
        /\ hook'[h].pc \in {"idle", "prune", "prompt", "renew", "agent", "parent", "child",
                            "session", "stop"}
        /\ hook'[h].old \subseteq stopped
    <2>1. CASE Done(h)
      BY <2>1, CoreFacts, DoneFacts, IdleFacts DEF Idle
    <2> QED
      BY <2>1
  <1> QED
    BY <1>1, CalmStep DEF Owning

\* What a hook that answers with the record it found has from then on.
LEMMA CalmAnswer ==
  ASSUME Core, Owned, NEW h \in Hook,
         UNCHANGED <<clock, agts, dirs, grants, delivered, stopped, dropped, lost>>,
         hook[h].pc \in {"agent", "winner"},
         agts[hook[h].s][hook[h].a] # NoRec,
         Answer(h, agts[hook[h].s][hook[h].a])
  PROVE  Owned'
  <1> DEFINE p == hook[h]
             r == agts[p.s][p.a]
  <1>0. /\ p.s \in Session /\ p.a \in Agent /\ p.a # NoAgent /\ hook \in [Hook -> Process]
        /\ r \in Record
    BY CoreFacts DEF OfAnAgent
  <1>1. CASE Hold(h, "deliver", r)
    <2>1. /\ \A g \in Hook : g # h => hook'[g] = hook[g]
          /\ hook'[h].pc = "deliver" /\ hook'[h].rec = r /\ hook'[h].s = p.s
          /\ hook'[h].a = p.a /\ hook'[h].old = p.old
      BY <1>0, <1>1, HoldFacts DEF Pcs
    <2>2. p.old \subseteq stopped
      BY DEF Owned, Later
    <2>3. r.dir \notin stopped
      BY <1>0, Taken DEF Owned, Named
    <2> QED
      BY <2>1, <2>2, <2>3, CalmStep DEF Owning
  <1>2. CASE Done(h)
    BY <1>2, CalmEnd DEF Owning
  <1> QED
    BY <1>1, <1>2, Zenon DEF Answer

LEMMA EventKeepsOwned ==
  ASSUME Core, Owned, NEW h \in Hook, Event(h)
  PROVE  Owned'
  <1>1. ASSUME NEW pc \in Pcs, NEW s \in Session, NEW a \in Agent \cup {NoAgent},
               NEW type \in Type \cup {NoType}, NEW bash \in BOOLEAN, NEW todo \in SUBSET Session,
               Begin(h, pc, s, a, type, bash, todo),
               pc \in {"prune", "prompt", "session", "agent", "stop"}
        PROVE  Owned'
    <2>0. TypeOK
      BY DEF Core
    <2>1. /\ \A g \in Hook : g # h => hook'[g] = hook[g]
          /\ hook'[h].pc = pc /\ hook'[h].old \subseteq stopped
          /\ UNCHANGED <<clock, store, disk, history, faults>>
      BY <1>1, <2>0, BeginFacts
    <2>2. hook[h].pc = "idle"
      BY <1>1, IdleFacts DEF Begin
    <2> QED
      BY <1>1, <2>1, <2>2, CalmEnd DEF store, disk, history, Owning
  <1>2. PICK s \in Session, type \in Type \cup {NoType} :
          \/ SessionStart(h, s, type)
          \/ UserPromptSubmit(h, s)
          \/ \E a \in Agent : SubagentStart(h, s, a, type) \/ SubagentStop(h, s, a)
          \/ \E a \in Agent \cup {NoAgent} : PreToolUseBash(h, s, a, type)
    BY DEF Event
  <1>3. /\ {"prune", "prompt", "session", "agent", "stop"} \subseteq Pcs
        /\ {} \in SUBSET Session /\ Session \in SUBSET Session
        /\ NoType \in Type \cup {NoType} /\ NoAgent \in Agent \cup {NoAgent}
    BY DEF Pcs
  <1>4. CASE SessionStart(h, s, type)
    BY <1>1, <1>3, <1>4 DEF SessionStart
  <1>5. CASE UserPromptSubmit(h, s)
    BY <1>1, <1>3, <1>5 DEF UserPromptSubmit
  <1>6. CASE \E a \in Agent : SubagentStart(h, s, a, type) \/ SubagentStop(h, s, a)
    BY <1>1, <1>3, <1>6 DEF SubagentStart, SubagentStop
  <1>7. CASE \E a \in Agent \cup {NoAgent} : PreToolUseBash(h, s, a, type)
    <2> PICK a \in Agent \cup {NoAgent} : PreToolUseBash(h, s, a, type)
      BY <1>7
    <2>1. CASE a = NoAgent
      BY <1>1, <1>3, <2>1 DEF PreToolUseBash
    <2>2. CASE a # NoAgent
      BY <1>1, <1>3, <2>2 DEF PreToolUseBash
    <2> QED
      BY <2>1, <2>2
  <1> QED
    BY <1>2, <1>4, <1>5, <1>6, <1>7

LEMMA PruneLooksKeepsOwned ==
  ASSUME Core, Owned, NEW h \in Hook, NEW x \in Session, PruneLooks(h, x)
  PROVE  Owned'
  <1>0. hook \in [Hook -> Process] /\ hook[h] \in Process /\ hook[h].pc = "prune"
    BY CoreFacts DEF PruneLooks, At
  <1>1. PICK doom : hook' = [hook EXCEPT ![h].todo = @ \ {x}, ![h].doomed = doom]
    BY Zenon DEF PruneLooks
  <1>2. /\ \A g \in Hook : g # h => hook'[g] = hook[g]
        /\ hook'[h].pc = "prune" /\ hook'[h].old = hook[h].old
    BY <1>0, <1>1 DEF Process
  <1>3. hook[h].old \subseteq stopped
    BY DEF Owned, Later
  <1> QED
    BY <1>0, <1>2, <1>3, CalmEnd DEF PruneLooks, store, disk, history, Owning

LEMMA PutSessionKeepsOwned ==
  ASSUME Core, Owned, NEW h \in Hook, PutSession(h)
  PROVE  Owned'
  BY CalmEnd DEF PutSession, At, disk, history, Owning

LEMMA PromptReadsKeepsOwned ==
  ASSUME Core, Owned, NEW h \in Hook, PromptReads(h)
  PROVE  Owned'
  <1> DEFINE r == sess[hook[h].s]
  <1>0. hook[h].pc = "prompt" /\ UNCHANGED <<clock, sess, agts, disk, history, faults>>
    BY DEF PromptReads, At
  <1>1. CASE Done(h)
    BY <1>0, <1>1, CalmEnd DEF disk, history, Owning
  <1>2. CASE Hold(h, "renew", r)
    <2>1. /\ \A g \in Hook : g # h => hook'[g] = hook[g]
          /\ hook'[h].pc = "renew" /\ hook'[h].old = hook[h].old
      BY <1>2, CoreFacts, HoldFacts DEF Pcs
    <2> QED
      BY <1>0, <2>1, CalmEnd DEF disk, history, Owning, Owned, Later
  <1> QED
    BY <1>1, <1>2 DEF PromptReads

LEMMA AgentReadsKeepsOwned ==
  ASSUME Core, Owned, NEW h \in Hook, AgentReads(h)
  PROVE  Owned'
  <1> DEFINE r == agts[hook[h].s][hook[h].a]
  <1>0. hook[h].pc = "agent" /\ UNCHANGED <<clock, sess, agts, disk, history, faults>>
    BY DEF AgentReads, At
  <1>1. CASE r # NoRec /\ Answer(h, r)
    BY <1>0, <1>1, CalmAnswer DEF disk, history
  <1>2. CASE Goto(h, "parent")
    <2>1. /\ \A g \in Hook : g # h => hook'[g] = hook[g]
          /\ hook'[h].pc = "parent" /\ hook'[h].old = hook[h].old
      BY <1>2, CoreFacts, GotoFacts DEF Pcs
    <2> QED
      BY <1>0, <2>1, CalmEnd DEF disk, history, Owning, Owned, Later
  <1>3. CASE Done(h)
    BY <1>0, <1>3, CalmEnd DEF disk, history, Owning
  <1> QED
    BY <1>1, <1>2, <1>3 DEF AgentReads

LEMMA ParentReadsKeepsOwned ==
  ASSUME Core, Owned, NEW h \in Hook, ParentReads(h)
  PROVE  Owned'
  <1> DEFINE r == sess[hook[h].s]
  <1>0. hook[h].pc = "parent" /\ UNCHANGED <<clock, sess, agts, disk, history, faults>>
    BY DEF ParentReads, At
  <1>1. CASE Hold(h, "child", r)
    <2>1. /\ \A g \in Hook : g # h => hook'[g] = hook[g]
          /\ hook'[h].pc = "child" /\ hook'[h].old = hook[h].old
      BY <1>1, CoreFacts, HoldFacts DEF Pcs
    <2> QED
      BY <1>0, <2>1, CalmEnd DEF disk, history, Owning, Owned, Later
  <1>2. CASE Done(h)
    BY <1>0, <1>2, CalmEnd DEF disk, history, Owning
  <1> QED
    BY <1>1, <1>2 DEF ParentReads

LEMMA WinnerReadsKeepsOwned ==
  ASSUME Core, Owned, NEW h \in Hook, WinnerReads(h)
  PROVE  Owned'
  <1> DEFINE r == agts[hook[h].s][hook[h].a]
  <1>0. hook[h].pc = "winner" /\ UNCHANGED <<clock, sess, agts, disk, history, faults>>
    BY DEF WinnerReads, At
  <1>1. CASE r # NoRec /\ Answer(h, r)
    BY <1>0, <1>1, CalmAnswer DEF disk, history
  <1>2. CASE Done(h)
    BY <1>0, <1>2, CalmEnd DEF disk, history, Owning
  <1> QED
    BY <1>1, <1>2 DEF WinnerReads

LEMMA SessionReadsKeepsOwned ==
  ASSUME Core, Owned, NEW h \in Hook, SessionReads(h)
  PROVE  Owned'
  <1> DEFINE r == sess[hook[h].s]
  <1>0. /\ hook[h].pc = "session" /\ hook[h].a = NoAgent
        /\ UNCHANGED <<clock, sess, agts, disk, history, faults>>
    BY CoreFacts DEF SessionReads, At, OfNoAgent
  <1>1. CASE r # NoRec /\ Hold(h, "deliver", r)
    <2>1. /\ \A g \in Hook : g # h => hook'[g] = hook[g]
          /\ hook'[h].pc = "deliver" /\ hook'[h].rec = r /\ hook'[h].a = NoAgent
          /\ hook'[h].old = hook[h].old
      BY <1>0, <1>1, CoreFacts, HoldFacts DEF Pcs
    <2>2. hook[h].old \subseteq stopped
      BY DEF Owned, Later
    <2>3. r.dir \notin stopped
      <3>1. grants[r.dir].a = NoAgent
        BY <1>1, CoreFacts DEF Core, SessionsInv, OfSession, Of
      <3> QED
        BY <3>1, NamesAssumption DEF Owned, Silent
    <2> QED
      BY <1>0, <2>1, <2>2, <2>3, CalmStep DEF disk, history, Owning
  <1>2. CASE Done(h)
    BY <1>0, <1>2, CalmEnd DEF disk, history, Owning
  <1> QED
    BY <1>1, <1>2 DEF SessionReads

LEMMA StopReadsKeepsOwned ==
  ASSUME Core, Owned, NEW h \in Hook, StopReads(h)
  PROVE  Owned'
  <1> DEFINE r == agts[hook[h].s][hook[h].a]
  <1>0. /\ hook[h].pc = "stop" /\ hook[h].a \in Agent /\ hook[h].s \in Session /\ r \in Record
        /\ UNCHANGED <<clock, sess, agts, disk, history, faults>>
    BY CoreFacts DEF StopReads, At, OfAnAgent
  <1>1. CASE Hold(h, "delete", r)
    <2>1. /\ \A g \in Hook : g # h => hook'[g] = hook[g]
          /\ hook'[h].pc = "delete" /\ hook'[h].rec = r
          /\ hook'[h].s = hook[h].s /\ hook'[h].a = hook[h].a
          /\ hook'[h].old = hook[h].old
      BY <1>0, <1>1, CoreFacts, HoldFacts DEF Pcs
    <2>2. hook[h].old \subseteq stopped
      BY DEF Owned, Later
    <2> QED
      BY <1>0, <2>1, <2>2, CalmStep DEF disk, history, Owning
  <1>2. CASE Done(h)
    BY <1>0, <1>2, CalmEnd DEF disk, history, Owning
  <1> QED
    BY <1>1, <1>2 DEF StopReads

-----------------------------------------------------------------------------
(* Steps that issue                                                        *)

\* A directory not yet made is nobody's.
LEMMA Fresh ==
  ASSUME Core, Owned
  PROVE  LET n == Len(grants) + 1
         IN  /\ n # NoDir /\ n \notin Made /\ n \notin stopped /\ n \notin delivered /\ n \notin dirs
             /\ \A s \in Session, a \in Agent : Named(s, a) # n
             /\ \A g \in Hook : hook[g].pc \in Taking => hook[g].rec.dir # n
  <1> DEFINE n == Len(grants) + 1
  <1>1. Len(grants) \in Nat /\ n # NoDir /\ n \notin Made /\ dirs \subseteq Made
    BY DEF Core, TypeOK, Made, NoDir
  <1>2. n \notin stopped /\ n \notin delivered
    BY <1>1 DEF Owned, Silent, Agreed
  <1>3. \A s \in Session, a \in Agent : Named(s, a) # n
    BY <1>1, NamedFacts DEF Of, Made
  <1>4. \A g \in Hook : hook[g].pc \in Taking => hook[g].rec.dir # n
    BY <1>1, HeldFacts
  <1> QED
    BY <1>1, <1>2, <1>3, <1>4

LEMMA IssueKeepsOwned ==
  ASSUME Core, Owned, NEW h \in Hook, NEW s \in Session, NEW a \in Agent \cup {NoAgent},
         NEW def \in Type \cup {NoType}, NEW exp \in Nat, Issues(s, a, def, exp),
         UNCHANGED <<clock, agts, delivered, stopped, dropped, lost>>,
         \A g \in Hook : g # h => hook'[g] = hook[g],
         hook[h].pc \notin Owning \cup {"remove"}, hook'[h].old = hook[h].old,
         \/ hook'[h].pc = "put" /\ a = NoAgent
         \/ /\ hook'[h].pc = "putnew" /\ a \in Agent
            /\ hook'[h].s = s /\ hook'[h].a = a /\ hook'[h].rec.dir = Len(grants) + 1
  PROVE  Owned'
  <1> DEFINE n == Len(grants) + 1
  <1>0. TypeOK
    BY DEF Core
  <1>1. /\ Made' = Made \cup {n} /\ n \notin Made
        /\ \A d \in Made : grants'[d] = grants[d]
        /\ grants'[n].s = s /\ grants'[n].a = a
        /\ dirs' = dirs \cup {n}
    BY <1>0, IssueFacts
  <1>2. /\ n # NoDir /\ n \notin Made /\ n \notin stopped /\ n \notin delivered /\ n \notin dirs
        /\ \A t \in Session, b \in Agent : Named(t, b) # n
        /\ \A g \in Hook : hook[g].pc \in Taking => hook[g].rec.dir # n
    BY Fresh
  <1>3. dirs \subseteq Made /\ stopped \subseteq Made /\ delivered \subseteq Made
    BY DEF Core, TypeOK, Made, Owned, Silent, Agreed
  <1> HIDE DEF n
  <1>4. Exclusive'
    <2>1. SUFFICES ASSUME NEW k \in Hook, hook'[k].pc \in Owning
                   PROVE  /\ agts[hook'[k].s][hook'[k].a].dir # hook'[k].rec.dir
                          /\ hook'[k].rec.dir \notin stopped
                          /\ \A g \in Hook \ {k} :
                               hook'[g].pc \in Taking => hook'[g].rec.dir # hook'[k].rec.dir
      BY DEF Exclusive, Named
    <2>2. CASE k = h
      <3>1. hook'[h].s = s /\ hook'[h].a = a /\ a \in Agent /\ hook'[h].rec.dir = n
        BY <2>1, <2>2 DEF Owning, n
      <3> QED
        BY <1>2, <2>2, <3>1 DEF Named
    <2>3. CASE k # h
      <3>1. /\ hook[k].pc \in Owning /\ hook'[k] = hook[k]
            /\ agts[hook[k].s][hook[k].a].dir # hook[k].rec.dir
            /\ hook[k].rec.dir \notin stopped /\ hook[k].rec.dir # n
            /\ \A g \in Hook \ {k} : hook[g].pc \in Taking => hook[g].rec.dir # hook[k].rec.dir
        BY <1>2, <2>1, <2>3 DEF Owned, Exclusive, Named, Taking
      <3>2. hook'[h].pc \in Taking => hook'[h].rec.dir = n
        BY DEF Taking, Owning, n
      <3> QED
        BY <3>1, <3>2
    <2> QED
      BY <2>2, <2>3
  <1>5. Withdrawn'
    BY DEF Owned, Withdrawn, Named
  <1>6. Present'
    BY <1>1 DEF Owned, Present, n
  <1>7. Silent'
    BY <1>1, <1>3 DEF Owned, Silent, Named
  <1>8. Later'
    BY DEF Owned, Later
  <1>9. Agreed'
    BY <1>1, <1>3 DEF Owned, Agreed, Named
  <1>10. NoDanglingRecord'
    BY <1>1, <1>3 DEF Owned, NoDanglingRecord
  <1>11. NoLeakedChild'
    <2>1. SUFFICES ASSUME NEW d \in dirs', grants'[d].a # NoAgent
                   PROVE  \/ agts[grants'[d].s][grants'[d].a].dir = d
                          \/ \E k \in Hook : d \in Holding(k)'
                          \/ d \in lost
      BY DEF NoLeakedChild
    <2>2. CASE d = n
      BY <1>1, <2>1, <2>2 DEF Holding, n
    <2>3. CASE d # n
      <3>1. d \in dirs /\ grants'[d] = grants[d]
        BY <1>1, <1>3, <2>1, <2>3
      <3>2. \A k \in Hook : Holding(k) # {} => k # h /\ Holding(k)' = Holding(k)
        BY DEF Holding, Owning
      <3> QED
        BY <2>1, <3>1, <3>2 DEF Owned, NoLeakedChild
    <2> QED
      BY <2>2, <2>3
  <1> QED
    BY <1>4, <1>5, <1>6, <1>7, <1>8, <1>9, <1>10, <1>11 DEF Owned

LEMMA IssueSessionKeepsOwned ==
  ASSUME Core, Owned, NEW h \in Hook, IssueSession(h)
  PROVE  Owned'
  <1> DEFINE p == hook[h]
             new == [dir |-> Len(grants) + 1, exp |-> clock + TTL,
                     def |-> DefinitionFor(p.type), start |-> p.type]
  <1>0. /\ TypeOK /\ p.pc = "prune" /\ p.s \in Session
        /\ DefinitionFor(p.type) \in Type \cup {NoType} /\ clock + TTL \in Nat
        /\ p.type \in Type \cup {NoType}
    BY CoreFacts, TimesAssumption DEF IssueSession, At, DefinitionFor, TypeOK
  <1>1. /\ Issues(p.s, NoAgent, DefinitionFor(p.type), clock + TTL) /\ Hold(h, "put", new)
        /\ UNCHANGED <<clock, store, history, faults>>
    BY DEF IssueSession
  <1>2. PICK s \in Session, def \in Type \cup {NoType}, exp \in Nat :
          s = p.s /\ def = DefinitionFor(p.type) /\ exp = clock + TTL
    BY <1>0
  <1>3. Issues(s, NoAgent, def, exp) /\ NoAgent \in Agent \cup {NoAgent}
    BY <1>1, <1>2
  <1>4. new \in Record
    <2>1. Len(grants) + 1 \in Dir
      BY <1>0, <1>3, IssueFacts
    <2> QED
      BY <1>0, <2>1 DEF Record
  <1> HIDE DEF new
  <1>5. /\ \A g \in Hook : g # h => hook'[g] = hook[g]
        /\ hook'[h].pc = "put" /\ hook'[h].old = hook[h].old
    BY <1>1, <1>4, CoreFacts, HoldFacts DEF Pcs
  <1>6. hook[h].pc \notin Owning \cup {"remove"}
        /\ UNCHANGED <<clock, agts, delivered, stopped, dropped, lost>>
    BY <1>0, <1>1 DEF Owning, store, history
  <1> QED
    BY <1>3, <1>5, <1>6, IssueKeepsOwned

LEMMA RenewSessionKeepsOwned ==
  ASSUME Core, Owned, NEW h \in Hook, RenewSession(h)
  PROVE  Owned'
  <1> DEFINE p == hook[h]
             new == [p.rec EXCEPT !.dir = Len(grants) + 1, !.exp = clock + TTL]
  <1>0. /\ TypeOK /\ p.pc = "renew" /\ p.s \in Session /\ p.rec \in Record
        /\ p.rec.def \in Type \cup {NoType} /\ clock + TTL \in Nat
    BY CoreFacts, TimesAssumption DEF RenewSession, At, Record, TypeOK
  <1>1. /\ Issues(p.s, NoAgent, p.rec.def, clock + TTL) /\ Hold(h, "put", new)
        /\ UNCHANGED <<clock, store, history, faults>>
    BY <1>0 DEF RenewSession, Record
  <1>2. PICK s \in Session, def \in Type \cup {NoType}, exp \in Nat :
          s = p.s /\ def = p.rec.def /\ exp = clock + TTL
    BY <1>0
  <1>3. Issues(s, NoAgent, def, exp) /\ NoAgent \in Agent \cup {NoAgent}
    BY <1>1, <1>2
  <1>4. new \in Record
    <2>1. Len(grants) + 1 \in Dir
      BY <1>0, <1>3, IssueFacts
    <2> QED
      BY <1>0, <2>1 DEF Record
  <1> HIDE DEF new
  <1>5. /\ \A g \in Hook : g # h => hook'[g] = hook[g]
        /\ hook'[h].pc = "put" /\ hook'[h].old = hook[h].old
    BY <1>1, <1>4, CoreFacts, HoldFacts DEF Pcs
  <1>6. hook[h].pc \notin Owning \cup {"remove"}
        /\ UNCHANGED <<clock, agts, delivered, stopped, dropped, lost>>
    BY <1>0, <1>1 DEF Owning, store, history
  <1> QED
    BY <1>3, <1>5, <1>6, IssueKeepsOwned

LEMMA IssueChildKeepsOwned ==
  ASSUME Core, Owned, NEW h \in Hook, IssueChild(h)
  PROVE  Owned'
  <1>0. hook[h].pc = "child" /\ UNCHANGED <<clock, store, history, faults>>
    BY DEF IssueChild, At
  <1>1. CASE Done(h) /\ UNCHANGED disk
    BY <1>0, <1>1, CalmEnd DEF store, disk, history, Owning
  <1>2. CASE ~Done(h)
    <2>1. PICK s \in Session, a \in Agent, def \in Type \cup {NoType}, exp \in Nat, r \in Record :
             /\ s = hook[h].s /\ a = hook[h].a
             /\ Issues(s, a, def, exp)
             /\ Hold(h, "putnew", r) /\ r.dir = Len(grants) + 1
      BY <1>2, IssueChildFacts
    <2>2. /\ \A g \in Hook : g # h => hook'[g] = hook[g]
          /\ hook'[h].pc = "putnew" /\ hook'[h].rec = r /\ hook'[h].s = s /\ hook'[h].a = a
          /\ hook'[h].old = hook[h].old
      BY <2>1, CoreFacts, HoldFacts DEF Pcs
    <2>3. hook[h].pc \notin Owning \cup {"remove"} /\ a \in Agent \cup {NoAgent}
          /\ UNCHANGED <<clock, agts, delivered, stopped, dropped, lost>>
      BY <1>0 DEF Owning, store, history
    <2> QED
      BY <2>1, <2>2, <2>3, IssueKeepsOwned
  <1>3. CASE Done(h) /\ ~UNCHANGED disk
    <2>1. hook'[h].pc = "idle"
      BY <1>3, CoreFacts, DoneFacts
    <2>2. \E r : Hold(h, "putnew", r)
      BY <1>3, Zenon DEF IssueChild
    <2> QED
      BY <2>1, <2>2, CoreFacts DEF Hold
  <1> QED
    BY <1>1, <1>2, <1>3

-----------------------------------------------------------------------------
(* Steps that take records away                                            *)

LEMMA RecordsGo ==
  ASSUME Core, Owned, NEW h \in Hook,
         UNCHANGED <<clock, dirs, grants, delivered, stopped>>,
         \A s \in Session, a \in Agent :
           \/ agts'[s][a] = agts[s][a]
           \/ /\ agts'[s][a] = NoRec
              /\ agts[s][a] # NoRec =>
                   /\ agts[s][a].dir \in dropped'
                   /\ \/ agts[s][a].dir \in lost'
                      \/ hook'[h].pc = "remove" /\ agts[s][a].dir = hook'[h].rec.dir,
         dropped \subseteq dropped', lost \subseteq lost',
         \A g \in Hook : g # h => hook'[g] = hook[g],
         hook[h].pc \notin Owning \cup {"remove"}, hook'[h].old = hook[h].old,
         \/ hook'[h].pc = "prune"
         \/ /\ hook'[h].pc = "remove" /\ hook[h].pc = "delete"
            /\ hook'[h].rec = hook[h].rec /\ hook'[h].s = hook[h].s /\ hook'[h].a = hook[h].a
            /\ agts'[hook[h].s][hook[h].a] = NoRec
  PROVE  Owned'
  <1>1. \A d : \A s \in Session, a \in Agent : d # NoDir /\ Named(s, a) # d => agts'[s][a].dir # d
    BY NoRecFacts DEF Named
  <1>2. \A k \in Hook : hook[k].pc \in Taking =>
          /\ hook[k].rec.dir # NoDir /\ hook[k].s \in Session /\ hook[k].a \in Agent
    BY HeldFacts
  <1>3. \A d \in Made : d # NoDir
    BY DEF Made, NoDir, Core, TypeOK
  <1>4. Exclusive'
    <2>1. SUFFICES ASSUME NEW k \in Hook, hook'[k].pc \in Owning
                   PROVE  /\ agts'[hook'[k].s][hook'[k].a].dir # hook'[k].rec.dir
                          /\ hook'[k].rec.dir \notin stopped'
                          /\ \A g \in Hook \ {k} :
                               hook'[g].pc \in Taking => hook'[g].rec.dir # hook'[k].rec.dir
      BY DEF Exclusive, Named
    <2>2. k # h /\ hook'[k] = hook[k]
      BY <2>1 DEF Owning
    <2>3. /\ Named(hook[k].s, hook[k].a) # hook[k].rec.dir
          /\ hook[k].rec.dir \notin stopped
          /\ \A g \in Hook \ {k} : hook[g].pc \in Taking => hook[g].rec.dir # hook[k].rec.dir
          /\ hook[k].pc \in Taking
      BY <2>1, <2>2 DEF Owned, Exclusive, Taking
    <2>4. agts'[hook[k].s][hook[k].a].dir # hook[k].rec.dir
      BY <1>1, <1>2, <2>3
    <2>5. \A g \in Hook \ {k} : hook'[g].pc \in Taking => hook'[g].rec.dir # hook[k].rec.dir
      BY <2>3 DEF Taking, Owning
    <2> QED
      BY <2>2, <2>3, <2>4, <2>5
  <1>5. Withdrawn'
    <2>1. SUFFICES ASSUME NEW k \in Hook, hook'[k].pc = "remove"
                   PROVE  agts'[hook'[k].s][hook'[k].a].dir # hook'[k].rec.dir
      BY DEF Withdrawn, Named
    <2>2. CASE k = h
      BY <1>2, <2>1, <2>2, NoRecFacts DEF Taking
    <2>3. CASE k # h
      BY <1>1, <1>2, <2>1, <2>3 DEF Owned, Withdrawn, Taking
    <2> QED
      BY <2>2, <2>3
  <1>6. Present'
    BY DEF Owned, Present
  <1>7. Silent'
    <2>1. SUFFICES ASSUME NEW d \in stopped
                   PROVE  /\ d \in Made /\ grants[d].a \in Agent
                          /\ agts'[grants[d].s][grants[d].a].dir # d
      BY DEF Silent, Made, Named
    <2>2. /\ d \in Made /\ grants[d].a \in Agent /\ Named(grants[d].s, grants[d].a) # d
      BY DEF Owned, Silent
    <2>3. grants[d].s \in Session
      BY <2>2, GrantFacts DEF Core
    <2> QED
      BY <1>1, <1>3, <2>2, <2>3
  <1>8. Later'
    BY DEF Owned, Later
  <1>9. ASSUME NEW s \in Session, NEW a \in Agent, NEW d, d # NoDir,
               Named(s, a) = d \/ d \in dropped
        PROVE  agts'[s][a].dir = d \/ d \in dropped'
    BY <1>9, NamedFacts DEF Named
  <1>10. Agreed'
    <2>1. ASSUME NEW d \in delivered
          PROVE  /\ d \in Made /\ grants[d].a \in Agent
                 /\ agts'[grants[d].s][grants[d].a].dir = d \/ d \in dropped'
      <3>1. /\ d \in Made /\ grants[d].a \in Agent
            /\ Named(grants[d].s, grants[d].a) = d \/ d \in dropped
        BY DEF Owned, Agreed
      <3>2. grants[d].s \in Session
        BY <3>1, GrantFacts DEF Core
      <3> QED
        BY <1>3, <1>9, <3>1, <3>2
    <2>2. ASSUME NEW k \in Hook, hook'[k].pc = "deliver", hook'[k].a # NoAgent
          PROVE  agts'[hook'[k].s][hook'[k].a].dir = hook'[k].rec.dir
                 \/ hook'[k].rec.dir \in dropped'
      <3>1. k # h /\ hook'[k] = hook[k]
        BY <2>2
      <3>2. /\ hook[k].s \in Session /\ hook[k].a \in Agent /\ Of(grants, hook[k].rec, hook[k].s, hook[k].a)
        BY <2>2, <3>1, CoreFacts DEF HoldsInv
      <3>3. hook[k].rec.dir # NoDir
        BY <1>3, <3>2 DEF Of, Made
      <3>4. Named(hook[k].s, hook[k].a) = hook[k].rec.dir \/ hook[k].rec.dir \in dropped
        BY <2>2, <3>1 DEF Owned, Agreed
      <3> QED
        BY <1>9, <3>1, <3>2, <3>3, <3>4
    <2> QED
      BY <2>1, <2>2 DEF Agreed, Named, Made
  <1>11. NoDanglingRecord'
    BY DEF Owned, NoDanglingRecord
  <1>12. NoLeakedChild'
    <2>1. SUFFICES ASSUME NEW d \in dirs, grants[d].a # NoAgent
                   PROVE  \/ agts'[grants[d].s][grants[d].a].dir = d
                          \/ \E k \in Hook : d \in Holding(k)'
                          \/ d \in lost'
      BY DEF NoLeakedChild
    <2>2. d \in Made /\ grants[d].s \in Session /\ grants[d].a \in Agent /\ d # NoDir
      BY <1>3, <2>1, GrantFacts DEF Core, TypeOK, Made
    <2>3. CASE Named(grants[d].s, grants[d].a) = d
      <3>1. agts[grants[d].s][grants[d].a] # NoRec
        BY <2>2, <2>3, NamedFacts
      <3>2. hook'[h].pc = "remove" => Holding(h)' = {hook'[h].rec.dir}
        BY DEF Holding
      <3> QED
        BY <2>2, <2>3, <3>1, <3>2 DEF Named
    <2>4. CASE Named(grants[d].s, grants[d].a) # d
      <3>1. \A k \in Hook : Holding(k) # {} => k # h /\ Holding(k)' = Holding(k)
        BY DEF Holding, Owning
      <3>2. (\E k \in Hook : d \in Holding(k)) \/ d \in lost
        BY <2>1, <2>4 DEF Owned, NoLeakedChild, Named
      <3> QED
        BY <3>1, <3>2
    <2> QED
      BY <2>3, <2>4
  <1> QED
    BY <1>4, <1>5, <1>6, <1>7, <1>8, <1>10, <1>11, <1>12 DEF Owned

LEMMA PruneRemovesKeepsOwned ==
  ASSUME Core, Owned, NEW h \in Hook, NEW x \in Session, PruneRemoves(h, x)
  PROVE  Owned'
  <1>0. /\ hook \in [Hook -> Process] /\ hook[h] \in Process /\ hook[h].pc = "prune"
        /\ agts \in [Session -> [Agent -> Record]]
    BY CoreFacts DEF PruneRemoves, At, TypeOK
  <1>1. /\ hook' = [hook EXCEPT ![h].doomed = {}]
        /\ agts' = [agts EXCEPT ![x] = [a \in Agent |-> NoRec]]
        /\ dropped' = dropped \cup RecordedIn(x) /\ lost' = lost \cup RecordedIn(x)
        /\ UNCHANGED <<clock, dirs, grants, delivered, stopped>>
    BY DEF PruneRemoves, disk
  <1>2. /\ \A g \in Hook : g # h => hook'[g] = hook[g]
        /\ hook'[h].pc = "prune" /\ hook'[h].old = hook[h].old
    BY <1>0, <1>1 DEF Process
  <1>3. \A a \in Agent : agts[x][a] # NoRec => agts[x][a].dir \in RecordedIn(x)
    BY NamedFacts DEF RecordedIn, Named
  <1>4. \A s \in Session, a \in Agent :
          \/ agts'[s][a] = agts[s][a]
          \/ s = x /\ agts'[s][a] = NoRec
    BY <1>0, <1>1
  <1>5. \A s \in Session, a \in Agent :
          \/ agts'[s][a] = agts[s][a]
          \/ /\ agts'[s][a] = NoRec
             /\ agts[s][a] # NoRec => agts[s][a].dir \in dropped' /\ agts[s][a].dir \in lost'
    BY <1>1, <1>3, <1>4
  <1>6. hook[h].pc \notin Owning \cup {"remove"}
    BY <1>0 DEF Owning
  <1> QED
    BY <1>1, <1>2, <1>5, <1>6, RecordsGo

LEMMA StopDeletesKeepsOwned ==
  ASSUME Core, Owned, NEW h \in Hook, StopDeletes(h)
  PROVE  Owned'
  <1> DEFINE p == hook[h]
             there == {agts[p.s][p.a].dir} \ {NoDir}
  <1>0. /\ p.pc = "delete" /\ p.s \in Session /\ p.a \in Agent
        /\ agts \in [Session -> [Agent -> Record]]
    BY CoreFacts DEF StopDeletes, At, OfAnAgent, TypeOK
  <1>1. /\ agts' = [agts EXCEPT ![p.s][p.a] = NoRec] /\ Goto(h, "remove")
        /\ dropped' = dropped \cup there /\ lost' = lost \cup (there \ {p.rec.dir})
        /\ UNCHANGED <<clock, dirs, grants, delivered, stopped>>
    BY DEF StopDeletes, disk
  <1>2. /\ \A g \in Hook : g # h => hook'[g] = hook[g]
        /\ hook'[h].pc = "remove" /\ hook'[h].rec = p.rec
        /\ hook'[h].s = p.s /\ hook'[h].a = p.a /\ hook'[h].old = p.old
    BY <1>1, CoreFacts, GotoFacts DEF Pcs
  <1>3. agts[p.s][p.a] # NoRec => agts[p.s][p.a].dir \in there
    BY <1>0, NamedFacts DEF Named
  <1>4. \A s \in Session, a \in Agent :
          \/ agts'[s][a] = agts[s][a]
          \/ s = p.s /\ a = p.a /\ agts'[s][a] = NoRec
    BY <1>0, <1>1
  <1>5. \A s \in Session, a \in Agent :
          \/ agts'[s][a] = agts[s][a]
          \/ /\ agts'[s][a] = NoRec
             /\ agts[s][a] # NoRec =>
                  /\ agts[s][a].dir \in dropped'
                  /\ agts[s][a].dir \in lost' \/ agts[s][a].dir = hook'[h].rec.dir
    BY <1>1, <1>2, <1>3, <1>4
  <1>6. agts'[p.s][p.a] = NoRec /\ p.pc \notin Owning \cup {"remove"}
    BY <1>0, <1>1 DEF Owning
  <1> QED
    BY <1>0, <1>1, <1>2, <1>5, <1>6, RecordsGo

-----------------------------------------------------------------------------
(* Steps that store a child's record                                       *)

\* The record was free: the directory passes from the hook to it.
LEMMA RecordComes ==
  ASSUME Core, Owned, NEW h \in Hook, hook[h].pc = "putnew",
         UNCHANGED <<clock, dirs, grants, delivered, stopped, dropped, lost>>,
         agts[hook[h].s][hook[h].a] = NoRec,
         agts' = [agts EXCEPT ![hook[h].s][hook[h].a] = hook[h].rec],
         \A g \in Hook : g # h => hook'[g] = hook[g],
         \/ hook'[h] = Idle
         \/ /\ hook'[h].pc = "deliver" /\ hook'[h].rec = hook[h].rec
            /\ hook'[h].s = hook[h].s /\ hook'[h].a = hook[h].a /\ hook'[h].old = hook[h].old
  PROVE  Owned'
  <1> DEFINE p == hook[h]
  <1>0. /\ p.s \in Session /\ p.a \in Agent /\ p.rec \in Record /\ p.rec.dir \in Made
        /\ Of(grants, p.rec, p.s, p.a) /\ p.rec.dir # NoDir
        /\ agts \in [Session -> [Agent -> Record]] /\ Named(p.s, p.a) = NoDir
    BY HeldFacts, NamedFacts DEF Taking, Owning, Core, TypeOK
  <1>1. /\ agts'[p.s][p.a] = p.rec
        /\ \A s \in Session, a \in Agent : s # p.s \/ a # p.a => agts'[s][a] = agts[s][a]
    BY <1>0
  <1>2. /\ p.rec.dir \notin stopped
        /\ \A g \in Hook \ {h} : hook[g].pc \in Taking => hook[g].rec.dir # p.rec.dir
    BY DEF Owned, Exclusive, Owning
  <1>3. \A k \in Hook : hook'[k].pc \in Taking => k # h /\ hook'[k] = hook[k]
    BY IdleFacts DEF Taking, Owning
  <1>4. \A d : \A s \in Session, a \in Agent :
          Named(s, a) # d /\ d # p.rec.dir => agts'[s][a].dir # d
    BY <1>1 DEF Named
  <1>5. \A d : \A s \in Session, a \in Agent :
          Named(s, a) = d /\ d # NoDir => agts'[s][a].dir = d
    BY <1>0, <1>1 DEF Named
  <1>6. \A d \in Made : d # NoDir
    BY DEF Made, NoDir, Core, TypeOK
  <1>7. Exclusive'
    <2>1. SUFFICES ASSUME NEW k \in Hook, hook'[k].pc \in Owning
                   PROVE  /\ agts'[hook'[k].s][hook'[k].a].dir # hook'[k].rec.dir
                          /\ hook'[k].rec.dir \notin stopped'
                          /\ \A g \in Hook \ {k} :
                               hook'[g].pc \in Taking => hook'[g].rec.dir # hook'[k].rec.dir
      BY DEF Exclusive, Named
    <2>2. /\ k # h /\ hook'[k] = hook[k] /\ hook[k].pc \in Owning /\ hook[k].pc \in Taking
      BY <1>3, <2>1 DEF Taking
    <2>3. /\ Named(hook[k].s, hook[k].a) # hook[k].rec.dir
          /\ hook[k].rec.dir \notin stopped
          /\ \A g \in Hook \ {k} : hook[g].pc \in Taking => hook[g].rec.dir # hook[k].rec.dir
      BY <2>2 DEF Owned, Exclusive
    <2>4. hook[k].s \in Session /\ hook[k].a \in Agent
      BY <2>2, HeldFacts
    <2>5. agts'[hook[k].s][hook[k].a].dir # hook[k].rec.dir
      BY <1>2, <1>4, <2>2, <2>3, <2>4
    <2> QED
      BY <1>3, <2>2, <2>3, <2>5
  <1>8. Withdrawn'
    <2>1. SUFFICES ASSUME NEW k \in Hook, hook'[k].pc = "remove"
                   PROVE  agts'[hook'[k].s][hook'[k].a].dir # hook'[k].rec.dir
      BY DEF Withdrawn, Named
    <2>2. k # h /\ hook'[k] = hook[k] /\ hook[k].pc \in Taking
      BY <1>3, <2>1 DEF Taking
    <2>3. hook[k].s \in Session /\ hook[k].a \in Agent
      BY <2>2, HeldFacts
    <2>4. Named(hook[k].s, hook[k].a) # hook[k].rec.dir
      BY <2>1, <2>2 DEF Owned, Withdrawn
    <2>5. agts'[hook[k].s][hook[k].a].dir # hook[k].rec.dir
      BY <1>2, <1>4, <2>2, <2>3, <2>4
    <2> QED
      BY <2>2, <2>5
  <1>9. Present'
    BY <1>3 DEF Owned, Present, Taking, Owning
  <1>10. Silent'
    <2>1. SUFFICES ASSUME NEW d \in stopped
                   PROVE  /\ d \in Made /\ grants[d].a \in Agent
                          /\ agts'[grants[d].s][grants[d].a].dir # d
      BY DEF Silent, Made, Named
    <2>2. /\ d \in Made /\ grants[d].a \in Agent /\ Named(grants[d].s, grants[d].a) # d
      BY DEF Owned, Silent
    <2>3. grants[d].s \in Session
      BY <2>2, GrantFacts DEF Core
    <2> QED
      BY <1>2, <1>4, <2>2, <2>3
  <1>11. Later'
    BY <1>2, IdleFacts DEF Owned, Later, Idle
  <1>12. Agreed'
    <2>1. ASSUME NEW d \in delivered
          PROVE  /\ d \in Made /\ grants[d].a \in Agent
                 /\ agts'[grants[d].s][grants[d].a].dir = d \/ d \in dropped
      <3>1. /\ d \in Made /\ grants[d].a \in Agent
            /\ Named(grants[d].s, grants[d].a) = d \/ d \in dropped
        BY DEF Owned, Agreed
      <3>2. grants[d].s \in Session
        BY <3>1, GrantFacts DEF Core
      <3> QED
        BY <1>5, <1>6, <3>1, <3>2
    <2>2. ASSUME NEW k \in Hook, hook'[k].pc = "deliver", hook'[k].a # NoAgent
          PROVE  agts'[hook'[k].s][hook'[k].a].dir = hook'[k].rec.dir
                 \/ hook'[k].rec.dir \in dropped
      <3>1. CASE k = h
        BY <1>1, <2>2, <3>1, IdleFacts
      <3>2. CASE k # h
        <4>1. hook'[k] = hook[k] /\ hook[k].s \in Session /\ hook[k].a \in Agent
              /\ hook[k].rec.dir \in Made
          BY <2>2, <3>2, CoreFacts DEF HoldsInv, Of, Made
        <4>2. Named(hook[k].s, hook[k].a) = hook[k].rec.dir \/ hook[k].rec.dir \in dropped
          BY <2>2, <4>1 DEF Owned, Agreed
        <4> QED
          BY <1>5, <1>6, <4>1, <4>2
      <3> QED
        BY <3>1, <3>2
    <2> QED
      BY <2>1, <2>2 DEF Agreed, Named, Made
  <1>13. NoDanglingRecord'
    <2>1. p.rec.exp > clock => p.rec.dir \in dirs
      BY DEF Owned, Present
    <2>2. grants[p.rec.dir].s = p.s /\ grants[p.rec.dir].a = p.a
      BY <1>0 DEF Of
    <2> QED
      <3>1. ASSUME NEW s \in Session, NEW a \in Agent,
                   agts'[s][a] # NoRec, agts'[s][a].exp > clock
            PROVE  LET r == agts'[s][a]
                   IN  r.dir \in dirs /\ grants[r.dir].s = s /\ grants[r.dir].a = a
        <4>1. CASE s = p.s /\ a = p.a
          BY <1>1, <2>1, <2>2, <3>1, <4>1
        <4>2. CASE s # p.s \/ a # p.a
          BY <1>1, <3>1, <4>2 DEF Owned, NoDanglingRecord
        <4> QED
          BY <4>1, <4>2
      <3> QED
        BY <3>1 DEF NoDanglingRecord
  <1>14. NoLeakedChild'
    <2>1. SUFFICES ASSUME NEW d \in dirs, grants[d].a # NoAgent
                   PROVE  \/ agts'[grants[d].s][grants[d].a].dir = d
                          \/ \E k \in Hook : d \in Holding(k)'
                          \/ d \in lost
      BY DEF NoLeakedChild
    <2>2. d \in Made /\ grants[d].s \in Session /\ grants[d].a \in Agent /\ d # NoDir
      BY <1>6, <2>1, GrantFacts DEF Core, TypeOK, Made
    <2>3. CASE d = p.rec.dir
      BY <1>0, <1>1, <2>3 DEF Of
    <2>4. CASE d # p.rec.dir
      <3>1. \/ Named(grants[d].s, grants[d].a) = d
            \/ \E k \in Hook : d \in Holding(k)
            \/ d \in lost
        BY <2>1 DEF Owned, NoLeakedChild, Named
      <3>2. \A k \in Hook : d \in Holding(k) => k # h /\ Holding(k)' = Holding(k)
        BY <2>4 DEF Holding
      <3> QED
        BY <1>5, <2>2, <3>1, <3>2
    <2> QED
      BY <2>3, <2>4
  <1> QED
    BY <1>7, <1>8, <1>9, <1>10, <1>11, <1>12, <1>13, <1>14 DEF Owned

\* The record is taken, or could not be stored: the directory stays the hook's.
LEMMA OwnerStays ==
  ASSUME Core, Owned, NEW h \in Hook, hook[h].pc = "putnew",
         UNCHANGED <<clock, agts, dirs, grants, delivered, stopped, dropped, lost>>,
         \A g \in Hook : g # h => hook'[g] = hook[g],
         hook'[h].pc \in {"yield", "discard"}, hook'[h].rec = hook[h].rec,
         hook'[h].s = hook[h].s, hook'[h].a = hook[h].a, hook'[h].old = hook[h].old
  PROVE  Owned'
  <1>1. \A k \in Hook : /\ hook'[k].pc \in Owning <=> hook[k].pc \in Owning
                        /\ hook'[k].pc \in Taking <=> hook[k].pc \in Taking
                        /\ hook'[k].pc = "remove" <=> hook[k].pc = "remove"
                        /\ hook'[k].pc = "deliver" <=> hook[k].pc = "deliver"
                        /\ hook'[k].pc = "putnew" => hook[k].pc = "putnew"
                        /\ hook'[k].rec = hook[k].rec /\ hook'[k].s = hook[k].s
                        /\ hook'[k].a = hook[k].a /\ hook'[k].old = hook[k].old
    BY DEF Owning, Taking
  <1>2. Exclusive' /\ Withdrawn' /\ Present' /\ Later'
    BY <1>1 DEF Owned, Exclusive, Withdrawn, Present, Later, Named
  <1>3. Silent' /\ Agreed' /\ NoDanglingRecord'
    BY <1>1 DEF Owned, Silent, Agreed, NoDanglingRecord, Named, Made
  <1>4. \A k \in Hook : Holding(k)' = Holding(k)
    BY DEF Holding
  <1>5. NoLeakedChild'
    BY <1>4 DEF Owned, NoLeakedChild
  <1> QED
    BY <1>2, <1>3, <1>5 DEF Owned

LEMMA PutNewKeepsOwned ==
  ASSUME Core, Owned, NEW h \in Hook, PutNew(h)
  PROVE  Owned'
  <1> DEFINE p == hook[h]
  <1>0. /\ p.pc = "putnew" /\ hook \in [Hook -> Process] /\ p.rec \in Record
        /\ UNCHANGED <<clock, sess, disk, history, faults>>
    BY CoreFacts DEF PutNew, At
  <1>1. CASE agts[p.s][p.a] = NoRec /\ agts' = [agts EXCEPT ![p.s][p.a] = p.rec] /\ Answer(h, p.rec)
    <2>1. CASE Hold(h, "deliver", p.rec)
      <3>1. /\ \A g \in Hook : g # h => hook'[g] = hook[g]
            /\ hook'[h].pc = "deliver" /\ hook'[h].rec = p.rec /\ hook'[h].s = p.s
            /\ hook'[h].a = p.a /\ hook'[h].old = p.old
        BY <1>0, <2>1, HoldFacts DEF Pcs
      <3> QED
        BY <1>0, <1>1, <3>1, RecordComes DEF disk, history
    <2>2. CASE Done(h)
      <3>1. hook'[h] = Idle /\ \A g \in Hook : g # h => hook'[g] = hook[g]
        BY <1>0, <2>2, DoneFacts
      <3> QED
        BY <1>0, <1>1, <3>1, RecordComes DEF disk, history
    <2> QED
      BY <1>1, <2>1, <2>2, Zenon DEF Answer
  <1>2. CASE agts' = agts /\ Goto(h, "yield")
    <2>1. /\ \A g \in Hook : g # h => hook'[g] = hook[g]
          /\ hook'[h].pc = "yield" /\ hook'[h].rec = p.rec
          /\ hook'[h].s = p.s /\ hook'[h].a = p.a /\ hook'[h].old = p.old
      BY <1>0, <1>2, GotoFacts DEF Pcs
    <2> QED
      BY <1>0, <1>2, <2>1, OwnerStays DEF disk, history
  <1> QED
    BY <1>1, <1>2, Zenon DEF PutNew

-----------------------------------------------------------------------------
(* Steps that let a directory go                                           *)

\* The hook removes what it holds, or leaves it behind and is recorded as lost.
LEMMA LetsGo ==
  ASSUME Core, Owned, NEW h \in Hook,
         UNCHANGED <<clock, agts, grants, dropped>>,
         \A g \in Hook : g # h => hook'[g] = hook[g],
         hook'[h].pc \in {"idle", "winner"}, hook'[h].old \subseteq stopped,
         dirs' \subseteq dirs, dirs \ dirs' \subseteq Holding(h),
         Holding(h) \cap dirs' \subseteq lost', lost \subseteq lost',
         stopped \subseteq stopped',
         \A d \in stopped' : d \in stopped \/ (hook[h].pc = "remove" /\ d = hook[h].rec.dir),
         \A d \in delivered' :
           \/ d \in delivered
           \/ /\ d \in Made /\ grants[d].a \in Agent
              /\ Named(grants[d].s, grants[d].a) = d \/ d \in dropped
  PROVE  Owned'
  <1>1. \A k \in Hook : hook'[k].pc \in Taking => k # h /\ hook'[k] = hook[k]
    BY DEF Taking, Owning
  <1>2. Holding(h) # {} =>
          hook[h].pc \in Owning \cup {"remove"} /\ Holding(h) = {hook[h].rec.dir}
    BY DEF Holding, Owning
  <1>3. Exclusive'
    <2>1. SUFFICES ASSUME NEW k \in Hook, hook'[k].pc \in Owning
                   PROVE  /\ agts[hook'[k].s][hook'[k].a].dir # hook'[k].rec.dir
                          /\ hook'[k].rec.dir \notin stopped'
                          /\ \A g \in Hook \ {k} :
                               hook'[g].pc \in Taking => hook'[g].rec.dir # hook'[k].rec.dir
      BY DEF Exclusive, Named
    <2>2. k # h /\ hook'[k] = hook[k] /\ hook[k].pc \in Owning
      BY <1>1, <2>1 DEF Taking
    <2>3. /\ agts[hook[k].s][hook[k].a].dir # hook[k].rec.dir
          /\ hook[k].rec.dir \notin stopped
          /\ \A g \in Hook \ {k} : hook[g].pc \in Taking => hook[g].rec.dir # hook[k].rec.dir
      BY <2>2 DEF Owned, Exclusive, Named
    <2>4. hook[h].pc = "remove" => hook[h].rec.dir # hook[k].rec.dir
      BY <2>2, <2>3 DEF Taking
    <2> QED
      BY <1>1, <2>2, <2>3, <2>4
  <1>4. Withdrawn'
    BY <1>1 DEF Owned, Withdrawn, Named, Taking
  <1>5. Present'
    <2>1. SUFFICES ASSUME NEW k \in Hook, hook'[k].pc = "putnew", hook'[k].rec.exp > clock
                   PROVE  hook'[k].rec.dir \in dirs'
      BY DEF Present
    <2>2. k # h /\ hook'[k] = hook[k] /\ hook[k].pc \in Owning
      BY <1>1, <2>1 DEF Taking, Owning
    <2>3. hook[k].rec.dir \in dirs
      BY <2>1, <2>2 DEF Owned, Present
    <2>4. hook[h].pc \in Taking => hook[h].rec.dir # hook[k].rec.dir
      BY <2>2 DEF Owned, Exclusive
    <2> QED
      BY <1>2, <2>2, <2>3, <2>4 DEF Taking
  <1>6. Silent'
    <2>1. SUFFICES ASSUME NEW d \in stopped'
                   PROVE  /\ d \in Made /\ grants[d].a \in Agent
                          /\ Named(grants[d].s, grants[d].a) # d
      BY DEF Silent, Made, Named
    <2>2. CASE d \in stopped
      BY <2>2 DEF Owned, Silent
    <2>3. CASE hook[h].pc = "remove" /\ d = hook[h].rec.dir
      BY <2>3, HeldFacts DEF Owned, Withdrawn, Of, Taking
    <2> QED
      BY <2>2, <2>3
  <1>7. Later'
    BY DEF Owned, Later
  <1>8. Agreed'
    BY DEF Owned, Agreed, Named, Made
  <1>9. NoDanglingRecord'
    <2>1. SUFFICES ASSUME NEW s \in Session, NEW a \in Agent,
                          agts[s][a] # NoRec, agts[s][a].exp > clock
                   PROVE  LET r == agts[s][a]
                          IN  r.dir \in dirs' /\ grants[r.dir].s = s /\ grants[r.dir].a = a
      BY DEF NoDanglingRecord
    <2>2. LET r == agts[s][a]
          IN  r.dir \in dirs /\ grants[r.dir].s = s /\ grants[r.dir].a = a
      BY <2>1 DEF Owned, NoDanglingRecord
    <2>3. agts[s][a].dir \notin Holding(h)
      BY <1>2, Apart DEF Owned, Named
    <2> QED
      BY <2>2, <2>3
  <1>10. NoLeakedChild'
    <2>1. SUFFICES ASSUME NEW d \in dirs', grants[d].a # NoAgent
                   PROVE  \/ agts[grants[d].s][grants[d].a].dir = d
                          \/ \E k \in Hook : d \in Holding(k)'
                          \/ d \in lost'
      BY DEF NoLeakedChild
    <2>2. \/ agts[grants[d].s][grants[d].a].dir = d
          \/ \E k \in Hook : d \in Holding(k)
          \/ d \in lost
      BY <2>1 DEF Owned, NoLeakedChild
    <2>3. \A k \in Hook : k # h => Holding(k)' = Holding(k)
      BY DEF Holding
    <2> QED
      BY <2>1, <2>2, <2>3
  <1> QED
    BY <1>3, <1>4, <1>5, <1>6, <1>7, <1>8, <1>9, <1>10 DEF Owned

LEMMA DoneLetsGo ==
  ASSUME Core, Owned, NEW h \in Hook, Done(h)
  PROVE  /\ \A g \in Hook : g # h => hook'[g] = hook[g]
         /\ hook'[h].pc \in {"idle", "winner"} /\ hook'[h].old \subseteq stopped
  BY CoreFacts, DoneFacts, IdleFacts DEF Idle

LEMMA YieldKeepsOwned ==
  ASSUME Core, Owned, NEW h \in Hook, Yield(h)
  PROVE  Owned'
  <1>1. /\ \A g \in Hook : g # h => hook'[g] = hook[g]
        /\ hook'[h].pc = "winner" /\ hook'[h].old = hook[h].old
    BY CoreFacts, HoldFacts, NoRecFacts DEF Yield, Pcs
  <1>2. hook[h].old \subseteq stopped /\ Holding(h) = {hook[h].rec.dir}
    BY DEF Owned, Later, Yield, At, Holding
  <1>3. /\ dirs' = dirs \ {hook[h].rec.dir}
        /\ UNCHANGED <<clock, agts, grants, delivered, stopped, dropped, lost>>
    BY DEF Yield, store, history
  <1>4. /\ hook'[h].pc \in {"idle", "winner"} /\ hook'[h].old \subseteq stopped
        /\ dirs' \subseteq dirs /\ dirs \ dirs' \subseteq Holding(h)
        /\ Holding(h) \cap dirs' \subseteq lost' /\ lost \subseteq lost'
        /\ stopped \subseteq stopped'
        /\ \A d \in stopped' : d \in stopped \/ (hook[h].pc = "remove" /\ d = hook[h].rec.dir)
    BY <1>1, <1>2, <1>3
  <1> QED
    BY <1>1, <1>3, <1>4, LetsGo

LEMMA DiscardKeepsOwned ==
  ASSUME Core, Owned, NEW h \in Hook, Discard(h)
  PROVE  Owned'
  <1>1. Holding(h) = {hook[h].rec.dir} /\ Done(h)
    BY DEF Discard, At, Holding
  <1>2. /\ dirs' = dirs \ {hook[h].rec.dir}
        /\ UNCHANGED <<clock, agts, grants, delivered, stopped, dropped, lost>>
    BY DEF Discard, store, history
  <1> QED
    BY <1>1, <1>2, DoneLetsGo, LetsGo

LEMMA StopRemovesKeepsOwned ==
  ASSUME Core, Owned, NEW h \in Hook, StopRemoves(h)
  PROVE  Owned'
  <1>1. Holding(h) = {hook[h].rec.dir} /\ Done(h) /\ hook[h].pc = "remove"
    BY DEF StopRemoves, At, Holding
  <1>2. /\ dirs' = dirs \ {hook[h].rec.dir} /\ stopped' = stopped \cup {hook[h].rec.dir}
        /\ UNCHANGED <<clock, agts, grants, delivered, dropped, lost>>
    BY DEF StopRemoves, store
  <1> QED
    BY <1>1, <1>2, DoneLetsGo, LetsGo

LEMMA DeliverKeepsOwned ==
  ASSUME Core, Owned, NEW h \in Hook, Deliver(h)
  PROVE  Owned'
  <1> DEFINE p == hook[h]
  <1>1. p.pc = "deliver" /\ Done(h) /\ Holding(h) = {}
        /\ UNCHANGED <<clock, agts, dirs, grants, stopped, dropped, lost>>
    BY DEF Deliver, At, Holding, store, disk
  <1>2. \A d \in delivered' : d \in delivered \/ (d = p.rec.dir /\ p.a # NoAgent)
    BY DEF Deliver
  <1>3. p.a # NoAgent =>
          /\ p.rec.dir \in Made /\ grants[p.rec.dir].s = p.s /\ grants[p.rec.dir].a = p.a
          /\ p.a \in Agent
          /\ Named(p.s, p.a) = p.rec.dir \/ p.rec.dir \in dropped
    BY <1>1, CoreFacts DEF HoldsInv, Of, Made, Owned, Agreed
  <1>4. \A d \in delivered' :
           \/ d \in delivered
           \/ /\ d \in Made /\ grants[d].a \in Agent
              /\ Named(grants[d].s, grants[d].a) = d \/ d \in dropped
    BY <1>2, <1>3
  <1> QED
    BY <1>1, <1>4, DoneLetsGo, LetsGo

LEMMA AccessFailsKeepsOwned ==
  ASSUME Core, Owned, NEW h \in Hook, AccessFails(h)
  PROVE  Owned'
  <1> DEFINE p == hook[h]
  <1>1. UNCHANGED <<clock, agts, dirs, grants, delivered, dropped>>
    BY DEF AccessFails, store, disk
  <1>2. stopped' = IF p.pc = "remove" THEN stopped \cup {p.rec.dir} ELSE stopped
    BY DEF AccessFails, At
  <1>3. CASE p.pc = "putnew" /\ Goto(h, "discard") /\ lost' = lost
    <2>1. /\ \A g \in Hook : g # h => hook'[g] = hook[g]
          /\ hook'[h].pc = "discard" /\ hook'[h].rec = p.rec
          /\ hook'[h].s = p.s /\ hook'[h].a = p.a /\ hook'[h].old = p.old
      BY <1>3, CoreFacts, GotoFacts DEF Pcs
    <2> QED
      BY <1>1, <1>2, <1>3, <2>1, OwnerStays
  <1>4. CASE p.pc = "yield" /\ Hold(h, "winner", NoRec) /\ lost' = lost \cup Holding(h)
    <2>1. /\ \A g \in Hook : g # h => hook'[g] = hook[g]
          /\ hook'[h].pc = "winner" /\ hook'[h].old = p.old
      BY <1>4, CoreFacts, HoldFacts, NoRecFacts DEF Pcs
    <2>2. p.old \subseteq stopped
      BY DEF Owned, Later
    <2> QED
      BY <1>1, <1>2, <1>4, <2>1, <2>2, LetsGo
  <1>5. CASE Done(h) /\ lost' = lost \cup Holding(h)
    BY <1>1, <1>2, <1>5, DoneLetsGo, LetsGo
  <1> QED
    BY <1>3, <1>4, <1>5 DEF AccessFails, At

LEMMA KilledKeepsOwned ==
  ASSUME Core, Owned, NEW h \in Hook, Killed(h)
  PROVE  Owned'
  <1>1. /\ Done(h) /\ lost' = lost \cup Holding(h)
        /\ UNCHANGED <<clock, agts, dirs, grants, delivered, stopped, dropped>>
    BY DEF Killed, store, disk
  <1> QED
    BY <1>1, DoneLetsGo, LetsGo

-----------------------------------------------------------------------------
(* The clock and the reaper                                                *)

\* What has a lifetime left is younger than the reaper's age.
LEMMA ReapedIsExpired ==
  ASSUME Core, NEW d \in Made, clock - grants[d].made > ReapAfter
  PROVE  grants[d].exp < clock
  <1>1. grants[d].made \in Nat /\ grants[d].exp \in Nat /\ clock \in Nat
    BY GrantFacts DEF Core, TypeOK
  <1>2. grants[d].exp <= grants[d].made + TTL
    BY DEF Core, GrantsInv
  <1> QED
    BY <1>1, <1>2, TimesAssumption

\* A step outside the hooks, after which only directories of expired assertions
\* are missing.
LEMMA OutsideKeepsOwned ==
  ASSUME Core, Owned, Tick \/ \E d \in Dir : Reap(d)
  PROVE  Owned'
  <1>1. UNCHANGED <<agts, grants, hook, delivered, stopped, dropped, lost>>
    BY DEF Tick, Reap, store, history, disk
  <1>2. \A r \in Record : r.exp > clock' => r.exp > clock
    BY DEF Tick, Reap, Core, TypeOK, Record
  <1>3. dirs' \subseteq dirs
    BY DEF Tick, Reap, disk
  <1>4. \A d \in dirs \ dirs' : d \in Made /\ grants[d].exp < clock /\ clock' = clock
    <2>1. CASE Tick
      BY <2>1 DEF Tick, disk
    <2>2. CASE \E d \in Dir : Reap(d)
      <3> PICK d \in Dir : Reap(d)
        BY <2>2
      <3>1. /\ d \in Made /\ clock - grants[d].made > ReapAfter /\ clock' = clock
            /\ dirs' = dirs \ {d}
        BY DEF Reap, Core, TypeOK, Made
      <3> QED
        BY <3>1, ReapedIsExpired
    <2> QED
      BY <2>1, <2>2
  <1>5. Exclusive' /\ Withdrawn' /\ Silent' /\ Later' /\ Agreed'
    BY <1>1 DEF Owned, Exclusive, Withdrawn, Silent, Later, Agreed, Named, Made
  <1>6. Present'
    <2>1. SUFFICES ASSUME NEW h \in Hook, hook[h].pc = "putnew", hook[h].rec.exp > clock'
                   PROVE  hook[h].rec.dir \in dirs'
      BY <1>1 DEF Present
    <2>2. /\ Of(grants, hook[h].rec, hook[h].s, hook[h].a) /\ hook[h].rec \in Record
      BY <2>1, HeldFacts DEF Taking, Owning
    <2>3. hook[h].rec.exp > clock /\ hook[h].rec.dir \in dirs
      BY <1>2, <2>1, <2>2 DEF Owned, Present
    <2>4. hook[h].rec.exp \in Nat /\ clock \in Nat
      BY <2>2 DEF Record, Core, TypeOK
    <2> QED
      BY <1>4, <2>2, <2>3, <2>4 DEF Of
  <1>7. NoDanglingRecord'
    <2>1. SUFFICES ASSUME NEW s \in Session, NEW a \in Agent,
                          agts[s][a] # NoRec, agts[s][a].exp > clock'
                   PROVE  LET r == agts[s][a]
                          IN  r.dir \in dirs' /\ grants[r.dir].s = s /\ grants[r.dir].a = a
      BY <1>1 DEF NoDanglingRecord
    <2>2. agts[s][a] \in Record /\ Of(grants, agts[s][a], s, a)
      BY <2>1, NamedFacts
    <2>3. agts[s][a].exp > clock /\ agts[s][a].dir \in dirs
      BY <1>2, <2>1, <2>2 DEF Owned, NoDanglingRecord
    <2>4. agts[s][a].exp \in Nat /\ clock \in Nat
      BY <2>2 DEF Record, Core, TypeOK
    <2> QED
      BY <1>4, <2>2, <2>3, <2>4 DEF Of
  <1>8. NoLeakedChild'
    <2>1. \A h \in Hook : Holding(h)' = Holding(h)
      BY <1>1 DEF Holding
    <2> QED
      BY <1>1, <1>3, <2>1 DEF Owned, NoLeakedChild
  <1> QED
    BY <1>5, <1>6, <1>7, <1>8 DEF Owned

-----------------------------------------------------------------------------
(* The theorems                                                            *)

LEMMA InitOwned ==
  ASSUME Init
  PROVE  Owned
  <1>1. \A h \in Hook : hook[h] = Idle /\ hook[h].pc = "idle" /\ hook[h].old = {}
    BY IdleFacts DEF Init, Idle
  <1>2. Exclusive /\ Withdrawn /\ Present /\ Later
    BY <1>1 DEF Exclusive, Withdrawn, Present, Later, Owning
  <1>3. Silent /\ Agreed
    BY <1>1 DEF Init, Silent, Agreed
  <1>4. NoDanglingRecord /\ NoLeakedChild
    BY DEF Init, NoDanglingRecord, NoLeakedChild
  <1> QED
    BY <1>2, <1>3, <1>4 DEF Owned

LEMMA StepKeepsOwned ==
  ASSUME Core, Owned, NEW h \in Hook, Step(h)
  PROVE  Owned'
  <1>1. CASE \E x \in Session : PruneLooks(h, x) \/ PruneRemoves(h, x)
    BY <1>1, PruneLooksKeepsOwned, PruneRemovesKeepsOwned
  <1>2. CASE IssueSession(h) \/ PutSession(h) \/ PromptReads(h) \/ RenewSession(h)
    BY <1>2, IssueSessionKeepsOwned, PutSessionKeepsOwned, PromptReadsKeepsOwned,
       RenewSessionKeepsOwned
  <1>3. CASE AgentReads(h) \/ ParentReads(h) \/ IssueChild(h) \/ PutNew(h)
    BY <1>3, AgentReadsKeepsOwned, ParentReadsKeepsOwned, IssueChildKeepsOwned, PutNewKeepsOwned
  <1>4. CASE Yield(h) \/ Discard(h) \/ WinnerReads(h)
    BY <1>4, YieldKeepsOwned, DiscardKeepsOwned, WinnerReadsKeepsOwned
  <1>5. CASE SessionReads(h) \/ Deliver(h)
    BY <1>5, SessionReadsKeepsOwned, DeliverKeepsOwned
  <1>6. CASE StopReads(h) \/ StopDeletes(h) \/ StopRemoves(h)
    BY <1>6, StopReadsKeepsOwned, StopDeletesKeepsOwned, StopRemovesKeepsOwned
  <1> QED
    BY <1>1, <1>2, <1>3, <1>4, <1>5, <1>6 DEF Step

LEMMA NextKeepsOwned ==
  ASSUME Core, Owned, [Next]_vars
  PROVE  Owned'
  <1>1. CASE \E h \in Hook : Event(h) \/ Step(h) \/ AccessFails(h) \/ Killed(h)
    BY <1>1, EventKeepsOwned, StepKeepsOwned, AccessFailsKeepsOwned, KilledKeepsOwned
  <1>2. CASE Tick \/ \E d \in Dir : Reap(d)
    BY <1>2, OutsideKeepsOwned
  <1>3. CASE UNCHANGED vars
    <2>1. UNCHANGED <<clock, agts, dirs, grants, hook, delivered, stopped, dropped, lost>>
      BY <1>3 DEF vars, store, disk, history
    <2>2. Exclusive' /\ Withdrawn' /\ Present' /\ Silent' /\ Later' /\ Agreed'
      BY <2>1 DEF Owned, Exclusive, Withdrawn, Present, Silent, Later, Agreed, Named, Made
    <2>3. \A h \in Hook : Holding(h)' = Holding(h)
      BY <2>1 DEF Holding
    <2>4. NoDanglingRecord' /\ NoLeakedChild'
      BY <2>1, <2>3 DEF Owned, NoDanglingRecord, NoLeakedChild
    <2> QED
      BY <2>2, <2>4 DEF Owned
  <1> QED
    BY <1>1, <1>2, <1>3 DEF Next

\* Who has each agent's directory, at every moment of any number of hooks.
THEOREM OwnedInvariant == Spec => [](Core /\ Owned)
  <1>1. Init => Core /\ Owned
    BY InitCore, InitOwned
  <1>2. (Core /\ Owned) /\ [Next]_vars => (Core /\ Owned)'
    BY NextKeepsCore, NextKeepsOwned
  <1> QED
    BY <1>1, <1>2, PTL DEF Spec

\* A live agent record names a directory that is there and was issued for that
\* agent: no stop, lost race, Prune or reaper takes it away (claude.go, store.go).
THEOREM StoreSoundHolds == Spec => []StoreSound
  <1>1. Core /\ Owned => StoreSound
    BY DEF Core, Owned, StoreSound
  <1> QED
    BY <1>1, OwnedInvariant, PTL

\* However many hooks of one agent race, its commands are given one directory,
\* unless a stop or Prune came between (Store.PutNew, ensureAgent).
THEOREM RacersAgreeHolds == Spec => []RacersAgree
  <1>1. Core /\ Owned => RacersAgree
    BY DEF Owned, Agreed, RacersAgree
  <1> QED
    BY <1>1, OwnedInvariant, PTL

\* No command that begins after a stop has ended is given what the stop took
\* (subagentStop).
THEOREM StoppedNotDeliveredHolds == Spec => []StoppedNotDelivered
  <1>1. Core /\ Owned => StoppedNotDelivered
    BY DEF Owned, Later, StoppedNotDelivered, Delivers, At
  <1> QED
    BY <1>1, OwnedInvariant, PTL

\* Every child's directory has somebody to remove it, unless a named fault lost
\* it (ensureAgent, subagentStop, Store.Prune).
THEOREM NoLeakedChildHolds == Spec => []NoLeakedChild
  <1>1. Core /\ Owned => NoLeakedChild
    BY DEF Owned
  <1> QED
    BY <1>1, OwnedInvariant, PTL
=============================================================================
