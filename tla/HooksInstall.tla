----------------------------- MODULE HooksInstall -----------------------------
(***************************************************************************)
(* gatekeeper hooks-install (Apply, Remove, ApplySettingsFile): several    *)
(* runs of it and a user, or the runtime itself, edit one settings file.   *)
(* A run reads the file, edits what it read and replaces the file, which   *)
(* it does as Publish has it.                                              *)
(*                                                                         *)
(* A document is what the code looks at: whether it is one JSON object;    *)
(* under "hooks", for each event of the runtime that is registered for,    *)
(* its groups of entries, and whether there are other events; under        *)
(* "permissions" the allow rules, and whether there is anything else.      *)
(* Each of these is absent, of another type ("odd") or there.  The rest of *)
(* a document is carried through by the decoder and the encoder.           *)
(*                                                                         *)
(* A command line is the event it registers this adapter for, or "none",   *)
(* and what else is in it.                                                 *)
(***************************************************************************)
EXTENDS Publish, FiniteSets, Functions

CONSTANTS
  Event,         \* the events registered for, by the runtime's name
  ComposedEvent, \* the one that may compose an upstream hook (PreToolUse)
  Install,       \* the registrations asked for: [line, compose, timeout]
  Document,      \* what a user may leave in the file
  Text,          \* what a command line or a rule may be
  AllowRule,     \* the one permission rule that is registered
  Allowance      \* composeAllowanceSeconds

VARIABLES
  job,      \* what each writer of the settings is: a run or a user
  base,     \* the document each run read
  doc,      \* the document each writer made of it
  origin    \* history: the user's edit each document was made from, or None

edit == <<job, base, doc, origin>>

-----------------------------------------------------------------------------
(* Documents                                                               *)

Odd == [kind |-> "odd", groups |-> <<>>]
NoGroups == [kind |-> "absent", groups |-> <<>>]
Groups(gs) == [kind |-> "array", groups |-> gs]

NoHooks == [kind |-> "absent", at |-> [e \in Event |-> NoGroups], other |-> FALSE]
NoRules == [kind |-> "absent", rules |-> <<>>]
NoPermissions == [kind |-> "absent", allow |-> NoRules, other |-> FALSE]

ListKinds == {"absent", "odd", "array"}
ObjectKinds == {"absent", "odd", "object"}

Commands == [event : Event \cup {"none"}, line : Text, compose : Text \cup {"none"},
             budget : Nat]
Entries == [command : Commands, timeout : Nat]

GroupLists == [kind : ListKinds, groups : Seq(Seq(Entries))]
HookObjects == [kind : ObjectKinds, at : [Event -> GroupLists], other : BOOLEAN]
RuleLists == [kind : ListKinds, rules : Seq(Text)]
PermissionObjects == [kind : ObjectKinds, allow : RuleLists, other : BOOLEAN]
Documents ==
  [object : BOOLEAN, hooks : HookObjects, permissions : PermissionObjects]

\* Nothing is inside what is absent or of another type.
Decoded(d) ==
  /\ d.hooks.kind # "object" => d.hooks.at = NoHooks.at /\ ~d.hooks.other
  /\ \A e \in Event : d.hooks.at[e].kind # "array" => d.hooks.at[e].groups = <<>>
  /\ d.permissions.kind # "object" =>
       d.permissions.allow = NoRules /\ ~d.permissions.other
  /\ d.permissions.allow.kind # "array" => d.permissions.allow.rules = <<>>

ASSUME InstallAssumption ==
  /\ ComposedEvent \in Event /\ Allowance \in Nat /\ AllowRule \in Text
  /\ Install \subseteq [line : Text, compose : Text \cup {"none"}, timeout : Nat \ {0}]

ASSUME DocumentAssumption == \A d \in Document : d \in Documents /\ Decoded(d)

\* A file that is not there is edited as the empty object.
Empty == [object |-> TRUE, hooks |-> NoHooks, permissions |-> NoPermissions]

Current == IF name = None THEN Empty ELSE doc[name]

\* Install.Command and timeoutFor.
Composed(in, e) == e = ComposedEvent /\ in.compose # "none"

Command(in, e) ==
  [event |-> e, line |-> in.line,
   compose |-> IF Composed(in, e) THEN in.compose ELSE "none",
   budget |-> IF Composed(in, e) THEN in.timeout ELSE 0]

TimeoutFor(in, e) == in.timeout + IF Composed(in, e) THEN Allowance ELSE 0

Ours(entry, e) == entry.command.event = e
AnyOurs(entry) == entry.command.event \in Event

\* What the code cannot read it refuses.
HooksReadable(d) ==
  /\ d.object /\ d.hooks.kind # "odd"
  /\ \A e \in Event : d.hooks.at[e].kind # "odd"

RulesReadable(d) == d.permissions.kind # "odd" /\ d.permissions.allow.kind # "odd"

Readable(d) == HooksReadable(d) /\ RulesReadable(d)

\* What a loop over s leaves of it that keeps the elements at the positions I.
InOrder(I) ==
  CHOOSE f \in Surjection(1 .. Cardinality(I), I) :
    \A j, k \in DOMAIN f : j < k => f[j] < f[k]

Picked(s, I) == LET at == InOrder(I) IN [k \in DOMAIN at |-> s[at[k]]]

Mine(g, e) == {k \in DOMAIN g : Ours(g[k], e)}
Theirs(g) == Picked(g, {k \in DOMAIN g : ~AnyOurs(g[k])})

-----------------------------------------------------------------------------
(* Apply                                                                   *)

Entry(in, e) == [command |-> Command(in, e), timeout |-> TimeoutFor(in, e)]

\* Broken form: a second registration is updated like the first.
Collapsed_Duplicates(entries, e, in, found) ==
  [k \in DOMAIN entries |->
     IF Ours(entries[k], e) THEN Entry(in, e) ELSE entries[k]]

\* The entries of one group: the first registration found in any group is
\* updated in place, the others are dropped.
Collapsed(entries, e, in, found) ==
  LET mine == Mine(entries, e)
      first == IF found THEN {} ELSE {k \in mine : \A j \in mine : k <= j}
  IN Picked([k \in DOMAIN entries |->
               IF k \in first THEN Entry(in, e) ELSE entries[k]],
            (DOMAIN entries \ mine) \cup first)

\* The groups of one event; one that loses its last entry is dropped.
ApplyEvent(groups, e, in) ==
  LET Found(n) == \E m \in 1 .. n : Mine(groups[m], e) # {}
      kept == [n \in DOMAIN groups |-> Collapsed(groups[n], e, in, Found(n - 1))]
      left == Picked(kept, {n \in DOMAIN groups : groups[n] = <<>> \/ kept[n] # <<>>})
  IN IF Found(Len(groups)) THEN left ELSE Append(left, <<Entry(in, e)>>)

\* Broken form: the rule is added without looking for it.
AddAllowRule_Always(p) ==
  [p EXCEPT !.kind = "object",
            !.allow = [kind |-> "array", rules |-> Append(p.allow.rules, AllowRule)]]

AddAllowRule(p) ==
  IF AllowRule \in Range(p.allow.rules) THEN p
  ELSE [p EXCEPT !.kind = "object",
                 !.allow = [kind |-> "array",
                            rules |-> Append(p.allow.rules, AllowRule)]]

Apply(d, in) ==
  [object |-> d.object,
   hooks |-> [kind |-> "object", other |-> d.hooks.other,
              at |-> [e \in Event |->
                        Groups(ApplyEvent(d.hooks.at[e].groups, e, in))]],
   permissions |-> AddAllowRule(d.permissions)]

-----------------------------------------------------------------------------
(* Remove                                                                  *)

\* Broken form: a group goes with the registration in it.
RemoveEvent_WholeGroups(groups) ==
  Picked(groups, {n \in DOMAIN groups : Theirs(groups[n]) = groups[n]})

\* Every registration of any event goes, and the groups that empties.
RemoveEvent(groups) ==
  LET kept == [n \in DOMAIN groups |-> Theirs(groups[n])]
  IN Picked(kept, {n \in DOMAIN groups : groups[n] = <<>> \/ kept[n] # <<>>})

RemoveHooks(h) ==
  LET Left(v) == RemoveEvent(v.groups)
      at == [e \in Event |-> IF h.at[e].groups # <<>> /\ Left(h.at[e]) = <<>>
                             THEN NoGroups
                             ELSE [h.at[e] EXCEPT !.groups = Left(h.at[e])]]
      emptied == at # h.at /\ ~h.other /\ \A e \in Event : at[e] = NoGroups
  IN IF emptied THEN NoHooks ELSE [h EXCEPT !.at = at]

OtherRules(rules) == Picked(rules, {k \in DOMAIN rules : rules[k] # AllowRule})

\* Broken form: what the removal empties stays behind.
RemoveAllowRule_LeavesEmpty(p) == [p EXCEPT !.allow.rules = OtherRules(@)]

\* Nothing is touched unless a rule is found.
RemoveAllowRule(p) ==
  LET kept == OtherRules(p.allow.rules)
  IN CASE kept = p.allow.rules -> p
       [] kept # p.allow.rules /\ kept # <<>> -> [p EXCEPT !.allow.rules = kept]
       [] OTHER -> IF p.other THEN [p EXCEPT !.allow = NoRules] ELSE NoPermissions

Unregister(d) ==
  [object |-> d.object, hooks |-> RemoveHooks(d.hooks),
   permissions |-> RemoveAllowRule(d.permissions)]

-----------------------------------------------------------------------------
(* The editors                                                             *)

Job == {<<"install", in>> : in \in Install} \cup {<<"remove">>, <<"user">>}

User(w) == job[w][1] = "user"
Removes(w) == job[w][1] = "remove"
Installs(w) == job[w][1] = "install"

Edited(w, d) == IF Removes(w) THEN Unregister(d) ELSE Apply(d, job[w][2])

\* ApplySettingsFile up to writeAtomic: what cannot be read is refused, and what
\* would not change is not written.
ReadAndEdit(w) ==
  /\ file = "settings" /\ At(w, "idle") /\ ~User(w)
  /\ base' = [base EXCEPT ![w] = Current]
  /\ doc' = [doc EXCEPT ![w] = IF Readable(Current) THEN Edited(w, Current)
                               ELSE Current]
  /\ origin' = [origin EXCEPT ![w] = IF name = None THEN None ELSE origin[name]]
  /\ Goto(w, CASE ~Readable(Current) -> "failed"
               [] Readable(Current) /\ doc'[w] = Current -> "kept"
               [] OTHER -> "made")
  /\ UNCHANGED <<content, synced, name, onDisk, home, moved, setting, job>>

\* A user, or the runtime, leaves another document in the file.
UserEdit(w) ==
  /\ file = "settings" /\ At(w, "idle") /\ User(w)
  /\ doc' \in {[doc EXCEPT ![w] = d] : d \in Document}
  /\ content' = [content EXCEPT ![w] = "full"] /\ synced' = synced \cup {w}
  /\ name' = w /\ onDisk' = {w} /\ moved' = Append(moved, w)
  /\ origin' = [origin EXCEPT ![w] = w]
  /\ Goto(w, "done")
  /\ UNCHANGED <<home, setting, job, base>>

HInit ==
  /\ Init
  /\ job \in [Writer -> Job]
  /\ base = [w \in Writer |-> Empty] /\ doc = [w \in Writer |-> Empty]
  /\ origin = [w \in Writer |-> None]

HNext ==
  \/ \E w \in Writer :
       \/ ReadAndEdit(w) \/ UserEdit(w)
       \/ file # "settings" /\ CreateDir(w) /\ UNCHANGED edit
       \/ /\ \/ OpenTemp(w) \/ Write(w) \/ Sync(w) \/ Move(w)
             \/ FlushDir(w) \/ MakeTmp(w) \/ FlushRoot(w) \/ Fails(w)
          /\ UNCHANGED edit
  \/ PowerLoss /\ UNCHANGED edit

HSpec == HInit /\ [][HNext]_<<vars, edit>>

-----------------------------------------------------------------------------
(* Properties                                                              *)

EditTypeOK ==
  /\ job \in [Writer -> Job] /\ origin \in [Writer -> Writer \cup {None}]
  /\ base \in [Writer -> Documents] /\ doc \in [Writer -> Documents]

\* What is not this adapter's in a document, in its order and its groups.
ForeignGroups(groups) ==
  LET others == [n \in DOMAIN groups |->
                   Picked(groups[n], {k \in DOMAIN groups[n] :
                                        ~AnyOurs(groups[n][k])})]
  IN Picked(others, {n \in DOMAIN groups : groups[n] = <<>> \/ others[n] # <<>>})

Foreign(d) ==
  [at |-> [e \in Event |-> ForeignGroups(d.hooks.at[e].groups)],
   other |-> d.hooks.other,
   rules |-> LET all == d.permissions.allow.rules
             IN Picked(all, {k \in DOMAIN all : all[k] # AllowRule}),
   rest |-> d.permissions.other]

\* However often hooks-install adds, updates and removes its registrations, in any
\* order or at once, with calls that fail and power that is lost, the file holds
\* every hook and rule of the user's edit it was made from, none of them lost, moved
\* or changed, and nothing else that is not this adapter's (Apply, Remove).
ForeignKept ==
  EditTypeOK /\ (file = "settings" /\ name # None =>
    Foreign(doc[name]) =
      Foreign(IF origin[name] = None THEN Empty ELSE doc[origin[name]]))

\* One entry among the groups of e is for e, and it is what in asks for.
RegisteredOnce(groups, e, in) ==
  \E n \in DOMAIN groups : \E k \in DOMAIN groups[n] :
    /\ groups[n][k] = Entry(in, e) /\ Mine(groups[n], e) = {k}
    /\ \A m \in DOMAIN groups : m # n => Mine(groups[m], e) = {}

\* Whenever a run's registration is in the file it is there whole, once for each
\* event, with its own command and timeout and the rule: neither a run at the
\* same time nor an earlier registration mixes with it.
RegisteredWhole ==
  file = "settings" /\ name # None /\ Installs(name) =>
    /\ \A e \in Event :
         RegisteredOnce(doc[name].hooks.at[e].groups, e, job[name][2])
    /\ AllowRule \in Range(doc[name].permissions.allow.rules)

\* A document without a registration, and without an object or array that is
\* there and empty: the removal drops what it empties.
Plain(d) ==
  /\ Readable(d)
  /\ d.hooks.kind = "object" =>
       d.hooks.other \/ \E e \in Event : d.hooks.at[e].kind = "array"
  /\ \A e \in Event :
       LET v == d.hooks.at[e]
       IN /\ v.kind = "array" => v.groups # <<>>
          /\ \A k \in DOMAIN v.groups :
               \A n \in DOMAIN v.groups[k] : ~AnyOurs(v.groups[k][n])
  /\ d.permissions.kind = "object" =>
       d.permissions.other \/ d.permissions.allow.kind = "array"
  /\ d.permissions.allow.kind = "array" => d.permissions.allow.rules # <<>>
  /\ AllowRule \notin Range(d.permissions.allow.rules)

Ran(w) == pc[w] # "idle" /\ ~User(w)
From(w, v) == Ran(w) /\ v \in Range(moved) /\ base[w] = doc[v]

\* The rollback gives back the very document that one registration, or one and
\* another over it, was made in (TestRemoveRestoresTheForeignSettingsExactly).
RemoveRestores ==
  \A w, v \in Writer :
    file = "settings" /\ Removes(w) /\ Installs(v) /\ From(w, v) =>
      \A u \in Writer :
        u = v \/ (Installs(u) /\ From(v, u)) =>
          (Plain(base[u]) => doc[w] = base[u])

\* A run that finds what the same run has left writes nothing, so the file is not
\* touched (Apply: "Applying it twice changes nothing the second time").
SecondRunWritesNothing ==
  \A w, v \in Writer :
    file = "settings" /\ w # v /\ job[w] = job[v] /\ ~User(w) /\ From(w, v) =>
      pc[w] = "kept"
=============================================================================
