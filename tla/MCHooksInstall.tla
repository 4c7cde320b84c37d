---------------------------- MODULE MCHooksInstall ----------------------------
(* Instances of publishing and of hooks-install for TLC.                     *)
EXTENDS HooksInstall, TLC

Warn == [line |-> "warn", compose |-> "none", timeout |-> 10]
Enforce == [line |-> "enforce", compose |-> "upstream", timeout |-> 10]

MCInstall == {Warn, Enforce}
MCText == {"warn", "enforce", "upstream", "old", "a", "b", "ls", "export"}

UserHook(n) == [command |-> [event |-> "none", line |-> n, compose |-> "none",
                              budget |-> 0], timeout |-> 0]
Old(e) == [command |-> [event |-> e, line |-> "old", compose |-> "none",
                        budget |-> 0], timeout |-> 5]

\* What a user may have under an event: nothing, a group of theirs, an empty
\* array or group, and old registrations alone, twice, beside theirs, or under
\* an event they are not for.
MCGroups ==
  {NoGroups, Odd, Groups(<<>>), Groups(<< <<>> >>),
   Groups(<< <<UserHook("a"), UserHook("b")>> >>),
   Groups(<< <<UserHook("a"), Old("PreToolUse"), UserHook("b")>> >>),
   Groups(<< <<Old("PreToolUse")>>, <<Old("PreToolUse"), UserHook("a")>>,
             <<Old("PreToolUse")>> >>),
   Groups(<< <<Old("SessionStart")>> >>)}

MCPermissions ==
  {NoPermissions, [NoPermissions EXCEPT !.kind = "odd"],
   [kind |-> "object", other |-> FALSE, allow |-> NoRules],
   [kind |-> "object", other |-> TRUE, allow |-> [kind |-> "odd", rules |-> <<>>]],
   [kind |-> "object", other |-> TRUE,
    allow |-> [kind |-> "array", rules |-> <<"ls", "export">>]],
   [kind |-> "object", other |-> FALSE,
    allow |-> [kind |-> "array", rules |-> <<"ls">>]]}

Hooks(g, other) ==
  [kind |-> "object", other |-> other,
   at |-> [e \in Event |-> IF e = "PreToolUse" THEN g ELSE NoGroups]]

MCDocument ==
  {[Empty EXCEPT !.object = FALSE], Empty,
   [Empty EXCEPT !.hooks.kind = "odd"]}
  \cup {[object |-> TRUE, hooks |-> Hooks(g, FALSE), permissions |-> p] :
          g \in MCGroups, p \in MCPermissions}
  \cup {[Empty EXCEPT !.hooks = Hooks(g, TRUE)] : g \in MCGroups}

WriterSymmetry == Permutations(Writer)
===============================================================================
