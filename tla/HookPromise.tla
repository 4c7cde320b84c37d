----------------------------- MODULE HookPromise -----------------------------
(***************************************************************************)
(* What a runtime may rely on from one pre-tool-use-bash hook, without the *)
(* hook's processes, timers and pipes: a composed upstream ends once, then *)
(* one answer is given, or none because the registration was too short,    *)
(* and the upstream's end bounds what that answer may be.                  *)
(***************************************************************************)
CONSTANTS None, Running  \* no answer yet; the upstream has not ended

VARIABLES
  composed,  \* whether an upstream is composed
  addable,   \* its reply leaves room for gatekeeper's statement
  whole,     \* the runtime's payload has been read to its end
  fate,      \* how the upstream ended
  late,      \* the upstream's deadline has passed
  answer,    \* what the runtime was given
  cut        \* the runtime gave up on the hook

vars == <<composed, addable, whole, fate, late, answer, cut>>

Upstream(code) == [what |-> "upstream", code |-> code]
Rewritten == [what |-> "rewritten", code |-> 0]
Nothing == [what |-> "nothing", code |-> 0]

\* Without an upstream the statement is given or nothing is.
Alone == {Rewritten, Nothing}

\* A success stands, perhaps with the statement added for a payload that is
\* known whole; a blocking exit blocks; a death by signal counts as a failure.
\* Only a deadline takes a verdict away, and an upstream killed for it has none.
Success == {Upstream(0)} \cup (IF addable /\ whole THEN {Rewritten} ELSE {})
Lost == IF late THEN {Nothing} ELSE {}

Allowed ==
  IF ~composed THEN Alone
  ELSE IF fate = "exit 0" THEN Success \cup Lost
  ELSE IF fate = "exit 2" THEN {Upstream(2)}
  ELSE IF fate = "signal" THEN {Upstream(1)} \cup Lost
  ELSE IF fate = "kill" THEN {Nothing}
  ELSE {}

Open == answer = None /\ ~cut

End ==
  /\ composed /\ Open /\ fate = Running
  /\ fate' \in {"exit 0", "exit 2", "signal"} \cup (IF late THEN {"kill"} ELSE {})
  /\ UNCHANGED <<composed, addable, whole, late, answer, cut>>

Deadline ==
  /\ composed /\ ~late /\ late' = TRUE
  /\ UNCHANGED <<composed, addable, whole, fate, answer, cut>>

PayloadRead ==
  /\ composed /\ Open /\ ~whole /\ whole' = TRUE
  /\ UNCHANGED <<composed, addable, fate, late, answer, cut>>

Answer ==
  /\ Open /\ answer' \in Allowed
  /\ UNCHANGED <<composed, addable, whole, fate, late, cut>>

Cut ==
  /\ Open /\ cut' = TRUE
  /\ UNCHANGED <<composed, addable, whole, fate, late, answer>>

Init ==
  /\ composed \in BOOLEAN /\ addable \in BOOLEAN
  /\ fate = Running /\ answer = None
  /\ ~whole /\ ~late /\ ~cut

Next == End \/ Deadline \/ PayloadRead \/ Answer \/ Cut

Spec == Init /\ [][Next]_vars
=============================================================================
