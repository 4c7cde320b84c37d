------------------------------- MODULE Compose -------------------------------
(***************************************************************************)
(* One pre-tool-use-bash hook that runs another hook first (--compose):    *)
(* the upstream process under its deadline, the wait for pipes that a      *)
(* descendant holds, the drain of the stdin, gatekeeper's own bounded part *)
(* and the runtime's timeout over all of it.                               *)
(*                                                                         *)
(* Time is counted in ticks; a timer that is due fires, and a process that *)
(* has exited is reaped, before time goes on.  Between two ticks steps of  *)
(* the hook's goroutines, the upstream and the runtime interleave.  What   *)
(* the upstream writes is the class of its reply; a payload is known by    *)
(* what ParsePayload and the tool name make of it.                         *)
(***************************************************************************)
EXTENDS Integers

CONSTANTS
  Budget,          \* the upstream's lifetime, the timeout a hook has alone
  WaitDelay,       \* upstreamWaitDelay
  DrainWait,       \* stdinDrainWait
  OwnDeadline,     \* the issuer call timeout and hookOwnSlack
  Allowance,       \* composeAllowanceSeconds
  Handwritten      \* runtime timeouts of entries not made by hooks-install

ASSUME TimesAssumption ==
  /\ Budget \in Nat \ {0} /\ OwnDeadline \in Nat \ {0}
  /\ WaitDelay \in Nat /\ DrainWait \in Nat /\ Allowance \in Nat
  /\ Handwritten \subseteq Nat \ {0}

\* What a composed entry is given covers what gatekeeper may take after its
\* upstream, as the defaults of the code do (composeAllowanceSeconds).
AllowanceCovers == WaitDelay + DrainWait + OwnDeadline < Allowance

\* A reply without a decision of its own may be added to; the others may not.
Replies == {"allow", "silent", "deny", "unparsed"}
Payloads == {"bash", "other tool", "unusable"}

VARIABLES
  composed,    \* whether the registration composes an upstream
  timeout,     \* the runtime's timeout of the entry
  clock,
  phase,     \* "wait", "drain", "own", "emit", "answered" or "cut"
  reply,     \* what the upstream writes before it ends
  payload,   \* what the runtime writes to stdin
  stdin,     \* "open", "ended" or "failed"
  ended,     \* the upstream: "running", or how it ended
  reaped,    \* Process.Wait has returned
  pipes,     \* a descendant of the upstream holds its output
  expired,   \* the context's deadline has passed
  cancel,    \* exec's watcher: "armed", "sent" (a kill), "off"
  since,     \* when the timer of this phase was set
  up, upErr, \* result of the upstream: its exit code; no verdict
  raw,       \* gatekeeper has the whole payload
  result     \* the hook's reply and exit code

process == <<ended, reaped, pipes>>
entry == <<composed, timeout, reply, payload>>
vars == <<entry, clock, phase, stdin, process, expired, cancel, since, up,
          upErr, raw, result>>

\* What is emitted: the upstream's own bytes and exit code, the upstream's reply
\* with the statement added, or nothing.
Upstream(code) == [what |-> "upstream", code |-> code]
Rewritten == [what |-> "rewritten", code |-> 0]
Nothing == [what |-> "nothing", code |-> 0]
Results == {Upstream(0), Upstream(1), Upstream(2), Rewritten, Nothing}

Enter(p) == phase' = p /\ since' = clock

-----------------------------------------------------------------------------
(* The upstream and the runtime, at any time                               *)

\* The upstream exits 0, exits 2, or dies of a signal of its own, and may leave
\* a descendant that holds its pipes.
UpstreamEnds ==
  /\ phase = "wait" /\ ended = "running"
  /\ ended' \in {"exit 0", "exit 2", "signal"}
  /\ pipes' \in BOOLEAN
  /\ UNCHANGED <<entry, clock, phase, stdin, reaped, expired, cancel, since,
                 up, upErr, raw, result>>

PipesClose ==
  /\ ended # "running" /\ pipes /\ pipes' = FALSE
  /\ UNCHANGED <<entry, clock, phase, stdin, ended, reaped, expired, cancel,
                 since, up, upErr, raw, result>>

StdinEnds ==
  /\ composed /\ phase \in {"wait", "drain"}
  /\ stdin = "open" /\ stdin' \in {"ended", "failed"}
  /\ UNCHANGED <<entry, clock, phase, process, expired, cancel, since, up,
                 upErr, raw, result>>

\* The runtime kills a hook that has not answered by its timeout.
RuntimeCuts ==
  /\ clock >= timeout /\ phase \notin {"answered", "cut"}
  /\ Enter("cut")
  /\ UNCHANGED <<entry, clock, stdin, process, expired, cancel, up, upErr, raw,
                 result>>

-----------------------------------------------------------------------------
(* runUpstreamStream over os/exec                                          *)

DeadlinePasses ==
  /\ composed /\ ~expired /\ clock >= Budget
  /\ expired' = TRUE
  /\ UNCHANGED <<entry, clock, phase, stdin, process, cancel, since, up, upErr,
                 raw, result>>

\* exec's watcher calls Cancel, which kills: a process that is not yet reaped
\* accepts the kill, and one that is still running dies of it.
CancelRuns ==
  /\ phase = "wait" /\ expired /\ cancel = "armed" /\ ~reaped
  /\ cancel' = "sent" /\ since' = clock
  /\ ended' = IF ended = "running" THEN "kill" ELSE ended
  /\ UNCHANGED <<entry, clock, phase, stdin, reaped, pipes, expired, up, upErr,
                 raw, result>>

\* Process.Wait returns and stops the watcher; the wait for the pipes begins,
\* or goes on from the kill.
Reap ==
  /\ phase = "wait" /\ ended # "running" /\ ~reaped
  /\ reaped' = TRUE
  /\ IF cancel = "armed" THEN cancel' = "off" /\ since' = clock
                         ELSE UNCHANGED <<cancel, since>>
  /\ UNCHANGED <<entry, clock, phase, stdin, ended, pipes, expired, up, upErr,
                 raw, result>>

\* What Cmd.Wait returns: an exit that is not a success, else the context's
\* error if the kill was accepted, else that the pipes were not closed in time.
WaitError ==
  IF ended # "exit 0" THEN "exit"
  ELSE IF cancel = "sent" THEN "context"
  ELSE IF pipes THEN "wait delay"
  ELSE "none"

\* endedByKill: the wait status shows that the kill is what ended the process.
Killed == cancel = "sent" /\ ended = "kill"

\* classifyUpstream and upstreamOutcome: whether there is a verdict.
NoVerdict ==
  \/ Killed
  \/ WaitError = "exit" /\ ended # "exit 2" /\ expired
  \/ WaitError = "context" /\ expired

ExitCode == IF ended = "exit 2" THEN 2 ELSE IF ended = "exit 0" THEN 0 ELSE 1

WaitReturns ==
  /\ phase = "wait" /\ reaped
  /\ pipes => clock >= since + WaitDelay
  /\ upErr' = NoVerdict
  /\ up' = IF NoVerdict THEN 0 ELSE ExitCode
  /\ Enter("drain")
  /\ UNCHANGED <<entry, clock, stdin, process, expired, cancel, raw, result>>

-----------------------------------------------------------------------------
(* capturedStdin.drain, then the part under runBounded                     *)

\* Broken form: the rest of the stdin is read to its end.
DrainEnds_Unbounded == stdin # "open"

\* The stdin ends or fails, or the wait for it is over.
DrainEnds == stdin # "open" \/ clock >= since + DrainWait

Drain ==
  /\ phase = "drain" /\ DrainEnds
  /\ raw' = (stdin = "ended")
  /\ Enter("own")
  /\ UNCHANGED <<entry, clock, stdin, process, expired, cancel, up, upErr,
                 result>>

Fallback == IF composed /\ ~upErr THEN Upstream(up) ELSE Nothing

\* Broken form: the exit code is not looked at.
MayAdd_AnyExit == ~upErr /\ reply \in {"allow", "silent"}

\* composedPreToolUse adds to a reply of an upstream that exited 0 and either
\* allowed or did not decide.
MayAdd == ~upErr /\ up = 0 /\ reply \in {"allow", "silent"}

\* HandleComposed, or Handle of a hook that composes nothing.
Handled ==
  {Fallback} \cup
  (IF composed
     THEN IF raw /\ payload = "bash" /\ MayAdd THEN {Rewritten} ELSE {}
     ELSE IF payload = "bash" THEN {Rewritten} ELSE {})

\* The work ends, or panics, within the deadline; else the fallback answers.
Own ==
  /\ phase = "own"
  /\ result' \in Handled
  /\ Enter("emit")
  /\ UNCHANGED <<entry, clock, stdin, process, expired, cancel, up, upErr,
                 raw>>

Emit ==
  /\ phase = "emit" /\ Enter("answered")
  /\ UNCHANGED <<entry, clock, stdin, process, expired, cancel, up, upErr, raw,
                 result>>

-----------------------------------------------------------------------------
\* Something that waits for no one is left to do at this instant.
Due ==
  \/ clock >= timeout
  \/ composed /\ ~expired /\ clock >= Budget
  \/ phase = "wait" /\ expired /\ cancel = "armed" /\ ~reaped
  \/ phase = "wait" /\ ended # "running" /\ ~reaped
  \/ phase = "wait" /\ reaped /\ (pipes => clock >= since + WaitDelay)
  \/ phase = "drain" /\ DrainEnds
  \/ phase = "own" /\ clock >= since + OwnDeadline
  \/ phase = "emit"

Tick ==
  /\ phase \notin {"answered", "cut"} /\ ~Due
  /\ clock' = clock + 1
  /\ UNCHANGED <<entry, phase, stdin, process, expired, cancel, since, up,
                 upErr, raw, result>>

\* Broken form: the composed entry keeps the timeout of its upstream.
TimeoutFor_Alone(c) == IF c \in BOOLEAN THEN Budget ELSE 0

\* The timeout hooks-install registers.
TimeoutFor(c) == IF c THEN Budget + Allowance ELSE Budget

Init ==
  /\ composed \in BOOLEAN
  /\ timeout \in {TimeoutFor(composed)} \cup Handwritten
  /\ clock = 0 /\ since = 0
  /\ phase = IF composed THEN "wait" ELSE "own"
  /\ reply \in Replies /\ payload \in Payloads
  /\ stdin = "open"
  /\ ended = "running" /\ reaped = FALSE /\ pipes = FALSE
  /\ expired = FALSE /\ cancel = "armed"
  /\ up = 0 /\ upErr = FALSE /\ raw = FALSE /\ result = Nothing

Hook == CancelRuns \/ Reap \/ WaitReturns \/ Drain \/ Own \/ Emit

Next == \/ UpstreamEnds \/ PipesClose \/ StdinEnds \/ RuntimeCuts
        \/ DeadlinePasses \/ Hook \/ Tick

Spec == Init /\ [][Next]_vars

\* Time passes, timers fire, the hook's goroutines run and the runtime enforces
\* its timeout; nothing is asked of the upstream, its descendants, the stdin or
\* the issuer.
FairSpec == /\ Spec
            /\ WF_vars(RuntimeCuts)
            /\ WF_vars(Tick) /\ WF_vars(DeadlinePasses)
            /\ WF_vars(Hook /\ phase # "own")
            /\ WF_vars(Own /\ clock >= since + OwnDeadline)

-----------------------------------------------------------------------------
(* Properties                                                              *)

Flags ==
  /\ composed \in BOOLEAN /\ reaped \in BOOLEAN /\ pipes \in BOOLEAN
  /\ expired \in BOOLEAN /\ upErr \in BOOLEAN /\ raw \in BOOLEAN

Registered == timeout \in {TimeoutFor(composed)} \cup Handwritten

Clocks == clock \in Nat /\ since \in 0 .. clock

Values ==
  /\ phase \in {"wait", "drain", "own", "emit", "answered", "cut"}
  /\ reply \in Replies /\ payload \in Payloads
  /\ stdin \in {"open", "ended", "failed"}
  /\ ended \in {"running", "exit 0", "exit 2", "signal", "kill"}
  /\ cancel \in {"armed", "sent", "off"}
  /\ up \in 0 .. 2 /\ result \in Results

TypeOK == Flags /\ Registered /\ Clocks /\ Values

\* The runtime never cuts off a composed hook before its answer, under the
\* timeout hooks-install registers or any longer one (composeAllowanceSeconds).
NeverCut ==
  /\ TypeOK
  /\ composed /\ timeout >= TimeoutFor(TRUE) => phase # "cut"

\* Whatever the upstream, its descendants, the stdin and the issuer do, a hook
\* ends: it answers, or its registration was too short and the runtime cut it.
Answers ==
  <>(phase = "answered" \/ (phase = "cut" /\ timeout < TimeoutFor(TRUE)))

Unanswered == [what |-> "none", code |-> 0]

Promised ==
  INSTANCE HookPromise WITH
    None <- Unanswered, Running <- "running",
    addable <- reply \in {"allow", "silent"},
    whole <- stdin = "ended",
    fate <- ended,
    late <- expired,
    answer <- IF phase = "answered" THEN result ELSE Unanswered,
    cut <- phase = "cut"

\* Kills, reaping, pipes held open, the drain and gatekeeper's bounded part only
\* ever give the one answer the upstream's end allows: a statement is added to
\* an allowing success alone, a verdict is lost to the deadline alone, a killed
\* upstream says nothing (upstreamOutcome, composedPreToolUse, runBounded).
AnswersAsPromised == Promised!Spec

\* upstream.go, runUpstreamStream: "A process that exited has given its verdict
\* whatever it exited with", "and a signal death, which is reported as exit 1".
ExitIsVerdict ==
  composed /\ phase # "wait" /\ ended \in {"exit 0", "exit 2", "signal"}
    => ~upErr
=============================================================================
