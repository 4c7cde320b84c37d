---------------------------- MODULE ComposeProofs ----------------------------
(***************************************************************************)
(* Proofs about Compose, for every budget, delay, deadline and allowance   *)
(* and every timeout an entry may have been registered with by hand.       *)
(***************************************************************************)
EXTENDS Compose, TLAPS

-----------------------------------------------------------------------------
(* Types                                                                   *)

\* What a hook emits is one of the results.
LEMMA ResultTypes ==
  /\ Nothing \in Results /\ Rewritten \in Results
  /\ \A c \in 0 .. 2 : Upstream(c) \in Results
  BY DEF Results

\* Init gives every variable its type.
LEMMA InitTypes == Init => TypeOK
  <1>1. Init => Flags
    BY Zenon DEF Init, Flags
  <1>2. Init => Values
    BY ResultTypes DEF Init, Values
  <1>3. Init => Registered
    BY Zenon DEF Init, Registered
  <1>4. Init => Clocks
    BY DEF Init, Clocks
  <1>5. QED
    BY <1>1, <1>2, <1>3, <1>4 DEF TypeOK

\* The flags stay Boolean.
LEMMA FlagsStep == Flags /\ [Next]_vars => Flags'
  <1> SUFFICES ASSUME Flags, [Next]_vars PROVE Flags'
    OBVIOUS
  <1> USE DEF Flags, entry, process
  <1>1. CASE UNCHANGED vars
    BY <1>1, Zenon DEF vars
  <1>2. CASE UpstreamEnds \/ PipesClose
    BY <1>2, Zenon DEF UpstreamEnds, PipesClose
  <1>3. CASE StdinEnds \/ RuntimeCuts \/ DeadlinePasses
    BY <1>3, Zenon DEF StdinEnds, RuntimeCuts, DeadlinePasses
  <1>4. CASE CancelRuns \/ Reap
    BY <1>4, Zenon DEF CancelRuns, Reap
  <1>5. CASE WaitReturns
    <2>1. NoVerdict \in BOOLEAN
      BY Zenon DEF NoVerdict
    <2>2. QED
      BY <1>5, <2>1, Zenon DEF WaitReturns
  <1>6. CASE Drain \/ Own \/ Emit
    <2>1. (stdin = "ended") \in BOOLEAN
      BY Zenon
    <2>2. QED
      BY <1>6, <2>1, Zenon DEF Drain, Own, Emit
  <1>7. CASE Tick
    BY <1>7, Zenon DEF Tick
  <1>8. QED
    BY <1>1, <1>2, <1>3, <1>4, <1>5, <1>6, <1>7, Zenon DEF Next, Hook

\* A step lets one tick pass or none, and starts the timer of a phase or keeps it.
LEMMA ClocksMove ==
  [Next]_vars => (clock' = clock \/ clock' = clock + 1) /\ (since' = since \/ since' = clock)
  BY Zenon
     DEF Next, vars, Hook, UpstreamEnds, PipesClose, StdinEnds, RuntimeCuts,
         DeadlinePasses, CancelRuns, Reap, WaitReturns, Drain, Own, Emit, Tick,
         Enter

\* A timer is never set in the future.
LEMMA ClocksStep == Clocks /\ [Next]_vars => Clocks'
  BY ClocksMove DEF Clocks

\* An exit code is 0, 1 or 2.
LEMMA ExitCodeType == ExitCode \in 0 .. 2 /\ 0 \in 0 .. 2
  BY DEF ExitCode

\* The other variables keep their types.
LEMMA ValuesStep == Values /\ [Next]_vars => Values'
  <1> SUFFICES ASSUME Values, [Next]_vars PROVE Values'
    OBVIOUS
  <1> USE DEF Values, entry, process, Enter
  <1>1. CASE UNCHANGED vars
    BY <1>1, Zenon DEF vars
  <1>2. CASE UpstreamEnds \/ PipesClose \/ StdinEnds
    BY <1>2, Zenon DEF UpstreamEnds, PipesClose, StdinEnds
  <1>3. CASE RuntimeCuts \/ DeadlinePasses
    BY <1>3, Zenon DEF RuntimeCuts, DeadlinePasses
  <1>4. CASE CancelRuns \/ Reap
    BY <1>4, Zenon DEF CancelRuns, Reap
  <1>5. CASE WaitReturns
    <2>1. up' \in 0 .. 2
      BY <1>5, ExitCodeType, Zenon DEF WaitReturns
    <2>2. QED
      BY <1>5, <2>1, Zenon DEF WaitReturns
  <1>6. CASE Drain \/ Emit
    BY <1>6, Zenon DEF Drain, Emit
  <1>7. CASE Own
    <2>1. Handled \subseteq Results
      BY ResultTypes, Zenon DEF Values, Handled, Fallback
    <2>2. QED
      BY <1>7, <2>1, Zenon DEF Own
  <1>8. CASE Tick
    BY <1>8, Zenon DEF Tick
  <1>9. QED
    BY <1>1, <1>2, <1>3, <1>4, <1>5, <1>6, <1>7, <1>8 DEF Next, Hook

\* What an entry was registered with never changes while its hook runs.
LEMMA EntryKept == [Next]_vars => UNCHANGED entry
  BY Zenon
     DEF Next, vars, Hook, UpstreamEnds, PipesClose, StdinEnds, RuntimeCuts,
         DeadlinePasses, CancelRuns, Reap, WaitReturns, Drain, Own, Emit, Tick

\* So the timeout stays one of those it may have.
LEMMA RegisteredStep == Registered /\ [Next]_vars => Registered'
  <1> SUFFICES ASSUME Registered, [Next]_vars PROVE Registered'
    OBVIOUS
  <1>1. timeout' = timeout /\ composed' = composed
    BY EntryKept, Zenon DEF entry
  <1>2. QED
    BY <1>1, Zenon DEF Registered, TimeoutFor

\* Every variable keeps its type, in every phase of one hook.
THEOREM TypeCorrect == Spec => []TypeOK
  <1>1. TypeOK /\ [Next]_vars => TypeOK'
    BY FlagsStep, RegisteredStep, ClocksStep, ValuesStep DEF TypeOK
  <1>2. QED
    BY InitTypes, <1>1, PTL DEF Spec

-----------------------------------------------------------------------------
(* NeverCut                                                                *)

\* When the upstream's lifetime ends, the wait for its pipes, the drain and
\* gatekeeper's own part are over at the latest.
WaitEnds == Budget + WaitDelay
DrainDone == WaitEnds + DrainWait
OwnDone == DrainDone + OwnDeadline

\* How late each phase of a composed hook can be.
OnTime ==
  /\ phase = "wait" =>
       /\ reaped => cancel # "armed"
       /\ cancel = "armed" => clock <= Budget
       /\ cancel # "armed" =>
            /\ ended # "running"
            /\ since <= Budget
            /\ clock <= since + WaitDelay
  /\ phase = "drain" => since <= WaitEnds /\ clock <= since + DrainWait
  /\ phase = "own" => since <= DrainDone /\ clock <= since + OwnDeadline
  /\ phase = "emit" => clock <= OwnDone
  /\ phase = "cut" => timeout <= OwnDone

TimedInv == composed => OnTime

\* The bounds are numbers, and so is a timeout.
LEMMA TimesAreNumbers ==
  /\ Budget \in Nat /\ WaitDelay \in Nat /\ DrainWait \in Nat /\ OwnDeadline \in Nat
  /\ WaitEnds \in Nat /\ DrainDone \in Nat /\ OwnDone \in Nat
  /\ Registered => timeout \in Nat
  <1>1. Registered => timeout \in Nat
    BY TimesAssumption DEF Registered, TimeoutFor
  <1>2. QED
    BY <1>1, TimesAssumption DEF WaitEnds, DrainDone, OwnDone

\* A composed hook that still has something to do is not past the last bound.
LEMMA OpenIsEarly ==
  ASSUME Clocks, Values, OnTime, phase \notin {"answered", "cut"}
  PROVE  clock <= OwnDone
  <1> USE TimesAreNumbers DEF Clocks, OnTime, WaitEnds, DrainDone, OwnDone
  <1>1. CASE phase = "wait"
    <2>1. CASE cancel = "armed"
      BY <1>1, <2>1
    <2>2. CASE cancel # "armed"
      BY <1>1, <2>2
    <2>3. QED
      BY <2>1, <2>2
  <1>2. CASE phase = "drain"
    BY <1>2
  <1>3. CASE phase = "own"
    BY <1>3
  <1>4. CASE phase = "emit"
    BY <1>4
  <1>5. QED
    BY <1>1, <1>2, <1>3, <1>4, Zenon DEF Values

\* No phase of a composed hook outlasts its timer: a timer that is due fires
\* before time goes on.
LEMMA OnTimeStep == TypeOK /\ TimedInv /\ [Next]_vars => TimedInv'
  <1> SUFFICES ASSUME TypeOK, TimedInv, [Next]_vars, composed PROVE OnTime'
    BY EntryKept, Zenon DEF TimedInv, entry
  <1>a. Clocks /\ Values /\ Registered /\ OnTime
    BY DEF TypeOK, TimedInv
  <1>1. CASE UNCHANGED vars
    BY <1>a, <1>1, Zenon DEF OnTime, vars, entry, process
  <1>2. CASE UpstreamEnds
    <2>1. CASE cancel = "armed"
      BY <1>a, <1>2, <2>1, Zenon DEF UpstreamEnds, OnTime, entry
    <2>2. CASE cancel # "armed"
      BY <1>a, <1>2, <2>2, Zenon DEF UpstreamEnds, OnTime, entry
    <2>3. QED
      BY <2>1, <2>2
  <1>3. CASE PipesClose \/ StdinEnds \/ DeadlinePasses
    <2>1. UNCHANGED <<phase, reaped, cancel, clock, ended, since, timeout>>
      BY <1>3, Zenon DEF PipesClose, StdinEnds, DeadlinePasses, entry, process
    <2>2. QED
      BY <1>a, <2>1, Zenon DEF OnTime
  <1>4. CASE RuntimeCuts
    <2>1. /\ clock >= timeout /\ clock' = clock /\ timeout' = timeout
          /\ phase \notin {"answered", "cut"} /\ phase' = "cut"
      BY <1>4, Zenon DEF RuntimeCuts, entry, Enter
    <2>2. timeout' <= OwnDone
      BY <1>a, <2>1, OpenIsEarly, TimesAreNumbers DEF Clocks
    <2>3. QED
      BY <2>1, <2>2, Zenon DEF OnTime
  <1>5. CASE CancelRuns
    <2>1. /\ phase = "wait" /\ phase' = "wait" /\ cancel = "armed" /\ cancel' = "sent"
          /\ since' = clock /\ clock' = clock /\ ended' # "running"
      BY <1>5, Zenon DEF CancelRuns
    <2>2. since' <= Budget /\ clock' <= since' + WaitDelay
      BY <1>a, <2>1, TimesAreNumbers DEF OnTime, Clocks
    <2>3. QED
      BY <2>1, <2>2, Zenon DEF OnTime
  <1>6. CASE Reap
    <2>1. /\ phase = "wait" /\ phase' = "wait" /\ clock' = clock
          /\ ended # "running" /\ ended' = ended
          /\ IF cancel = "armed" THEN cancel' = "off" /\ since' = clock
                                 ELSE cancel' = cancel /\ since' = since
      BY <1>6, Zenon DEF Reap
    <2>2. since' <= Budget /\ clock' <= since' + WaitDelay /\ cancel' # "armed"
      BY <1>a, <2>1, TimesAreNumbers DEF OnTime, Clocks
    <2>3. QED
      BY <2>1, <2>2, Zenon DEF OnTime
  <1>7. CASE WaitReturns
    <2>1. /\ phase = "wait" /\ phase' = "drain" /\ since' = clock /\ clock' = clock
          /\ cancel # "armed"
      BY <1>a, <1>7, Zenon DEF WaitReturns, Enter, OnTime
    <2>2. since' <= WaitEnds /\ clock' <= since' + DrainWait
      BY <1>a, <2>1, TimesAreNumbers DEF OnTime, Clocks, WaitEnds
    <2>3. QED
      BY <2>1, <2>2, Zenon DEF OnTime
  <1>8. CASE Drain
    <2>1. phase = "drain" /\ phase' = "own" /\ since' = clock /\ clock' = clock
      BY <1>8, Zenon DEF Drain, Enter
    <2>2. since' <= DrainDone /\ clock' <= since' + OwnDeadline
      BY <1>a, <2>1, TimesAreNumbers DEF OnTime, Clocks, DrainDone
    <2>3. QED
      BY <2>1, <2>2, Zenon DEF OnTime
  <1>9. CASE Own
    <2>1. phase = "own" /\ phase' = "emit" /\ clock' = clock
      BY <1>9, Zenon DEF Own, Enter
    <2>2. clock' <= OwnDone
      BY <1>a, <2>1, OpenIsEarly, Zenon
    <2>3. QED
      BY <2>1, <2>2, Zenon DEF OnTime
  <1>10. CASE Emit
    BY <1>10, Zenon DEF Emit, Enter, OnTime
  <1>11. CASE Tick
    <2>1. /\ phase \notin {"answered", "cut"} /\ phase' = phase /\ since' = since
          /\ cancel' = cancel /\ ended' = ended /\ reaped' = reaped
          /\ clock' = clock + 1 /\ ~Due
      BY <1>11, Zenon DEF Tick, process
    <2>2. CASE phase = "wait" /\ cancel = "armed"
      <3>1. ~(clock >= Budget)
        BY <1>a, <2>1, <2>2, Zenon DEF Due, OnTime
      <3>2. clock' <= Budget
        BY <1>a, <2>1, <3>1, TimesAreNumbers DEF Clocks
      <3>3. QED
        BY <1>a, <2>1, <2>2, <3>2, Zenon DEF OnTime
    <2>3. CASE phase = "wait" /\ cancel # "armed"
      <3>1. ~(clock >= since + WaitDelay)
        BY <1>a, <2>1, <2>3, Zenon DEF Due, OnTime
      <3>2. clock' <= since' + WaitDelay
        BY <1>a, <2>1, <3>1, TimesAreNumbers DEF Clocks
      <3>3. QED
        BY <1>a, <2>1, <2>3, <3>2, Zenon DEF OnTime
    <2>4. CASE phase = "drain"
      <3>1. ~(clock >= since + DrainWait)
        BY <2>1, <2>4, Zenon DEF Due, DrainEnds
      <3>2. clock' <= since' + DrainWait
        BY <1>a, <2>1, <3>1, TimesAreNumbers DEF Clocks
      <3>3. QED
        BY <1>a, <2>1, <2>4, <3>2, Zenon DEF OnTime
    <2>5. CASE phase = "own"
      <3>1. ~(clock >= since + OwnDeadline)
        BY <2>1, <2>5, Zenon DEF Due
      <3>2. clock' <= since' + OwnDeadline
        BY <1>a, <2>1, <3>1, TimesAreNumbers DEF Clocks
      <3>3. QED
        BY <1>a, <2>1, <2>5, <3>2, Zenon DEF OnTime
    <2>6. phase # "emit"
      BY <2>1, Zenon DEF Due
    <2>7. QED
      BY <1>a, <2>1, <2>2, <2>3, <2>4, <2>5, <2>6, Zenon DEF Values
  <1>12. QED
    BY <1>1, <1>2, <1>3, <1>4, <1>5, <1>6, <1>7, <1>8, <1>9, <1>10, <1>11
       DEF Next, Hook

\* If the allowance covers what gatekeeper may take after the upstream, the
\* runtime never cuts a composed hook off before its answer, whatever timeout
\* above that the entry has (composeAllowanceSeconds).
THEOREM NeverCutHolds ==
  ASSUME AllowanceCovers
  PROVE  Spec => []NeverCut
  <1>1. Init => TimedInv
    BY TimesAssumption DEF Init, TimedInv, OnTime
  <1>2. TypeOK /\ TimedInv => NeverCut
    <2> SUFFICES ASSUME TypeOK, TimedInv, composed, timeout >= TimeoutFor(TRUE),
                        phase = "cut"
                 PROVE  FALSE
      BY DEF NeverCut
    <2>1. timeout \in Nat
      BY TimesAssumption DEF TypeOK, Registered, TimeoutFor
    <2>2. QED
      BY <2>1, AllowanceCovers, TimesAssumption
         DEF TimedInv, OnTime, OwnDone, DrainDone, WaitEnds, TimeoutFor,
             AllowanceCovers
  <1>3. QED
    BY <1>1, <1>2, OnTimeStep, TypeCorrect, PTL DEF Spec

-----------------------------------------------------------------------------
(* AnswersAsPromised                                                       *)

\* What the end of the upstream means once it has been waited for.
Verdict ==
  /\ ended # "running"
  /\ ended = "exit 0" => up = 0 /\ (upErr => expired)
  /\ ended = "exit 2" => up = 2 /\ ~upErr
  /\ ended = "signal" => (upErr => expired) /\ (~upErr => up = 1)
  /\ ended = "kill" => upErr

\* What each phase has established of the answer.
AnswerInv ==
  /\ phase = "wait" => composed
  /\ reaped => ended # "running"
  /\ ended = "kill" => cancel = "sent"
  /\ cancel = "sent" => expired
  /\ raw => stdin = "ended"
  /\ composed /\ phase \in {"drain", "own"} => Verdict
  /\ phase = "emit" => result \in Promised!Allowed

\* The statement, the upstream's bytes and nothing are the same to both.
LEMMA SameAnswers ==
  /\ Promised!Rewritten = Rewritten /\ Promised!Nothing = Nothing
  /\ \A c \in 0 .. 2 : Promised!Upstream(c) = Upstream(c)
  BY DEF Promised!Rewritten, Promised!Nothing, Promised!Upstream, Rewritten,
         Nothing, Upstream

\* An answer of gatekeeper's own part is one the upstream's end allows.
LEMMA HandledIsAllowed ==
  ASSUME Values, AnswerInv, phase = "own"
  PROVE  Handled \subseteq Promised!Allowed
  <1> SUFFICES ASSUME NEW r \in Handled PROVE r \in Promised!Allowed
    OBVIOUS
  <1>1. CASE ~composed
    <2>1. r \in {Nothing, Rewritten}
      BY <1>1, Zenon DEF Handled, Fallback
    <2>2. QED
      BY <1>1, <2>1, SameAnswers, Zenon DEF Promised!Allowed, Promised!Alone
  <1>2. CASE composed
    <2>1. Verdict
      BY <1>2, Zenon DEF AnswerInv
    <2>2. \/ r = Fallback
          \/ r = Rewritten /\ raw /\ ~upErr /\ up = 0 /\ reply \in {"allow", "silent"}
      BY <1>2, Zenon DEF Handled, MayAdd
    <2>3. CASE ended = "exit 0"
      <3>1. Promised!Allowed = Promised!Success \cup Promised!Lost
        BY <1>2, <2>3, Zenon DEF Promised!Allowed
      <3>2. CASE r = Fallback /\ ~upErr
        <4>1. r = Promised!Upstream(0)
          BY <1>2, <2>1, <2>3, <3>2, SameAnswers, ExitCodeType, Zenon
             DEF Fallback, Verdict
        <4>2. QED
          BY <3>1, <4>1, Zenon DEF Promised!Success
      <3>3. CASE r = Fallback /\ upErr
        <4>1. r = Promised!Nothing /\ expired
          BY <2>1, <2>3, <3>3, SameAnswers, Zenon DEF Fallback, Verdict
        <4>2. QED
          BY <3>1, <4>1, Zenon DEF Promised!Lost
      <3>4. CASE r = Rewritten /\ raw /\ reply \in {"allow", "silent"}
        <4>1. stdin = "ended" /\ r = Promised!Rewritten
          BY <3>4, SameAnswers, Zenon DEF AnswerInv
        <4>2. QED
          BY <3>1, <3>4, <4>1, Zenon DEF Promised!Success
      <3>5. QED
        BY <2>2, <3>2, <3>3, <3>4, Zenon
    <2>4. CASE ended = "exit 2"
      <3>1. r = Upstream(2)
        <4>1. ~upErr /\ up = 2
          BY <2>1, <2>4, Zenon DEF Verdict
        <4>2. 2 # 0
          OBVIOUS
        <4>3. QED
          BY <1>2, <2>2, <4>1, <4>2, Zenon DEF Fallback
      <3>2. Upstream(2) = Promised!Upstream(2)
        BY SameAnswers
      <3>3. QED
        BY <1>2, <2>4, <3>1, <3>2 DEF Promised!Allowed
    <2>5. CASE ended = "signal"
      <3>1. Promised!Allowed = {Promised!Upstream(1)} \cup Promised!Lost
        BY <1>2, <2>5 DEF Promised!Allowed
      <3>2. r = Fallback
        <4>1. ~upErr => up = 1
          BY <2>1, <2>5, Zenon DEF Verdict
        <4>2. 1 # 0
          OBVIOUS
        <4>3. QED
          BY <2>2, <4>1, <4>2, Zenon
      <3>3. CASE upErr
        BY <2>1, <2>5, <3>1, <3>2, <3>3, SameAnswers, Zenon
           DEF Fallback, Verdict, Promised!Lost
      <3>4. CASE ~upErr
        <4>1. Upstream(1) = Promised!Upstream(1)
          BY SameAnswers
        <4>2. QED
          BY <1>2, <2>1, <2>5, <3>1, <3>2, <3>4, <4>1, Zenon DEF Fallback, Verdict
      <3>5. QED
        BY <3>3, <3>4
    <2>6. CASE ended = "kill"
      <3>1. r = Promised!Nothing
        BY <2>1, <2>2, <2>6, SameAnswers, Zenon DEF Verdict, Fallback
      <3>2. QED
        BY <1>2, <2>6, <3>1 DEF Promised!Allowed
    <2>7. QED
      BY <2>1, <2>3, <2>4, <2>5, <2>6, Zenon DEF Values, Verdict
  <1>3. QED
    BY <1>1, <1>2

\* What cmd.Wait has returned is what became of the upstream.
LEMMA WaitIsVerdict ==
  ASSUME Flags, Values, AnswerInv, WaitReturns
  PROVE  Verdict'
  <1>1. /\ ended # "running" /\ ended' = ended /\ expired' = expired
        /\ upErr' = NoVerdict /\ up' = (IF NoVerdict THEN 0 ELSE ExitCode)
    BY Zenon DEF WaitReturns, AnswerInv, process
  <1>2. ended = "exit 0" => up' = 0 /\ (NoVerdict => expired)
    BY <1>1, Zenon DEF ExitCode, NoVerdict, Killed, WaitError
  <1>3. ended = "exit 2" => ~NoVerdict /\ up' = 2
    BY <1>1, Zenon DEF ExitCode, NoVerdict, Killed, WaitError
  <1>4. ended = "signal" => (NoVerdict => expired) /\ (~NoVerdict => up' = 1)
    BY <1>1, Zenon DEF ExitCode, NoVerdict, Killed, WaitError
  <1>5. ended = "kill" => NoVerdict
    BY Zenon DEF NoVerdict, Killed, AnswerInv
  <1>6. QED
    BY <1>1, <1>2, <1>3, <1>4, <1>5, Zenon DEF Verdict

\* What a hook knows of its upstream stays true until it answers.
LEMMA AnswerStep == TypeOK /\ AnswerInv /\ [Next]_vars => AnswerInv'
  <1> SUFFICES ASSUME TypeOK, AnswerInv, [Next]_vars PROVE AnswerInv'
    OBVIOUS
  <1>a. Flags /\ Values
    BY DEF TypeOK
  <1>e. composed' = composed /\ reply' = reply
    BY EntryKept, Zenon DEF entry
  <1>1. CASE UNCHANGED vars
    <2>1. UNCHANGED <<phase, composed, reaped, ended, cancel, expired, raw, stdin,
                      result, reply, up, upErr>>
      BY <1>1, Zenon DEF vars, entry, process
    <2>2. QED
      BY <2>1, Zenon
         DEF AnswerInv, Verdict, Promised!Allowed, Promised!Lost, Promised!Success
  <1>2. CASE UpstreamEnds
    <2>1. /\ phase = "wait" /\ phase' = "wait" /\ ended' \in {"exit 0", "exit 2", "signal"}
          /\ UNCHANGED <<reaped, cancel, expired, raw, stdin>>
      BY <1>2, Zenon DEF UpstreamEnds
    <2>2. QED
      BY <1>e, <2>1, Zenon DEF AnswerInv
  <1>3. CASE PipesClose
    <2>1. UNCHANGED <<phase, composed, reaped, ended, cancel, expired, raw, stdin,
                      result, reply, up, upErr>>
      BY <1>3, Zenon DEF PipesClose, entry
    <2>2. QED
      BY <2>1, Zenon
         DEF AnswerInv, Verdict, Promised!Allowed, Promised!Lost, Promised!Success
  <1>4. CASE StdinEnds
    <2>1. /\ phase \in {"wait", "drain"} /\ phase' = phase /\ stdin = "open"
          /\ UNCHANGED <<reaped, ended, cancel, expired, raw, up, upErr>>
      BY <1>4, Zenon DEF StdinEnds, process
    <2>2. ~raw
      BY <2>1, Zenon DEF AnswerInv
    <2>3. QED
      BY <1>e, <2>1, <2>2, Zenon DEF AnswerInv, Verdict
  <1>5. CASE RuntimeCuts
    <2>1. phase' = "cut" /\ UNCHANGED <<reaped, ended, cancel, expired, raw, stdin>>
      BY <1>5, Zenon DEF RuntimeCuts, Enter, process
    <2>2. QED
      BY <2>1, Zenon DEF AnswerInv
  <1>6. CASE DeadlinePasses
    <2>1. /\ expired' = TRUE
          /\ UNCHANGED <<phase, reaped, ended, cancel, raw, stdin, result, up, upErr>>
      BY <1>6, Zenon DEF DeadlinePasses, process
    <2>2. Promised!Allowed \subseteq Promised!Allowed'
      BY <1>e, <2>1, Zenon
         DEF Promised!Allowed, Promised!Lost, Promised!Success, Promised!Alone
    <2>3. QED
      BY <1>e, <2>1, <2>2, Zenon DEF AnswerInv, Verdict
  <1>7. CASE CancelRuns
    <2>1. /\ phase = "wait" /\ phase' = "wait" /\ expired /\ cancel' = "sent" /\ ~reaped
          /\ UNCHANGED <<reaped, expired, raw, stdin>>
      BY <1>7, Zenon DEF CancelRuns
    <2>2. QED
      BY <1>e, <2>1, Zenon DEF AnswerInv
  <1>8. CASE Reap
    <2>1. /\ phase = "wait" /\ phase' = "wait" /\ ended # "running"
          /\ IF cancel = "armed" THEN cancel' = "off" ELSE cancel' = cancel
          /\ UNCHANGED <<ended, expired, raw, stdin>>
      BY <1>8, Zenon DEF Reap
    <2>2. QED
      BY <1>e, <2>1, Zenon DEF AnswerInv
  <1>9. CASE WaitReturns
    <2>1. Verdict'
      BY <1>a, <1>9, WaitIsVerdict
    <2>2. phase' = "drain" /\ UNCHANGED <<reaped, ended, cancel, expired, raw, stdin>>
      BY <1>9, Zenon DEF WaitReturns, Enter, process
    <2>3. QED
      BY <2>1, <2>2, Zenon DEF AnswerInv
  <1>10. CASE Drain
    <2>1. /\ phase = "drain" /\ phase' = "own" /\ raw' = (stdin = "ended")
          /\ UNCHANGED <<reaped, ended, cancel, expired, stdin, up, upErr>>
      BY <1>10, Zenon DEF Drain, Enter, process
    <2>2. QED
      BY <1>e, <2>1, Zenon DEF AnswerInv, Verdict
  <1>11. CASE Own
    <2>1. /\ phase = "own" /\ phase' = "emit" /\ result' \in Handled
          /\ UNCHANGED <<reaped, ended, cancel, expired, stdin, raw>>
      BY <1>11, Zenon DEF Own, Enter, process
    <2>2. result' \in Promised!Allowed
      BY <1>a, <2>1, HandledIsAllowed
    <2>3. Promised!Allowed' = Promised!Allowed
      BY <1>e, <2>1, Zenon
         DEF Promised!Allowed, Promised!Lost, Promised!Success, Promised!Alone
    <2>4. QED
      BY <2>1, <2>2, <2>3, Zenon DEF AnswerInv
  <1>12. CASE Emit
    <2>1. phase' = "answered" /\ UNCHANGED <<reaped, ended, cancel, expired, stdin, raw>>
      BY <1>12, Zenon DEF Emit, Enter, process
    <2>2. QED
      BY <2>1, Zenon DEF AnswerInv
  <1>13. CASE Tick
    <2>1. UNCHANGED <<phase, composed, reaped, ended, cancel, expired, raw, stdin,
                      result, reply, up, upErr>>
      BY <1>13, Zenon DEF Tick, entry, process
    <2>2. QED
      BY <2>1, Zenon
         DEF AnswerInv, Verdict, Promised!Allowed, Promised!Lost, Promised!Success
  <1>14. QED
    BY <1>1, <1>2, <1>3, <1>4, <1>5, <1>6, <1>7, <1>8, <1>9, <1>10, <1>11,
       <1>12, <1>13 DEF Next, Hook

\* No answer is none of the answers.
LEMMA NotAnAnswer == \A r \in Results : r # Unanswered
  BY DEF Results, Unanswered, Upstream, Rewritten, Nothing

\* Every step of the hook, the upstream and the runtime is a step of the
\* abstract hook or shows nothing.
LEMMA StepIsPromised ==
  TypeOK /\ AnswerInv /\ [Next]_vars => [Promised!Next]_Promised!vars
  <1> SUFFICES ASSUME TypeOK, AnswerInv, [Next]_vars
               PROVE  Promised!Next \/ UNCHANGED Promised!vars
    OBVIOUS
  <1> DEFINE A == IF phase = "answered" THEN result ELSE Unanswered
             C == phase = "cut"
             Room == reply \in {"allow", "silent"}
             Whole == stdin = "ended"
  <1>e. composed' = composed /\ Room' = Room
    BY EntryKept, Zenon DEF entry
  <1>s. ASSUME phase' = phase, result' = result, ended' = ended,
               expired' = expired, stdin' = stdin
        PROVE  UNCHANGED Promised!vars
    BY <1>e, <1>s, Zenon DEF Promised!vars
  <1>o. phase \notin {"answered", "cut"} <=> Promised!Open
    <2>1. result # Unanswered
      BY NotAnAnswer, Zenon DEF TypeOK, Values
    <2>2. QED
      BY <2>1, Zenon DEF Promised!Open
  <1>1. CASE UNCHANGED vars
    BY <1>1, <1>s, Zenon DEF vars, process
  <1>2. CASE UpstreamEnds
    <2>1. /\ phase = "wait" /\ ended = "running" /\ phase' = phase
          /\ ended' \in {"exit 0", "exit 2", "signal"}
          /\ expired' = expired /\ stdin' = stdin /\ result' = result
      BY <1>2, Zenon DEF UpstreamEnds
    <2>2. composed /\ Promised!Open
      BY <1>o, <2>1, Zenon DEF AnswerInv
    <2>3. Promised!End
      BY <1>e, <2>1, <2>2, Zenon DEF Promised!End
    <2>4. QED
      BY <2>3, Zenon DEF Promised!Next
  <1>3. CASE PipesClose \/ Reap \/ Tick
    BY <1>3, <1>s, Zenon DEF PipesClose, Reap, Tick, process
  <1>4. CASE StdinEnds
    <2>1. /\ composed /\ phase \in {"wait", "drain"} /\ phase' = phase
          /\ stdin = "open" /\ stdin' \in {"ended", "failed"}
          /\ ended' = ended /\ expired' = expired /\ result' = result
      BY <1>4, Zenon DEF StdinEnds, process
    <2>2. CASE stdin' = "ended"
      <3>1. Promised!PayloadRead
        BY <1>e, <1>o, <2>1, <2>2, Zenon DEF Promised!PayloadRead
      <3>2. QED
        BY <3>1, Zenon DEF Promised!Next
    <2>3. CASE stdin' = "failed"
      BY <1>e, <2>1, <2>3, Zenon DEF Promised!vars
    <2>4. QED
      BY <2>1, <2>2, <2>3, Zenon
  <1>5. CASE RuntimeCuts
    <2>1. /\ phase \notin {"answered", "cut"} /\ phase' = "cut"
          /\ stdin' = stdin /\ ended' = ended /\ expired' = expired
      BY <1>5, Zenon DEF RuntimeCuts, Enter, process
    <2>2. Promised!Cut
      BY <1>e, <1>o, <2>1, Zenon DEF Promised!Cut
    <2>3. QED
      BY <2>2, Zenon DEF Promised!Next
  <1>6. CASE DeadlinePasses
    <2>1. Promised!Deadline
      BY <1>e, <1>6, Zenon DEF DeadlinePasses, process, Promised!Deadline
    <2>2. QED
      BY <2>1, Zenon DEF Promised!Next
  <1>7. CASE CancelRuns
    <2>1. /\ phase = "wait" /\ expired /\ phase' = phase /\ result' = result
          /\ ended' = (IF ended = "running" THEN "kill" ELSE ended)
          /\ stdin' = stdin /\ expired' = expired
      BY <1>7, Zenon DEF CancelRuns
    <2>2. CASE ended = "running"
      <3>1. Promised!End
        BY <1>e, <1>o, <2>1, <2>2, Zenon DEF Promised!End, AnswerInv
      <3>2. QED
        BY <3>1, Zenon DEF Promised!Next
    <2>3. CASE ended # "running"
      BY <1>s, <2>1, <2>3, Zenon
    <2>4. QED
      BY <2>2, <2>3
  <1>8. CASE WaitReturns \/ Drain \/ Own
    <2>1. /\ phase \notin {"answered", "cut"} /\ phase' \notin {"answered", "cut"}
          /\ ended' = ended /\ expired' = expired /\ stdin' = stdin
      BY <1>8, Zenon DEF WaitReturns, Drain, Own, Enter, process
    <2>2. A' = A /\ C' = C
      BY <2>1, Zenon
    <2>3. QED
      BY <1>e, <2>1, <2>2, Zenon DEF Promised!vars
  <1>9. CASE Emit
    <2>1. /\ phase = "emit" /\ phase' = "answered" /\ result' = result
          /\ stdin' = stdin /\ ended' = ended /\ expired' = expired
      BY <1>9, Zenon DEF Emit, Enter, process
    <2>2. result \in Promised!Allowed
      BY <2>1, Zenon DEF AnswerInv
    <2>3. Promised!Answer
      BY <1>e, <1>o, <2>1, <2>2, Zenon DEF Promised!Answer
    <2>4. QED
      BY <2>3, Zenon DEF Promised!Next
  <1>10. QED
    BY <1>1, <1>2, <1>3, <1>4, <1>5, <1>6, <1>7, <1>8, <1>9 DEF Next, Hook

\* A runtime may forget the hook's processes, pipes and timers: whatever they
\* do, the hook gives the one answer its upstream's end allows (upstreamOutcome,
\* composedPreToolUse, runBounded).
THEOREM AnswersAsPromisedHolds == Spec => AnswersAsPromised
  <1>1. Init => Promised!Init
    <2> SUFFICES ASSUME Init PROVE Promised!Init
      OBVIOUS
    <2>1. phase \notin {"answered", "cut"} /\ stdin # "ended"
      BY Zenon DEF Init
    <2>2. (reply \in {"allow", "silent"}) \in BOOLEAN
      OBVIOUS
    <2>3. QED
      BY <2>1, <2>2, Zenon DEF Init, Promised!Init
  <1>2. Init => AnswerInv
    BY Zenon DEF Init, AnswerInv
  <1>3. QED
    BY <1>1, <1>2, TypeCorrect, AnswerStep, StepIsPromised, PTL
       DEF Spec, AnswersAsPromised, Promised!Spec
=============================================================================
