-------------------------- MODULE AgentResilience --------------------------
(***************************************************************************)
(* AgentResilienceManager of app/agents/resilience.py: the circuit         *)
(* breakers of the primary and the fallback model provider, and the agent  *)
(* runs that share one manager.  Runs are coroutines of one event loop and *)
(* interleave where they await: at the provider call, which asyncio        *)
(* bounds by a timeout, and at the sleep before a retry.  Between two      *)
(* awaits a run is one step: a failed call that is given up consults the   *)
(* next circuit and starts the next call, or answers, in the same step.    *)
(*                                                                         *)
(* Data: a circuit counts failures up to its threshold only, and measures  *)
(* the time since it opened up to recovery_after only, because the code    *)
(* compares with nothing larger.                                           *)
(***************************************************************************)
EXTENDS Naturals, FiniteSets

CONSTANTS
  Run,              \* agent runs in progress at the same time
  HasFallback,      \* a fallback provider is registered
  MaxRetries,       \* max_retries
  FailureThreshold, \* failure_threshold
  RecoveryAfter     \* recovery_after, in ticks

ASSUME ResilienceAssumption ==
  /\ HasFallback \in BOOLEAN
  /\ MaxRetries \in Nat /\ FailureThreshold \in Nat \ {0} /\ RecoveryAfter \in Nat

VARIABLES
  breaker,          \* provider -> its circuit
  health,           \* provider -> last entry of the DependencyHealthRegistry
  run,              \* run -> its progress and its last answer
  mode              \* PublicDemoProtection.budget_mode

vars == <<breaker, health, run, mode>>

-----------------------------------------------------------------------------
Provider == {"primary", "fallback"}
Mode     == {"normal", "conserve", "deterministic"}

Configured == IF HasFallback THEN Provider ELSE {"primary"}
\* The providers a run turns to once p has not answered.
Later(p)   == IF p = "primary" THEN Configured \ {"primary"} ELSE {}
Preferred(S) == IF "primary" \in S THEN "primary" ELSE "fallback"

\* What a call ends with when it does not end with a valid decision: output that
\* fails validation (TypeError or ValueError, pydantic's among them), or anything
\* else, the timeout and every exception of the provider SDK, normalized to a
\* transient error.
Cause == {"transient", "output"}

Closed == [state |-> "closed", failures |-> 0, rested |-> 0]
Idle   == [phase |-> "idle", provider |-> "none", retries |-> 0, calls |-> 0,
           answer |-> "none"]

At(r, phase)         == run[r].phase = phase
Calling(r, p)        == At(r, "calling") /\ run[r].provider = p
RetryBudgetPlusOne   == IF mode = "normal" THEN MaxRetries + 1 ELSE 0  \* mutant of RetryBudget
RetryBudget          == IF mode = "normal" THEN MaxRetries ELSE 0

-----------------------------------------------------------------------------
(* The circuit breaker *)

\* before_request: does the circuit b let a request through, and what becomes of it.
AdmitsClosed(b) == b.state = "closed"                         \* mutant of Admits
Admits(b)   == b.state # "open" \/ b.rested >= RecoveryAfter
Admitted(b) == IF b.state = "open" THEN [b EXCEPT !.state = "half_open"] ELSE b

CountOne(b) == IF b.failures < FailureThreshold THEN b.failures + 1 ELSE b.failures

\* failure: a failed probe opens the circuit again, whatever the count.
FailedByCount(b) ==                                           \* mutant of Failed
  IF b.failures + 1 = FailureThreshold
  THEN [state |-> "open", failures |-> CountOne(b), rested |-> 0]
  ELSE [b EXCEPT !.failures = CountOne(b)]
Failed(b) ==
  IF b.state = "half_open" \/ CountOne(b) = FailureThreshold
  THEN [state |-> "open", failures |-> CountOne(b), rested |-> 0]
  ELSE [b EXCEPT !.failures = CountOne(b)]

\* success: any success closes the circuit, a late one too.
SucceededInPlace(b) == [b EXCEPT !.failures = 0]              \* mutant of Succeeded
Succeeded(b) == Closed

\* The health entry recorded after each call.
HealthByCount(b) ==                                           \* mutant of HealthOf
  [status |-> IF b.failures = 0 THEN "healthy" ELSE "degraded", circuit |-> b.state]
HealthOf(b) ==
  [status  |-> IF b.state = "open" THEN "unavailable"
               ELSE IF b.failures = 0 THEN "healthy" ELSE "degraded",
   circuit |-> b.state]

-----------------------------------------------------------------------------
(* A run *)

\* Call the first provider of S whose circuit lets it through, or answer in
\* deterministic mode; B are the circuits at this moment, n the calls made so far.
TurnTo(r, S, B, n) ==
  LET open == {p \in S : Admits(B[p])}
      p    == Preferred(open)
  IN
  IF open = {}
  THEN /\ breaker' = B
       /\ run' = [run EXCEPT ![r] = [Idle EXCEPT !.answer = "deterministic"]]
  ELSE /\ breaker' = [B EXCEPT ![p] = Admitted(@)]
       /\ run' = [run EXCEPT ![r] = [Idle EXCEPT !.phase = "calling", !.provider = p,
                                                 !.retries = RetryBudget, !.calls = n + 1]]

\* run: agent work is allowed or not at this moment only.
Start(r) ==
  /\ At(r, "idle")
  /\ TurnTo(r, IF mode = "deterministic" THEN {} ELSE Configured, breaker, 0)
  /\ UNCHANGED <<health, mode>>

Succeed(r) ==
  LET p == run[r].provider IN
  /\ At(r, "calling")
  /\ breaker' = [breaker EXCEPT ![p] = Succeeded(@)]
  /\ health' = [health EXCEPT ![p] = HealthOf(Succeeded(breaker[p]))]
  /\ run' = [run EXCEPT ![r] = [Idle EXCEPT !.answer = p]]
  /\ UNCHANGED mode

\* A retry follows a transient failure, within the budget the run was given when
\* it turned to the provider, unless the failure leaves the circuit open.
Retries(r, cause, b) ==
  cause = "transient" /\ b.state # "open" /\ run[r].retries > 0

Fail(r, cause) ==
  LET p == run[r].provider
      b == Failed(breaker[p])
      B == [breaker EXCEPT ![p] = b]
  IN
  /\ At(r, "calling")
  /\ health' = [health EXCEPT ![p] = HealthOf(b)]
  /\ IF Retries(r, cause, b)
     THEN /\ breaker' = B
          /\ run' = [run EXCEPT ![r].phase = "sleeping"]
     ELSE TurnTo(r, Later(p), B, run[r].calls)
  /\ UNCHANGED mode

\* The sleep is over: the provider is called again, without consulting the circuit.
WakeUp(r) ==
  /\ At(r, "sleeping")
  /\ run' = [run EXCEPT ![r].phase = "calling", ![r].retries = @ - 1,
                        ![r].calls = @ + 1]
  /\ UNCHANGED <<breaker, health, mode>>

-----------------------------------------------------------------------------
(* The environment *)

\* Time passes for the circuits that have an opened_at.
Rest(b) == IF b.state # "closed" /\ b.rested < RecoveryAfter
           THEN [b EXCEPT !.rested = @ + 1] ELSE b
Tick ==
  /\ \E p \in Provider : Rest(breaker[p]) # breaker[p]
  /\ breaker' = [p \in Provider |-> Rest(breaker[p])]
  /\ UNCHANGED <<health, run, mode>>

\* Provider spend, a new day or the operator change the budget mode.
SetMode ==
  /\ mode' \in Mode \ {mode}
  /\ UNCHANGED <<breaker, health, run>>

-----------------------------------------------------------------------------
Init ==
  /\ breaker = [p \in Provider |-> Closed]
  /\ health = [p \in Provider |-> [status |-> "unknown", circuit |-> "closed"]]
  /\ run = [r \in Run |-> Idle]
  /\ mode = "normal"

Next ==
  \/ \E r \in Run : Start(r) \/ Succeed(r) \/ WakeUp(r)
  \/ \E r \in Run, cause \in Cause : Fail(r, cause)
  \/ Tick
  \/ SetMode

Spec == Init /\ [][Next]_vars

-----------------------------------------------------------------------------
BreakerType == [state : {"closed", "open", "half_open"}, failures : 0..FailureThreshold,
                rested : 0..RecoveryAfter]
HealthType  == [status : {"unknown", "healthy", "degraded", "unavailable"},
                circuit : {"closed", "open"}]
RunType     == [phase : {"idle", "calling", "sleeping"}, provider : Provider \cup {"none"},
                retries : 0..MaxRetries, calls : Nat,
                answer : Provider \cup {"deterministic", "none"}]

\* The type invariant; the health registry never shows a half-open circuit, and a
\* run waits only at a configured provider.
TypeOK ==
  /\ breaker \in [Provider -> BreakerType]
  /\ health \in [Provider -> HealthType]
  /\ run \in [Run -> RunType]
  /\ \A r \in Run : run[r].phase # "idle" => run[r].provider \in Configured
  /\ mode \in Mode

\* The circuit is closed exactly while the failures since the last success are
\* below the threshold, however the calls of concurrent runs end, and a probe is
\* let through only after the recovery time: a late failure of a run that was
\* admitted before the circuit opened restarts that time.
BreakerConsistent ==
  \A p \in Provider :
    /\ breaker[p].state = "closed" <=> breaker[p].failures < FailureThreshold
    /\ breaker[p].state = "closed" => breaker[p].rested = 0
    /\ breaker[p].state = "half_open" => breaker[p].rested = RecoveryAfter

\* A half-open circuit has a call in progress that will decide it: no circuit is
\* left half open by a run that went away.
ProbeOutstanding ==
  \A p \in Provider : breaker[p].state = "half_open" => \E r \in Run : Calling(r, p)

\* What the health registry last recorded is what the circuit does: closed when
\* the circuit is closed, open as long as it is open or probed, and healthy only
\* when the last call succeeded.
HealthTracksBreaker ==
  \A p \in Provider :
    /\ health[p].circuit = "closed" <=> breaker[p].state = "closed"
    /\ health[p].status = "unavailable" <=> breaker[p].state # "closed"
    /\ health[p].status = "healthy" => breaker[p].failures = 0

\* A run never calls one provider more than once plus the retries, and what it has
\* left is counted against the same bound: attempt_count stays within the budget
\* whatever the budget mode and the circuits do meanwhile.
AttemptsBounded ==
  \A r \in Run :
    LET budget == (MaxRetries + 1) * (IF run[r].provider = "primary" THEN 1 ELSE 2)
    IN  run[r].calls + run[r].retries <= budget

PrimaryFails(r) == \E cause \in Cause : Calling(r, "primary") /\ Fail(r, cause)
=============================================================================
