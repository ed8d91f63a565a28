------------------------ MODULE AgentDirector_proofs ------------------------
(***************************************************************************)
(* Theorems about the resilience manager for every number of concurrent    *)
(* runs, every threshold, retry budget and recovery time, with and without *)
(* a fallback provider: one inductive invariant of AgentResilience carries *)
(* the circuits and the health registry, run by run what is left of the    *)
(* retry budget, and the call that will decide a half-open circuit.        *)
(*                                                                         *)
(* And about AgentDirector for every number of coroutines and of requests. *)
(* A turn takes no step with the manager that the manager alone would not  *)
(* take, so everything shown of the manager holds under the director; what *)
(* the director adds is a matter of which coroutine waits for what.        *)
(***************************************************************************)
EXTENDS AgentDirector, SequenceTheorems, TLAPS

-----------------------------------------------------------------------------
(* The manager on its own *)


\* What BreakerConsistent says of one circuit.
Sound(b) ==
  /\ b.state = "closed" <=> b.failures < FailureThreshold
  /\ b.state = "closed" => b.rested = 0
  /\ b.state = "half_open" => b.rested = RecoveryAfter

\* What HealthTracksBreaker says of one health entry and its circuit.
Tracks(h, b) ==
  /\ h.circuit = "closed" <=> b.state = "closed"
  /\ h.status = "unavailable" <=> b.state # "closed"
  /\ h.status = "healthy" => b.failures = 0

\* A sleeping run has a retry left, so waking up never makes the budget negative.
SleepersMayRetry == \A r \in Run : At(r, "sleeping") => run[r].retries > 0

\* AttemptsBounded without the product.
Spent(c) ==
  /\ c.provider = "primary" => c.calls + c.retries <= MaxRetries + 1
  /\ c.calls + c.retries <= MaxRetries + MaxRetries + 2

CircuitInv ==
  /\ TypeOK
  /\ \A p \in Provider : Sound(breaker[p]) /\ Tracks(health[p], breaker[p])
  /\ SleepersMayRetry
  /\ \A r \in Run : Spent(run[r])

ResilienceInv == CircuitInv /\ ProbeOutstanding

-----------------------------------------------------------------------------
LEMMA ProviderFacts ==
  /\ "primary" \in Configured /\ Configured \subseteq Provider
  /\ \A p \in Provider : Later(p) \subseteq Configured /\ "primary" \notin Later(p)
  /\ Later("fallback") = {}
  /\ \A S \in SUBSET Provider : S # {} => Preferred(S) \in S
BY DEF Configured, Later, Provider, Preferred

\* A failure leaves a sound circuit closed or open, never half open, and its
\* health entry tracks it.
LEMMA FailedSound ==
  ASSUME NEW b \in BreakerType, Sound(b)
  PROVE  /\ Failed(b) \in BreakerType /\ Sound(Failed(b))
         /\ Failed(b).state # "half_open"
         /\ HealthOf(Failed(b)) \in HealthType
         /\ Tracks(HealthOf(Failed(b)), Failed(b))
<1>1. /\ CountOne(b) \in 0..FailureThreshold /\ CountOne(b) # 0
      /\ b.failures < FailureThreshold => CountOne(b) = b.failures + 1
      /\ ~(b.failures < FailureThreshold) => CountOne(b) = FailureThreshold
  BY ResilienceAssumption DEF CountOne, BreakerType
<1>2. CASE b.state = "half_open" \/ CountOne(b) = FailureThreshold
  <2>1. Failed(b) = [state |-> "open", failures |-> CountOne(b), rested |-> 0]
    BY <1>2 DEF Failed
  <2>2. CountOne(b) = FailureThreshold
    BY <1>1, <1>2, ResilienceAssumption DEF Sound, BreakerType
  <2>3. QED
    BY <2>1, <2>2, ResilienceAssumption DEF BreakerType, Sound, HealthOf, HealthType, Tracks
<1>3. CASE ~(b.state = "half_open" \/ CountOne(b) = FailureThreshold)
  <2>1. Failed(b) = [b EXCEPT !.failures = CountOne(b)]
    BY <1>3 DEF Failed
  <2>2. b.state = "closed" /\ b.rested = 0 /\ CountOne(b) < FailureThreshold
    BY <1>1, <1>3, ResilienceAssumption DEF Sound, BreakerType
  <2>3. /\ Failed(b).state = "closed" /\ Failed(b).failures = CountOne(b)
        /\ Failed(b).rested = 0
    BY <2>1, <2>2 DEF BreakerType
  <2>4. Failed(b) \in BreakerType
    BY <1>1, <2>1 DEF BreakerType
  <2>5. QED
    BY <1>1, <2>2, <2>3, <2>4 DEF BreakerType, Sound, HealthOf, HealthType, Tracks
<1>4. QED
  BY <1>2, <1>3

LEMMA ClosedSound ==
  /\ Closed \in BreakerType /\ Sound(Closed)
  /\ HealthOf(Closed) \in HealthType /\ Tracks(HealthOf(Closed), Closed)
BY ResilienceAssumption DEF Closed, BreakerType, Sound, HealthOf, HealthType, Tracks

\* Letting a request through keeps a circuit sound and its health entry in step.
LEMMA AdmittedSound ==
  ASSUME NEW b \in BreakerType, Sound(b), Admits(b)
  PROVE  /\ Admitted(b) \in BreakerType /\ Sound(Admitted(b))
         /\ Admitted(b).failures = b.failures
         /\ Admitted(b).state = "closed" <=> b.state = "closed"
<1>1. CASE b.state = "open"
  <2>1. Admitted(b) = [b EXCEPT !.state = "half_open"]
    BY <1>1 DEF Admitted
  <2>2. b.rested = RecoveryAfter
    BY <1>1, ResilienceAssumption DEF Admits, BreakerType
  <2>3. /\ Admitted(b).state = "half_open" /\ Admitted(b).failures = b.failures
        /\ Admitted(b).rested = b.rested
    BY <2>1 DEF BreakerType
  <2>4. QED
    BY <1>1, <2>1, <2>2, <2>3 DEF BreakerType, Sound
<1>2. CASE b.state # "open"
  BY <1>2 DEF Admitted
<1>3. QED
  BY <1>1, <1>2

LEMMA IdleTyped ==
  /\ Idle \in RunType
  /\ Idle.phase = "idle" /\ Idle.provider = "none" /\ Idle.retries = 0 /\ Idle.calls = 0
BY ResilienceAssumption DEF Idle, RunType

\* The facts about a turn that the steps Start and Fail share.
LEMMA TurnSound ==
  ASSUME TypeOK, NEW r \in Run, NEW S \in SUBSET Configured, NEW n \in Nat,
         NEW B \in [Provider -> BreakerType], \A p \in Provider : Sound(B[p]),
         TurnTo(r, S, B, n)
  PROVE  /\ breaker' \in [Provider -> BreakerType]
         /\ \A p \in Provider :
              /\ Sound(breaker'[p])
              /\ breaker'[p].failures = B[p].failures
              /\ breaker'[p].state = "closed" <=> B[p].state = "closed"
              /\ breaker'[p].state = "half_open" =>
                   B[p].state = "half_open" \/ Calling(r, p)'
         /\ run' = [run EXCEPT ![r] = run'[r]] /\ run'[r] \in RunType
         /\ \/ run'[r].phase = "idle" /\ run'[r].calls = 0 /\ run'[r].retries = 0
               /\ run'[r].provider = "none"
            \/ run'[r].phase = "calling" /\ run'[r].calls = n + 1
               /\ run'[r].provider \in S
<1> DEFINE open == {p \in S : Admits(B[p])}
           p    == Preferred(open)
<1>1. run \in [Run -> RunType]
  BY DEF TypeOK
<1>2. CASE open = {}
  <2> DEFINE c == [Idle EXCEPT !.answer = "deterministic"]
  <2>1. breaker' = B /\ run' = [run EXCEPT ![r] = c]
    BY <1>2 DEF TurnTo
  <2>2. /\ c \in RunType
        /\ c.phase = "idle" /\ c.calls = 0 /\ c.retries = 0 /\ c.provider = "none"
    <3>1. c \in RunType
      BY IdleTyped DEF RunType
    <3>2. c.phase = "idle" /\ c.calls = 0 /\ c.retries = 0 /\ c.provider = "none"
      BY IdleTyped DEF RunType
    <3>3. QED
      BY <3>1, <3>2
  <2> HIDE DEF c
  <2>3. QED
    BY <1>1, <2>1, <2>2
<1>3. CASE open # {}
  <2> DEFINE c == [Idle EXCEPT !.phase = "calling", !.provider = p,
                               !.retries = RetryBudget, !.calls = n + 1]
  <2>1. breaker' = [B EXCEPT ![p] = Admitted(B[p])] /\ run' = [run EXCEPT ![r] = c]
    BY <1>3 DEF TurnTo
  <2>2. p \in open /\ p \in S /\ p \in Provider /\ Admits(B[p])
    <3>1. open \in SUBSET Provider
      BY ProviderFacts
    <3>2. p \in open
      BY <1>3, <3>1, ProviderFacts
    <3>3. QED
      BY <3>1, <3>2
  <2>3. /\ c \in RunType /\ c.phase = "calling" /\ c.calls = n + 1 /\ c.provider = p
    <3>1. RetryBudget \in 0..MaxRetries
      BY ResilienceAssumption DEF RetryBudget
    <3> HIDE DEF p
    <3>2. c \in RunType
      <4> DEFINE d == [Idle EXCEPT !.phase = "calling", !.provider = p]
                 e == [d EXCEPT !.retries = RetryBudget]
      <4>1. d \in RunType
        BY <2>2, IdleTyped DEF RunType
      <4>2. c = [e EXCEPT !.calls = n + 1]
        OBVIOUS
      <4> HIDE DEF d, c
      <4>3. e \in RunType
        BY <3>1, <4>1 DEF RunType
      <4> HIDE DEF e
      <4>4. QED
        BY <4>2, <4>3 DEF RunType
    <3>3. c.phase = "calling" /\ c.calls = n + 1 /\ c.provider = p
      BY IdleTyped DEF RunType, c
    <3>4. QED
      BY <3>2, <3>3
  <2> HIDE DEF c, p, open
  <2>4. /\ Admitted(B[p]) \in BreakerType /\ Sound(Admitted(B[p]))
        /\ Admitted(B[p]).failures = B[p].failures
        /\ Admitted(B[p]).state = "closed" <=> B[p].state = "closed"
    BY <2>2, AdmittedSound
  <2>5. run'[r] = c
    BY <1>1, <2>1
  <2>6. breaker'[p] = Admitted(B[p]) /\ \A q \in Provider \ {p} : breaker'[q] = B[q]
    BY <2>1, <2>2
  <2>7. breaker' \in [Provider -> BreakerType]
    BY <2>1, <2>4
  <2>8. Calling(r, p)'
    BY <2>3, <2>5 DEF Calling, At
  <2>9. QED
    BY <2>1, <2>2, <2>3, <2>4, <2>5, <2>6, <2>7, <2>8
<1>4. QED
  BY <1>2, <1>3

-----------------------------------------------------------------------------
LEMMA CircuitInit == Init => CircuitInv
<1> SUFFICES ASSUME Init PROVE CircuitInv
  OBVIOUS
<1>1. TypeOK
  BY ClosedSound, IdleTyped DEF Init, TypeOK, HealthType, Mode
<1>2. \A p \in Provider : Sound(breaker[p]) /\ Tracks(health[p], breaker[p])
  BY ClosedSound DEF Init, Tracks, Closed
<1>3. SleepersMayRetry
  BY IdleTyped DEF Init, SleepersMayRetry, At
<1>4. \A r \in Run : Spent(run[r])
  BY IdleTyped, ResilienceAssumption DEF Init, Spent
<1>5. QED
  BY <1>1, <1>2, <1>3, <1>4 DEF CircuitInv

\* What a turn of a run means for the invariant, once the health entries track B.
LEMMA TurnKeeps ==
  ASSUME CircuitInv, NEW r \in Run, NEW S \in SUBSET Configured, NEW n \in Nat,
         NEW B \in [Provider -> BreakerType], TurnTo(r, S, B, n), mode' = mode,
         health' \in [Provider -> HealthType],
         \A p \in Provider : Sound(B[p]) /\ Tracks(health'[p], B[p]),
         n <= MaxRetries + MaxRetries + 2,
         "primary" \in S => n = 0,
         S # {} => n <= MaxRetries + 1
  PROVE  CircuitInv'
<1>t. TypeOK
  BY DEF CircuitInv
<1>b. \A p \in Provider : Sound(B[p])
  OBVIOUS
<1>1. /\ breaker' \in [Provider -> BreakerType]
      /\ \A p \in Provider :
           /\ Sound(breaker'[p])
           /\ breaker'[p].failures = B[p].failures
           /\ breaker'[p].state = "closed" <=> B[p].state = "closed"
      /\ run' = [run EXCEPT ![r] = run'[r]] /\ run'[r] \in RunType
      /\ \/ run'[r].phase = "idle" /\ run'[r].calls = 0 /\ run'[r].retries = 0
            /\ run'[r].provider = "none"
         \/ run'[r].phase = "calling" /\ run'[r].calls = n + 1
            /\ run'[r].provider \in S
  BY <1>t, <1>b, TurnSound
<1>2. \A q \in Run \ {r} : run'[q] = run[q]
  BY <1>t, <1>1 DEF TypeOK
<1>3. TypeOK'
  BY <1>t, <1>1, <1>2 DEF TypeOK
<1>4. \A p \in Provider : Sound(breaker'[p]) /\ Tracks(health'[p], breaker'[p])
  BY <1>1 DEF Tracks
<1>5. SleepersMayRetry'
  BY <1>1, <1>2 DEF CircuitInv, SleepersMayRetry, At
<1>6. Spent(run'[r])
  BY <1>1, ResilienceAssumption DEF Spent, RunType
<1>7. QED
  BY <1>2, <1>3, <1>4, <1>5, <1>6 DEF CircuitInv, Sound, Tracks, Spent

LEMMA CircuitStep == CircuitInv /\ [Next]_vars => CircuitInv'
<1> SUFFICES ASSUME CircuitInv, [Next]_vars PROVE CircuitInv'
  OBVIOUS
<1>t. TypeOK /\ breaker \in [Provider -> BreakerType] /\ run \in [Run -> RunType]
      /\ health \in [Provider -> HealthType]
  BY DEF CircuitInv, TypeOK
<1>s. \A p \in Provider : Sound(breaker[p]) /\ Tracks(health[p], breaker[p])
  BY DEF CircuitInv
<1>c. \A r \in Run : At(r, "calling") => run[r].provider \in Provider
  BY <1>t, ProviderFacts DEF TypeOK, At
<1>1. ASSUME NEW r \in Run, Start(r) PROVE CircuitInv'
  <2> DEFINE S == IF mode = "deterministic" THEN {} ELSE Configured
  <2>1. S \in SUBSET Configured /\ TurnTo(r, S, breaker, 0) /\ mode' = mode
        /\ health' = health
    BY <1>1 DEF Start
  <2> HIDE DEF S
  <2>2. QED
    BY <1>t, <1>s, <2>1, TurnKeeps, ResilienceAssumption
<1>2. ASSUME NEW r \in Run, Succeed(r) PROVE CircuitInv'
  <2> DEFINE p == run[r].provider
             c == [Idle EXCEPT !.answer = p]
  <2>1. /\ At(r, "calling") /\ mode' = mode
        /\ breaker' = [breaker EXCEPT ![p] = Closed]
        /\ health' = [health EXCEPT ![p] = HealthOf(Closed)]
        /\ run' = [run EXCEPT ![r] = c]
    BY <1>2 DEF Succeed, Succeeded
  <2>2. p \in Provider /\ run[r].calls \in Nat
    BY <1>t, <1>c, <2>1 DEF RunType
  <2>3. /\ c \in RunType
        /\ c.phase = "idle" /\ c.calls = 0 /\ c.retries = 0 /\ c.provider = "none"
    BY <2>2, IdleTyped DEF RunType
  <2>4. Spent(c)
    BY <1>t, <2>3, ResilienceAssumption DEF CircuitInv, Spent, RunType
  <2> HIDE DEF c, p
  <2>5. TypeOK'
    BY <1>t, <2>1, <2>2, <2>3, ClosedSound DEF TypeOK
  <2>6. \A q \in Provider : Sound(breaker'[q]) /\ Tracks(health'[q], breaker'[q])
    BY <1>t, <1>s, <2>1, <2>2, ClosedSound
  <2>7. SleepersMayRetry' /\ \A q \in Run : Spent(run'[q])
    BY <1>t, <2>1, <2>3, <2>4 DEF CircuitInv, SleepersMayRetry, At
  <2>8. QED
    BY <2>5, <2>6, <2>7 DEF CircuitInv, Sound, Tracks, Spent
<1>3. ASSUME NEW r \in Run, NEW cause \in Cause, Fail(r, cause) PROVE CircuitInv'
  <2> DEFINE p == run[r].provider
             b == Failed(breaker[p])
             B == [breaker EXCEPT ![p] = b]
  <2>1. /\ At(r, "calling") /\ mode' = mode
        /\ health' = [health EXCEPT ![p] = HealthOf(b)]
        /\ IF Retries(r, cause, b)
           THEN breaker' = B /\ run' = [run EXCEPT ![r].phase = "sleeping"]
           ELSE TurnTo(r, Later(p), B, run[r].calls)
    BY <1>3 DEF Fail
  <2>2. /\ p \in Provider /\ run[r].calls \in Nat /\ run[r].retries \in Nat
        /\ breaker[p] \in BreakerType
    BY <1>t, <1>c, <2>1, ResilienceAssumption DEF RunType
  <2>3. /\ b \in BreakerType /\ Sound(b)
        /\ HealthOf(b) \in HealthType /\ Tracks(HealthOf(b), b)
    BY <1>s, <2>2, FailedSound
  <2> HIDE DEF b
  <2>4. B \in [Provider -> BreakerType] /\ health' \in [Provider -> HealthType]
    BY <1>t, <2>1, <2>2, <2>3
  <2>5. \A q \in Provider : Sound(B[q]) /\ Tracks(health'[q], B[q])
    BY <1>t, <1>s, <2>1, <2>2, <2>3
  <2>6. Spent(run[r])
    BY DEF CircuitInv
  <2> HIDE DEF B, p
  <2>7. CASE Retries(r, cause, b)
    <3>1. breaker' = B /\ run' = [run EXCEPT ![r].phase = "sleeping"] /\ run[r].retries > 0
      BY <2>1, <2>7 DEF Retries
    <3>2. /\ run'[r] \in RunType /\ run'[r].phase = "sleeping"
          /\ run'[r].provider = run[r].provider /\ run'[r].calls = run[r].calls
          /\ run'[r].retries = run[r].retries
      BY <1>t, <3>1 DEF RunType
    <3>3. \A q \in Run \ {r} : run'[q] = run[q]
      BY <1>t, <3>1
    <3>4. run[r].provider \in Configured
      BY <1>t, <2>1 DEF TypeOK, At
    <3>5. TypeOK'
      BY <1>t, <2>1, <2>4, <3>1, <3>2, <3>3, <3>4 DEF TypeOK
    <3>6. SleepersMayRetry' /\ \A q \in Run : Spent(run'[q])
      BY <2>6, <3>1, <3>2, <3>3 DEF CircuitInv, SleepersMayRetry, At, Spent
    <3>7. QED
      BY <2>5, <3>1, <3>5, <3>6 DEF CircuitInv, Sound, Tracks, Spent
  <2>8. CASE ~Retries(r, cause, b)
    <3>1. TurnTo(r, Later(p), B, run[r].calls)
      BY <2>1, <2>8
    <3>2. Later(p) \in SUBSET Configured /\ "primary" \notin Later(p)
      BY <2>2, ProviderFacts
    <3>3. Later(p) # {} => p = "primary"
      BY <2>2 DEF Later
    <3>4. /\ run[r].calls <= MaxRetries + MaxRetries + 2
          /\ Later(p) # {} => run[r].calls <= MaxRetries + 1
      BY <2>2, <2>6, <3>3, ResilienceAssumption DEF Spent, p
    <3>5. QED
      BY <2>1, <2>2, <2>4, <2>5, <3>1, <3>2, <3>4, TurnKeeps
  <2>9. QED
    BY <2>7, <2>8
<1>4. ASSUME NEW r \in Run, WakeUp(r) PROVE CircuitInv'
  <2>1. /\ At(r, "sleeping") /\ breaker' = breaker /\ health' = health /\ mode' = mode
        /\ run' = [run EXCEPT ![r].phase = "calling", ![r].retries = @ - 1, ![r].calls = @ + 1]
    BY <1>4 DEF WakeUp
  <2>2. run[r].retries > 0 /\ run[r].retries \in 0..MaxRetries /\ run[r].calls \in Nat
    BY <1>t, <2>1 DEF CircuitInv, SleepersMayRetry, RunType
  <2>3. /\ run'[r] \in RunType /\ run'[r].phase = "calling"
        /\ run'[r].provider = run[r].provider /\ run'[r].calls = run[r].calls + 1
        /\ run'[r].retries = run[r].retries - 1
    BY <1>t, <2>1, <2>2, ResilienceAssumption DEF RunType
  <2>4. \A q \in Run \ {r} : run'[q] = run[q]
    BY <1>t, <2>1
  <2>5. run[r].provider \in Configured
    BY <1>t, <2>1 DEF TypeOK, At
  <2>6. TypeOK'
    BY <1>t, <2>1, <2>3, <2>4, <2>5 DEF TypeOK
  <2>7. Spent(run'[r])
    BY <2>2, <2>3, ResilienceAssumption DEF CircuitInv, Spent
  <2>8. SleepersMayRetry' /\ \A q \in Run : Spent(run'[q])
    BY <2>3, <2>4, <2>7 DEF CircuitInv, SleepersMayRetry, At
  <2>9. QED
    BY <1>s, <2>1, <2>6, <2>8 DEF CircuitInv, Sound, Tracks, Spent
<1>5. CASE Tick
  <2>1. breaker' = [p \in Provider |-> Rest(breaker[p])]
        /\ health' = health /\ run' = run /\ mode' = mode
    BY <1>5 DEF Tick
  <2>2. ASSUME NEW p \in Provider
        PROVE  /\ Rest(breaker[p]) \in BreakerType /\ Sound(Rest(breaker[p]))
               /\ Tracks(health[p], Rest(breaker[p]))
    <3>1. breaker[p] \in BreakerType /\ Sound(breaker[p]) /\ Tracks(health[p], breaker[p])
      BY <1>t, <1>s
    <3>2. CASE breaker[p].state # "closed" /\ breaker[p].rested < RecoveryAfter
      <4>1. Rest(breaker[p]) = [breaker[p] EXCEPT !.rested = breaker[p].rested + 1]
        BY <3>2 DEF Rest
      <4>2. /\ Rest(breaker[p]).state = breaker[p].state
            /\ Rest(breaker[p]).failures = breaker[p].failures
            /\ Rest(breaker[p]) \in BreakerType
        BY <3>1, <3>2, <4>1, ResilienceAssumption DEF BreakerType
      <4>3. breaker[p].state # "half_open"
        BY <3>1, <3>2, ResilienceAssumption DEF Sound
      <4>4. QED
        BY <3>1, <3>2, <4>2, <4>3 DEF Sound, Tracks
    <3>3. CASE ~(breaker[p].state # "closed" /\ breaker[p].rested < RecoveryAfter)
      BY <3>1, <3>3 DEF Rest
    <3>4. QED
      BY <3>2, <3>3
  <2>3. TypeOK'
    BY <1>t, <2>1, <2>2 DEF TypeOK
  <2>4. SleepersMayRetry' /\ \A q \in Run : Spent(run'[q])
    BY <2>1 DEF CircuitInv, SleepersMayRetry, At
  <2>5. QED
    BY <2>1, <2>2, <2>3, <2>4 DEF CircuitInv, Sound, Tracks, Spent
<1>6. CASE SetMode
  BY <1>6 DEF SetMode, CircuitInv, TypeOK, Mode, SleepersMayRetry, At, Sound, Tracks, Spent
<1>7. CASE UNCHANGED vars
  BY <1>7 DEF vars, CircuitInv, TypeOK, SleepersMayRetry, At, Sound, Tracks, Spent
<1>8. QED
  BY <1>1, <1>2, <1>3, <1>4, <1>5, <1>6, <1>7 DEF Next

-----------------------------------------------------------------------------
\* A run that goes on calling elsewhere leaves the callers of p alone.
LEMMA OthersKeepCalling ==
  ASSUME NEW r \in Run, NEW p \in Provider, run' = [run EXCEPT ![r] = run'[r]],
         run \in [Run -> RunType], ~Calling(r, p), \E q \in Run : Calling(q, p)
  PROVE  (\E q \in Run : Calling(q, p))'
<1>1. PICK q \in Run : Calling(q, p)
  OBVIOUS
<1>2. q # r /\ run'[q] = run[q]
  BY <1>1
<1>3. Calling(q, p)'
  BY <1>1, <1>2 DEF Calling, At
<1>4. QED
  BY <1>3

LEMMA ProbeStep ==
  ASSUME ResilienceInv, [Next]_vars
  PROVE  ProbeOutstanding'
<1>t. TypeOK /\ breaker \in [Provider -> BreakerType] /\ run \in [Run -> RunType]
  BY DEF ResilienceInv, CircuitInv, TypeOK
<1>s. \A p \in Provider : Sound(breaker[p])
  BY DEF ResilienceInv, CircuitInv
<1>o. \A p \in Provider : breaker[p].state = "half_open" => \E q \in Run : Calling(q, p)
  BY DEF ResilienceInv, ProbeOutstanding
<1>c. \A r \in Run : At(r, "calling") => run[r].provider \in Provider
  BY <1>t, ProviderFacts DEF TypeOK, At
<1> SUFFICES ASSUME NEW p \in Provider, breaker'[p].state = "half_open"
             PROVE  (\E q \in Run : Calling(q, p))'
  BY DEF ProbeOutstanding
<1>1. ASSUME NEW r \in Run, Start(r) PROVE (\E q \in Run : Calling(q, p))'
  <2> DEFINE S == IF mode = "deterministic" THEN {} ELSE Configured
  <2>1. At(r, "idle") /\ S \in SUBSET Configured /\ TurnTo(r, S, breaker, 0)
    BY <1>1 DEF Start
  <2> HIDE DEF S
  <2>2. /\ breaker[p].state = "half_open" \/ Calling(r, p)'
        /\ run' = [run EXCEPT ![r] = run'[r]]
    BY <1>t, <1>s, <2>1, TurnSound
  <2>3. ~Calling(r, p)
    BY <2>1 DEF Calling, At
  <2>4. QED
    BY <1>t, <1>o, <2>2, <2>3, OthersKeepCalling
<1>2. ASSUME NEW r \in Run, Succeed(r) PROVE (\E q \in Run : Calling(q, p))'
  <2>1. /\ At(r, "calling") /\ breaker' = [breaker EXCEPT ![run[r].provider] = Closed]
        /\ run' = [run EXCEPT ![r] = run'[r]]
    <3> DEFINE c == [Idle EXCEPT !.answer = run[r].provider]
    <3>1. /\ At(r, "calling") /\ breaker' = [breaker EXCEPT ![run[r].provider] = Closed]
          /\ run' = [run EXCEPT ![r] = c]
      BY <1>2 DEF Succeed, Succeeded
    <3> HIDE DEF c
    <3>2. run'[r] = c
      BY <1>t, <3>1
    <3>3. QED
      BY <3>1, <3>2
  <2>2. p # run[r].provider /\ breaker'[p] = breaker[p]
    BY <1>t, <1>c, <2>1 DEF Closed
  <2>3. ~Calling(r, p)
    BY <2>2 DEF Calling
  <2>4. QED
    BY <1>t, <1>o, <2>1, <2>2, <2>3, OthersKeepCalling
<1>3. ASSUME NEW r \in Run, NEW cause \in Cause, Fail(r, cause)
      PROVE (\E q \in Run : Calling(q, p))'
  <2> DEFINE f == run[r].provider
             b == Failed(breaker[f])
             B == [breaker EXCEPT ![f] = b]
  <2>1. /\ At(r, "calling")
        /\ IF Retries(r, cause, b)
           THEN breaker' = B /\ run' = [run EXCEPT ![r].phase = "sleeping"]
           ELSE TurnTo(r, Later(f), B, run[r].calls)
    BY <1>3 DEF Fail
  <2>2. f \in Provider /\ breaker[f] \in BreakerType /\ run[r].calls \in Nat
    BY <1>t, <1>c, <2>1 DEF RunType
  <2>3. b \in BreakerType /\ Sound(b) /\ b.state # "half_open"
    BY <1>s, <2>2, FailedSound
  <2> HIDE DEF b
  <2>4. /\ B \in [Provider -> BreakerType] /\ \A q \in Provider : Sound(B[q])
        /\ B[p].state = "half_open" => p # f /\ B[p] = breaker[p]
    BY <1>t, <1>s, <2>2, <2>3
  <2> HIDE DEF B
  <2>5. /\ B[p].state = "half_open" \/ Calling(r, p)'
        /\ run' = [run EXCEPT ![r] = run'[r]]
    <3>1. CASE Retries(r, cause, b)
      <4>1. breaker' = B /\ run' = [run EXCEPT ![r].phase = "sleeping"]
        BY <2>1, <3>1
      <4>2. QED
        BY <1>t, <4>1
    <3>2. CASE ~Retries(r, cause, b)
      <4>1. TurnTo(r, Later(f), B, run[r].calls)
        BY <2>1, <3>2
      <4>2. Later(f) \in SUBSET Configured
        BY <2>2, ProviderFacts
      <4>3. QED
        BY <1>t, <2>2, <2>4, <4>1, <4>2, TurnSound
    <3>3. QED
      BY <3>1, <3>2
  <2>6. p # f => ~Calling(r, p)
    BY DEF Calling
  <2>7. QED
    BY <1>t, <1>o, <2>4, <2>5, <2>6, OthersKeepCalling
<1>4. ASSUME NEW r \in Run, WakeUp(r) PROVE (\E q \in Run : Calling(q, p))'
  <2>1. /\ At(r, "sleeping") /\ breaker' = breaker
        /\ run' = [run EXCEPT ![r].phase = "calling", ![r].retries = @ - 1, ![r].calls = @ + 1]
    BY <1>4 DEF WakeUp
  <2>2. run' = [run EXCEPT ![r] = run'[r]]
    BY <1>t, <2>1
  <2>3. ~Calling(r, p)
    BY <2>1 DEF Calling, At
  <2>4. QED
    BY <1>t, <1>o, <2>1, <2>2, <2>3, OthersKeepCalling
<1>5. CASE Tick
  <2>1. breaker'[p] = Rest(breaker[p]) /\ run' = run
    BY <1>5 DEF Tick
  <2>2. breaker[p] \in BreakerType
    BY <1>t
  <2>3. breaker[p].state = "half_open"
    BY <2>1, <2>2 DEF Rest, BreakerType
  <2>4. QED
    BY <1>o, <2>1, <2>3 DEF Calling, At
<1>6. CASE SetMode \/ UNCHANGED vars
  BY <1>6, <1>o DEF SetMode, vars, Calling, At
<1>7. QED
  BY <1>1, <1>2, <1>3, <1>4, <1>5, <1>6 DEF Next

\* The invariant is inductive: every circuit is sound and its health entry tracks
\* it, every run stays within its budget, every probe is in progress.
THEOREM ResilienceInvariant == Spec => []ResilienceInv
<1>1. Init => ResilienceInv
  BY CircuitInit DEF Init, ResilienceInv, ProbeOutstanding, Closed
<1>2. ResilienceInv /\ [Next]_vars => ResilienceInv'
  BY CircuitStep, ProbeStep DEF ResilienceInv
<1>3. QED
  BY <1>1, <1>2, PTL DEF Spec

\* The state of the manager keeps its shape: no retry budget below zero, no
\* half-open entry in the health registry, no call to an unconfigured provider.
THEOREM ResilienceTypeCorrect == Spec => []TypeOK
<1>1. ResilienceInv => TypeOK
  BY DEF ResilienceInv, CircuitInv
<1>2. QED
  BY <1>1, ResilienceInvariant, PTL

\* A circuit is closed exactly while its failures are below the threshold and
\* probes wait for the recovery time, however many runs share it.
THEOREM BreakersAlwaysConsistent == Spec => []BreakerConsistent
<1>1. ResilienceInv => BreakerConsistent
  BY DEF ResilienceInv, CircuitInv, BreakerConsistent, Sound
<1>2. QED
  BY <1>1, ResilienceInvariant, PTL

\* A half-open circuit always has the call in progress that will decide it.
THEOREM ProbesAlwaysOutstanding == Spec => []ProbeOutstanding
<1>1. ResilienceInv => ProbeOutstanding
  BY DEF ResilienceInv
<1>2. QED
  BY <1>1, ResilienceInvariant, PTL

\* The health registry agrees with the circuits.
THEOREM HealthAlwaysTracks == Spec => []HealthTracksBreaker
<1>1. ResilienceInv => HealthTracksBreaker
  BY DEF ResilienceInv, CircuitInv, HealthTracksBreaker, Tracks
<1>2. QED
  BY <1>1, ResilienceInvariant, PTL

\* No run calls a provider more often than its retry budget allows.
THEOREM AttemptsAlwaysBounded == Spec => []AttemptsBounded
<1>1. ResilienceInv => AttemptsBounded
  <2> SUFFICES ASSUME ResilienceInv, NEW r \in Run
               PROVE  run[r].calls + run[r].retries <=
                        (MaxRetries + 1) * (IF run[r].provider = "primary" THEN 1 ELSE 2)
    BY DEF AttemptsBounded
  <2>1. Spent(run[r])
    BY DEF ResilienceInv, CircuitInv
  <2>2. (MaxRetries + 1) * 1 = MaxRetries + 1 /\ (MaxRetries + 1) * 2 = MaxRetries + MaxRetries + 2
    BY ResilienceAssumption
  <2>3. CASE run[r].provider = "primary"
    BY <2>1, <2>2, <2>3 DEF Spent
  <2>4. CASE run[r].provider # "primary"
    BY <2>1, <2>2, <2>4 DEF Spent
  <2>5. QED
    BY <2>3, <2>4
<1>2. QED
  BY <1>1, ResilienceInvariant, PTL


-----------------------------------------------------------------------------
(* The manager under the director *)

\* Every step of the director is a step of its manager or leaves it alone.
LEMMA DirectorSteps == [DirectorNext]_directorVars => [Next]_vars
<1> SUFFICES ASSUME [DirectorNext]_directorVars PROVE [Next]_vars
  OBVIOUS
<1>1. ASSUME NEW r \in Run, Turn(r) PROVE [Next]_vars
  <2>1. CASE Start(r) \/ Succeed(r) \/ WakeUp(r)
    BY <2>1 DEF Next
  <2>2. CASE \E cause \in Cause : Fail(r, cause)
    BY <2>2 DEF Next
  <2>3. CASE UNCHANGED vars
    BY <2>3
  <2>4. QED
    BY <1>1, <2>1, <2>2, <2>3 DEF Turn, Ask, Answer, Retry, CallFails,
       SpecialistAnswers, DirectAnswers, DirectFails, vars
<1>2. ASSUME NEW r \in Run, Evidence(r) PROVE UNCHANGED vars
  BY <1>2 DEF Evidence, BeginWorkflow, GatherAnswers, AuditAnswers, vars
<1>3. CASE Reset
  BY <1>3 DEF Reset, vars
<1>4. CASE Passing
  BY <1>4 DEF Passing, Next
<1>5. CASE UNCHANGED directorVars
  BY <1>5 DEF directorVars, vars
<1>6. QED
  BY <1>1, <1>2, <1>3, <1>4, <1>5 DEF DirectorNext

\* The director uses its resilience manager as the manager is specified: whatever
\* turns, specialists and workflows do, they never drive a circuit, a health entry
\* or a run into a behaviour AgentResilience does not have.
THEOREM DirectorImplementsResilience == DirectorSpec => Spec
<1>1. DirectorInit => Init
  BY DEF DirectorInit
<1>2. QED
  BY <1>1, DirectorSteps, PTL DEF DirectorSpec, Spec

\* Hence the circuits, the health registry, the probes and the retry budgets stay
\* consistent under the director too.
THEOREM ManagerSoundUnderDirector ==
  DirectorSpec => [](/\ BreakerConsistent /\ ProbeOutstanding
                     /\ HealthTracksBreaker /\ AttemptsBounded)
<1>1. QED
  BY DirectorImplementsResilience, BreakersAlwaysConsistent, ProbesAlwaysOutstanding,
     HealthAlwaysTracks, AttemptsAlwaysBounded, PTL

-----------------------------------------------------------------------------
(* Who waits for what *)

\* What a turn to the providers of S leaves: a call, or the deterministic answer.
Begun(c)  == c.phase = "calling"
Refused(c) == c.phase = "idle" /\ c.answer = "deterministic"

LEMMA TurnOutcome ==
  ASSUME NEW r \in Run, NEW S, NEW B, NEW n, run \in [Run -> RunType], TurnTo(r, S, B, n)
  PROVE  /\ \A q \in Run \ {r} : run'[q] = run[q]
         /\ Begun(run'[r]) \/ Refused(run'[r])
<1> DEFINE open == {p \in S : Admits(B[p])}
           p    == Preferred(open)
<1>1. CASE open = {}
  <2> DEFINE c == [Idle EXCEPT !.answer = "deterministic"]
  <2>1. run' = [run EXCEPT ![r] = c]
    BY <1>1 DEF TurnTo
  <2>2. Refused(c)
    BY DEF Refused, Idle
  <2> HIDE DEF c
  <2>3. QED
    BY <2>1, <2>2
<1>2. CASE open # {}
  <2> DEFINE c == [Idle EXCEPT !.phase = "calling", !.provider = p,
                               !.retries = RetryBudget, !.calls = n + 1]
  <2>1. run' = [run EXCEPT ![r] = c]
    BY <1>2 DEF TurnTo
  <2>2. Begun(c)
    BY DEF Begun, Idle
  <2> HIDE DEF c
  <2>3. QED
    BY <2>1, <2>2
<1>3. QED
  BY <1>1, <1>2

LEMMA StartOutcome ==
  ASSUME TypeOK, NEW r \in Run, Start(r)
  PROVE  /\ \A q \in Run \ {r} : run'[q] = run[q]
         /\ Begun(run'[r]) \/ Refused(run'[r])
BY TurnOutcome DEF Start, TypeOK

LEMMA SucceedOutcome ==
  ASSUME TypeOK, NEW r \in Run, Succeed(r)
  PROVE  /\ \A q \in Run \ {r} : run'[q] = run[q]
         /\ run'[r].phase = "idle" /\ run'[r].answer \in Provider
<1> DEFINE p == run[r].provider
           c == [Idle EXCEPT !.answer = p]
<1>1. run' = [run EXCEPT ![r] = c]
  BY DEF Succeed
<1>2. p \in Provider
  BY DEF Succeed, TypeOK, At, Configured, Provider
<1>3. c.phase = "idle" /\ c.answer = p
  BY DEF Idle
<1> HIDE DEF c, p
<1>4. QED
  BY <1>1, <1>2, <1>3 DEF TypeOK

LEMMA FailOutcome ==
  ASSUME TypeOK, NEW r \in Run, NEW cause \in Cause, Fail(r, cause)
  PROVE  /\ \A q \in Run \ {r} : run'[q] = run[q]
         /\ run'[r].phase # "idle" \/ Refused(run'[r])
<1> DEFINE p == run[r].provider
           b == Failed(breaker[p])
<1>1. CASE Retries(r, cause, b)
  <2>1. run' = [run EXCEPT ![r].phase = "sleeping"]
    BY <1>1 DEF Fail
  <2>2. run'[r].phase = "sleeping" /\ \A q \in Run \ {r} : run'[q] = run[q]
    BY <2>1 DEF TypeOK, RunType
  <2>3. QED
    BY <2>2
<1>2. CASE ~Retries(r, cause, b)
  <2>1. TurnTo(r, Later(p), [breaker EXCEPT ![p] = b], run[r].calls)
    BY <1>2 DEF Fail
  <2>2. QED
    BY <2>1, TurnOutcome DEF TypeOK, Begun
<1>3. QED
  BY <1>1, <1>2

-----------------------------------------------------------------------------
(* Tasks *)

LEMMA NoTaskTyped == NoTask \in TaskType /\ NoTask.phase = "none"
<1>1. <<>> \in Seq(Specialist)
  OBVIOUS
<1>2. QED
  BY <1>1 DEF NoTask, TaskType

LEMMA RequestsTyped ==
  ASSUME NEW requests \in Requests, NEW comparison \in BOOLEAN
  PROVE  Normalized(requests, comparison) \in Seq(Specialist)
<1>2. PICK n \in 0..MaxRequests : requests \in [1..n -> Specialist]
  BY DEF Requests
<1>3. requests \in Seq(Specialist)
  BY <1>2
<1>4. QED
  BY <1>3 DEF Normalized, Specialist

\* Where a turn goes on: to a specialist, to the second call, or to its end.
LEMMA ContinueOutcome ==
  ASSUME NEW r \in Run, NEW ask \in Seq(Specialist), NEW collected \in BOOLEAN,
         task \in [Run -> TaskType], Continue(r, ask, collected)
  PROVE  /\ task' \in [Run -> TaskType]
         /\ \A q \in Run \ {r} : task'[q] = task[q]
         /\ task'[r].phase \in {"none", "specialist", "direct"}
         /\ shown' \in {shown, run'[r].answer}
<1> DEFINE built == {i \in DOMAIN ask : Built(ask[i])}
<1>1. CASE built # {}
  <2>1. PICK next \in built :
          task' = [task EXCEPT ![r] = [NoTask EXCEPT !.phase = "specialist",
                                       !.ask = SubSeq(ask, next + 1, Len(ask))]]
          /\ shown' = shown
    BY <1>1 DEF Continue
  <2> DEFINE left == SubSeq(ask, next + 1, Len(ask))
             t    == [NoTask EXCEPT !.phase = "specialist", !.ask = left]
  <2>2. next \in 1..Len(ask)
    OBVIOUS
  <2>3. left \in Seq(Specialist)
    <3>1. \A i \in (next + 1)..Len(ask) : ask[i] \in Specialist
      BY <2>2
    <3>2. next + 1 \in Int /\ Len(ask) \in Int
      BY <2>2
    <3> HIDE DEF built
    <3>3. QED
      BY <3>1, <3>2, SubSeqProperties
  <2> HIDE DEF left
  <2>4. t \in TaskType /\ t.phase = "specialist"
    BY <2>3, NoTaskTyped DEF TaskType
  <2> HIDE DEF t
  <2>5. task' = [task EXCEPT ![r] = t] /\ shown' = shown
    BY <2>1 DEF t, left
  <2>6. QED
    BY <2>4, <2>5
<1>2. CASE built = {} /\ collected
  <2> DEFINE t == [NoTask EXCEPT !.phase = "direct"]
  <2>1. task' = [task EXCEPT ![r] = t] /\ shown' = shown
    BY <1>2 DEF Continue
  <2>2. t \in TaskType /\ t.phase = "direct"
    BY NoTaskTyped DEF TaskType
  <2> HIDE DEF t
  <2>3. QED
    BY <2>1, <2>2
<1>3. CASE built = {} /\ ~collected
  <2>1. task' = [task EXCEPT ![r] = NoTask] /\ shown' = run'[r].answer
    BY <1>3 DEF Continue, Finish
  <2>2. QED
    BY <2>1, NoTaskTyped
<1>4. QED
  BY <1>1, <1>2, <1>3

-----------------------------------------------------------------------------
(* Type correctness *)

\* DirectorTypeOK without the manager's part.
TasksOK ==
  /\ task \in [Run -> TaskType]
  /\ site \in [runs : BOOLEAN, drafts : SUBSET Run]
  /\ shown \in Provider \cup {"deterministic"}
  /\ \A r \in site.drafts : task[r].phase \in {"gather", "audit"}
  /\ \A r \in Run : Doing(r, "managed") <=> ~At(r, "idle")
  /\ \A r \in Run : task[r].phase \in {"specialist", "direct"} => run[r].answer \in Provider

LEMMA TasksInit == DirectorInit => TasksOK
<1> SUFFICES ASSUME DirectorInit PROVE TasksOK
  OBVIOUS
<1>1. task = [r \in Run |-> NoTask] /\ run = [r \in Run |-> Idle]
  BY DEF DirectorInit, Init
<1>2. \A r \in Run : task[r].phase = "none" /\ run[r].phase = "idle"
  BY <1>1, NoTaskTyped DEF Idle
<1>3. task \in [Run -> TaskType]
  BY <1>1, NoTaskTyped
<1>4. QED
  BY <1>2, <1>3 DEF TasksOK, DirectorInit, Doing, At, Provider

\* The steps of one coroutine r: what they owe is said of r alone.
LEMMA TasksKept ==
  ASSUME TypeOK, TasksOK, NEW r \in Run,
         task' \in [Run -> TaskType],
         \A q \in Run \ {r} : task'[q] = task[q] /\ run'[q] = run[q],
         site' \in [runs : BOOLEAN, drafts : SUBSET Run],
         site'.drafts \subseteq site.drafts \cup {r},
         r \in site'.drafts => task'[r].phase \in {"gather", "audit"},
         shown' \in Provider \cup {"deterministic"},
         task'[r].phase = "managed" <=> run'[r].phase # "idle",
         task'[r].phase \in {"specialist", "direct"} => run'[r].answer \in Provider
  PROVE  TasksOK'
BY DEF TasksOK, Doing, At

LEMMA TurnKeepsTasks ==
  ASSUME TypeOK, TasksOK, NEW r \in Run, Turn(r)
  PROVE  TasksOK'
<1>t. task \in [Run -> TaskType] /\ site \in [runs : BOOLEAN, drafts : SUBSET Run]
  BY DEF TasksOK
<1>1. CASE Ask(r)
  <2>1. /\ \A q \in Run \ {r} : run'[q] = run[q]
        /\ Begun(run'[r]) \/ Refused(run'[r])
        /\ site' = site /\ r \notin site.drafts
    BY <1>1, StartOutcome DEF Ask, TasksOK, Doing
  <2>2. CASE run'[r].phase = "idle"
    <3>1. task' = [task EXCEPT ![r] = NoTask] /\ shown' = "deterministic"
      BY <1>1, <2>1, <2>2 DEF Ask, Finish, Begun, Refused
    <3>2. QED
      BY <1>t, <2>1, <2>2, <3>1, NoTaskTyped, TasksKept
  <2>3. CASE run'[r].phase # "idle"
    <3> DEFINE t == [task[r] EXCEPT !.phase = "managed"]
    <3>1. task' = [task EXCEPT ![r] = t] /\ shown' = shown
      BY <1>1, <2>3, <1>t DEF Ask
    <3>2. t \in TaskType /\ t.phase = "managed"
      BY <1>t DEF TaskType
    <3> HIDE DEF t
    <3>3. QED
      BY <1>t, <2>1, <2>3, <3>1, <3>2, TasksKept DEF TasksOK
  <2>4. QED
    BY <2>2, <2>3
<1>2. CASE Answer(r)
  <2>1. /\ \A q \in Run \ {r} : run'[q] = run[q]
        /\ run'[r].phase = "idle" /\ run'[r].answer \in Provider
        /\ site' = site /\ r \notin site.drafts
    BY <1>2, SucceedOutcome DEF Answer, TasksOK, Doing
  <2>2. PICK requests \in Requests, comparison \in BOOLEAN :
          Continue(r, Normalized(requests, comparison), FALSE)
    BY <1>2 DEF Answer
  <2>3. Normalized(requests, comparison) \in Seq(Specialist)
    BY RequestsTyped
  <2>4. /\ task' \in [Run -> TaskType]
        /\ \A q \in Run \ {r} : task'[q] = task[q]
        /\ task'[r].phase \in {"none", "specialist", "direct"}
        /\ shown' \in {shown, run'[r].answer}
    BY <1>t, <2>2, <2>3, ContinueOutcome
  <2>5. QED
    BY <1>t, <2>1, <2>4, TasksKept DEF TasksOK
<1>3. CASE \E cause \in Cause : CallFails(r, cause)
  <2>1. PICK cause \in Cause : CallFails(r, cause)
    BY <1>3
  <2>2. /\ \A q \in Run \ {r} : run'[q] = run[q]
        /\ run'[r].phase # "idle" \/ Refused(run'[r])
        /\ site' = site /\ r \notin site.drafts /\ task[r].phase = "managed"
    BY <2>1, FailOutcome DEF CallFails, TasksOK, Doing
  <2>3. CASE run'[r].phase = "idle"
    <3>1. task' = [task EXCEPT ![r] = NoTask] /\ shown' = "deterministic"
      BY <2>1, <2>2, <2>3 DEF CallFails, Finish, Refused
    <3>2. QED
      BY <1>t, <2>2, <2>3, <3>1, NoTaskTyped, TasksKept
  <2>4. CASE run'[r].phase # "idle"
    BY <1>t, <2>1, <2>2, <2>4, TasksKept DEF CallFails, TasksOK
  <2>5. QED
    BY <2>3, <2>4
<1>4. CASE Retry(r)
  <2>1. task' = task /\ site' = site /\ shown' = shown /\ task[r].phase = "managed"
    BY <1>4 DEF Retry, Doing
  <2>2. run'[r].phase = "calling" /\ \A q \in Run \ {r} : run'[q] = run[q]
    BY <1>4 DEF Retry, WakeUp, TypeOK, RunType
  <2>3. QED
    BY <1>t, <2>1, <2>2, TasksKept DEF TasksOK
<1>5. CASE SpecialistAnswers(r)
  <2>1. /\ run' = run /\ site' = site /\ task[r].phase = "specialist"
        /\ Continue(r, task[r].ask, TRUE) /\ r \notin site.drafts
    BY <1>5 DEF SpecialistAnswers, Doing, vars, TasksOK
  <2>2. task[r].ask \in Seq(Specialist)
    BY <1>t DEF TaskType
  <2>3. /\ task' \in [Run -> TaskType]
        /\ \A q \in Run \ {r} : task'[q] = task[q]
        /\ task'[r].phase \in {"none", "specialist", "direct"}
        /\ shown' \in {shown, run'[r].answer}
    BY <1>t, <2>1, <2>2, ContinueOutcome
  <2>4. run[r].phase = "idle" /\ run[r].answer \in Provider
    BY <2>1 DEF TasksOK, Doing, At
  <2>5. QED
    BY <1>t, <2>1, <2>3, <2>4, TasksKept DEF TasksOK
<1>6. CASE DirectAnswers(r) \/ DirectFails(r)
  <2>1. /\ run' = run /\ site' = site /\ task[r].phase = "direct"
        /\ task' = [task EXCEPT ![r] = NoTask]
        /\ shown' \in {run[r].answer, "deterministic"}
    BY <1>6 DEF DirectAnswers, DirectFails, Doing, Finish, vars
  <2>2. run[r].phase = "idle" /\ run[r].answer \in Provider /\ r \notin site.drafts
    BY <2>1 DEF TasksOK, Doing, At
  <2>3. QED
    BY <1>t, <2>1, <2>2, NoTaskTyped, TasksKept
<1>7. QED
  BY <1>1, <1>2, <1>3, <1>4, <1>5, <1>6 DEF Turn

LEMMA EvidenceKeepsTasks ==
  ASSUME TypeOK, TasksOK, NEW r \in Run, Evidence(r)
  PROVE  TasksOK'
<1>t. task \in [Run -> TaskType] /\ site \in [runs : BOOLEAN, drafts : SUBSET Run]
  BY DEF TasksOK
<1>1. CASE \E flow \in Workflow : BeginWorkflow(r, flow)
  <2>1. PICK flow \in Workflow : BeginWorkflow(r, flow)
    BY <1>1
  <2> DEFINE t == [NoTask EXCEPT !.phase = "gather", !.open = Gathered(flow)]
  <2>2. /\ task' = [task EXCEPT ![r] = t] /\ run' = run /\ shown' = shown
        /\ site' = [site EXCEPT !.runs = TRUE, !.drafts = @ \cup {r}]
        /\ run[r].phase = "idle"
    BY <2>1 DEF BeginWorkflow, vars, At
  <2>3. t \in TaskType /\ t.phase = "gather"
    BY NoTaskTyped DEF TaskType, Gathered, Specialist
  <2> HIDE DEF t
  <2>4. QED
    BY <1>t, <2>2, <2>3, TasksKept DEF TasksOK
<1>2. CASE \E role \in Specialist : GatherAnswers(r, role)
  <2>1. PICK role \in Specialist : GatherAnswers(r, role)
    BY <1>2
  <2> DEFINE t == CASE task[r].open # {role} -> [task[r] EXCEPT !.open = @ \ {role}]
                    [] task[r].open = {role} /\ Auditable(r) -> [NoTask EXCEPT !.phase = "audit"]
                    [] OTHER -> NoTask
  <2>2. /\ task' = [task EXCEPT ![r] = t] /\ run' = run /\ shown' = shown
        /\ task[r].phase = "gather"
        /\ site' = IF task'[r].phase = "none" THEN Forgotten(r) ELSE site
    BY <2>1, <1>t DEF GatherAnswers, vars, Doing
  <2>3. t \in TaskType /\ t.phase \in {"gather", "audit", "none"}
    <3>1. [task[r] EXCEPT !.open = @ \ {role}] \in TaskType
          /\ [task[r] EXCEPT !.open = @ \ {role}].phase = "gather"
      BY <1>t, <2>2 DEF TaskType
    <3>2. [NoTask EXCEPT !.phase = "audit"] \in TaskType
          /\ [NoTask EXCEPT !.phase = "audit"].phase = "audit"
      BY NoTaskTyped DEF TaskType
    <3>3. QED
      BY <3>1, <3>2, NoTaskTyped
  <2> HIDE DEF t
  <2>4. run[r].phase = "idle"
    BY <2>2 DEF TasksOK, Doing, At
  <2>5. QED
    BY <1>t, <2>2, <2>3, <2>4, TasksKept DEF TasksOK, Forgotten
<1>3. CASE AuditAnswers(r)
  <2>1. /\ task' = [task EXCEPT ![r] = NoTask] /\ run' = run /\ shown' = shown
        /\ task[r].phase = "audit" /\ site' = Forgotten(r)
    BY <1>3 DEF AuditAnswers, vars, Doing
  <2>2. run[r].phase = "idle"
    BY <2>1 DEF TasksOK, Doing, At
  <2>3. QED
    BY <1>t, <2>1, <2>2, NoTaskTyped, TasksKept DEF TasksOK, Forgotten
<1>4. QED
  BY <1>1, <1>2, <1>3 DEF Evidence

LEMMA TasksStep ==
  ASSUME TypeOK, TasksOK, [DirectorNext]_directorVars
  PROVE  TasksOK'
<1>1. CASE \E r \in Run : Turn(r) \/ Evidence(r)
  BY <1>1, TurnKeepsTasks, EvidenceKeepsTasks
<1>2. CASE Reset
  BY <1>2 DEF Reset, TasksOK, vars, Doing, At
<1>3. CASE Passing
  BY <1>3 DEF Passing, Tick, SetMode, TasksOK, Doing, At
<1>4. CASE UNCHANGED directorVars
  BY <1>4 DEF directorVars, vars, TasksOK, Doing, At
<1>5. QED
  BY <1>1, <1>2, <1>3, <1>4 DEF DirectorNext

\* The type invariant of the composition: the manager works for a coroutine exactly
\* while its turn waits for the first call, and a turn reaches the specialists and the
\* second call only with a provider's answer in hand.
THEOREM DirectorTypeCorrect == DirectorSpec => []DirectorTypeOK
<1>1. DirectorInit => TasksOK
  BY TasksInit
<1>2. TypeOK /\ TasksOK /\ [DirectorNext]_directorVars => TasksOK'
  BY TasksStep
<1>3. DirectorSpec => []TypeOK
  BY DirectorImplementsResilience, ResilienceTypeCorrect, PTL
<1>4. TypeOK /\ TasksOK => DirectorTypeOK
  BY DEF TasksOK, DirectorTypeOK
<1>5. QED
  BY <1>1, <1>2, <1>3, <1>4, PTL DEF DirectorSpec
=============================================================================
