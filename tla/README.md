# A TLA+ model of CrickOps AI

CrickOps AI lets the organizer of an amateur cricket tournament enter teams, dates
and venues, generates schedule options with a constraint solver, publishes one of
them as the official schedule, and repairs it when a slot is lost to rain. This
directory holds TLA+ modules of the API (`src/apps/api/app`), the TLC
configurations that check them, and proofs that TLAPS checks.

Paths below are relative to `src/apps/api/app` unless they begin with `src/`.

1. [The system](#1-the-system): parts, state, operations, what is hard
2. [The modules](#2-the-modules): what is modelled and how it corresponds to the code
3. [The runs](#3-the-runs): what each shows, bounds, fairness
4. [The proofs](#4-the-proofs)
5. [Where code and documents disagree](#5-where-code-and-documents-disagree)
6. [Abstractions](#6-abstractions)
7. [Not modelled](#7-not-modelled)

## 1. The system

One uvicorn process serves every guest. Three kinds of thing run at the same time:

* **coroutine handlers** (`start_schedule_run`, `start_repair`, the director turn) on the
  event loop. They interleave only where they `await`. The
  CP-SAT solver is called *inside* a coroutine without an await, so while it runs no
  other coroutine and no new request moves;
* **synchronous handlers** (`def`, not `async def`: save setup, patch, confirm, approve,
  reject, restore, cancel, disruption, reset, delete, weather refresh, demo scenario) on worker threads. They interleave
  with each other and with the solver without any lock on the workspace;
* the **retention worker**, another process on the same database.

A middleware (`main.py` 157-180) surrounds each request: it restores the workspace and
its audit log, calls the handler, and persists the workspace.

### Components

| Component | State it keeps | Operations | Talks to |
|---|---|---|---|
| Schedule lifecycle (`api/schedules.py`, `api/routes.py`) | the `GuestWorkspace`: tournament and its revision, confirmed constraints, drafts and their revisions, rejected drafts, repair diffs, runs, official versions, disruptions, recorded answers by Idempotency-Key | save, patch, confirm, reset; generate, cancel; approve, reject, restore; declare a disruption, repair | solver, precheck, validator, diff (calls); demo protection (jobs); resilience manager (await) |
| Workspace store (`api/workspace.py`, `main.py`, `deployment/runtime.py`) | row and snapshot in Postgres, one cached object per cookie, process-wide audit log | get, create, persist, delete; retention mark and delete; restart | lifecycle (hands it the object it changes), database |
| Agent resilience (`agents/resilience.py`, `observability/dependency_health.py`) | one circuit breaker per provider, health entries | run with retries, fallback, deterministic answer | providers (await with timeout), demo protection (budget mode) |
| Demo protection (`limits/public_demo.py`) | sliding windows per action, workspace and address; active and queued jobs; daily provider spend; emergency switch | consume, acquire, release, enqueue, dequeue, record cost, reset budget | lifecycle, resilience, weather |
| Director and specialists (`agents/runtime.py`, `specialist_runtime.py`, `workflow_orchestrator.py`, `api/director.py`) | the mode last shown, shared by all workspaces | director turn, specialist workflows after a generation or a repair | resilience, model provider |
| Solver, profiles, repair (`scheduling/model.py`, `profiles.py`, `repair.py`, `repair_objectives.py`) | none | solve a profile; lexicographic repair passes | CP-SAT |
| Precheck, validator, diff, match graph (`scheduling/`, `validation/`) | none | pure functions | called by the lifecycle |
| Weather (`weather/`) | the weather of a workspace: risks by slot, quality, the revision and slots it is bound to; a snapshot with each run | refresh, activate a demo scenario, invalidate or rebind when the tournament changes, score risk | provider (call), lifecycle |
| Fairness (`fairness/`) | none | pure scoring | called by the lifecycle |
| Operations (`api/operations.py`) | audit log, readiness | list audit events by cursor | store |
| Approval service, workspace service, state tables (`approvals/`, `workspaces/`, `domain/states.py`) | in-memory histories | approve, restore, transitions | not wired into the API at this commit |
| Web client (`src/apps/web`) | query cache, keys it has generated | the requests above | API |

### What is hard here, and what correctness means

* **Lifecycle.** Identifiers point from versions to drafts, from runs to drafts, from diffs to
  versions; handlers follow them without a check, while a reset in the middle of a coroutine
  clears them. An approval must be of a draft that is current, a repair must extend the version it
  repairs, a retried request must be answered as the first time, an earlier official version must
  never change, every accepted request must end.
* **Store.** The object a handler changes and the object that is persisted are found by
  two separate lookups, each of which replaces the cache. An acknowledged approval must
  survive restarts, failed writes and retries; audit trail and history must agree though they
  are kept in two places; deletion must be final although the worker does not coordinate with requests.
* **Resilience.** Calls of concurrent runs end in any order on one shared circuit. A circuit
  must not stay half open, must close again by itself when the provider recovers, budgets must hold
  although the budget mode changes during a run, and every run must be answered.
* **Demo protection.** The clock is read outside the lock, so readings enter the windows out of order; the
  limits and the reset times stated in denials must hold all the same. The job counts of the workspaces and
  of the worker must agree whatever order jobs end in, and a lazily reset budget must be today's.
* **Director and specialists.** Coroutines of turns and workflows wait for calls, sleeps and each other's
  circuits; what they read before an await is gone after a reset. None may be held up, and the mode shown must come
  right when the provider does.
* **Rules and repair.** The rules are written three times: for the solver, for the independent validator, for the
  examination before the solver. The validator must accept what the solver returns, the examination must never refuse
  an instance that has a schedule, the three repair passes must really be lexicographic although each may end at its time
  limit, and the diff the organizer sees must be what the passes counted.
* **Weather and metrics.** Risks are computed by slot before the tournament changes under them. Weather shown must be about
  the tournament there is; the options of a run must be compared under one weather; a profile named weather-first
  must not be worse than another; missing readings must not make a match look safe; every metric must stay in its range.

`PROJECT.json` lists each hazard at the line where it bites, with the properties that would
catch it.

## 2. The modules

### ScheduleLifecycle

One `GuestWorkspace` in memory and every handler that changes its schedule state.

| Model | Code |
|---|---|
| `tournament` (revision, ready, slot generation, minimum rest) | `workspace.tournament` and the rest entered in `setup_draft` |
| `confirmed` | `confirmed_revision` of `workspace.constraints` |
| `drafts`, `rejected`, `diffs`, `runs`, `versions`, `disruptions` | the dictionaries and lists of `GuestWorkspace`; a draft's `revision` is `draft_revisions[draft_id]` |
| `idempotency` | `workspace.idempotency`, key `"<kind>:<header>"`, value the recorded answer |
| `flight` | the frames of the requests in progress: what a coroutine keeps in local variables across an await or the solver |
| `activeJobs` | `PublicDemoProtection._active_jobs[workspace_id]` |
| `issued` | identifiers are uuids and never reused; the model counts them |

`start_schedule_run` and `start_repair` are three steps each: the guards up to the solver
call (`BeginGeneration`, `BeginRepair`), the solver's result being validated and stored or
refused (`StoreGeneration`/`FailGeneration`, `StoreRepair`/`FailRepair`), and the
continuation after the specialists (`FinishGeneration`, `FinishRepair`). `Solving` is the
time inside the solver: then the actions of coroutines are disabled (`LoopFree`), those of
synchronous handlers are not. `approve_draft` and `restore_version` are two steps, because
worker threads may interleave between the append of the version and the recording of the key.
All other handlers are one step. `RefuseRepair` is the `reject_infeasible` path, which
leaves the job acquired.

`Overlap` is the one scenario constant. TRUE: requests of the guest overlap freely. FALSE: the
guest waits for each answer, as the web client does between its mutations. Some
properties hold only in the second case, and the sections of the module say which.

### OfficialHistory

The promise: a history that only grows, one version at a time, numbered without gaps, where a
restore republishes the draft of an earlier version, until a reset. `ScheduleLifecycle`
implements it (`ImplementsHistory`, by `INSTANCE ... WITH history <- versions`).

### WorkspaceStore

What surrounds each handler when Postgres is configured.

| Model | Code |
|---|---|
| `row`, `snapshot` | `guest_workspaces` (with `deleted_at`) and `workspace_snapshots` |
| `cache` | `_items[digest]`: *which* object is cached |
| `objects` | the objects built by the two `get` calls of a request: one by the middleware (`Restored`), one by `require_workspace` (`Own`) |
| `audit` | `operations.audit_events[workspace_id]` |
| `acked` | a ghost: versions whose answer left the server |

A request is `Restore` (middleware), `Attach` (dependency), a handler (`Generate`, `Approve`,
`Replay`, `ResetWorkspace`, `DeleteWorkspace`, `Read`), `Save` or `FailSave`, `Respond`. Around it,
`MarkDeleted` and `HardDelete` are the retention worker and `Restart` the end of the process.
The handlers are those of the lifecycle reduced to what durability can tell apart.

### AgentResilience

`AgentResilienceManager` and its `_CircuitBreaker`s, shared by concurrent runs. A run moves
between awaits: `Start`, `Succeed`, `Fail(cause)`, `WakeUp`; what a failure leads to in the same step
(retry sleep, the fallback's call, a deterministic answer) is in `Fail` through `TurnTo`. `Tick`
is time passing for open circuits, `SetMode` what demo protection does to the budget mode.

### AgentDirector

Who calls that manager: extends `AgentResilience` with the coroutines around its runs. A coroutine (`task`) is a director
turn or the workflow after a generation or a repair.

| Model | Code |
|---|---|
| `task[r].phase` | where the coroutine waits: `managed` (first call, under the manager), `specialist`, `direct` (second call), `gather`, `audit` |
| `task[r].ask`, `.open` | the specialists still to be asked in a turn; those of `asyncio.gather` that have not answered |
| `site` | what requests read of the workspace after an await: whether there are runs, and whose draft is still there |
| `shown` | `OperationsState.mode`, `provider`, `model`, one for all workspaces |

`Ask`, `Answer`, `CallFails`, `Retry` are the manager's steps with what `run_turn` does after them; `SpecialistAnswers`,
`DirectAnswers`, `DirectFails` the rest of a turn; `BeginWorkflow`, `GatherAnswers`, `AuditAnswers` a workflow; `Reset` the
handler that clears drafts in between. Each of the manager's steps is conjoined, so that `DirectorSpec` refines
`AgentResilience`'s `Spec` (proved). The specialists have a manager of their own: what `AgentWorkEnds` would say of it,
that a run is answered with or without output, is what this module assumes of a specialist.

### TournamentRules

No variables: the match graph (round robins, semifinals, final), the rules as the solver is given them (`SolverAllows`),
the validator (`Violations` of a document of fixtures), the examination before the solver (`PrecheckIssues`), and the
schedule diff. A match is the set of its participants, a placement a function from matches to slots, a
document a set of fixtures with venue, start and end.

### ScheduleMetrics

Also without variables: the metrics of `fairness/`, in tenths of a point; the penalties and weighted costs
the profiles' solver is given (`Penalties`, `ObjectiveCost`, in points); the expansion of weekly slot patterns.

### RepairPasses

A repair from the disruption to the answer: `Disrupt`, `Precheck`, three passes, `Validate`. Each pass has one action per
answer of CP-SAT: `SolvedOptimal`, `SolvedFeasible` (time limit, a solution), `SolvedUnknown` (time limit, none) and
`SolvedInfeasible`.

| Model | Code |
|---|---|
| `open` | the slots of `repaired_tournament`, a copy that is never saved |
| `totals` | the objective values `repair_schedule` fixes in the later passes |
| `late` | a ghost: passes that ended at the time limit |
| `repaired`, `answer` | the placements of the third pass; what `start_repair` answers |

### WeatherRisk

The score of a fixture from hourly readings (`weather/risk.py`) and the risk and coverage of a schedule
(`fairness/metrics.py`): readings in tenths of their units, `NoRisk` for one the provider does not know.

### WeatherEvidence

The weather of a workspace through setups, patches, confirmations, resets, demo activations, refreshes and generations.

| Model | Code |
|---|---|
| `slots` | `tournament.slots`; an identity carries the setup that created it, as the code gives every expansion fresh uuids |
| `weather.bound` | `tournament_revision` and `slot_digest` of `workspace.weather` |
| `weather.source` | ghost: which forecast or the demo gave the risks |
| `refresh`, `generation` | what `refresh_weather` and `start_schedule_run` have read when they call the provider and the solver |
| `run.options`, `run.snapshot` | options with their metrics; `weather_snapshot` |

`Promoted` is the replacement of the option under the name weather-first or fairness-first by a better one of
another profile. `Overlap` is as in the lifecycle.

### DemoProtection

`PublicDemoProtection`, which one lock guards. The lock makes every operation one step, except that
`consume` reads the clock before it takes the lock: `Consume` is the reading, then one of
`DenyBudget`, `DenyWorkspace`, `DenyAddress`, `Admit` decides.

| Model | Code |
|---|---|
| `call` | `now`, the local variable of a `consume` in progress, with its arguments |
| `events` | `_workspace_events` and `_ip_agent_events`; a window is named `<<action, workspace>>` or `<<"address", address>>` |
| `active`, `globalJobs`, `queued` | `_active_jobs`, `_global_active_jobs`, `_queued_jobs` (a missing key is 0) |
| `spend`, `budgetDay`, `emergency` | `_provider_spend`, `_budget_day`, `_emergency_deterministic` |
| `admitted`, `promised`, `spentToday` | ghosts: all admitted readings; the `reset_at` of the last denial; what was recorded since midnight |

Only an agent call rolls the budget day (`AgentRoll`), because only it asks for the mode. `Rolled` is the spend the next
reader will see.

### MC and proof modules

`MC*` extend a module with what its configurations need: a symmetry set where one is used (never with a liveness
property), the teams, slots and placements of `RepairPasses`, the skies of `WeatherEvidence`.
`*_proofs` hold the theorems, of the component of that name and of the one it extends: `AgentDirector_proofs` those about
`AgentResilience`, `ScheduleMetrics_proofs` those about `TournamentRules`. `WeatherRisk_proofs`
also has the facts about sums and finite sets that `ScheduleMetrics_proofs`, `RepairPasses_proofs` and `WeatherEvidence_proofs` extend it for.

## 3. The runs

| Run | States | Shows |
|---|---|---|
| `lifecycle_overlap` | 172 000 | Two overlapping requests: records resolve, repairs extend their baseline, cancelled runs stay cancelled; under fairness every accepted request is answered; the handlers implement `OfficialHistory` |
| `lifecycle_serial` | 2 680 000 | One request at a time over several setups, resets, generations and repairs: idempotent replay; what becomes official fits the confirmed setup |
| `store_serial` | 18 000 | With one request at a time, acknowledged approvals, audit trail and keys survive restarts, failed writes, retries, deletion, retention |
| `agent_director` | 372 000 | Two coroutines, turns and workflows in every order, over two providers: circuits, health and budgets stay consistent; only a second director call can hold a coroutine up; the service and the mode it shows recover |
| `demo_protection` | 675 000 | Limits and promised reset times hold although clock readings arrive out of order; job counts agree; the budget is today's |
| `scheduling` | 2 000 | Every repair after up to two closed slots, with every answer of the solver: validator, solver and precheck agree, proven optima are lexicographic minima, diff and counts agree, metrics and penalties are in range |
| `weather_evidence` | 216 000 | Weather follows the tournament; a run shows the weather it was made under; profiles deserve their names; no match is safer than a fully known hour around it, and one without a probability of rain has no risk |
| `lifecycle_stale_stamp`, `lifecycle_job_leak`, `store_lost_approval`, `repair_timeout`, `weather_snapshot` | violation | see section 5 |

**Bounds.** Counters that the program lets grow are capped in guards: `MaxRevision`, `MaxDraft`,
`MaxVersion`, `MaxRun`, `MaxSetup`, `MaxDisruption`, `MaxClosed` (slots one disruption closes) in
the lifecycle, `MaxVersion` in the store. They are chosen so that the interesting case still fits:

* two fixtures are the smallest chain with an order and a rest to break; three starts leave one
  spare, so that a repair can move a fixture. `lifecycle_overlap` is about interleavings and has one fixture and two
  starts, enough for a repair that moves it and, both starts closed, one that is refused;
* three versions allow approve, repair and restore, or approve, repair and a stale second repair; two drafts
  are one generated option and one repair of it;
* two requests suffice for every pairwise race; the handlers share no state that a third could
  make behave differently, and the safety properties that hold under overlap are also proved for any number;
* revision up to 3 in the serial run gives confirm, change, confirm again, which is what the staleness guards
  are about;
* for the circuits the failure threshold is 2 with two concurrent coroutines and one retry, so that a circuit opens
  within one run as well as between two, and late failures and successes meet an open and a half-open one; in production
  it is 3 with a recovery time of 60 s, and the safety theorems hold for all values. `MaxRequests` is one specialist per answer, two
  with the one `normalize_specialist_requests` adds.
* demo protection runs two threads and two workspaces behind one address over two windows and two days (`MaxTime`,
  `MaxSpend`): enough for two readings to arrive in the wrong order, be pruned and be denied. `"agent"` is the only action,
  since its path through `consume` contains that of the others. The windows, the jobs and the budget share nothing
  but the lock, the clock and the budget check of an agent call, so the state constraint `PartsApart` explores
  jobs apart from the windows, and costs and the emergency switch only before a call is admitted; the proofs need no
  such separation.
* a repair has two groups of three teams (nine matches): seven slots for the six group matches, two of them at the same
  time, two for the semifinals, three for the final; `MaxClosed` 2 slots, `MaxLate` 1 pass that
  reaches the time limit. The confirmed rest, 16 hours, is one the baselines keep and repairs may break. The `Placement`s are
  all that obey the rules, found match by match in `MCRepairPasses`.
* weather has two venues, three slots, two fixtures, two shapes of a setup and four forecasts chosen for their gaps (a
  provider that failed at one venue, readings that miss, a code without a severity, an hour outside the match that counts by the buffer);
  `MaxRevision` 3, `MaxSetups` 1, `MaxClosed` 1.

No guard of the environment is capped, so the bounds never stop a model: resets in the lifecycle, restarts in the
store and changes of the budget mode stay possible, and deadlock is checked in every run. Since that says
little about a single request, `RequestsAnswered` and `AgentWorkEnds` say that none is left waiting.

**Fairness.** `ScheduleLifecycle` assumes weak fairness for the solver's end (it has a time
limit) and for a worker thread's second step, and strong fairness for the continuation of a
coroutine: another request may enter the solver again and again and so block the loop
repeatedly, but asyncio resumes ready coroutines first in, first out. `AgentDirector` assumes weak
fairness for the end of a managed call (bounded by `asyncio.wait_for`), for the end of a sleep, for a specialist's answer (its own
manager bounds it), for a coroutine that is ready, and for time. The director's **second call has no fairness**: it is
awaited without a timeout, so `AgentWorkEnds` has its end as a premise. No fairness is assumed of the guest, of asking, of
`SetMode` or of the success of a call; `ServiceRecovers` states its premises instead: the primary and the second calls
stop failing, agent work stays allowed and keeps being asked for. The repair has a fixed number of stages and the weather
handlers wait for nothing but their one call, so liveness would say nothing of either. There is no liveness property of the store: after a restart the guest's
request is simply lost.

## 4. The proofs

TLC checks the instances above; the following hold for every value of the constants under
the named assumptions of their modules only (types of the parameters, positive limits, finitely many teams and slots,
`None` being none of the values it stands beside; those of the metrics and the weather are discussed with their proofs).

**ScheduleLifecycle_proofs.** `TypeOK` is not inductive alone: `activeJobs \in 0..JobLimit` needs to know that a
release is always preceded by an acquisition, and the coroutine frames must resolve. The invariant
is `TypeInv == TypeOK /\ KeysHeld /\ SolverExclusive /\ RecordsResolve`: a frame in progress holds a key where its
continuation records one, at most one coroutine is inside the solver and it holds a counted
job, and no identifier dangles. `HistoryInv` adds `IdsIssued` (no identifier in use exceeds the last issued one,
so a fresh draft cannot collide with a baseline) and `RepairsExtendBaseline`. From it follow
`RecordsAlwaysResolve`, `RepairsAlwaysExtendBaseline`, `RepairsAlwaysApprovedOnce`, `HistoryAlwaysImmutable`, and, with
the bound on draft identifiers (`DraftsBounded`), the refinement `HistoryImplemented`: Init maps to Init and each of
the actions to `Publish`, `Reset` or a stutter. `OneVersionPerKeySerially` takes `Overlap = FALSE`
and adds `Alone` (at most one request in flight) and `PublishedLast` (the version being recorded is
the last one and no key answers it yet). On top of it, `ReplayInv` follows the key of a generation
(`GenerationsHeld`: free until it is recorded; `RunsAnswered`: the key of every run is recorded or about to be) and gives
`GenerationReplaySerially` and `RecordedAnswersStandSerially`. `FitInv` says that a solver works on the tournament there is
(`SolvedAsIs`) and that a draft with the tournament's revision fits its slots, its confirmation and its rest (`FreshFits`);
with the guard of `ApproveDraft` (`ApprovedIsFresh`) it gives `DraftsBoundSerially`, `GeneratedFitsSetupSerially` and
`RepairFitsSlotsSerially`. `CancelledAlwaysStaysCancelled` holds under overlap: it needs that run identifiers are issued once.

**WorkspaceStore_proofs.** `StoreTypeCorrect` and `DeletionIsFinal` hold under overlap.
`AcknowledgedSurvive`, `AuditTrailExact` and `SavedKeysOneToOne` take `Overlap = FALSE`. Their invariant
follows a request step by step (`FlightInv`): which object the request holds, whether it agrees with
the snapshot it was restored from, and that what will be saved is the snapshot, or the snapshot with one fresh
version, key and event, or a cleared workspace. The audit log of the process may be ahead of
the snapshot between requests (a failed write leaves an event behind): `LogInv` says what it may then hold, and that
the next `Restore` discards it.

**AgentDirector_proofs, the manager.** The invariant of `AgentResilience` adds to `TypeOK` and the three circuit properties that a
sleeping run has a retry left (`SleepersMayRetry`) and that calls and remaining retries fit in the
budget for the providers turned to so far (`Spent`). `ProbeOutstanding` is part of it: a half-open circuit
only leaves that state through the call that probes it, and any earlier ending of another call closes or
reopens it.

**DemoProtection_proofs.** All five properties of the run are proved, for any number of threads, workspaces and
addresses. `WindowInv` relates a window to the log of its admissions: what is still in the deque is the end of
the log, what was pruned is a whole window old, and a promise is at least the expiry of the oldest reading of a full
window. It holds although the log is not sorted, because a reading is never later than the clock: what expires
for an old reading has expired for every later one, and stopping early only keeps more. `RecentFew` turns it into
the bound on cardinalities. The jobs are the set `Jobs`, whose cardinality an acquisition and a release change by one;
`BudgetInv` says that the budget day never lies in the future.

**AgentDirector_proofs, the director.** `DirectorImplementsResilience`: every step of turns and workflows is a step of `AgentResilience`'s
`Next` or leaves its variables alone. So `ManagerSoundUnderDirector` gets the circuit, probe, health and budget
properties from the theorems above without a new induction. `DirectorTypeCorrect` has one of its own: the manager is busy
with a run exactly while its turn waits for the first call, and a second call only follows a decision of the
first (`run_turn` looks the route up in `routes`, which would raise otherwise).

**WeatherRisk_proofs.** The library the next proofs stand on: least and greatest elements of finite sets, division and
rounding, and sums over finite functions. `SumFunction` of the community modules is a fold, defined by a recursive
function over the subsets of a set. That it exists, that one element may be taken out of it (`PartialSumTake`), that it is
monotone and that it scales would be inductions over cardinality; each is proved from a smallest counterexample
instead: the set of cardinalities at which the claim fails has a least element (`NatLessThanWellFounded`, `WFMin`), and removing
one element contradicts it. On top of them: every component of a risk is within its scale or unknown, a match's risk is within 0
and 100 (`HoursRiskRange`) and at least that of each completely known hour (`HoursRiskGrows`), a schedule's risk
and coverage can be reported (`ScheduleRange`). Assumption: `RiskAssumption`, that an unknown reading is not a number.

**ScheduleMetrics_proofs.** Lemmas about operators, for any groups, slots and rest: a placement that obeys the solver's
rules has no violation for the validator (`ValidatorAgrees`, one lemma per rule of the validator; the venue rule needs
that two matches whose allocations do not overlap have no overlapping documents, the paths that a rest edge of the solver
covers every pair the validator visits), the diff of two placements is the set of matches whose slots changed, if slots
differ in venue or times (`DiffBySlot`), and each condition of the precheck is necessary (`PrecheckNecessary`, with cardinalities
of the matches and of the starts: matches of one team need different starts). Then the ranges: the rest that the rules
keep between all pairs of a team's matches is kept by its consecutive ones, of which there are some (`RestIsKept`), and along all
its knockout paths (`KnockoutRestIsKept`); hence each of the four fairness metrics is within 0 and 100
(`MetricsRange`), each penalty too (`PenaltyRange`), and a weighted cost never exceeds what penalties of 100 would cost
(`ObjectiveRange`). They need `FieldAssumption`: the groups are disjoint, of equal size and have more than two teams, which
`domain/tournament.py:69-108` demands in the form of two groups of four (with groups of one team the code's metrics would divide by zero).

**RepairPasses_proofs.** `RepairInv` ties the stage to what the totals fix: the totals are those of the passes that are over, the
final placement is a solution under them, and while no pass was late nothing beats them in the lexicographic
order (`FewestChanged`, `LeastMovement`, `BestQuality`). From it and the lemmas above follow `ValidatorNeverRejectsHolds`, `LexicographicMinimumHolds`,
`DiffMatchesTotalsHolds` and `PrecheckSoundHolds`, for every tournament, cost and number of late passes, and
`MetricsReportableHolds` from the ranges. Two more conjuncts say what a refusal means: `SolutionsRemain`, that the totals handed
on are those of a solution that is still there, and `RefusedForNone`. So only the first pass can prove that there
is no placement (`LaterPassesSolvable`), and while no pass is late a repair is told to have none only when there is none
(`RefusalMeansNoneInTime`): the time limit is the one way to the violation that `repair_timeout` shows.

**WeatherEvidence_proofs.** `WeatherTypeCorrect` holds under overlap. With `Overlap = FALSE`: `EvidenceInv` adds to `EvidenceBound` the shape of the weather record and that
a refresh or a generation in progress holds the slots, and the risks, there are now. `EvidenceBoundHolds` and
`OneWeatherSnapshotHolds` follow for any forecasts, shapes, revisions and setups, and `WorstHourCountsHolds`
with `HoursRiskGrows`: the risk shown is that of a forecast there was, for the slots there are. `ProfilesComparableHolds` needs no
restriction on overlap: `ComparableInv` says that every risk a handler may read is a number within 0 and 100 or
unknown, and that a generation computes with slots of some setup. Then the keys that options are compared by have
the same length for all options (`FairnessTerms`), `Beats` is a strict total order on keys of one length (`BeatsOrder`), finitely many
keys have a greatest one (`GreatestKey`), and so the option promoted to a name cannot be beaten by any answer
(`SelectionComparable`). `ForecastAssumption`: a forecast is a finite set of hours whose readings are within the
bounds of `NormalizedWeatherHour` (`weather/normalize.py:20-28`) or unknown. `FairnessAssumption`: a schedule's fairness is told in a fixed
number of integers, at most four, as `fairness_key` does (`profiles.py:186-192`).

An earlier form of `WorstHourCounts` was false, and the attempt to prove it showed why: an hour with a weather code outside the
table of `_condition_severity` has no condition component of its own, while a calmer hour beside it gives the match a
small one, which the weighted mean takes in. A match can then come out slightly safer than its worst hour. The property speaks of
hours whose readings and severity are known, and the instance has such an odd hour.

**Only model-checked.** Liveness (`RequestsAnswered`, `AgentWorkEnds`, `ServiceRecovers`) is out of the prover's reach, and so
is ENABLED, hence the absence of deadlock. Every other property of a passing run is proved. The violation runs show what does
not hold.

## 5. Where code and documents disagree

Each run below finds its one property violated; `PROJECT.json` quotes the lines.

| Run | Counterexample |
|---|---|
| `lifecycle_stale_stamp` | A setup saved or confirmed by a worker thread while the solver runs; the result is stored with the new revision and approved. |
| `lifecycle_job_leak` | A repair refused by the precheck keeps its job; the workspace can neither generate nor repair until the process restarts. |
| `store_lost_approval` | A second request replaces the cached object between an approval and its persist; the approval is answered 201 and not saved. |
| `repair_timeout` | A pass that CP-SAT leaves without an answer at its time limit is told as "the selected disruption leaves no placement", in a state in which one exists. |
| `weather_snapshot` | A refresh or a demo activation on a worker thread while the solver runs: the run keeps a snapshot that its risks and coverages do not come from. |

Met while modelling, taken into the modules as the code does it, and not a run of their own:

* The Idempotency-Key of a generation is recorded after the specialists were awaited: the same key sent again during the
  await generates a second run (`spec.md:657` calls the request idempotent).
* `start_repair` examines a repair with the confirmed minimum rest and then calls `repair_schedule` without it, whose default
  is 0: a repair may break the confirmed rest (`RepairRest`; `spec.md:253`).
* A repair closes the slots of its own disruption only; those an earlier one closed are free again (`spec.md:250`).
* A refresh that overlaps a setup binds risks of slots that are gone to the new revision and digest: `EvidenceBound` fails with
  `Overlap = TRUE`. The new slots then count as unknown, while the quality and coverage shown are the old ones'.
* The director's second call has no timeout, while `spec.md:376` asks for "a maximum-turn and timeout budget".
* The evidence of two specialists is lost when a reset takes the draft before the audit's request is made.
* A change of venue costs one allocation (240 minutes) in the movement, `spec.md:311` says 1,440.
* The rest margin of the evaluator does not subtract the confirmed rest (`spec.md:1033`).
* The objective takes balanced's penalty of 55 for an unknown risk in every profile (`schedules.py:203`); the configuration and
  `spec.md:1006` give weather-first 70 and fairness-first 45, which only the metrics use.
* A provider failure replaces the weather by "unavailable" instead of keeping the last known data (`spec.md:354-355`); `weather/cache.py`,
  which has ages for this, is called by nobody.

## 6. Abstractions

* In the lifecycle, fixtures are a chain that must be played in order on the starts of one venue; the solver may
  return any placement that is feasible, so nothing depends on what it optimises. The precheck
  may do what its necessary conditions allow (`MayPass`, `MayFail`).
* A request that reached a worker thread before the solver blocked the loop may take its
  step during it. The model lets *any* synchronous handler do so, as if it had just been dispatched.
* A reset loads the same sample each time. A blank tournament differs in its fixtures only; both start at revision 0.
* `PATCH /tournament` may overwrite any field; the model keeps status and slots.
* A client's expected revision is taken to be current, or the request is refused and changes nothing.
* In the store a handler is one step, because its object is its own; official versions
  and audit events are sets, their order being the lifecycle's subject; expiry times are
  abstracted: the worker may mark a live row at any moment, which allows more than the code.
* The audit log, texts, evidence, metrics and specialist results carry no control and are left out of the
  lifecycle, except that the await for the specialists is a step.
* In the resilience manager every exception of the SDK counts as transient, as in the code
  (`ProviderAuthenticationError` is never raised). `SetMode` is more than today's wiring does: no code calls
  `record_provider_cost`, and production registers no fallback provider (the tests do). The
  cancellation of a run's task by a client disconnect is not modelled.
* `DemoProtection` says what the class promises any caller. At this commit generation, repair and the director consume on
  the event loop and only the weather refresh consumes on worker threads; no code of the application calls
  `record_provider_cost`, `reset_daily_budget`, `enqueue_job` or `dequeue_job`. Limits are positive: a limit of zero, which
  the settings accept, would promise a reset that never comes. The clock does not go back. Records of
  denials and the pseudonyms in them are left out, and a refused job or queue place changes nothing and is no step.
* In `AgentDirector` the manager of the specialists is a contract (a run is answered), so their circuits, which are not
  shared with the director's, are not visible; a turn without a director runtime and one refused by demo protection
  change nothing and are no steps; the requests' contents are left out, and so is an exception while one is built, which would
  end the turn as a failed second call does.
* `TournamentRules` measures time in minutes on one clock: both venues share a time zone whose offset does not change within
  the tournament (the code compares UTC instants, and local dates for the same-day rule). Groups have any number
  of teams; the program has four in each, so its fifteen matches are `Match`.
* The validator's check of the match graph (`INVALID_MATCH_GRAPH`) cannot fail for the graph the handlers generate; the
  precheck's preset, time zone and pin conditions cannot fail for a tournament the setup accepts.
* Metrics are exact: the code computes in `Decimal` and rounds half up, as the modules do, except for the coverage of the
  live weather view, which Python's `round` takes from a float, and for custom priorities, whose quotients have 28 digits.
* No handler gives the repair a quality cost; `QualityCost` is any function, so that the third pass has something to choose.
* In `WeatherEvidence` the rules of a schedule are reduced to the order of its fixtures, `FairnessKey` stands for the four fairness
  metrics of `ScheduleMetrics`, a tie between options is broken by `CHOOSE` for the code's digest, and a patch only closes slots
  (it may change any field; the others do not reach the weather). Proposals made of weather thresholds, a missing weather service
  and the errors of its parsing are left out: the last become an unavailable forecast.
* A generation in `WeatherEvidence` keeps, as in the code, what its evaluator read before the solver; the profiles' own minima are
  not modelled: any schedule may come back for any profile, and the promotion must make the best of it.

## 7. Not modelled

* **Libraries and services**: CP-SAT (what it may return is), the model provider, the forecast provider, the database engine;
  geocoding, which is one call whose result the client sends back in a setup.
* **Code no handler calls at this commit**: `approvals/service.py`, `workspaces/service.py`, the transition tables of
  `domain/states.py`, `weather/cache.py`, the scenario files of `weather/demo.py`, most tables of `persistence/models.py`. A model of them
  would say nothing about the program that runs.
* **Text and evidence of language models** (`agents/instructions.py`, `guarded_tool.py`, `rules.py`, `recovery.py`, `strategy.py`): they
  validate data and keep no state; their verdict, an output that fails, is an outcome of a call.
* **Read-only views**: exports, schedule and weather views, the audit listing with its offset cursor, readiness.
* **A client**: the keys and expected revisions it sends. A reset starts the revisions at zero again, so that a client
  that has not seen it may send a revision that is accepted (ABA); the model takes an accepted revision as meant.
* **Observability** (nothing reads it), settings, CSRF and problem responses (no state), migrations (declarative), the
  evaluation, performance and quality harnesses (they drive the program from outside), the web client's components and cache.
