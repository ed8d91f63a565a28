------------------------- MODULE ScheduleLifecycle -------------------------
(***************************************************************************)
(* One guest workspace held by the in-memory store (app/api/workspace.py,  *)
(* GuestWorkspaceStore): every request of the guest works on the same      *)
(* GuestWorkspace object.  The handlers are those of app/api/routes.py and *)
(* app/api/schedules.py that change the schedule state.                    *)
(*                                                                         *)
(* Steps: start_schedule_run and start_repair are coroutines of three      *)
(* steps: the guards up to the solver call, the solver's result being      *)
(* stored, and the continuation after the specialists have been awaited.   *)
(* Inside the solver a coroutine blocks the event loop, so no other one    *)
(* moves, but synchronous handlers already handed to worker threads do.    *)
(* A synchronous handler is one step up to the last log record it writes   *)
(* between two accesses to the workspace: approve and restore append the   *)
(* version in one step and record the Idempotency-Key in a second one.     *)
(*                                                                         *)
(* Data: fixtures form a chain 1..Fixtures of matches that must be played  *)
(* in order, time is 1..Starts, and a venue-time slot is a start of one    *)
(* generation of slot identifiers (each saved setup makes new ones).       *)
(***************************************************************************)
EXTENDS Integers, Sequences, FiniteSets

CONSTANTS
  Request,        \* concurrent requests of the guest
  Key,            \* Idempotency-Key header values
  None,           \* absent optional value
  Fixtures,       \* length of the fixture chain
  Starts,         \* start times of one slot generation
  MaxRest,        \* largest minimum rest an organizer enters
  Profiles,       \* options one generation stores
  JobLimit,       \* active_jobs_per_workspace
  Overlap,        \* TRUE: the guest's requests may overlap
  \* bounds of the model
  MaxRevision, MaxDraft, MaxVersion, MaxRun, MaxSetup, MaxDisruption, MaxClosed

ASSUME ConstantsAssumption ==
  /\ None \notin Nat /\ None \notin Key
  /\ Fixtures \in Nat \ {0} /\ Starts \in Nat \ {0} /\ MaxRest \in Nat
  /\ Profiles \in Nat \ {0} /\ JobLimit \in Nat \ {0}
  /\ Overlap \in BOOLEAN
  /\ {MaxRevision, MaxDraft, MaxVersion, MaxRun, MaxSetup, MaxDisruption,
      MaxClosed} \subseteq Nat

VARIABLES
  tournament,       \* revision, ready, slots (generation of slot ids), rest
  confirmed,        \* confirmed_revision of the constraint confirmation, or None
  drafts,           \* draft id -> generated or repaired option
  rejected,         \* rejected draft ids
  diffs,            \* repair draft id -> baseline version id
  runs,             \* run id -> schedule run
  versions,         \* official versions, oldest first
  disruptions,      \* disruption id -> unavailable slots
  idempotency,      \* <<kind, key>> -> identifier in the recorded response
  flight,           \* the requests that take more than one step
  activeJobs,       \* solver jobs PublicDemoProtection counts for the workspace
  issued            \* last identifier of each kind (uuids are never reused)

workspace == <<tournament, confirmed, drafts, rejected, diffs, runs, versions,
               disruptions, idempotency>>
vars == <<tournament, confirmed, drafts, rejected, diffs, runs, versions,
          disruptions, idempotency, flight, activeJobs, issued>>

-----------------------------------------------------------------------------
(* Data *)

Fixture   == 1..Fixtures
Start     == 1..Starts
Placement == [Fixture -> Start]
Empty     == [x \in {} |-> 0]

Put(dict, key, value) ==
  [x \in DOMAIN dict \cup {key} |-> IF x = key THEN value ELSE dict[x]]

\* The placements the solver accepts and the validator passes: every fixture on
\* a free start, one fixture per start, each later than its predecessor by more
\* than the minimum rest.
Feasible(free, rest) ==
  {p \in [Fixture -> free] : \A m \in Fixture : m > 1 => p[m] > p[m - 1] + rest}

Sample == [revision |-> 0, ready |-> FALSE, slots |-> 0, rest |-> 0]
Idle   == [phase |-> "idle", key |-> None, basis |-> Sample, baseline |-> 0,
           unavailable |-> {}, answer |-> 0]

Official     == versions[Len(versions)]
OccupiedBy(d) == {<<drafts[d].slots, drafts[d].place[m]>> : m \in Fixture}
\* Starts left when the slots S are marked unavailable in the tournament.
FreeStarts(t, S) == {s \in Start : <<t.slots, s>> \notin S}

\* run_pre_solver_checks rests on necessary conditions: it lets every feasible
\* instance through and stops one with fewer starts than fixtures; in between it
\* may do either.
MayPass(free)       == Cardinality(free) >= Fixtures
MayFail(free, rest) == Feasible(free, rest) = {}

\* The confirmation guard of start_schedule_run and of the precheck route.
ConstraintsConfirmed == tournament.ready /\ confirmed = tournament.revision

\* An answer is recorded for the Idempotency-Key: the handler returns it at once.
NeverReplayed(kind, k) == FALSE                                   \* mutant of Replayed
Replayed(kind, k)      == <<kind, k>> \in DOMAIN idempotency

Solving(r) == flight[r].phase \in {"generating", "repairing"}
InSolver   == \E r \in Request : Solving(r)
\* A coroutine may take a step: the event loop is not inside another one's solver.
LoopFree == ~InSolver
Publishing(r) == flight[r].phase \in {"approving", "restoring"}
\* A new request may start: always, or only when the previous one has answered.
MayStart == Overlap \/ \A r \in Request : flight[r] = Idle

-----------------------------------------------------------------------------
(* Setup *)

SaveSetup(k, rest) ==
  /\ MayStart
  /\ ~Replayed("setup", k)
  /\ tournament.revision < MaxRevision /\ issued.setup < MaxSetup
  /\ tournament' = [revision |-> tournament.revision + 1, ready |-> FALSE,
                    slots |-> issued.setup + 1, rest |-> rest]
  /\ confirmed' = None
  /\ idempotency' = Put(idempotency, <<"setup", k>>, tournament.revision + 1)
  /\ issued' = [issued EXCEPT !.setup = @ + 1]
  /\ UNCHANGED <<drafts, rejected, diffs, runs, versions, disruptions, flight, activeJobs>>

\* The body may overwrite any field of the tournament but the revision: here its
\* status and its slots, which then carry identifiers of their own.
PatchTournament(ready, newSlots) ==
  /\ MayStart
  /\ tournament.revision < MaxRevision
  /\ newSlots => issued.setup < MaxSetup
  /\ tournament' = [tournament EXCEPT !.revision = @ + 1, !.ready = ready,
                                     !.slots = IF newSlots THEN issued.setup + 1 ELSE @]
  /\ issued' = IF newSlots THEN [issued EXCEPT !.setup = @ + 1] ELSE issued
  /\ UNCHANGED <<confirmed, drafts, rejected, diffs, runs, versions, disruptions,
                 idempotency, flight, activeJobs>>

ConfirmConstraints ==
  /\ MayStart
  /\ tournament.revision < MaxRevision
  /\ tournament' = [tournament EXCEPT !.revision = @ + 1, !.ready = TRUE]
  /\ confirmed' = tournament.revision + 1
  /\ UNCHANGED <<drafts, rejected, diffs, runs, versions, disruptions,
                 idempotency, flight, activeJobs, issued>>

\* clear_tournament_state: everything of the tournament but the tournament.
ClearKeepsRejected ==                                 \* mutant of ClearTournamentState
  /\ drafts' = Empty /\ rejected' = rejected /\ diffs' = Empty /\ runs' = Empty
  /\ versions' = <<>> /\ disruptions' = Empty /\ idempotency' = Empty
  /\ confirmed' = None
ClearTournamentState ==
  /\ drafts' = Empty /\ rejected' = {} /\ diffs' = Empty /\ runs' = Empty
  /\ versions' = <<>> /\ disruptions' = Empty /\ idempotency' = Empty
  /\ confirmed' = None

ResetWorkspace ==
  /\ MayStart
  /\ ClearTournamentState
  /\ tournament' = Sample
  /\ UNCHANGED <<flight, activeJobs, issued>>

\* An unknown sample_id is refused with 422 after the state has been cleared;
\* the setup draft, hence the minimum rest, is cleared too.
ResetUnknownSample ==
  /\ MayStart
  /\ ClearTournamentState
  /\ tournament' = [tournament EXCEPT !.rest = 0]
  /\ UNCHANGED <<flight, activeJobs, issued>>

-----------------------------------------------------------------------------
(* Generation *)

BeginGeneration(r, k) ==
  /\ MayStart /\ LoopFree
  /\ flight[r] = Idle
  /\ ~Replayed("generation", k)
  /\ ConstraintsConfirmed
  /\ MayPass(Start)
  /\ activeJobs < JobLimit
  /\ activeJobs' = activeJobs + 1
  /\ flight' = [flight EXCEPT ![r] = [Idle EXCEPT !.phase = "generating", !.key = k,
                                                  !.basis = tournament]]
  /\ UNCHANGED <<workspace, issued>>

\* A draft is stored with the workspace's revision at this moment; the ghost
\* field solvedAt keeps the revision the solver worked on.
NewDraftAtConfirmed(basis, p) ==                                  \* mutant of NewDraft
  [revision |-> confirmed, slots |-> basis.slots, place |-> p, solvedAt |-> basis.revision]
NewDraft(basis, p) ==
  [revision |-> tournament.revision, slots |-> basis.slots, place |-> p,
   solvedAt |-> basis.revision]

StoreGeneration(r) ==
  LET basis == flight[r].basis
      new   == (issued.draft + 1)..(issued.draft + Profiles)
      run   == issued.run + 1
  IN
  /\ flight[r].phase = "generating"
  /\ issued.draft + Profiles <= MaxDraft /\ run <= MaxRun
  /\ \E place \in [new -> Feasible(Start, basis.rest)] :
       drafts' = [d \in DOMAIN drafts \cup new |->
                    IF d \in new THEN NewDraft(basis, place[d]) ELSE drafts[d]]
  /\ runs' = Put(runs, run, [status |-> "completed", drafts |-> new, key |-> flight[r].key])
  /\ activeJobs' = activeJobs - 1
  /\ flight' = [flight EXCEPT ![r] = [Idle EXCEPT !.phase = "generated",
                                                  !.key = flight[r].key, !.answer = run]]
  /\ issued' = [issued EXCEPT !.draft = @ + Profiles, !.run = run]
  /\ UNCHANGED <<tournament, confirmed, rejected, diffs, versions, disruptions, idempotency>>

\* Infeasible, timed out or failed validation: release in the finally, answer 422.
FailGeneration(r) ==
  /\ flight[r].phase = "generating"
  /\ activeJobs' = activeJobs - 1
  /\ flight' = [flight EXCEPT ![r] = Idle]
  /\ UNCHANGED <<workspace, issued>>

\* Mutants of FinishGeneration: completing the run again, not recording the answer,
\* waiting for a run that may be gone.
FinishCompletesRun(r) ==
  /\ LoopFree
  /\ flight[r].phase = "generated"
  /\ runs' = [x \in DOMAIN runs |-> IF x = flight[r].answer
                                      THEN [runs[x] EXCEPT !.status = "completed"] ELSE runs[x]]
  /\ flight' = [flight EXCEPT ![r] = Idle]
  /\ UNCHANGED <<tournament, confirmed, drafts, rejected, diffs, versions,
                 disruptions, idempotency, activeJobs, issued>>
FinishForgetsAnswer(r) ==
  /\ LoopFree
  /\ flight[r].phase = "generated"
  /\ flight' = [flight EXCEPT ![r] = Idle]
  /\ UNCHANGED <<workspace, activeJobs, issued>>
FinishAwaitsRun(r) ==
  /\ LoopFree
  /\ flight[r].phase = "generated" /\ flight[r].answer \in DOMAIN runs
  /\ flight' = [flight EXCEPT ![r] = Idle]
  /\ UNCHANGED <<workspace, activeJobs, issued>>

\* After the await: the response is recorded under the key.
FinishGeneration(r) ==
  /\ LoopFree
  /\ flight[r].phase = "generated"
  /\ idempotency' = Put(idempotency, <<"generation", flight[r].key>>, flight[r].answer)
  /\ flight' = [flight EXCEPT ![r] = Idle]
  /\ UNCHANGED <<tournament, confirmed, drafts, rejected, diffs, runs, versions,
                 disruptions, activeJobs, issued>>

CancelRun(run) ==
  /\ MayStart
  /\ runs' = [runs EXCEPT ![run].status = "cancelled"]
  /\ UNCHANGED <<tournament, confirmed, drafts, rejected, diffs, versions,
                 disruptions, idempotency, flight, activeJobs, issued>>

-----------------------------------------------------------------------------
(* Approval *)

\* A repair draft is approvable only against the version it repairs.
BaselineIsKnown(d) ==                                    \* mutant of BaselineIsCurrent
  d \in DOMAIN diffs => \E i \in DOMAIN versions : versions[i].id = diffs[d]
BaselineIsCurrent(d) ==
  d \in DOMAIN diffs => versions # <<>> /\ diffs[d] = Official.id

\* A draft is approvable only at the revision it was stored with.
DraftIsNotNewer(d) == drafts[d].revision <= tournament.revision   \* mutant of DraftIsFresh
DraftIsFresh(d)    == drafts[d].revision = tournament.revision

AppendVersion(r, phase, k, d, source) ==
  /\ flight[r] = Idle
  /\ issued.version < MaxVersion
  /\ versions' = Append(versions, [id |-> issued.version + 1, number |-> Len(versions) + 1,
                                   draft |-> d, restoredFrom |-> source])
  /\ flight' = [flight EXCEPT ![r] = [Idle EXCEPT !.phase = phase, !.key = k,
                                                  !.answer = issued.version + 1]]
  /\ issued' = [issued EXCEPT !.version = @ + 1]
  /\ UNCHANGED <<tournament, confirmed, drafts, rejected, diffs, runs, disruptions,
                 idempotency, activeJobs>>

ApproveDraft(r, d, k) ==
  /\ MayStart
  /\ ~Replayed("approval", k)
  /\ d \notin rejected
  /\ DraftIsFresh(d)
  /\ BaselineIsCurrent(d)
  /\ AppendVersion(r, "approving", k, d, 0)

RestoreByTruncation(r, i, k) ==                             \* mutant of RestoreVersion
  /\ MayStart
  /\ flight[r] = Idle
  /\ versions' = SubSeq(versions, 1, i)
  /\ UNCHANGED <<tournament, confirmed, drafts, rejected, diffs, runs, disruptions,
                 idempotency, flight, activeJobs, issued>>
RestoreVersion(r, i, k) ==
  /\ MayStart
  /\ ~Replayed("restore", k)
  /\ AppendVersion(r, "restoring", k, versions[i].draft, versions[i].id)

PhaseAsKind(phase) == phase                                    \* mutant of VersionKind
VersionKind(phase) == IF phase = "approving" THEN "approval" ELSE "restore"

RecordVersion(r) ==
  /\ Publishing(r)
  /\ idempotency' = Put(idempotency, <<VersionKind(flight[r].phase), flight[r].key>>,
                         flight[r].answer)
  /\ flight' = [flight EXCEPT ![r] = Idle]
  /\ UNCHANGED <<tournament, confirmed, drafts, rejected, diffs, runs, versions,
                 disruptions, activeJobs, issued>>

RejectDraft(d) ==
  /\ MayStart
  /\ rejected' = rejected \cup {d}
  /\ UNCHANGED <<tournament, confirmed, drafts, diffs, runs, versions, disruptions,
                 idempotency, flight, activeJobs, issued>>

-----------------------------------------------------------------------------
(* Recovery *)

DeclareDisruption(S) ==
  /\ MayStart
  /\ versions # <<>>
  /\ S \subseteq {tournament.slots} \X Start /\ Cardinality(S) <= MaxClosed
  /\ S \cap OccupiedBy(Official.draft) # {}
  /\ issued.disruption < MaxDisruption
  /\ disruptions' = Put(disruptions, issued.disruption + 1, S)
  /\ issued' = [issued EXCEPT !.disruption = @ + 1]
  /\ UNCHANGED <<tournament, confirmed, drafts, rejected, diffs, runs, versions,
                 idempotency, flight, activeJobs>>

\* The job is taken before the precheck; only this disruption's slots are closed,
\* and the precheck looks at the confirmed minimum rest.
FreeAfter(x) == FreeStarts(tournament, disruptions[x])

BeginRepair(r, x) ==
  /\ MayStart /\ LoopFree
  /\ flight[r] = Idle
  /\ activeJobs < JobLimit
  /\ MayPass(FreeAfter(x))
  /\ activeJobs' = activeJobs + 1
  /\ flight' = [flight EXCEPT ![r] = [Idle EXCEPT !.phase = "repairing", !.basis = tournament,
                                                  !.baseline = Official.id,
                                                  !.unavailable = disruptions[x]]]
  /\ UNCHANGED <<workspace, issued>>

\* reject_infeasible is raised before the try block: the job stays counted.
RefuseRepair(x) ==
  /\ MayStart /\ LoopFree
  /\ activeJobs < JobLimit
  /\ MayFail(FreeAfter(x), tournament.rest)
  /\ activeJobs' = activeJobs + 1
  /\ UNCHANGED <<workspace, flight, issued>>

\* repair_schedule runs with its default minimum rest of zero.
StoreRepair(r) ==
  LET basis == flight[r].basis
      d     == issued.draft + 1
  IN
  /\ flight[r].phase = "repairing"
  /\ d <= MaxDraft
  /\ \E p \in Feasible(FreeStarts(basis, flight[r].unavailable), 0) :
       drafts' = Put(drafts, d, NewDraft(basis, p))
  /\ diffs' = Put(diffs, d, flight[r].baseline)
  /\ activeJobs' = activeJobs - 1
  /\ flight' = [flight EXCEPT ![r] = [Idle EXCEPT !.phase = "repaired"]]
  /\ issued' = [issued EXCEPT !.draft = d]
  /\ UNCHANGED <<tournament, confirmed, rejected, runs, versions, disruptions, idempotency>>

FailRepair(r) ==
  /\ flight[r].phase = "repairing"
  /\ activeJobs' = activeJobs - 1
  /\ flight' = [flight EXCEPT ![r] = Idle]
  /\ UNCHANGED <<workspace, issued>>

FinishRepair(r) ==
  /\ LoopFree
  /\ flight[r].phase = "repaired"
  /\ flight' = [flight EXCEPT ![r] = Idle]
  /\ UNCHANGED <<workspace, activeJobs, issued>>

-----------------------------------------------------------------------------
Init ==
  /\ tournament = Sample /\ confirmed = None
  /\ drafts = Empty /\ rejected = {} /\ diffs = Empty /\ runs = Empty
  /\ versions = <<>> /\ disruptions = Empty /\ idempotency = Empty
  /\ flight = [r \in Request |-> Idle]
  /\ activeJobs = 0
  /\ issued = [setup |-> 0, draft |-> 0, run |-> 0, version |-> 0, disruption |-> 0]

Setup ==
  \/ \E k \in Key, rest \in 0..MaxRest : SaveSetup(k, rest)
  \/ \E ready, newSlots \in BOOLEAN : PatchTournament(ready, newSlots)
  \/ ConfirmConstraints
  \/ ResetWorkspace
  \/ ResetUnknownSample

Generation ==
  \/ \E r \in Request, k \in Key : BeginGeneration(r, k)
  \/ \E r \in Request : StoreGeneration(r) \/ FailGeneration(r) \/ FinishGeneration(r)
  \/ \E run \in DOMAIN runs : CancelRun(run)

Approval ==
  \/ \E r \in Request, d \in DOMAIN drafts, k \in Key : ApproveDraft(r, d, k)
  \/ \E d \in DOMAIN drafts : RejectDraft(d)
  \/ \E r \in Request, i \in DOMAIN versions, k \in Key : RestoreVersion(r, i, k)
  \/ \E r \in Request : RecordVersion(r)

Recovery ==
  \/ \E S \in SUBSET ({tournament.slots} \X Start) : DeclareDisruption(S)
  \/ \E r \in Request, x \in DOMAIN disruptions : BeginRepair(r, x)
  \/ \E x \in DOMAIN disruptions : RefuseRepair(x)
  \/ \E r \in Request : StoreRepair(r) \/ FailRepair(r) \/ FinishRepair(r)

Next == Setup \/ Generation \/ Approval \/ Recovery

Spec == Init /\ [][Next]_vars

\* The solver has a time limit and worker threads run; the event loop resumes its
\* ready coroutines first in, first out, so one that is ready again and again gets
\* its turn.
Fairness ==
  \A r \in Request :
    /\ WF_vars(StoreGeneration(r) \/ FailGeneration(r))
    /\ WF_vars(StoreRepair(r) \/ FailRepair(r))
    /\ WF_vars(RecordVersion(r))
    /\ SF_vars(FinishGeneration(r))
    /\ SF_vars(FinishRepair(r))

FairSpec == Spec /\ Fairness

-----------------------------------------------------------------------------
(* Types *)

Kind       == {"setup", "generation", "approval", "restore"}
VersionKey == {"approval", "restore"} \X Key

TournamentType == [revision : Nat, ready : BOOLEAN, slots : Nat, rest : Nat]
DraftType      == [revision : Nat, slots : Nat, place : Placement, solvedAt : Nat]
RunType        == [status : {"completed", "cancelled"}, drafts : SUBSET Nat, key : Key]
VersionType    == [id : Nat, number : Nat, draft : Nat, restoredFrom : Nat]
Phase          == {"idle", "generating", "generated", "repairing", "repaired",
                   "approving", "restoring"}
FlightType     == [phase : Phase, key : Key \cup {None}, basis : TournamentType,
                   baseline : Nat, unavailable : SUBSET (Nat \X Start), answer : Nat]
IssuedType     == [setup : Nat, draft : Nat, run : Nat, version : Nat, disruption : Nat]

DictOf(dict, K, V) == DOMAIN dict \subseteq K /\ \A x \in DOMAIN dict : dict[x] \in V

\* The type invariant: every workspace field, the coroutine frames and the
\* identifier counters keep the shape the handlers give them, and the jobs counted
\* stay within the limit although a release never checks that one was acquired.
TypeOK ==
  /\ tournament \in TournamentType
  /\ confirmed \in Nat \cup {None}
  /\ DictOf(drafts, Nat, DraftType)
  /\ rejected \subseteq Nat
  /\ DictOf(diffs, Nat, Nat)
  /\ DictOf(runs, Nat, RunType)
  /\ versions \in Seq(VersionType)
  /\ DictOf(disruptions, Nat, SUBSET (Nat \X Start))
  /\ DictOf(idempotency, Kind \X Key, Nat)
  /\ flight \in [Request -> FlightType]
  /\ activeJobs \in 0..JobLimit
  /\ issued \in IssuedType

-----------------------------------------------------------------------------
(* What holds however the guest's requests overlap                         *)

\* No handler follows a dangling identifier: schedule-versions, comparisons,
\* diffs and start_repair index the dictionaries without a check
\* (workspace.drafts[...], official_versions[-1]), so each identifier a record
\* holds must resolve, also after a reset in the middle of a coroutine.
RecordsResolve ==
  /\ \A i \in DOMAIN versions : versions[i].draft \in DOMAIN drafts
  /\ \A run \in DOMAIN runs : runs[run].drafts \subseteq DOMAIN drafts
  /\ DOMAIN diffs \subseteq DOMAIN drafts
  /\ rejected \subseteq DOMAIN drafts
  /\ DOMAIN disruptions # {} => versions # <<>>

\* A repair becomes official only directly on top of the version it repairs,
\* whatever was approved or restored while it was being solved; hence no repair
\* draft is ever approved twice.
RepairsExtendBaseline ==
  \A i \in DOMAIN versions :
    (versions[i].restoredFrom = 0 /\ versions[i].draft \in DOMAIN diffs) =>
      /\ i > 1
      /\ diffs[versions[i].draft] = versions[i - 1].id

\* The handlers implement the abstract official history: approvals and restores
\* publish one version each, everything else leaves the history alone or resets it.
History == INSTANCE OfficialHistory
             WITH Draft <- 1..MaxDraft, history <- versions, last <- issued.version
ImplementsHistory == History!Spec

\* Official versions are immutable: a step leaves every earlier version in its
\* place with its number, or clears the history in a reset.
HistoryImmutable ==
  [][versions' = <<>> \/ (/\ Len(versions) <= Len(versions')
                          /\ \A i \in DOMAIN versions : versions'[i] = versions[i])]_vars

\* A run the organizer cancels while its specialists are still being awaited
\* stays cancelled when the coroutine resumes.
CancelledStaysCancelled ==
  [][\A run \in DOMAIN runs \cap DOMAIN runs' :
       runs[run].status = "cancelled" => runs'[run].status = "cancelled"]_vars

\* Every accepted request is answered, whatever the guest does meanwhile: no
\* cancelled run, reset or refused repair leaves a coroutine waiting.
RequestsAnswered == \A r \in Request : flight[r] # Idle ~> flight[r] = Idle

-----------------------------------------------------------------------------
(* What holds when the guest waits for each answer (Overlap = FALSE) *)

\* Each official version answers exactly one Idempotency-Key, recorded or about
\* to be, and each recorded approval or restore key answers a version still in
\* the history: a retried approval neither adds a version nor points nowhere.
OneVersionPerKey ==
  /\ \A i \in DOMAIN versions :
       \/ \E k \in VersionKey : k \in DOMAIN idempotency /\ idempotency[k] = versions[i].id
       \/ \E r \in Request : Publishing(r) /\ flight[r].answer = versions[i].id
  /\ \A k \in VersionKey \cap DOMAIN idempotency : \E i \in DOMAIN versions :
       idempotency[k] = versions[i].id
  /\ \A k, l \in VersionKey \cap DOMAIN idempotency :
       idempotency[k] = idempotency[l] => k = l

\* A draft carries the revision it was solved at, so the staleness guard of
\* approve_draft compares the right revisions.
DraftBoundToRevision ==
  \A d \in DOMAIN drafts : drafts[d].revision = drafts[d].solvedAt

\* An Idempotency-Key starts at most one generation.
OneRunPerKey == \A a, b \in DOMAIN runs : runs[a].key = runs[b].key => a = b

\* An Idempotency-Key starts at most one generation, and a recorded key answers
\* a run that still exists.
GenerationReplay ==
  /\ OneRunPerKey
  /\ \A k \in Key : <<"generation", k>> \in DOMAIN idempotency =>
       idempotency[<<"generation", k>>] \in DOMAIN runs

\* A recorded response is the answer to its key until a reset forgets it.
RecordedAnswersStand ==
  [][\A k \in DOMAIN idempotency \cap DOMAIN idempotency' :
       idempotency'[k] = idempotency[k]]_vars

NewlyApproved(d) ==
  /\ versions' # <<>> /\ versions' # versions
  /\ versions'[Len(versions')].restoredFrom = 0
  /\ versions'[Len(versions')].draft = d

KeepsRest(d, rest) == drafts[d].place \in Feasible(Start, rest)

\* A generated option becomes official only while its own setup is the confirmed
\* one: hard constraints confirmed at the current revision, placements on slots
\* the tournament still has, the saved minimum rest respected.
GeneratedFitsSetup ==
  [][\A d \in DOMAIN drafts \ DOMAIN diffs : NewlyApproved(d) =>
       /\ ConstraintsConfirmed
       /\ drafts[d].slots = tournament.slots
       /\ KeepsRest(d, tournament.rest)]_vars

\* A repair becomes official only on slots the tournament still has.
RepairFitsSlots ==
  [][\A d \in DOMAIN diffs : NewlyApproved(d) => drafts[d].slots = tournament.slots]_vars

-----------------------------------------------------------------------------
(* What the project documents and the code does not do *)

\* spec.md 11: stale results cannot be approved.
StaleResultsNotApproved ==
  [][\A d \in DOMAIN drafts : NewlyApproved(d) =>
       drafts[d].solvedAt = tournament.revision]_vars

\* A job counted against the workspace belongs to a run inside the solver.
JobsBelongToRuns ==
  activeJobs > 0 => InSolver
=============================================================================
