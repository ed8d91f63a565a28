---------------------- MODULE ScheduleLifecycle_proofs ----------------------
(***************************************************************************)
(* Theorems about ScheduleLifecycle for every number of requests, keys,    *)
(* fixtures, starts and profiles.                                          *)
(*                                                                         *)
(* TypeOK is not inductive alone: a coroutine must still hold the key it   *)
(* records, only one request may be inside the solver for the job counter  *)
(* to stay within its limits, and a disruption must have a version to be   *)
(* repaired.  RepairsExtendBaseline needs in addition that identifiers are *)
(* issued once.                                                            *)
(***************************************************************************)
EXTENDS ScheduleLifecycle, SequenceTheorems, TLAPS

\* A request that will record a key still holds one.
KeysHeld == \A r \in Request :
  flight[r].phase \in {"generating", "generated", "approving", "restoring"}
    => flight[r].key \in Key

\* One request at a time is inside the solver, with its job counted.
SolverExclusive ==
  /\ \A r, q \in Request : Solving(r) /\ Solving(q) => r = q
  /\ InSolver => activeJobs > 0

TypeInv == TypeOK /\ KeysHeld /\ SolverExclusive /\ RecordsResolve

\* Identifiers in use were issued, and versions are issued in order.
IdsIssued ==
  /\ DOMAIN drafts \subseteq 1..issued.draft
  /\ \A i \in DOMAIN versions : versions[i].id \in 1..issued.version
  /\ \A i, j \in DOMAIN versions : i < j => versions[i].id < versions[j].id

HistoryInv == TypeInv /\ IdsIssued /\ RepairsExtendBaseline

-----------------------------------------------------------------------------
(* The operators the model is built from *)

\* Storing a typed value under a typed key keeps a dictionary typed.
LEMMA PutTyped ==
  ASSUME NEW dict, NEW K, NEW V, DictOf(dict, K, V), NEW key \in K, NEW value \in V
  PROVE  /\ DictOf(Put(dict, key, value), K, V)
         /\ DOMAIN Put(dict, key, value) = DOMAIN dict \cup {key}
         /\ Put(dict, key, value)[key] = value
         /\ \A x \in DOMAIN dict \ {key} : Put(dict, key, value)[x] = dict[x]
BY DEF Put, DictOf

\* A cleared dictionary is typed and holds nothing.
LEMMA EmptyTyped ==
  ASSUME NEW K, NEW V
  PROVE  DictOf(Empty, K, V) /\ DOMAIN Empty = {}
BY DEF Empty, DictOf

\* Whatever the solver returns places every fixture on a start of the tournament.
LEMMA FeasibleIsPlacement ==
  ASSUME NEW free, free \subseteq Start, NEW rest, NEW p \in Feasible(free, rest)
  PROVE  p \in Placement
BY DEF Feasible, Placement, Fixture

LEMMA SampleTyped == Sample \in TournamentType
BY DEF Sample, TournamentType

\* No request in flight is a well-formed flight.
LEMMA IdleTyped == Idle \in FlightType
BY SampleTyped DEF Idle, FlightType, Phase

\* What is read of a flight is typed.
LEMMA FlightTyped ==
  ASSUME TypeOK, NEW r \in Request
  PROVE  /\ flight[r] \in FlightType
         /\ flight[r].phase \in Phase /\ flight[r].key \in Key \cup {None}
         /\ flight[r].basis \in TournamentType /\ flight[r].baseline \in Nat
         /\ flight[r].unavailable \in SUBSET (Nat \X Start) /\ flight[r].answer \in Nat
BY DEF TypeOK, FlightType

\* What the counters and the tournament hold is typed.
LEMMA RecordsTyped ==
  ASSUME TypeOK
  PROVE  /\ tournament \in TournamentType /\ issued \in IssuedType
         /\ tournament.revision \in Nat /\ tournament.ready \in BOOLEAN
         /\ tournament.slots \in Nat /\ tournament.rest \in Nat
         /\ issued.setup \in Nat /\ issued.draft \in Nat /\ issued.run \in Nat
         /\ issued.version \in Nat /\ issued.disruption \in Nat
BY DEF TypeOK, TournamentType, IssuedType

\* A new draft is typed.
LEMMA NewDraftTyped ==
  ASSUME TypeOK, NEW basis \in TournamentType, NEW p \in Placement
  PROVE  NewDraft(basis, p) \in DraftType
BY RecordsTyped DEF NewDraft, DraftType, TournamentType

\* A version appended to the history is typed, and the history keeps its prefix.
LEMMA AppendTyped ==
  ASSUME TypeOK, NEW v \in VersionType
  PROVE  /\ Append(versions, v) \in Seq(VersionType)
         /\ Len(versions) \in Nat
         /\ DOMAIN versions = 1..Len(versions)
         /\ Len(Append(versions, v)) = Len(versions) + 1
         /\ DOMAIN Append(versions, v) = 1..(Len(versions) + 1)
         /\ \A i \in 1..Len(versions) : Append(versions, v)[i] = versions[i]
         /\ Append(versions, v)[Len(versions) + 1] = v
BY DEF TypeOK

-----------------------------------------------------------------------------
(* Type correctness                                                          *)

\* Every step keeps the shape of the state.
LEMMA TypeStep == TypeInv /\ Next => TypeOK'
<1> SUFFICES ASSUME TypeInv, Next PROVE TypeOK'
  OBVIOUS
<1>t. TypeOK /\ KeysHeld /\ SolverExclusive /\ RecordsResolve
  BY DEF TypeInv
<1>r. /\ tournament \in TournamentType /\ issued \in IssuedType
      /\ tournament.revision \in Nat /\ tournament.ready \in BOOLEAN
      /\ tournament.slots \in Nat /\ tournament.rest \in Nat
      /\ issued.setup \in Nat /\ issued.draft \in Nat /\ issued.run \in Nat
      /\ issued.version \in Nat /\ issued.disruption \in Nat
  BY <1>t, RecordsTyped
<1>s. /\ tournament.revision + 1 \in Nat /\ issued.setup + 1 \in Nat
      /\ issued.draft + 1 \in Nat /\ issued.draft + Profiles \in Nat
      /\ issued.run + 1 \in Nat /\ issued.version + 1 \in Nat
      /\ issued.disruption + 1 \in Nat
  BY <1>r, ConstantsAssumption
<1>c. JobLimit \in Nat /\ Profiles \in Nat /\ MaxRest \in Nat
  BY ConstantsAssumption
<1>1. ASSUME NEW k \in Key, NEW rest \in 0..MaxRest, SaveSetup(k, rest) PROVE TypeOK'
  <2>1. DictOf(idempotency, Kind \X Key, Nat) /\ <<"setup", k>> \in Kind \X Key
    BY <1>t, <1>r DEF TypeOK, Kind
  <2>2. DictOf(idempotency, Kind \X Key, Nat)'
    BY <1>1, <2>1, PutTyped, <1>s DEF SaveSetup
  <2>3. tournament' \in TournamentType /\ issued' \in IssuedType
    <3>1. rest \in Nat
      BY <1>c
    <3>2. tournament' \in TournamentType
      BY <1>1, <1>r, <3>1 DEF SaveSetup, TournamentType
    <3>3. issued \in IssuedType
      BY <1>t DEF TypeOK
    <3> QED
      BY <1>1, <1>r, <3>2, <3>3 DEF SaveSetup, IssuedType
  <2> QED
    BY <1>1, <2>2, <2>3, <1>t, <1>r DEF SaveSetup, TypeOK
<1>2. ASSUME NEW ready \in BOOLEAN, NEW newSlots \in BOOLEAN, PatchTournament(ready, newSlots)
      PROVE  TypeOK'
  <2>1. tournament' \in TournamentType
    BY <1>2, <1>r, <1>s DEF PatchTournament, TournamentType
  <2>2. issued' \in IssuedType
    BY <1>2, <1>r, <1>s DEF PatchTournament, IssuedType
  <2> QED
    BY <1>2, <2>1, <2>2, <1>t DEF PatchTournament, TypeOK
<1>3. CASE ConfirmConstraints
  <2>1. tournament' \in TournamentType /\ confirmed' \in Nat
    BY <1>3, <1>r, <1>s DEF ConfirmConstraints, TournamentType
  <2> QED
    BY <1>3, <2>1, <1>t, <1>r DEF ConfirmConstraints, TypeOK
<1>4. CASE ResetWorkspace \/ ResetUnknownSample
  <2>1. tournament' \in TournamentType
    BY <1>4, SampleTyped, <1>t, <1>r DEF ResetWorkspace, ResetUnknownSample, TypeOK, TournamentType
  <2>2. ClearTournamentState /\ UNCHANGED <<flight, activeJobs, issued>>
    BY <1>4 DEF ResetWorkspace, ResetUnknownSample
  <2>3. versions' \in Seq(VersionType)
    BY <2>2 DEF ClearTournamentState
  <2> QED
    BY <2>1, <2>2, <2>3, EmptyTyped, <1>t, <1>r, <1>c DEF ClearTournamentState, TypeOK
<1>5. ASSUME NEW r \in Request, NEW k \in Key, BeginGeneration(r, k) PROVE TypeOK'
  <2>1. [Idle EXCEPT !.phase = "generating", !.key = k, !.basis = tournament] \in FlightType
    BY IdleTyped, <1>t, <1>r DEF FlightType, Phase, TypeOK
  <2>2. flight' \in [Request -> FlightType]
    BY <1>5, <2>1, <1>t, <1>r DEF BeginGeneration, TypeOK
  <2>3. activeJobs' \in 0..JobLimit
    BY <1>5, <1>t, <1>r, <1>c DEF BeginGeneration, TypeOK
  <2> QED
    BY <1>5, <2>2, <2>3, <1>t, <1>r, <1>c DEF BeginGeneration, workspace, TypeOK
<1>6. ASSUME NEW r \in Request, StoreGeneration(r) PROVE TypeOK'
  <2> DEFINE basis == flight[r].basis
             new   == (issued.draft + 1)..(issued.draft + Profiles)
             run   == issued.run + 1
  <2>0. flight[r] \in FlightType /\ basis \in TournamentType /\ Solving(r)
    BY <1>6, FlightTyped, <1>t, <1>r DEF StoreGeneration, Solving
  <2>1. PICK place \in [new -> Feasible(Start, basis.rest)] :
          drafts' = [d \in DOMAIN drafts \cup new |->
                       IF d \in new THEN NewDraft(basis, place[d]) ELSE drafts[d]]
    BY <1>6 DEF StoreGeneration
  <2>2. DictOf(drafts, Nat, DraftType)'
    <3>1. \A d \in new : NewDraft(basis, place[d]) \in DraftType
      BY <2>0, FeasibleIsPlacement, NewDraftTyped, <1>t, <1>r
    <3>2. new \subseteq Nat
      BY <1>t, <1>r
    <3> QED
      BY <2>1, <3>1, <3>2, <1>t, <1>r DEF DictOf, TypeOK
  <2>3. DictOf(runs, Nat, RunType)'
    <3>1. [status |-> "completed", drafts |-> new, key |-> flight[r].key] \in RunType
      BY <1>6, <1>t, <1>r DEF StoreGeneration, RunType, KeysHeld
    <3> QED
      BY <1>6, <3>1, PutTyped, <1>t, <1>s DEF StoreGeneration, TypeOK
  <2>4. flight' \in [Request -> FlightType]
    <3>1. [Idle EXCEPT !.phase = "generated", !.key = flight[r].key, !.answer = run]
            \in FlightType
      BY IdleTyped, FlightTyped, <1>t, <1>s DEF FlightType, Phase
    <3> QED
      BY <1>6, <3>1, <1>t, <1>r DEF StoreGeneration, TypeOK
  <2>5. activeJobs' \in 0..JobLimit
    <3>1. activeJobs' = activeJobs - 1
      BY <1>6 DEF StoreGeneration
    <3>2. activeJobs \in 0..JobLimit /\ activeJobs > 0
      BY <2>0, <1>t DEF TypeOK, SolverExclusive, InSolver
    <3> QED
      BY <3>1, <3>2, <1>c
  <2>6. issued' \in IssuedType
    BY <1>6, <1>r, <1>s DEF StoreGeneration, IssuedType
  <2> QED
    BY <1>6, <2>2, <2>3, <2>4, <2>5, <2>6, <1>t, <1>r DEF StoreGeneration, TypeOK
<1>7. ASSUME NEW r \in Request, FailGeneration(r) \/ FailRepair(r) PROVE TypeOK'
  <2>1. Solving(r) /\ activeJobs' = activeJobs - 1
        /\ flight' = [flight EXCEPT ![r] = Idle] /\ UNCHANGED <<workspace, issued>>
    BY <1>7 DEF FailGeneration, FailRepair, Solving
  <2>2. activeJobs' \in 0..JobLimit
    BY <2>1, <1>t, <1>r, <1>c DEF TypeOK, SolverExclusive, InSolver
  <2> QED
    BY <2>1, <2>2, IdleTyped, <1>t, <1>r, <1>c DEF workspace, TypeOK
<1>8. ASSUME NEW r \in Request, FinishGeneration(r) PROVE TypeOK'
  <2>1. <<"generation", flight[r].key>> \in Kind \X Key /\ flight[r].answer \in Nat
    BY <1>8, FlightTyped, <1>t, <1>r DEF FinishGeneration, KeysHeld, Kind
  <2>2. DictOf(idempotency, Kind \X Key, Nat)'
    BY <1>8, <2>1, PutTyped, <1>t, <1>r DEF FinishGeneration, TypeOK
  <2> QED
    BY <1>8, <2>2, IdleTyped, <1>t, <1>r DEF FinishGeneration, TypeOK
<1>9. ASSUME NEW run \in DOMAIN runs, CancelRun(run) PROVE TypeOK'
  <2>1. DictOf(runs, Nat, RunType)'
    BY <1>9, <1>t, <1>r DEF CancelRun, DictOf, RunType, TypeOK
  <2> QED
    BY <1>9, <2>1, <1>t, <1>r DEF CancelRun, TypeOK
<1>10. ASSUME NEW r \in Request, NEW phase \in {"approving", "restoring"}, NEW k \in Key,
              NEW d \in Nat, NEW source \in Nat, AppendVersion(r, phase, k, d, source)
       PROVE  TypeOK'
  <2>1. [id |-> issued.version + 1, number |-> Len(versions) + 1, draft |-> d,
         restoredFrom |-> source] \in VersionType
    BY <1>t, <1>r DEF VersionType, TypeOK
  <2>2. versions' \in Seq(VersionType)
    BY <1>10, <2>1, AppendTyped, <1>t, <1>r DEF AppendVersion
  <2>3. [Idle EXCEPT !.phase = phase, !.key = k, !.answer = issued.version + 1] \in FlightType
    BY IdleTyped, <1>s DEF FlightType, Phase
  <2>4. flight' \in [Request -> FlightType]
    BY <1>10, <2>3, <1>t, <1>r DEF AppendVersion, TypeOK
  <2>5. issued' \in IssuedType
    <3>1. issued' = [issued EXCEPT !.version = @ + 1]
      BY <1>10 DEF AppendVersion
    <3> QED
      BY <3>1, <1>r, <1>s DEF IssuedType
  <2> QED
    BY <1>10, <2>2, <2>4, <2>5, <1>t, <1>r DEF AppendVersion, TypeOK
<1>11. ASSUME NEW r \in Request, NEW d \in DOMAIN drafts, NEW k \in Key, ApproveDraft(r, d, k)
       PROVE  TypeOK'
  <2>1. d \in Nat
    BY <1>t, <1>r DEF TypeOK, DictOf
  <2> QED
    BY <1>10, <1>11, <2>1 DEF ApproveDraft
<1>12. ASSUME NEW r \in Request, NEW i \in DOMAIN versions, NEW k \in Key,
              RestoreVersion(r, i, k)
       PROVE  TypeOK'
  <2>1. versions[i] \in VersionType
    BY <1>t, <1>r DEF TypeOK
  <2>2. versions[i].draft \in Nat /\ versions[i].id \in Nat
    BY <2>1 DEF VersionType
  <2> QED
    BY <1>10, <1>12, <2>2 DEF RestoreVersion
<1>13. ASSUME NEW r \in Request, RecordVersion(r) PROVE TypeOK'
  <2>1. <<VersionKind(flight[r].phase), flight[r].key>> \in Kind \X Key
        /\ flight[r].answer \in Nat
    BY <1>13, FlightTyped, <1>t, <1>r DEF RecordVersion, Publishing, VersionKind, KeysHeld, Kind
  <2>2. DictOf(idempotency, Kind \X Key, Nat)'
    BY <1>13, <2>1, PutTyped, <1>t, <1>r DEF RecordVersion, TypeOK
  <2> QED
    BY <1>13, <2>2, IdleTyped, <1>t, <1>r DEF RecordVersion, TypeOK
<1>14. ASSUME NEW d \in DOMAIN drafts, RejectDraft(d) PROVE TypeOK'
  BY <1>14, <1>t, <1>r DEF RejectDraft, TypeOK, DictOf
<1>15. ASSUME NEW S \in SUBSET ({tournament.slots} \X Start), DeclareDisruption(S)
       PROVE  TypeOK'
  <2>1. S \in SUBSET (Nat \X Start)
    BY <1>t, <1>r
  <2>2. DictOf(disruptions, Nat, SUBSET (Nat \X Start))'
    BY <1>15, <2>1, PutTyped, <1>t, <1>s DEF DeclareDisruption, TypeOK
  <2>3. issued' \in IssuedType
    BY <1>15, <1>r, <1>s DEF DeclareDisruption, IssuedType
  <2> QED
    BY <1>15, <2>2, <2>3, <1>t, <1>r DEF DeclareDisruption, TypeOK
<1>16. ASSUME NEW r \in Request, NEW x \in DOMAIN disruptions, BeginRepair(r, x)
       PROVE  TypeOK'
  <2>1. Official.id \in Nat
    <3>1. versions # <<>> /\ versions \in Seq(VersionType)
      BY <1>t, <1>r DEF TypeOK, RecordsResolve
    <3>2. Official \in VersionType
      BY <3>1 DEF Official
    <3> QED
      BY <3>2 DEF VersionType
  <2>2. disruptions[x] \in SUBSET (Nat \X Start) /\ tournament \in TournamentType
    BY <1>t, <1>r DEF TypeOK, DictOf
  <2>3. [Idle EXCEPT !.phase = "repairing", !.basis = tournament, !.baseline = Official.id,
                     !.unavailable = disruptions[x]] \in FlightType
    BY <2>1, <2>2, IdleTyped DEF FlightType, Phase
  <2>4. flight' \in [Request -> FlightType] /\ activeJobs' \in 0..JobLimit
    BY <1>16, <2>3, <1>t, <1>r, <1>c DEF BeginRepair, TypeOK
  <2> QED
    BY <1>16, <2>4, <1>t, <1>r, <1>c DEF BeginRepair, workspace, TypeOK
<1>17. ASSUME NEW x \in DOMAIN disruptions, RefuseRepair(x) PROVE TypeOK'
  <2>1. activeJobs' \in 0..JobLimit
    BY <1>17, <1>t, <1>c DEF RefuseRepair, TypeOK
  <2> QED
    BY <1>17, <2>1, <1>t DEF RefuseRepair, workspace, TypeOK
<1>18. ASSUME NEW r \in Request, StoreRepair(r) PROVE TypeOK'
  <2> DEFINE basis == flight[r].basis
             free  == FreeStarts(basis, flight[r].unavailable)
  <2>0. basis \in TournamentType /\ flight[r].baseline \in Nat /\ Solving(r)
    BY <1>18, FlightTyped, <1>t, <1>r DEF StoreRepair, Solving
  <2>1. PICK p \in Feasible(free, 0) :
          drafts' = Put(drafts, issued.draft + 1, NewDraft(basis, p))
    BY <1>18 DEF StoreRepair
  <2>2. NewDraft(basis, p) \in DraftType
    <3>1. free \subseteq Start
      BY DEF FreeStarts
    <3>2. p \in Placement
      BY <3>1, FeasibleIsPlacement
    <3> QED
      BY <2>0, <3>2, NewDraftTyped, <1>t, <1>r
  <2>3. DictOf(drafts, Nat, DraftType)'
    BY <2>1, <2>2, PutTyped, <1>t, <1>s DEF TypeOK
  <2>4. DictOf(diffs, Nat, Nat)'
    BY <1>18, <2>0, PutTyped, <1>t, <1>s DEF StoreRepair, TypeOK
  <2>5. flight' \in [Request -> FlightType]
    <3>1. [Idle EXCEPT !.phase = "repaired"] \in FlightType
      BY IdleTyped DEF FlightType, Phase
    <3> QED
      BY <1>18, <3>1, <1>t, <1>r DEF StoreRepair, TypeOK
  <2>6. activeJobs' \in 0..JobLimit
    BY <1>18, <2>0, <1>t, <1>c DEF StoreRepair, TypeOK, SolverExclusive, InSolver
  <2>7. issued' \in IssuedType
    BY <1>18, <1>r, <1>s DEF StoreRepair, IssuedType
  <2> QED
    BY <1>18, <2>3, <2>4, <2>5, <2>6, <2>7, <1>t, <1>r, <1>c DEF StoreRepair, TypeOK
<1>19. ASSUME NEW r \in Request, FinishRepair(r) PROVE TypeOK'
  BY <1>19, IdleTyped, <1>t, <1>r DEF FinishRepair, workspace, TypeOK
<1> QED
  BY <1>1, <1>2, <1>3, <1>4, <1>5, <1>6, <1>7, <1>8, <1>9, <1>11, <1>12, <1>13, <1>14,
     <1>15, <1>16, <1>17, <1>18, <1>19
  DEF Next, Setup, Generation, Approval, Recovery

\* A request keeps the key it will record until it has recorded it.
LEMMA KeysStep == TypeInv /\ Next => KeysHeld'
<1> SUFFICES ASSUME TypeInv, Next PROVE KeysHeld'
  OBVIOUS
<1>t. KeysHeld /\ flight \in [Request -> FlightType]
  BY DEF TypeInv, TypeOK
<1>1. ASSUME UNCHANGED flight PROVE KeysHeld'
  BY <1>1, <1>t DEF KeysHeld
<1>2. ASSUME NEW r \in Request, NEW f, flight' = [flight EXCEPT ![r] = f],
             f.phase \in {"idle", "repairing", "repaired"} \/ f.key \in Key
      PROVE  KeysHeld'
  BY <1>2, <1>t DEF KeysHeld
<1>3. Setup => UNCHANGED flight
  BY DEF Setup, SaveSetup, PatchTournament, ConfirmConstraints, ResetWorkspace,
         ResetUnknownSample
<1>4. ASSUME Generation PROVE KeysHeld'
  <2>1. ASSUME NEW r \in Request, NEW k \in Key, BeginGeneration(r, k) PROVE KeysHeld'
    <3>1. [Idle EXCEPT !.phase = "generating", !.key = k, !.basis = tournament].key = k
      BY DEF Idle
    <3> QED
      BY <1>2, <2>1, <3>1 DEF BeginGeneration
  <2>2. ASSUME NEW r \in Request, StoreGeneration(r) PROVE KeysHeld'
    <3>1. flight[r].key \in Key
      BY <1>t, <2>2 DEF StoreGeneration, KeysHeld
    <3>2. [Idle EXCEPT !.phase = "generated", !.key = flight[r].key,
                       !.answer = issued.run + 1].key = flight[r].key
      BY DEF Idle
    <3> QED
      BY <1>2, <2>2, <3>1, <3>2 DEF StoreGeneration
  <2>3. ASSUME NEW r \in Request, FailGeneration(r) \/ FinishGeneration(r) PROVE KeysHeld'
    BY <1>2, <2>3 DEF FailGeneration, FinishGeneration, Idle
  <2>4. ASSUME NEW run \in DOMAIN runs, CancelRun(run) PROVE KeysHeld'
    BY <1>1, <2>4 DEF CancelRun
  <2> QED
    BY <1>4, <2>1, <2>2, <2>3, <2>4 DEF Generation
<1>5. ASSUME Approval PROVE KeysHeld'
  <2>1. ASSUME NEW r \in Request, NEW phase, NEW k \in Key, NEW d, NEW source,
               AppendVersion(r, phase, k, d, source)
        PROVE  KeysHeld'
    <3>1. [Idle EXCEPT !.phase = phase, !.key = k, !.answer = issued.version + 1].key = k
      BY DEF Idle
    <3> QED
      BY <1>2, <2>1, <3>1 DEF AppendVersion
  <2>2. ASSUME NEW r \in Request, RecordVersion(r) PROVE KeysHeld'
    BY <1>2, <2>2 DEF RecordVersion, Idle
  <2>3. ASSUME NEW d \in DOMAIN drafts, RejectDraft(d) PROVE KeysHeld'
    BY <1>1, <2>3 DEF RejectDraft
  <2> QED
    BY <1>5, <2>1, <2>2, <2>3 DEF Approval, ApproveDraft, RestoreVersion
<1>6. ASSUME Recovery PROVE KeysHeld'
  <2>1. ASSUME NEW S, DeclareDisruption(S) PROVE KeysHeld'
    BY <1>1, <2>1 DEF DeclareDisruption
  <2>2. ASSUME NEW r \in Request, NEW x \in DOMAIN disruptions, BeginRepair(r, x)
        PROVE  KeysHeld'
    <3>1. [Idle EXCEPT !.phase = "repairing", !.basis = tournament,
                       !.baseline = Official.id,
                       !.unavailable = disruptions[x]].phase = "repairing"
      BY DEF Idle
    <3> QED
      BY <1>2, <2>2, <3>1 DEF BeginRepair
  <2>3. ASSUME NEW x \in DOMAIN disruptions, RefuseRepair(x) PROVE KeysHeld'
    BY <1>1, <2>3 DEF RefuseRepair
  <2>4. ASSUME NEW r \in Request, StoreRepair(r) \/ FailRepair(r) \/ FinishRepair(r)
        PROVE  KeysHeld'
    BY <1>2, <2>4 DEF StoreRepair, FailRepair, FinishRepair, Idle
  <2> QED
    BY <1>6, <2>1, <2>2, <2>3, <2>4 DEF Recovery
<1> QED
  BY <1>1, <1>3, <1>4, <1>5, <1>6 DEF Next

\* A request enters the solver only when no other one is inside, with its job.
LEMMA SolverStep == TypeInv /\ Next => SolverExclusive'
<1> SUFFICES ASSUME TypeInv, Next PROVE SolverExclusive'
  OBVIOUS
<1>t. SolverExclusive /\ flight \in [Request -> FlightType] /\ activeJobs \in Nat
  BY ConstantsAssumption DEF TypeInv, TypeOK
<1>1. ASSUME UNCHANGED flight, activeJobs' = activeJobs \/ activeJobs' = activeJobs + 1
      PROVE  SolverExclusive'
  BY <1>1, <1>t DEF SolverExclusive, Solving, InSolver
<1>2. ASSUME NEW r \in Request, NEW f, flight' = [flight EXCEPT ![r] = f],
             LoopFree, activeJobs' = activeJobs + 1
      PROVE  SolverExclusive'
  BY <1>2, <1>t DEF SolverExclusive, Solving, InSolver, LoopFree
<1>3. ASSUME NEW r \in Request, NEW f, flight' = [flight EXCEPT ![r] = f],
             f.phase \notin {"generating", "repairing"},
             Solving(r) \/ UNCHANGED activeJobs
      PROVE  SolverExclusive'
  <2>1. \A q \in Request : Solving(q)' => q # r /\ Solving(q)
    BY <1>3, <1>t DEF Solving
  <2>2. CASE Solving(r)
    BY <2>1, <2>2, <1>t DEF SolverExclusive, InSolver
  <2>3. CASE UNCHANGED activeJobs
    BY <2>1, <2>3, <1>t DEF SolverExclusive, InSolver
  <2> QED
    BY <1>3, <2>2, <2>3
<1>4. Setup => UNCHANGED <<flight, activeJobs>>
  BY DEF Setup, SaveSetup, PatchTournament, ConfirmConstraints, ResetWorkspace,
         ResetUnknownSample
<1>5. ASSUME Generation PROVE SolverExclusive'
  <2>1. ASSUME NEW r \in Request, NEW k \in Key, BeginGeneration(r, k)
        PROVE  SolverExclusive'
    BY <1>2, <2>1 DEF BeginGeneration
  <2>2. ASSUME NEW r \in Request, StoreGeneration(r) PROVE SolverExclusive'
    <3>1. [Idle EXCEPT !.phase = "generated", !.key = flight[r].key,
                       !.answer = issued.run + 1].phase = "generated"
      BY DEF Idle
    <3>2. Solving(r)
      BY <2>2 DEF StoreGeneration, Solving
    <3> QED
      BY <1>3, <2>2, <3>1, <3>2 DEF StoreGeneration
  <2>3. ASSUME NEW r \in Request, FailGeneration(r) \/ FinishGeneration(r)
        PROVE  SolverExclusive'
    BY <1>3, <2>3 DEF FailGeneration, FinishGeneration, Idle, Solving
  <2>4. ASSUME NEW run \in DOMAIN runs, CancelRun(run) PROVE SolverExclusive'
    BY <1>1, <2>4 DEF CancelRun
  <2> QED
    BY <1>5, <2>1, <2>2, <2>3, <2>4 DEF Generation
<1>6. ASSUME Approval PROVE SolverExclusive'
  <2>1. ASSUME NEW r \in Request, NEW phase \in {"approving", "restoring"}, NEW k, NEW d,
               NEW source, AppendVersion(r, phase, k, d, source)
        PROVE  SolverExclusive'
    <3>1. [Idle EXCEPT !.phase = phase, !.key = k,
                       !.answer = issued.version + 1].phase = phase
      BY DEF Idle
    <3> QED
      BY <1>3, <2>1, <3>1 DEF AppendVersion
  <2>2. ASSUME NEW r \in Request, RecordVersion(r) PROVE SolverExclusive'
    BY <1>3, <2>2 DEF RecordVersion, Idle
  <2>3. ASSUME NEW d \in DOMAIN drafts, RejectDraft(d) PROVE SolverExclusive'
    BY <1>1, <2>3 DEF RejectDraft
  <2> QED
    BY <1>6, <2>1, <2>2, <2>3 DEF Approval, ApproveDraft, RestoreVersion
<1>7. ASSUME Recovery PROVE SolverExclusive'
  <2>1. ASSUME NEW S, DeclareDisruption(S) PROVE SolverExclusive'
    BY <1>1, <2>1 DEF DeclareDisruption
  <2>2. ASSUME NEW r \in Request, NEW x \in DOMAIN disruptions, BeginRepair(r, x)
        PROVE  SolverExclusive'
    BY <1>2, <2>2 DEF BeginRepair
  <2>3. ASSUME NEW x \in DOMAIN disruptions, RefuseRepair(x) PROVE SolverExclusive'
    BY <1>1, <2>3 DEF RefuseRepair
  <2>4. ASSUME NEW r \in Request, StoreRepair(r) \/ FailRepair(r) \/ FinishRepair(r)
        PROVE  SolverExclusive'
    BY <1>3, <2>4 DEF StoreRepair, FailRepair, FinishRepair, Idle, Solving
  <2> QED
    BY <1>7, <2>1, <2>2, <2>3, <2>4 DEF Recovery
<1> QED
  BY <1>1, <1>4, <1>5, <1>6, <1>7 DEF Next

\* Only what exists is referred to, and a reset forgets the references with
\* what they refer to.
LEMMA ResolveStep == TypeInv /\ Next => RecordsResolve'
<1> SUFFICES ASSUME TypeInv, Next PROVE RecordsResolve'
  OBVIOUS
<1>t. TypeOK /\ RecordsResolve
  BY DEF TypeInv
<1>1. ASSUME UNCHANGED <<drafts, rejected, diffs, runs, versions, disruptions>>
      PROVE  RecordsResolve'
  BY <1>1, <1>t DEF RecordsResolve
<1>2. ASSUME ClearTournamentState PROVE RecordsResolve'
  BY <1>2, EmptyTyped DEF ClearTournamentState, RecordsResolve
<1>3. ASSUME Setup PROVE RecordsResolve'
  BY <1>1, <1>2, <1>3 DEF Setup, SaveSetup, PatchTournament, ConfirmConstraints,
                          ResetWorkspace, ResetUnknownSample
<1>4. ASSUME NEW r \in Request, StoreGeneration(r) PROVE RecordsResolve'
  <2> DEFINE new == (issued.draft + 1)..(issued.draft + Profiles)
             run == issued.run + 1
             record == [status |-> "completed", drafts |-> new, key |-> flight[r].key]
  <2>1. DOMAIN drafts' = DOMAIN drafts \cup new
    BY <1>4 DEF StoreGeneration
  <2>2. /\ DOMAIN runs' = DOMAIN runs \cup {run}
        /\ runs'[run] = record
        /\ \A x \in DOMAIN runs \ {run} : runs'[x] = runs[x]
    BY <1>4 DEF StoreGeneration, Put
  <2>3. \A x \in DOMAIN runs' : runs'[x].drafts \subseteq DOMAIN drafts'
    <3>1. ASSUME NEW x \in DOMAIN runs' PROVE runs'[x].drafts \subseteq DOMAIN drafts'
      <4>1. CASE x = run
        <5>1. runs'[run] = record
          BY <2>2
        <5>2. record.drafts = new
          OBVIOUS
        <5> HIDE DEF new, run, record
        <5> QED
          BY <2>1, <4>1, <5>1, <5>2
      <4>2. CASE x \in DOMAIN runs \ {run}
        BY <2>1, <2>2, <4>2, <1>t DEF RecordsResolve
      <4> QED
        BY <2>2, <3>1, <4>1, <4>2
    <3> QED
      BY <3>1
  <2> QED
    BY <1>4, <2>1, <2>3, <1>t DEF StoreGeneration, RecordsResolve
<1>5. ASSUME NEW run \in DOMAIN runs, CancelRun(run) PROVE RecordsResolve'
  <2>1. /\ DOMAIN runs' = DOMAIN runs
        /\ \A x \in DOMAIN runs : runs'[x].drafts = runs[x].drafts
    <3>1. \A x \in DOMAIN runs : runs[x] \in RunType
      BY <1>t DEF TypeOK, DictOf
    <3> QED
      BY <1>5, <3>1 DEF CancelRun, RunType
  <2> QED
    BY <1>5, <2>1, <1>t DEF CancelRun, RecordsResolve
<1>6. ASSUME NEW r \in Request, NEW phase, NEW k, NEW d \in DOMAIN drafts, NEW source \in Nat,
             d \in Nat, AppendVersion(r, phase, k, d, source)
      PROVE  RecordsResolve'
  <2> DEFINE v == [id |-> issued.version + 1, number |-> Len(versions) + 1, draft |-> d,
                   restoredFrom |-> source]
  <2>1. v \in VersionType
    <3>1. Len(versions) + 1 \in Nat
      BY <1>t DEF TypeOK
    <3>2. issued.version + 1 \in Nat
      BY <1>t, RecordsTyped
    <3> QED
      BY <1>6, <3>1, <3>2 DEF VersionType
  <2>2. versions' = Append(versions, v)
    BY <1>6 DEF AppendVersion
  <2>3. \A i \in DOMAIN versions' : versions'[i].draft \in DOMAIN drafts
    <3>1. ASSUME NEW i \in DOMAIN versions' PROVE versions'[i].draft \in DOMAIN drafts
      <4>1. CASE i = Len(versions) + 1
        BY <2>1, <2>2, <4>1, <1>t, AppendTyped
      <4>2. CASE i \in 1..Len(versions)
        BY <2>1, <2>2, <4>2, <1>t, AppendTyped DEF RecordsResolve
      <4> QED
        BY <2>1, <2>2, <3>1, <4>1, <4>2, <1>t, AppendTyped
    <3> QED
      BY <3>1
  <2>4. versions' # <<>>
    BY <2>1, <2>2, <1>t, AppendTyped
  <2> QED
    BY <1>6, <2>3, <2>4, <1>t DEF AppendVersion, RecordsResolve
<1>7. ASSUME NEW r \in Request, NEW d \in DOMAIN drafts, NEW k \in Key, ApproveDraft(r, d, k)
      PROVE  RecordsResolve'
  <2>1. d \in Nat
    BY <1>t DEF TypeOK, DictOf
  <2> QED
    BY <1>6, <1>7, <2>1 DEF ApproveDraft
<1>8. ASSUME NEW r \in Request, NEW i \in DOMAIN versions, NEW k \in Key,
             RestoreVersion(r, i, k)
      PROVE  RecordsResolve'
  <2>1. versions[i] \in VersionType /\ versions[i].draft \in DOMAIN drafts
    BY <1>t DEF TypeOK, RecordsResolve
  <2>2. versions[i].draft \in Nat /\ versions[i].id \in Nat
    BY <2>1 DEF VersionType
  <2> QED
    BY <1>6, <1>8, <2>1, <2>2 DEF RestoreVersion
<1>9. ASSUME NEW d \in DOMAIN drafts, RejectDraft(d) PROVE RecordsResolve'
  BY <1>9, <1>t DEF RejectDraft, RecordsResolve
<1>10. ASSUME NEW S, DeclareDisruption(S) PROVE RecordsResolve'
  BY <1>10, <1>t DEF DeclareDisruption, RecordsResolve
<1>11. ASSUME NEW r \in Request, StoreRepair(r) PROVE RecordsResolve'
  <2>1. DOMAIN drafts' = DOMAIN drafts \cup {issued.draft + 1}
    BY <1>11 DEF StoreRepair, Put
  <2>2. DOMAIN diffs' = DOMAIN diffs \cup {issued.draft + 1}
    BY <1>11 DEF StoreRepair, Put
  <2> QED
    BY <1>11, <2>1, <2>2, <1>t DEF StoreRepair, RecordsResolve
<1>12. ASSUME Generation PROVE RecordsResolve'
  BY <1>1, <1>4, <1>5, <1>12 DEF Generation, BeginGeneration, FailGeneration,
                                 FinishGeneration, workspace
<1>13. ASSUME Approval PROVE RecordsResolve'
  BY <1>1, <1>7, <1>8, <1>9, <1>13 DEF Approval, RecordVersion
<1>14. ASSUME Recovery PROVE RecordsResolve'
  BY <1>1, <1>10, <1>11, <1>14 DEF Recovery, BeginRepair, RefuseRepair, FailRepair,
                                  FinishRepair, workspace
<1> QED
  BY <1>3, <1>12, <1>13, <1>14 DEF Next

\* The initial state.
LEMMA TypeInit == Init => TypeInv
<1> SUFFICES ASSUME Init PROVE TypeInv
  OBVIOUS
<1>1. TypeOK
  BY ConstantsAssumption, SampleTyped, IdleTyped, EmptyTyped DEF Init, TypeOK, IssuedType
<1>2. KeysHeld /\ SolverExclusive
  BY DEF Init, KeysHeld, SolverExclusive, InSolver, Solving, Idle
<1>3. RecordsResolve
  BY EmptyTyped DEF Init, RecordsResolve
<1> QED
  BY <1>1, <1>2, <1>3 DEF TypeInv

LEMMA TypeStutter == TypeInv /\ UNCHANGED vars => TypeInv'
BY DEF TypeInv, vars, TypeOK, KeysHeld, SolverExclusive, InSolver, Solving, RecordsResolve

\* The workspace keeps its shape, a recorded key is a real key and the job counter
\* stays between zero and its limit, whatever overlaps.
THEOREM TypeCorrect == Spec => []TypeInv
<1>1. TypeInv /\ [Next]_vars => TypeInv'
  BY TypeStep, KeysStep, SolverStep, ResolveStep, TypeStutter DEF TypeInv
<1> QED
  BY <1>1, TypeInit, PTL DEF Spec

\* The same for the type invariant the runs check.
THEOREM TypeCorrectness == Spec => []TypeOK
<1>1. TypeInv => TypeOK
  BY DEF TypeInv
<1> QED
  BY <1>1, TypeCorrect, PTL

\* No handler follows a dangling identifier, whatever overlaps: versions, runs,
\* diffs and rejections name stored drafts, and a disruption has an official
\* schedule to repair.
THEOREM RecordsAlwaysResolve == Spec => []RecordsResolve
<1>1. TypeInv => RecordsResolve
  BY DEF TypeInv
<1> QED
  BY <1>1, TypeCorrect, PTL

-----------------------------------------------------------------------------
(* The official history                                                    *)

\* The version a step appends and the history it leaves.
LEMMA AppendedHistory ==
  ASSUME TypeInv, NEW r \in Request, NEW phase, NEW k, NEW d \in Nat, NEW source \in Nat,
         AppendVersion(r, phase, k, d, source)
  PROVE  /\ Len(versions) \in Nat /\ DOMAIN versions = 1..Len(versions)
         /\ DOMAIN versions' = 1..(Len(versions) + 1)
         /\ Len(versions') = Len(versions) + 1
         /\ \A i \in 1..Len(versions) : versions'[i] = versions[i]
         /\ versions'[Len(versions) + 1].id = issued.version + 1
         /\ versions'[Len(versions) + 1].draft = d
         /\ versions'[Len(versions) + 1].restoredFrom = source
<1> DEFINE v == [id |-> issued.version + 1, number |-> Len(versions) + 1, draft |-> d,
                 restoredFrom |-> source]
<1>1. TypeOK /\ Len(versions) + 1 \in Nat /\ issued.version + 1 \in Nat
  BY RecordsTyped DEF TypeInv, TypeOK
<1>2. v \in VersionType
  BY <1>1 DEF VersionType
<1>3. versions' = Append(versions, v)
  BY DEF AppendVersion
<1>4. v.id = issued.version + 1 /\ v.draft = d /\ v.restoredFrom = source
  OBVIOUS
<1> HIDE DEF v
<1> QED
  BY <1>1, <1>2, <1>3, <1>4, AppendTyped

\* Identifiers are issued once.
LEMMA IdsStep == TypeInv /\ IdsIssued /\ Next => IdsIssued'
<1> SUFFICES ASSUME TypeInv, IdsIssued, Next PROVE IdsIssued'
  OBVIOUS
<1>r. /\ issued \in IssuedType /\ issued.draft \in Nat /\ issued.version \in Nat
      /\ Profiles \in Nat
  BY RecordsTyped, ConstantsAssumption DEF TypeInv
<1>1. ASSUME UNCHANGED <<drafts, versions>>, issued'.draft = issued.draft,
             issued'.version = issued.version
      PROVE  IdsIssued'
  BY <1>1 DEF IdsIssued
<1>2. ASSUME ClearTournamentState, UNCHANGED issued PROVE IdsIssued'
  BY <1>2, EmptyTyped DEF ClearTournamentState, IdsIssued
<1>3. ASSUME NEW n \in Nat, issued'.draft = issued.draft + n,
             issued'.version = issued.version, UNCHANGED versions,
             DOMAIN drafts' = DOMAIN drafts \cup (issued.draft + 1)..(issued.draft + n)
      PROVE  IdsIssued'
  BY <1>3, <1>r DEF IdsIssued
<1>4. ASSUME Setup PROVE IdsIssued'
  <2>1. ASSUME NEW k \in Key, NEW rest \in 0..MaxRest, SaveSetup(k, rest) PROVE IdsIssued'
    BY <1>1, <1>r, <2>1 DEF SaveSetup, IssuedType
  <2>2. ASSUME NEW ready, NEW newSlots, PatchTournament(ready, newSlots) PROVE IdsIssued'
    BY <1>1, <1>r, <2>2 DEF PatchTournament, IssuedType
  <2> QED
    BY <1>1, <1>2, <1>4, <2>1, <2>2
    DEF Setup, ConfirmConstraints, ResetWorkspace, ResetUnknownSample
<1>5. ASSUME Generation PROVE IdsIssued'
  <2>1. ASSUME NEW r \in Request, StoreGeneration(r) PROVE IdsIssued'
    <3>1. issued'.draft = issued.draft + Profiles /\ issued'.version = issued.version
      BY <2>1, <1>r DEF StoreGeneration, IssuedType
    <3>2. DOMAIN drafts' = DOMAIN drafts \cup (issued.draft + 1)..(issued.draft + Profiles)
      BY <2>1 DEF StoreGeneration
    <3> QED
      BY <1>3, <1>r, <2>1, <3>1, <3>2 DEF StoreGeneration
  <2> QED
    BY <1>1, <1>5, <2>1 DEF Generation, BeginGeneration, FailGeneration, FinishGeneration,
                            CancelRun, workspace
<1>6. ASSUME NEW r \in Request, NEW phase, NEW k, NEW d \in Nat, NEW source \in Nat,
             AppendVersion(r, phase, k, d, source)
      PROVE  IdsIssued'
  <2>1. issued'.draft = issued.draft /\ issued'.version = issued.version + 1
    BY <1>6, <1>r DEF AppendVersion, IssuedType
  <2>2. \A i \in DOMAIN versions' : versions'[i].id \in 1..(issued.version + 1)
    BY <1>6, <1>r, AppendedHistory DEF IdsIssued
  <2>3. \A i, j \in DOMAIN versions' : i < j => versions'[i].id < versions'[j].id
    <3>1. ASSUME NEW i \in DOMAIN versions', NEW j \in DOMAIN versions', i < j
          PROVE  versions'[i].id < versions'[j].id
      <4>1. i \in 1..Len(versions) /\ versions'[i] = versions[i]
        BY <1>6, <3>1, AppendedHistory
      <4>2. CASE j = Len(versions) + 1
        BY <1>6, <1>r, <4>1, <4>2, AppendedHistory DEF IdsIssued
      <4>3. CASE j \in 1..Len(versions)
        BY <1>6, <3>1, <4>1, <4>3, AppendedHistory DEF IdsIssued
      <4> QED
        BY <1>6, <4>2, <4>3, AppendedHistory
    <3> QED
      BY <3>1
  <2> QED
    BY <1>6, <2>1, <2>2, <2>3 DEF AppendVersion, IdsIssued
<1>7. ASSUME Approval PROVE IdsIssued'
  <2>1. \A d \in DOMAIN drafts : d \in Nat
    BY DEF TypeInv, TypeOK, DictOf
  <2>2. ASSUME NEW i \in DOMAIN versions
        PROVE  versions[i].draft \in Nat /\ versions[i].id \in Nat
    <3>1. versions[i] \in VersionType
      BY DEF TypeInv, TypeOK
    <3> QED
      BY <3>1 DEF VersionType
  <2>3. ASSUME NEW r \in Request, NEW d \in DOMAIN drafts, NEW k \in Key,
               ApproveDraft(r, d, k)
        PROVE  IdsIssued'
    BY <1>6, <2>1, <2>3 DEF ApproveDraft
  <2>4. ASSUME NEW r \in Request, NEW i \in DOMAIN versions, NEW k \in Key,
               RestoreVersion(r, i, k)
        PROVE  IdsIssued'
    BY <1>6, <2>2, <2>4 DEF RestoreVersion
  <2> QED
    BY <1>1, <1>7, <2>3, <2>4 DEF Approval, RejectDraft, RecordVersion
<1>8. ASSUME Recovery PROVE IdsIssued'
  <2>1. ASSUME NEW S, DeclareDisruption(S) PROVE IdsIssued'
    BY <1>1, <1>r, <2>1 DEF DeclareDisruption, IssuedType
  <2>2. ASSUME NEW r \in Request, StoreRepair(r) PROVE IdsIssued'
    <3>1. issued'.draft = issued.draft + 1 /\ issued'.version = issued.version
      BY <2>2, <1>r DEF StoreRepair, IssuedType
    <3>2. DOMAIN drafts' = DOMAIN drafts \cup {issued.draft + 1}
      BY <2>2 DEF StoreRepair, Put
    <3> QED
      BY <1>3, <1>r, <2>2, <3>1, <3>2 DEF StoreRepair
  <2> QED
    BY <1>1, <1>8, <2>1, <2>2 DEF Recovery, BeginRepair, RefuseRepair, FailRepair,
                                  FinishRepair, workspace
<1> QED
  BY <1>4, <1>5, <1>7, <1>8 DEF Next

\* A repair is published only on top of its baseline: a repair draft has a new
\* identifier, so no earlier version becomes a repair, and approval compares the
\* baseline with the version it appends to.
LEMMA BaselineStep ==
  TypeInv /\ IdsIssued /\ RepairsExtendBaseline /\ Next => RepairsExtendBaseline'
<1> SUFFICES ASSUME TypeInv, IdsIssued, RepairsExtendBaseline, Next
             PROVE  RepairsExtendBaseline'
  OBVIOUS
<1>1. ASSUME UNCHANGED <<diffs, versions>> PROVE RepairsExtendBaseline'
  BY <1>1 DEF RepairsExtendBaseline
<1>2. ASSUME ClearTournamentState PROVE RepairsExtendBaseline'
  BY <1>2 DEF ClearTournamentState, RepairsExtendBaseline
<1>3. ASSUME NEW r \in Request, StoreRepair(r) PROVE RepairsExtendBaseline'
  <2> DEFINE d == issued.draft + 1
  <2>1. UNCHANGED versions /\ DOMAIN diffs' = DOMAIN diffs \cup {d}
        /\ \A x \in DOMAIN diffs \ {d} : diffs'[x] = diffs[x]
    BY <1>3 DEF StoreRepair, Put
  <2>2. \A i \in DOMAIN versions : versions[i].draft # d
    <3>1. d \notin DOMAIN drafts
      BY RecordsTyped DEF TypeInv, IdsIssued
    <3> QED
      BY <3>1 DEF TypeInv, RecordsResolve
  <2> HIDE DEF d
  <2> QED
    BY <2>1, <2>2 DEF RepairsExtendBaseline
<1>4. ASSUME NEW r \in Request, NEW phase, NEW k, NEW d \in Nat, NEW source \in Nat,
             AppendVersion(r, phase, k, d, source), source = 0 => BaselineIsCurrent(d)
      PROVE  RepairsExtendBaseline'
  <2>1. UNCHANGED diffs
    BY <1>4 DEF AppendVersion
  <2>2. ASSUME NEW i \in DOMAIN versions', versions'[i].restoredFrom = 0,
               versions'[i].draft \in DOMAIN diffs
        PROVE  i > 1 /\ diffs[versions'[i].draft] = versions'[i - 1].id
    <3>1. CASE i \in 1..Len(versions)
      <4>1. i > 1 /\ diffs[versions[i].draft] = versions[i - 1].id
        BY <1>4, <2>2, <3>1, AppendedHistory DEF RepairsExtendBaseline
      <4>2. versions'[i] = versions[i] /\ versions'[i - 1] = versions[i - 1]
        BY <1>4, <3>1, <4>1, AppendedHistory
      <4> QED
        BY <4>1, <4>2
    <3>2. CASE i = Len(versions) + 1
      <4>1. versions # <<>> /\ diffs[d] = versions[Len(versions)].id
            /\ versions'[i].draft = d
        BY <1>4, <2>2, <3>2, AppendedHistory DEF BaselineIsCurrent, Official
      <4>2. Len(versions) \in Nat /\ Len(versions) # 0
        BY <4>1 DEF TypeInv, TypeOK
      <4>3. versions'[i - 1] = versions[Len(versions)]
        BY <1>4, <3>2, <4>2, AppendedHistory
      <4> QED
        BY <3>2, <4>1, <4>2, <4>3
    <3> QED
      BY <1>4, <3>1, <3>2, AppendedHistory
  <2> QED
    BY <2>1, <2>2 DEF RepairsExtendBaseline
<1>5. ASSUME Setup PROVE RepairsExtendBaseline'
  BY <1>1, <1>2, <1>5 DEF Setup, SaveSetup, PatchTournament, ConfirmConstraints,
                          ResetWorkspace, ResetUnknownSample
<1>6. ASSUME Generation PROVE RepairsExtendBaseline'
  BY <1>1, <1>6 DEF Generation, BeginGeneration, StoreGeneration, FailGeneration,
                    FinishGeneration, CancelRun, workspace
<1>7. ASSUME Approval PROVE RepairsExtendBaseline'
  <2>1. ASSUME NEW r \in Request, NEW d \in DOMAIN drafts, NEW k \in Key,
               ApproveDraft(r, d, k)
        PROVE  RepairsExtendBaseline'
    <3>1. d \in Nat
      BY DEF TypeInv, TypeOK, DictOf
    <3> QED
      BY <1>4, <2>1, <3>1 DEF ApproveDraft
  <2>2. ASSUME NEW r \in Request, NEW i \in DOMAIN versions, NEW k \in Key,
               RestoreVersion(r, i, k)
        PROVE  RepairsExtendBaseline'
    <3>1. versions[i] \in VersionType /\ versions[i].id # 0
      BY RecordsTyped DEF TypeInv, TypeOK, IdsIssued
    <3>2. versions[i].draft \in Nat /\ versions[i].id \in Nat
      BY <3>1 DEF VersionType
    <3> QED
      BY <1>4, <2>2, <3>1, <3>2 DEF RestoreVersion
  <2> QED
    BY <1>1, <1>7, <2>1, <2>2 DEF Approval, RejectDraft, RecordVersion
<1>8. ASSUME Recovery PROVE RepairsExtendBaseline'
  BY <1>1, <1>3, <1>8 DEF Recovery, DeclareDisruption, BeginRepair, RefuseRepair,
                          FailRepair, FinishRepair, workspace
<1> QED
  BY <1>5, <1>6, <1>7, <1>8 DEF Next

\* The inductive invariant of the official history.
THEOREM HistoryInvariant == Spec => []HistoryInv
<1>1. Init => HistoryInv
  BY TypeInit, EmptyTyped DEF Init, HistoryInv, IdsIssued, RepairsExtendBaseline
<1>2. HistoryInv /\ [Next]_vars => HistoryInv'
  <2>1. HistoryInv /\ Next => HistoryInv'
    BY TypeStep, KeysStep, SolverStep, ResolveStep, IdsStep, BaselineStep
    DEF HistoryInv, TypeInv
  <2>2. HistoryInv /\ UNCHANGED vars => HistoryInv'
    BY TypeStutter DEF HistoryInv, IdsIssued, RepairsExtendBaseline, vars
  <2> QED
    BY <2>1, <2>2
<1> QED
  BY <1>1, <1>2, PTL DEF Spec

\* A repair becomes official only directly on top of the version it repairs,
\* whatever is approved, restored or reset while the solver works.
THEOREM RepairsAlwaysExtendBaseline == Spec => []RepairsExtendBaseline
<1>1. HistoryInv => RepairsExtendBaseline
  BY DEF HistoryInv
<1> QED
  BY <1>1, HistoryInvariant, PTL

\* No repair draft is approved twice, although approve_draft has no guard of its own
\* against approving the same draft again under another Idempotency-Key.
RepairsApprovedOnce ==
  \A i, j \in DOMAIN versions :
    /\ versions[i].restoredFrom = 0 /\ versions[j].restoredFrom = 0
    /\ versions[i].draft = versions[j].draft /\ versions[i].draft \in DOMAIN diffs
    => i = j

\* The baseline check alone gives it: two approvals of one repair would have the
\* same version below them.
THEOREM RepairsAlwaysApprovedOnce == Spec => []RepairsApprovedOnce
<1>1. HistoryInv => RepairsApprovedOnce
  <2> SUFFICES ASSUME HistoryInv, NEW i \in DOMAIN versions, NEW j \in DOMAIN versions,
                      versions[i].restoredFrom = 0, versions[j].restoredFrom = 0,
                      versions[i].draft = versions[j].draft,
                      versions[i].draft \in DOMAIN diffs
               PROVE  i = j
    BY DEF RepairsApprovedOnce
  <2>1. i > 1 /\ j > 1 /\ versions[i - 1].id = versions[j - 1].id
    BY DEF HistoryInv, RepairsExtendBaseline
  <2>2. DOMAIN versions = 1..Len(versions) /\ Len(versions) \in Nat
    BY DEF HistoryInv, TypeInv, TypeOK
  <2>3. i - 1 \in DOMAIN versions /\ j - 1 \in DOMAIN versions
    BY <2>1, <2>2
  <2>4. /\ versions[i - 1].id \in Nat /\ versions[j - 1].id \in Nat
    BY <2>3, RecordsTyped DEF HistoryInv, TypeInv, IdsIssued
  <2>5. ~(i - 1 < j - 1) /\ ~(j - 1 < i - 1)
    BY <2>1, <2>3, <2>4 DEF HistoryInv, IdsIssued
  <2> QED
    BY <2>2, <2>5
<1> QED
  BY <1>1, HistoryInvariant, PTL

\* Official versions are never rewritten: a step appends one or a reset clears all.
THEOREM HistoryAlwaysImmutable == Spec => HistoryImmutable
<1> DEFINE Grows == versions' = <<>> \/ (/\ Len(versions) <= Len(versions')
                                         /\ \A i \in DOMAIN versions : versions'[i] = versions[i])
<1>1. ASSUME TypeInv, Next PROVE Grows
  <2>1. ASSUME UNCHANGED versions PROVE Grows
    BY <1>1, <2>1 DEF TypeInv, TypeOK
  <2>2. ASSUME NEW r \in Request, NEW phase, NEW k, NEW d \in Nat, NEW source \in Nat,
               AppendVersion(r, phase, k, d, source)
        PROVE  Grows
    BY <1>1, <2>2, AppendedHistory
  <2>3. ASSUME NEW r \in Request, NEW d \in DOMAIN drafts, NEW k \in Key,
               ApproveDraft(r, d, k)
        PROVE  Grows
    <3>1. d \in Nat
      BY <1>1 DEF TypeInv, TypeOK, DictOf
    <3> HIDE DEF Grows
    <3> QED
      BY <2>2, <2>3, <3>1 DEF ApproveDraft
  <2>4. ASSUME NEW r \in Request, NEW i \in DOMAIN versions, NEW k \in Key,
               RestoreVersion(r, i, k)
        PROVE  Grows
    <3>1. versions[i] \in VersionType
      BY <1>1 DEF TypeInv, TypeOK
    <3>2. versions[i].draft \in Nat /\ versions[i].id \in Nat
      BY <3>1 DEF VersionType
    <3> HIDE DEF Grows
    <3> QED
      BY <2>2, <2>4, <3>2 DEF RestoreVersion
  <2>5. ASSUME ClearTournamentState PROVE Grows
    BY <2>5 DEF ClearTournamentState
  <2> HIDE DEF Grows
  <2>6. Setup => Grows
    BY <2>1, <2>5 DEF Setup, SaveSetup, PatchTournament, ConfirmConstraints,
                      ResetWorkspace, ResetUnknownSample
  <2>7. Generation => Grows
    BY <2>1 DEF Generation, BeginGeneration, StoreGeneration, FailGeneration,
                FinishGeneration, CancelRun, workspace
  <2>8. Approval => Grows
    BY <2>1, <2>3, <2>4 DEF Approval, RejectDraft, RecordVersion
  <2>9. Recovery => Grows
    BY <2>1 DEF Recovery, DeclareDisruption, BeginRepair, RefuseRepair, StoreRepair,
                FailRepair, FinishRepair, workspace
  <2> QED
    BY <1>1, <2>6, <2>7, <2>8, <2>9 DEF Next
<1>2. TypeInv /\ [Next]_vars => [Grows]_vars
  BY <1>1
<1> QED
  BY <1>2, TypeCorrect, PTL DEF Spec, HistoryImmutable

-----------------------------------------------------------------------------
(* The handlers implement the abstract official history                     *)

\* Identifiers of drafts stay within the drafts of the abstract history.
DraftsBounded == issued.draft <= MaxDraft

LEMMA BoundedStep == TypeInv /\ DraftsBounded /\ Next => DraftsBounded'
<1> SUFFICES ASSUME TypeInv, DraftsBounded, Next PROVE DraftsBounded'
  OBVIOUS
<1>t. issued \in IssuedType
  BY DEF TypeInv, TypeOK
<1>1. ASSUME UNCHANGED issued PROVE DraftsBounded'
  BY <1>1 DEF DraftsBounded
<1>2. ASSUME issued'.draft = issued.draft PROVE DraftsBounded'
  BY <1>2 DEF DraftsBounded
<1>3. Setup => issued'.draft = issued.draft
  BY <1>t DEF Setup, SaveSetup, PatchTournament, ConfirmConstraints, ResetWorkspace,
              ResetUnknownSample, IssuedType
<1>4. ASSUME NEW r \in Request, StoreGeneration(r) PROVE DraftsBounded'
  BY <1>4, <1>t DEF StoreGeneration, DraftsBounded, IssuedType
<1>5. ASSUME Generation, ~\E r \in Request : StoreGeneration(r) PROVE UNCHANGED issued
  BY <1>5 DEF Generation, BeginGeneration, FailGeneration, FinishGeneration, CancelRun
<1>6. Approval => issued'.draft = issued.draft
  BY <1>t DEF Approval, ApproveDraft, RejectDraft, RestoreVersion, RecordVersion,
              AppendVersion, IssuedType
<1>7. ASSUME NEW r \in Request, StoreRepair(r) PROVE DraftsBounded'
  BY <1>7, <1>t DEF StoreRepair, DraftsBounded, IssuedType
<1>8. ASSUME Recovery, ~\E r \in Request : StoreRepair(r) PROVE issued'.draft = issued.draft
  BY <1>8, <1>t DEF Recovery, DeclareDisruption, BeginRepair, RefuseRepair, FailRepair,
                    FinishRepair, IssuedType
<1> QED
  BY <1>1, <1>2, <1>3, <1>4, <1>5, <1>6, <1>7, <1>8 DEF Next

\* A version appended by a handler is a version published in the abstract history.
LEMMA AppendPublishes ==
  ASSUME HistoryInv, DraftsBounded, NEW r \in Request, NEW phase, NEW k,
         NEW d \in DOMAIN drafts, NEW source \in Nat,
         source = 0 \/ \E i \in DOMAIN versions : versions[i].id = source
                                                  /\ versions[i].draft = d,
         AppendVersion(r, phase, k, d, source)
  PROVE  History!Next
<1>t. issued \in IssuedType /\ issued.version \in Nat /\ issued.draft \in Nat
  BY RecordsTyped DEF HistoryInv, TypeInv
<1>1. d \in 1..MaxDraft
  <2>1. d \in 1..issued.draft
    BY DEF HistoryInv, IdsIssued
  <2> QED
    BY <2>1, <1>t, ConstantsAssumption DEF DraftsBounded
<1>2. source \in 0..issued.version
  BY <1>t DEF HistoryInv, IdsIssued
<1>3. /\ versions' = Append(versions, [id |-> issued.version + 1, number |-> Len(versions) + 1,
                                       draft |-> d, restoredFrom |-> source])
      /\ issued'.version = issued.version + 1
  BY <1>t DEF AppendVersion, IssuedType
<1>4. source # 0 => History!Carries(source, d)
  BY DEF History!Carries
<1>5. History!Publish(d, source)
  BY <1>3, <1>4 DEF History!Publish
<1> QED
  BY <1>1, <1>2, <1>5 DEF History!Next

\* Every step of the handlers is a step of the abstract history or leaves it alone.
LEMMA HistoryStep ==
  HistoryInv /\ DraftsBounded /\ Next => History!Next \/ UNCHANGED <<versions, issued.version>>
<1> SUFFICES ASSUME HistoryInv, DraftsBounded, Next
             PROVE  History!Next \/ UNCHANGED <<versions, issued.version>>
  OBVIOUS
<1>t. issued \in IssuedType
  BY DEF HistoryInv, TypeInv, TypeOK
<1>1. ASSUME NEW r \in Request, NEW d \in DOMAIN drafts, NEW k \in Key, ApproveDraft(r, d, k)
      PROVE  History!Next
  BY <1>1, AppendPublishes DEF ApproveDraft
<1>2. ASSUME NEW r \in Request, NEW i \in DOMAIN versions, NEW k \in Key,
             RestoreVersion(r, i, k)
      PROVE  History!Next
  <2>1. versions[i].draft \in DOMAIN drafts
    BY DEF HistoryInv, TypeInv, RecordsResolve
  <2>2. versions[i].id \in Nat
    BY RecordsTyped DEF HistoryInv, TypeInv, IdsIssued
  <2> QED
    BY <1>2, <2>1, <2>2, AppendPublishes DEF RestoreVersion
<1>3. ASSUME ClearTournamentState, UNCHANGED issued PROVE History!Next
  BY <1>3 DEF ClearTournamentState, History!Next, History!Reset
<1>4. Setup => History!Next \/ UNCHANGED <<versions, issued.version>>
  BY <1>3, <1>t DEF Setup, SaveSetup, PatchTournament, ConfirmConstraints, ResetWorkspace,
                    ResetUnknownSample, IssuedType
<1>5. Generation => UNCHANGED <<versions, issued.version>>
  BY <1>t DEF Generation, BeginGeneration, StoreGeneration, FailGeneration,
              FinishGeneration, CancelRun, workspace, IssuedType
<1>6. Approval => History!Next \/ UNCHANGED <<versions, issued.version>>
  BY <1>1, <1>2 DEF Approval, RejectDraft, RecordVersion
<1>7. Recovery => UNCHANGED <<versions, issued.version>>
  BY <1>t DEF Recovery, DeclareDisruption, BeginRepair, RefuseRepair, StoreRepair,
              FailRepair, FinishRepair, workspace, IssuedType
<1> QED
  BY <1>4, <1>5, <1>6, <1>7 DEF Next

\* approve_draft, restore_schedule_version, reset_workspace and the handlers around
\* them implement the abstract official history, however the requests overlap.
THEOREM HistoryImplemented == Spec => ImplementsHistory
<1>1. Init => History!Init /\ DraftsBounded
  BY ConstantsAssumption DEF Init, History!Init, DraftsBounded
<1>2. HistoryInv /\ DraftsBounded /\ [Next]_vars => DraftsBounded'
  <2>1. HistoryInv /\ DraftsBounded /\ Next => DraftsBounded'
    BY BoundedStep DEF HistoryInv
  <2>2. DraftsBounded /\ UNCHANGED vars => DraftsBounded'
    BY DEF DraftsBounded, vars
  <2> QED
    BY <2>1, <2>2
<1>3. HistoryInv /\ DraftsBounded /\ [Next]_vars
        => [History!Next]_<<versions, issued.version>>
  BY HistoryStep DEF vars
<1> QED
  BY <1>1, <1>2, <1>3, HistoryInvariant, PTL DEF Spec, ImplementsHistory, History!Spec

-----------------------------------------------------------------------------
(* Idempotency of approvals for a guest who waits for each answer          *)

Alone == \A r, q \in Request : flight[r] # Idle /\ flight[q] # Idle => r = q

\* An approval or restore between its two steps: its version is the official one
\* and its key has no answer yet.
PublishedLast == \A r \in Request : Publishing(r) =>
  /\ versions # <<>> /\ flight[r].answer = Official.id
  /\ <<VersionKind(flight[r].phase), flight[r].key>> \notin DOMAIN idempotency
  /\ \A k \in VersionKey \cap DOMAIN idempotency : idempotency[k] # flight[r].answer

SerialInv == HistoryInv /\ Alone /\ PublishedLast /\ OneVersionPerKey

\* A guest who waits has one request in flight.
LEMMA AloneStep == Overlap = FALSE /\ TypeInv /\ Alone /\ Next => Alone'
<1> SUFFICES ASSUME Overlap = FALSE, TypeInv, Alone, Next PROVE Alone'
  OBVIOUS
<1>t. flight \in [Request -> FlightType] /\ Idle.phase = "idle"
  BY DEF TypeInv, TypeOK, Idle
<1>1. ASSUME UNCHANGED flight PROVE Alone'
  BY <1>1 DEF Alone
<1>2. ASSUME NEW r \in Request, NEW f, flight' = [flight EXCEPT ![r] = f],
             MayStart \/ flight[r].phase # "idle"
      PROVE  Alone'
  <2>1. \A q \in Request : q # r => flight[q] = Idle
    BY <1>2, <1>t DEF Alone, MayStart
  <2> QED
    BY <1>2, <1>t, <2>1 DEF Alone
<1>3. Setup => UNCHANGED flight
  BY DEF Setup, SaveSetup, PatchTournament, ConfirmConstraints, ResetWorkspace,
         ResetUnknownSample
<1>4. Generation => Alone'
  BY <1>1, <1>2 DEF Generation, BeginGeneration, StoreGeneration, FailGeneration,
                    FinishGeneration, CancelRun
<1>5. Approval => Alone'
  BY <1>1, <1>2 DEF Approval, ApproveDraft, RestoreVersion, AppendVersion, RejectDraft,
                    RecordVersion, Publishing
<1>6. Recovery => Alone'
  BY <1>1, <1>2 DEF Recovery, DeclareDisruption, BeginRepair, RefuseRepair, StoreRepair,
                    FailRepair, FinishRepair
<1> QED
  BY <1>1, <1>3, <1>4, <1>5, <1>6 DEF Next

\* Each step keeps one version per key.
LEMMA PerKeyStep ==
  Overlap = FALSE /\ SerialInv /\ Next => PublishedLast' /\ OneVersionPerKey'
<1> SUFFICES ASSUME Overlap = FALSE, SerialInv, Next
             PROVE  PublishedLast' /\ OneVersionPerKey'
  OBVIOUS
<1> DEFINE Goal == PublishedLast' /\ OneVersionPerKey'
<1>t. /\ flight \in [Request -> FlightType] /\ TypeInv /\ IdsIssued /\ Alone
      /\ PublishedLast /\ OneVersionPerKey /\ KeysHeld
  BY DEF SerialInv, HistoryInv, TypeInv, TypeOK
<1>1. ASSUME UNCHANGED <<versions, idempotency>>,
             \A r \in Request : (Publishing(r) \/ Publishing(r)')
                                  => flight'[r] = flight[r]
      PROVE  Goal
  <2>1. \A r \in Request : /\ Publishing(r)' <=> Publishing(r)
                           /\ Publishing(r) => flight'[r] = flight[r]
    BY <1>1 DEF Publishing
  <2>2. PublishedLast'
    BY <1>1, <1>t, <2>1 DEF PublishedLast, Official
  <2>3. OneVersionPerKey'
    BY <1>1, <1>t, <2>1 DEF OneVersionPerKey
  <2> QED
    BY <2>2, <2>3
<1>2. ASSUME UNCHANGED <<versions, idempotency>>, NEW r \in Request, NEW f,
             flight' = [flight EXCEPT ![r] = f], ~Publishing(r),
             f.phase \notin {"approving", "restoring"}
      PROVE  Goal
  <2>1. flight'[r] = f /\ \A q \in Request \ {r} : flight'[q] = flight[q]
    BY <1>2, <1>t
  <2>2. \A q \in Request : (Publishing(q) \/ Publishing(q)') => flight'[q] = flight[q]
    BY <1>2, <2>1 DEF Publishing
  <2> QED
    BY <1>1, <1>2, <2>2
<1>3. ASSUME NEW key \in Kind \X Key, key \notin VersionKey, NEW value,
             idempotency' = Put(idempotency, key, value), UNCHANGED versions,
             \A r \in Request : (Publishing(r) \/ Publishing(r)')
                                  => flight'[r] = flight[r]
      PROVE  Goal
  <2>1. \A r \in Request : /\ Publishing(r)' <=> Publishing(r)
                           /\ Publishing(r) => flight'[r] = flight[r]
    BY <1>3 DEF Publishing
  <2>2. /\ DOMAIN idempotency' = DOMAIN idempotency \cup {key}
        /\ \A k \in VersionKey \cap DOMAIN idempotency : idempotency'[k] = idempotency[k]
        /\ VersionKey \cap DOMAIN idempotency' = VersionKey \cap DOMAIN idempotency
    BY <1>3 DEF Put
  <2>3. PublishedLast'
    <3>1. \A r \in Request : Publishing(r) =>
            <<VersionKind(flight[r].phase), flight[r].key>> \in VersionKey
      BY <1>t DEF VersionKey, VersionKind, Publishing, KeysHeld
    <3> QED
      BY <1>3, <1>t, <2>1, <2>2, <3>1 DEF PublishedLast, Official
  <2>4. OneVersionPerKey'
    BY <1>3, <1>t, <2>1, <2>2 DEF OneVersionPerKey
  <2> QED
    BY <2>3, <2>4
<1>4. ASSUME MayStart PROVE \A r \in Request : flight[r] = Idle /\ ~Publishing(r)
  BY <1>4 DEF MayStart, Publishing, Idle
<1>5. ASSUME ClearTournamentState, MayStart, UNCHANGED flight PROVE Goal
  <2>1. \A r \in Request : ~Publishing(r)'
    BY <1>4, <1>5 DEF Publishing
  <2>2. DOMAIN idempotency' = {} /\ DOMAIN versions' = {}
    BY <1>5, EmptyTyped DEF ClearTournamentState
  <2> QED
    BY <2>1, <2>2 DEF PublishedLast, OneVersionPerKey
<1>6. ASSUME NEW r \in Request, NEW phase \in {"approving", "restoring"}, NEW k \in Key,
             NEW d \in Nat, NEW source \in Nat, AppendVersion(r, phase, k, d, source),
             MayStart, <<VersionKind(phase), k>> \notin DOMAIN idempotency
      PROVE  Goal
  <2> DEFINE f == [Idle EXCEPT !.phase = phase, !.key = k, !.answer = issued.version + 1]
  <2>1. f.phase = phase /\ f.key = k /\ f.answer = issued.version + 1
    BY DEF Idle
  <2>2. flight'[r] = f /\ \A q \in Request \ {r} : flight'[q] = Idle
    BY <1>4, <1>6, <1>t DEF AppendVersion
  <2> HIDE DEF f
  <2>3. Publishing(r)' /\ \A q \in Request \ {r} : ~Publishing(q)'
    BY <1>6, <2>1, <2>2 DEF Publishing, Idle
  <2>4. UNCHANGED idempotency
    BY <1>6 DEF AppendVersion
  <2>5. /\ Len(versions) \in Nat /\ DOMAIN versions = 1..Len(versions)
        /\ DOMAIN versions' = 1..(Len(versions) + 1) /\ Len(versions') = Len(versions) + 1
        /\ \A i \in 1..Len(versions) : versions'[i] = versions[i]
        /\ versions'[Len(versions) + 1].id = issued.version + 1
    BY <1>6, <1>t, AppendedHistory
  <2>6. \A i \in DOMAIN versions : versions[i].id # issued.version + 1
    BY <1>t, RecordsTyped DEF IdsIssued, TypeInv
  <2>7. \A l \in VersionKey \cap DOMAIN idempotency : idempotency[l] # issued.version + 1
    BY <1>t, <2>6 DEF OneVersionPerKey
  <2>8. PublishedLast'
    <3>1. versions' # <<>> /\ Official' = versions'[Len(versions) + 1]
      BY <2>5 DEF Official
    <3> QED
      BY <1>6, <2>1, <2>2, <2>3, <2>4, <2>5, <2>7, <3>1 DEF PublishedLast
  <2>9. OneVersionPerKey'
    <3>1. ASSUME NEW i \in DOMAIN versions'
          PROVE  \/ \E l \in VersionKey : /\ l \in DOMAIN idempotency'
                                          /\ idempotency'[l] = versions'[i].id
                 \/ \E q \in Request : Publishing(q)' /\ flight'[q].answer = versions'[i].id
      <4>1. CASE i = Len(versions) + 1
        BY <2>1, <2>2, <2>3, <2>5, <4>1
      <4>2. CASE i \in DOMAIN versions
        <5>1. \A q \in Request : ~Publishing(q)
          BY <1>4, <1>6
        <5> QED
          BY <1>t, <2>4, <2>5, <4>2, <5>1 DEF OneVersionPerKey
      <4> QED
        BY <2>5, <4>1, <4>2
    <3>2. \A l \in VersionKey \cap DOMAIN idempotency' :
            \E i \in DOMAIN versions' : idempotency'[l] = versions'[i].id
      BY <1>t, <2>4, <2>5 DEF OneVersionPerKey
    <3>3. \A l, m \in VersionKey \cap DOMAIN idempotency' :
            idempotency'[l] = idempotency'[m] => l = m
      BY <1>t, <2>4 DEF OneVersionPerKey
    <3> QED
      BY <3>1, <3>2, <3>3 DEF OneVersionPerKey
  <2> QED
    BY <2>8, <2>9
<1>7. ASSUME NEW r \in Request, RecordVersion(r) PROVE Goal
  <2> DEFINE key == <<VersionKind(flight[r].phase), flight[r].key>>
  <2>1. /\ Publishing(r) /\ key \in VersionKey /\ key \notin DOMAIN idempotency
        /\ versions # <<>> /\ flight[r].answer = Official.id
        /\ \A k \in VersionKey \cap DOMAIN idempotency : idempotency[k] # flight[r].answer
    BY <1>7, <1>t DEF RecordVersion, PublishedLast, Publishing, KeysHeld, VersionKind,
                      VersionKey
  <2>2. /\ DOMAIN idempotency' = DOMAIN idempotency \cup {key}
        /\ idempotency'[key] = flight[r].answer
        /\ \A k \in DOMAIN idempotency : idempotency'[k] = idempotency[k]
    BY <1>7, <2>1 DEF RecordVersion, Put
  <2>3. UNCHANGED versions /\ \A q \in Request : ~Publishing(q)'
    <3>1. \A q \in Request : flight'[q] = Idle
      <4>1. flight[r] # Idle
        BY <2>1 DEF Publishing, Idle
      <4>2. \A q \in Request \ {r} : flight[q] = Idle
        BY <1>t, <4>1 DEF Alone
      <4> QED
        BY <1>7, <1>t, <4>2 DEF RecordVersion
    <3> QED
      BY <1>7, <3>1 DEF RecordVersion, Publishing, Idle
  <2>4. PublishedLast'
    BY <2>3 DEF PublishedLast
  <2> HIDE DEF key
  <2>5. ASSUME NEW i \in DOMAIN versions
        PROVE  \E k \in VersionKey : /\ k \in DOMAIN idempotency'
                                     /\ idempotency'[k] = versions[i].id
    <3>1. CASE \E k \in VersionKey : k \in DOMAIN idempotency /\ idempotency[k] = versions[i].id
      BY <2>2, <3>1
    <3>2. CASE \E q \in Request : Publishing(q) /\ flight[q].answer = versions[i].id
      <4>1. PICK q \in Request : Publishing(q) /\ flight[q].answer = versions[i].id
        BY <3>2
      <4>2. q = r
        BY <1>t, <2>1, <4>1 DEF Alone, Publishing, Idle
      <4> QED
        BY <2>1, <2>2, <4>1, <4>2
    <3> QED
      BY <1>t, <3>1, <3>2 DEF OneVersionPerKey
  <2>6. \A k \in VersionKey \cap DOMAIN idempotency' :
          \E i \in DOMAIN versions : idempotency'[k] = versions[i].id
    <3>1. Len(versions) \in DOMAIN versions
      BY <1>t, <2>1 DEF TypeInv, TypeOK
    <3> QED
      BY <1>t, <2>1, <2>2, <3>1 DEF OneVersionPerKey, Official
  <2>7. \A k, l \in VersionKey \cap DOMAIN idempotency' :
          idempotency'[k] = idempotency'[l] => k = l
    BY <1>t, <2>1, <2>2 DEF OneVersionPerKey
  <2> QED
    BY <2>3, <2>4, <2>5, <2>6, <2>7 DEF OneVersionPerKey
<1> HIDE DEF Goal
<1>8. ASSUME Setup PROVE Goal
  <2>1. ASSUME NEW k \in Key, NEW rest, SaveSetup(k, rest) PROVE Goal
    <3>1. <<"setup", k>> \in Kind \X Key /\ <<"setup", k>> \notin VersionKey
      BY DEF Kind, VersionKey
    <3> QED
      BY <1>3, <2>1, <3>1 DEF SaveSetup
  <2> QED
    BY <1>1, <1>5, <1>8, <2>1 DEF Setup, PatchTournament, ConfirmConstraints,
                                  ResetWorkspace, ResetUnknownSample
<1>9. ASSUME Generation PROVE Goal
  <2>1. ASSUME NEW r \in Request, NEW k \in Key, BeginGeneration(r, k) PROVE Goal
    <3>1. [Idle EXCEPT !.phase = "generating", !.key = k,
                       !.basis = tournament].phase = "generating"
      BY DEF Idle
    <3>2. ~Publishing(r)
      BY <2>1 DEF BeginGeneration, Publishing, Idle
    <3> QED
      BY <1>2, <2>1, <3>1, <3>2 DEF BeginGeneration, workspace
  <2>2. ASSUME NEW r \in Request, StoreGeneration(r) PROVE Goal
    <3>1. [Idle EXCEPT !.phase = "generated", !.key = flight[r].key,
                       !.answer = issued.run + 1].phase = "generated"
      BY DEF Idle
    <3> QED
      BY <1>2, <2>2, <3>1 DEF StoreGeneration, Publishing
  <2>3. ASSUME NEW r \in Request, FailGeneration(r) PROVE Goal
    BY <1>2, <2>3 DEF FailGeneration, Publishing, Idle, workspace
  <2>4. ASSUME NEW r \in Request, FinishGeneration(r) PROVE Goal
    <3>1. /\ <<"generation", flight[r].key>> \in Kind \X Key
          /\ <<"generation", flight[r].key>> \notin VersionKey
      BY <1>t, <2>4 DEF FinishGeneration, KeysHeld, Kind, VersionKey
    <3>2. \A q \in Request : (Publishing(q) \/ Publishing(q)') => flight'[q] = flight[q]
      <4>1. flight'[r] = Idle /\ \A q \in Request \ {r} : flight'[q] = flight[q]
        BY <1>t, <2>4 DEF FinishGeneration
      <4> QED
        BY <2>4, <4>1 DEF FinishGeneration, Publishing, Idle
    <3> QED
      BY <1>3, <2>4, <3>1, <3>2 DEF FinishGeneration
  <2> QED
    BY <1>1, <1>9, <2>1, <2>2, <2>3, <2>4 DEF Generation, CancelRun
<1>10. ASSUME Approval PROVE Goal
  <2>1. ASSUME NEW r \in Request, NEW d \in DOMAIN drafts, NEW k \in Key,
               ApproveDraft(r, d, k)
        PROVE  Goal
    <3>1. d \in Nat /\ VersionKind("approving") = "approval"
      BY <1>t DEF TypeInv, TypeOK, DictOf, VersionKind
    <3> QED
      BY <1>6, <2>1, <3>1 DEF ApproveDraft, Replayed
  <2>2. ASSUME NEW r \in Request, NEW i \in DOMAIN versions, NEW k \in Key,
               RestoreVersion(r, i, k)
        PROVE  Goal
    <3>1. versions[i] \in VersionType
      BY <1>t DEF TypeInv, TypeOK
    <3>2. versions[i].draft \in Nat /\ versions[i].id \in Nat
          /\ VersionKind("restoring") = "restore"
      BY <3>1 DEF VersionType, VersionKind
    <3> QED
      BY <1>6, <2>2, <3>2 DEF RestoreVersion, Replayed
  <2> QED
    BY <1>1, <1>7, <1>10, <2>1, <2>2 DEF Approval, RejectDraft
<1>11. ASSUME Recovery PROVE Goal
  <2>1. ASSUME NEW r \in Request, NEW x \in DOMAIN disruptions, BeginRepair(r, x)
        PROVE  Goal
    <3>1. [Idle EXCEPT !.phase = "repairing", !.basis = tournament,
                       !.baseline = Official.id,
                       !.unavailable = disruptions[x]].phase = "repairing"
      BY DEF Idle
    <3>2. ~Publishing(r)
      BY <2>1 DEF BeginRepair, Publishing, Idle
    <3> QED
      BY <1>2, <2>1, <3>1, <3>2 DEF BeginRepair, workspace
  <2>2. ASSUME NEW r \in Request, StoreRepair(r) PROVE Goal
    <3>1. [Idle EXCEPT !.phase = "repaired"].phase = "repaired"
      BY DEF Idle
    <3> QED
      BY <1>2, <2>2, <3>1 DEF StoreRepair, Publishing
  <2>3. ASSUME NEW r \in Request, FailRepair(r) \/ FinishRepair(r) PROVE Goal
    BY <1>2, <2>3 DEF FailRepair, FinishRepair, Publishing, Idle, workspace
  <2> QED
    BY <1>1, <1>11, <2>1, <2>2, <2>3 DEF Recovery, DeclareDisruption, RefuseRepair,
                                        workspace
<1> QED
  BY <1>8, <1>9, <1>10, <1>11 DEF Next, Goal

\* The invariant of a guest who waits for each answer.
THEOREM SerialInvariant ==
  ASSUME Overlap = FALSE
  PROVE  Spec => []SerialInv
<1>1. Init => SerialInv
  BY TypeInit, EmptyTyped
  DEF Init, SerialInv, HistoryInv, IdsIssued, RepairsExtendBaseline, Alone, PublishedLast,
      OneVersionPerKey, Publishing, Idle
<1>2. SerialInv /\ [Next]_vars => SerialInv'
  <2>1. SerialInv /\ Next => SerialInv'
    BY TypeStep, KeysStep, SolverStep, ResolveStep, IdsStep, BaselineStep, AloneStep,
       PerKeyStep
    DEF SerialInv, HistoryInv, TypeInv
  <2>2. SerialInv /\ UNCHANGED vars => SerialInv'
    <3> SUFFICES ASSUME SerialInv, UNCHANGED vars PROVE SerialInv'
      OBVIOUS
    <3>1. HistoryInv'
      BY TypeStutter DEF SerialInv, HistoryInv, IdsIssued, RepairsExtendBaseline, vars
    <3>2. Alone' /\ PublishedLast'
      BY DEF SerialInv, Alone, PublishedLast, Publishing, Official, vars
    <3>3. OneVersionPerKey'
      BY DEF SerialInv, OneVersionPerKey, Publishing, vars
    <3> QED
      BY <3>1, <3>2, <3>3 DEF SerialInv
  <2> QED
    BY <2>1, <2>2
<1> QED
  BY <1>1, <1>2, PTL DEF Spec

\* A guest who waits for each answer gets exactly one official version per
\* Idempotency-Key, for every number of keys and versions.
THEOREM OneVersionPerKeySerially ==
  ASSUME Overlap = FALSE
  PROVE  Spec => []OneVersionPerKey
<1>1. SerialInv => OneVersionPerKey
  BY DEF SerialInv
<1> QED
  BY <1>1, SerialInvariant, PTL

-----------------------------------------------------------------------------
(* Cancelled runs, however requests overlap                                 *)

\* Run identifiers are issued once, so that storing a run replaces none.
RunsIssued == DOMAIN runs \subseteq 1..issued.run

\* What a step does to the runs: nothing, a reset, one new run, a cancellation.
RunsAlike ==
  /\ DOMAIN runs' = DOMAIN runs
  /\ \A x \in DOMAIN runs : /\ runs'[x].key = runs[x].key
                            /\ runs[x].status = "cancelled" => runs'[x].status = "cancelled"
RunsEvolve ==
  \/ runs' = Empty
  \/ \E r \in Request :
       /\ StoreGeneration(r)
       /\ issued'.run = issued.run + 1
       /\ DOMAIN runs' = DOMAIN runs \cup {issued.run + 1}
       /\ \A x \in DOMAIN runs : x # issued.run + 1 => runs'[x] = runs[x]
       /\ runs'[issued.run + 1].key = flight[r].key
  \/ RunsAlike /\ \A r \in Request : ~StoreGeneration(r)

\* A run identifier is issued by no other step than the one that stores a run.
RunIdKept == issued'.run = issued.run \/ \E r \in Request : StoreGeneration(r)

\* Every step does one of these to the runs.
LEMMA RunsStep == TypeInv /\ Next => RunsEvolve /\ RunIdKept
<1> SUFFICES ASSUME TypeInv, Next PROVE RunsEvolve /\ RunIdKept
  OBVIOUS
<1>t. issued \in IssuedType /\ \A x \in DOMAIN runs : runs[x] \in RunType
  BY DEF TypeInv, TypeOK, DictOf
<1>1. ASSUME NEW r \in Request, StoreGeneration(r) PROVE RunsEvolve
  <2>1. issued'.run = issued.run + 1
    BY <1>1, <1>t DEF StoreGeneration, IssuedType
  <2>2. PICK run : run.key = flight[r].key /\ runs' = Put(runs, issued.run + 1, run)
    <3> DEFINE run == [status |-> "completed",
                       drafts |-> (issued.draft + 1)..(issued.draft + Profiles),
                       key |-> flight[r].key]
    <3>1. run.key = flight[r].key /\ runs' = Put(runs, issued.run + 1, run)
      BY <1>1 DEF StoreGeneration
    <3> QED
      BY <3>1
  <2>3. /\ DOMAIN runs' = DOMAIN runs \cup {issued.run + 1}
        /\ runs'[issued.run + 1] = run
        /\ \A x \in DOMAIN runs : x # issued.run + 1 => runs'[x] = runs[x]
    BY <2>2 DEF Put
  <2> QED
    BY <1>1, <2>1, <2>2, <2>3 DEF RunsEvolve
<1>2. ASSUME ~\E r \in Request : StoreGeneration(r)
      PROVE  RunsEvolve /\ issued'.run = issued.run
  <2>1. UNCHANGED runs => RunsEvolve
    BY <1>2 DEF RunsEvolve, RunsAlike
  <2>2. ASSUME NEW run \in DOMAIN runs, CancelRun(run) PROVE RunsEvolve
    <3>1. RunsAlike
      BY <2>2, <1>t DEF CancelRun, RunsAlike, RunType
    <3> QED
      BY <1>2, <3>1 DEF RunsEvolve
  <2>3. ClearTournamentState => RunsEvolve
    BY DEF ClearTournamentState, RunsEvolve
  <2>4. Setup => RunsEvolve /\ issued'.run = issued.run
    BY <1>t, <2>1, <2>3 DEF Setup, SaveSetup, PatchTournament, ConfirmConstraints,
                            ResetWorkspace, ResetUnknownSample, IssuedType
  <2>5. Generation => RunsEvolve /\ issued'.run = issued.run
    BY <1>2, <2>1, <2>2 DEF Generation, BeginGeneration, FailGeneration,
                            FinishGeneration, CancelRun, workspace
  <2>6. Approval => RunsEvolve /\ issued'.run = issued.run
    BY <1>t, <2>1 DEF Approval, ApproveDraft, RejectDraft, RestoreVersion, RecordVersion,
                      AppendVersion, IssuedType
  <2>7. Recovery => RunsEvolve /\ issued'.run = issued.run
    BY <1>t, <2>1 DEF Recovery, DeclareDisruption, BeginRepair, RefuseRepair, StoreRepair,
                      FailRepair, FinishRepair, IssuedType, workspace
  <2> QED
    BY <2>4, <2>5, <2>6, <2>7 DEF Next
<1> QED
  BY <1>1, <1>2 DEF RunIdKept

\* Runs keep to issued identifiers.
LEMMA RunsIssuedStep == TypeInv /\ RunsIssued /\ Next => RunsIssued'
<1> SUFFICES ASSUME TypeInv, RunsIssued, Next PROVE RunsIssued'
  OBVIOUS
<1>t. issued.run \in Nat
  BY DEF TypeInv, TypeOK, IssuedType
<1>1. CASE runs' = Empty
  BY <1>1, EmptyTyped DEF RunsIssued
<1>2. ASSUME NEW r \in Request, issued'.run = issued.run + 1,
             DOMAIN runs' = DOMAIN runs \cup {issued.run + 1}
      PROVE  RunsIssued'
  BY <1>2, <1>t DEF RunsIssued
<1>3. CASE RunsAlike /\ \A r \in Request : ~StoreGeneration(r)
  BY <1>3, RunsStep DEF RunsAlike, RunsIssued, RunIdKept
<1> QED
  BY <1>1, <1>2, <1>3, RunsStep DEF RunsEvolve

\* Every stored run has an identifier issued before (the next one is free), however
\* requests overlap.
THEOREM RunsAlwaysIssued == Spec => [](TypeInv /\ RunsIssued)
<1>1. Init => RunsIssued
  BY EmptyTyped DEF Init, RunsIssued
<1>2. TypeInv /\ RunsIssued /\ [Next]_vars => RunsIssued'
  BY RunsIssuedStep DEF RunsIssued, vars
<1> QED
  BY <1>1, <1>2, TypeCorrect, PTL DEF Spec

\* A cancelled run stays cancelled: no continuation writes the status again, and no
\* later run takes its identifier.
THEOREM CancelledAlwaysStaysCancelled == Spec => CancelledStaysCancelled
<1> DEFINE Kept == \A run \in DOMAIN runs \cap DOMAIN runs' :
                     runs[run].status = "cancelled" => runs'[run].status = "cancelled"
<1>1. ASSUME TypeInv, RunsIssued, Next PROVE Kept
  <2>t. issued.run \in Nat
    BY <1>1 DEF TypeInv, TypeOK, IssuedType
  <2>1. issued.run + 1 \notin DOMAIN runs
    BY <1>1, <2>t DEF RunsIssued
  <2> QED
    BY <1>1, <2>1, RunsStep, EmptyTyped DEF RunsEvolve, RunsAlike
<1>2. TypeInv /\ RunsIssued /\ [Next]_vars => [Kept]_vars
  BY <1>1
<1> QED
  BY <1>2, RunsAlwaysIssued, PTL DEF Spec, CancelledStaysCancelled

-----------------------------------------------------------------------------
(* Recorded answers and generations of a guest who waits for each answer    *)

\* A generation records a key that has no answer yet; its run exists.
GenerationsHeld ==
  /\ \A r \in Request : flight[r].phase \in {"generating", "generated"} =>
       ~Replayed("generation", flight[r].key)
  /\ \A r \in Request : flight[r].phase = "generated" => flight[r].answer \in DOMAIN runs
  /\ \A r \in Request : flight[r].phase = "generating" =>
       \A x \in DOMAIN runs : runs[x].key # flight[r].key

\* The key of a run is recorded, or about to be.
RunsAnswered == \A x \in DOMAIN runs :
  \/ Replayed("generation", runs[x].key)
  \/ \E r \in Request : flight[r].phase = "generated" /\ flight[r].key = runs[x].key

ReplayInv == SerialInv /\ RunsIssued /\ GenerationsHeld /\ RunsAnswered /\ GenerationReplay

\* What a step does to the recorded answers: nothing, a reset, or one new answer.
AnswersGrow(kind, key) ==
  /\ ~Replayed(kind, key)
  /\ DOMAIN idempotency' = DOMAIN idempotency \cup {<<kind, key>>}
  /\ \A k \in DOMAIN idempotency : idempotency'[k] = idempotency[k]

LEMMA PutGrows ==
  ASSUME NEW kind, NEW key, NEW value, ~Replayed(kind, key),
         idempotency' = Put(idempotency, <<kind, key>>, value)
  PROVE  AnswersGrow(kind, key) /\ idempotency'[<<kind, key>>] = value
BY DEF Put, Replayed, AnswersGrow

\* Every step keeps a generation answerable: a key is free when its generation starts,
\* stays free while nobody else moves, and is recorded with the run that answers it.
LEMMA ReplayStep ==
  Overlap = FALSE /\ ReplayInv /\ Next => GenerationsHeld' /\ RunsAnswered' /\ GenerationReplay'
<1> SUFFICES ASSUME Overlap = FALSE, ReplayInv, Next
             PROVE  GenerationsHeld' /\ RunsAnswered' /\ GenerationReplay'
  OBVIOUS
<1> DEFINE Goal == GenerationsHeld' /\ RunsAnswered' /\ GenerationReplay'
<1>t. /\ flight \in [Request -> FlightType] /\ Alone /\ PublishedLast /\ TypeInv /\ KeysHeld
      /\ RunsIssued /\ GenerationsHeld /\ RunsAnswered /\ GenerationReplay
      /\ Idle.phase = "idle" /\ issued.run \in Nat
  BY DEF ReplayInv, SerialInv, HistoryInv, TypeInv, TypeOK, IssuedType, Idle
<1>i. MayStart => \A r \in Request : flight[r].phase = "idle"
  BY <1>t DEF MayStart
\* Steps that answer another kind of request, or none.
<1>1. ASSUME RunsAlike, \A k \in Key : /\ Replayed("generation", k)' <=> Replayed("generation", k)
                                       /\ Replayed("generation", k) =>
                                            idempotency'[<<"generation", k>>] = idempotency[<<"generation", k>>],
             \A r \in Request : flight'[r] = flight[r]
                                  \/ (flight'[r].phase \notin {"generating", "generated"}
                                      /\ flight[r].phase # "generated")
      PROVE  Goal
  <2>1. \A x \in DOMAIN runs : runs[x].key \in Key
    BY <1>t DEF TypeInv, TypeOK, DictOf, RunType
  <2>2. \A r \in Request : flight[r].phase \in {"generating", "generated"} => flight[r].key \in Key
    BY <1>t DEF KeysHeld
  <2>3. GenerationsHeld'
    BY <1>1, <1>t, <2>2 DEF GenerationsHeld, RunsAlike
  <2>4. RunsAnswered'
    BY <1>1, <1>t, <2>1 DEF RunsAnswered, RunsAlike
  <2>5. GenerationReplay'
    BY <1>1, <1>t DEF GenerationReplay, OneRunPerKey, RunsAlike, Replayed
  <2> QED
    BY <2>3, <2>4, <2>5
<1>2. ASSUME UNCHANGED <<runs, idempotency>>,
             \A r \in Request : flight'[r] = flight[r]
                                  \/ (flight'[r].phase \notin {"generating", "generated"}
                                      /\ flight[r].phase # "generated")
      PROVE  Goal
  BY <1>1, <1>2 DEF RunsAlike, Replayed
<1>3. ASSUME ClearTournamentState, UNCHANGED flight, MayStart PROVE Goal
  BY <1>3, <1>t, <1>i, EmptyTyped
  DEF ClearTournamentState, GenerationsHeld, RunsAnswered, GenerationReplay, OneRunPerKey
<1>4. ASSUME NEW kind, kind # "generation", NEW key, AnswersGrow(kind, key), UNCHANGED runs,
             \A r \in Request : flight'[r] = flight[r]
                                  \/ (flight'[r].phase \notin {"generating", "generated"}
                                      /\ flight[r].phase # "generated")
      PROVE  Goal
  <2>1. \A k \in Key : <<"generation", k>> # <<kind, key>>
    BY <1>4
  <2> QED
    BY <1>1, <1>4, <2>1 DEF AnswersGrow, Replayed, RunsAlike
<1>5. ASSUME Setup PROVE Goal
  <2>1. ASSUME NEW k \in Key, NEW rest \in 0..MaxRest, SaveSetup(k, rest) PROVE Goal
    BY <1>4, <2>1, PutGrows DEF SaveSetup
  <2> QED
    BY <1>2, <1>3, <1>5, <2>1 DEF Setup, PatchTournament, ConfirmConstraints,
                                  ResetWorkspace, ResetUnknownSample
<1>6. ASSUME Generation PROVE Goal
  <2>1. ASSUME NEW r \in Request, NEW k \in Key, BeginGeneration(r, k) PROVE Goal
    <3>1. /\ flight'[r].phase = "generating" /\ flight'[r].key = k
          /\ \A q \in Request : q # r => flight'[q] = flight[q]
      BY <2>1, <1>t DEF BeginGeneration, Idle
    <3>2. \A q \in Request : flight[q].phase = "idle"
      BY <2>1, <1>i DEF BeginGeneration
    <3>3. \A x \in DOMAIN runs : Replayed("generation", runs[x].key)
      BY <1>t, <3>2 DEF RunsAnswered
    <3>4. ~Replayed("generation", k) /\ UNCHANGED <<runs, idempotency>>
      BY <2>1 DEF BeginGeneration, workspace
    <3>5. GenerationsHeld'
      BY <3>1, <3>2, <3>3, <3>4 DEF GenerationsHeld, Replayed
    <3>6. RunsAnswered' /\ GenerationReplay'
      BY <1>t, <3>3, <3>4 DEF RunsAnswered, GenerationReplay, OneRunPerKey, Replayed
    <3> QED
      BY <3>5, <3>6
  <2>2. ASSUME NEW r \in Request, StoreGeneration(r) PROVE Goal
    <3>1. /\ flight'[r].phase = "generated" /\ flight'[r].key = flight[r].key
          /\ flight'[r].answer = issued.run + 1
          /\ \A q \in Request : q # r => flight'[q] = flight[q]
          /\ flight[r].phase = "generating" /\ UNCHANGED idempotency
      BY <2>2, <1>t DEF StoreGeneration, Idle
    <3>2. \A q \in Request : q # r => flight[q].phase = "idle"
      BY <1>t, <3>1 DEF Alone
    <3>3. issued.run + 1 \notin DOMAIN runs
      BY <1>t DEF RunsIssued
    <3>4. /\ DOMAIN runs' = DOMAIN runs \cup {issued.run + 1}
          /\ \A x \in DOMAIN runs : runs'[x] = runs[x]
          /\ runs'[issued.run + 1].key = flight[r].key
      BY <2>2, <1>t, <3>3 DEF StoreGeneration, Put
    <3>5. \A x \in DOMAIN runs : Replayed("generation", runs[x].key) /\ runs[x].key # flight[r].key
      BY <1>t, <3>1, <3>2 DEF RunsAnswered, GenerationsHeld
    <3>6. GenerationsHeld'
      BY <1>t, <3>1, <3>2, <3>4 DEF GenerationsHeld, Replayed
    <3>7. RunsAnswered'
      BY <3>1, <3>4, <3>5 DEF RunsAnswered, Replayed
    <3>8. GenerationReplay'
      BY <1>t, <3>1, <3>4, <3>5 DEF GenerationReplay, OneRunPerKey
    <3> QED
      BY <3>6, <3>7, <3>8
  <2>3. ASSUME NEW r \in Request, FailGeneration(r) PROVE Goal
    BY <1>2, <1>t, <2>3 DEF FailGeneration, workspace
  <2>4. ASSUME NEW r \in Request, FinishGeneration(r) PROVE Goal
    <3>1. /\ flight[r].phase = "generated" /\ flight'[r].phase = "idle"
          /\ \A q \in Request : q # r => flight'[q] = flight[q] /\ flight[q].phase = "idle"
          /\ UNCHANGED runs
      BY <2>4, <1>t DEF FinishGeneration, Alone
    <3>2. ~Replayed("generation", flight[r].key) /\ flight[r].answer \in DOMAIN runs
      BY <1>t, <3>1 DEF GenerationsHeld
    <3>3. /\ AnswersGrow("generation", flight[r].key)
          /\ idempotency'[<<"generation", flight[r].key>>] = flight[r].answer
      BY <2>4, <3>2, PutGrows DEF FinishGeneration
    <3>4. GenerationsHeld'
      BY <3>1 DEF GenerationsHeld
    <3>5. RunsAnswered'
      BY <1>t, <3>1, <3>3 DEF RunsAnswered, AnswersGrow, Replayed
    <3>6. GenerationReplay'
      BY <1>t, <3>1, <3>2, <3>3 DEF GenerationReplay, OneRunPerKey, AnswersGrow
    <3> QED
      BY <3>4, <3>5, <3>6
  <2>5. ASSUME NEW run \in DOMAIN runs, CancelRun(run) PROVE Goal
    <3>1. RunsAlike
      BY <2>5, <1>t DEF CancelRun, RunsAlike, TypeInv, TypeOK, DictOf, RunType
    <3> QED
      BY <1>1, <2>5, <3>1 DEF CancelRun, Replayed
  <2> QED
    BY <1>6, <2>1, <2>2, <2>3, <2>4, <2>5 DEF Generation
<1>7. ASSUME Approval PROVE Goal
  <2>1. ASSUME NEW r \in Request, NEW phase \in {"approving", "restoring"}, NEW k, NEW d,
               NEW source, AppendVersion(r, phase, k, d, source)
        PROVE  Goal
    <3>1. flight'[r].phase = phase /\ flight[r].phase = "idle"
      BY <2>1, <1>t DEF AppendVersion, Idle
    <3>2. \A q \in Request : q # r => flight'[q] = flight[q]
      BY <2>1, <1>t DEF AppendVersion
    <3> QED
      BY <1>2, <2>1, <3>1, <3>2 DEF AppendVersion
  <2>2. ASSUME NEW r \in Request, RecordVersion(r) PROVE Goal
    <3>1. VersionKind(flight[r].phase) # "generation"
      BY DEF VersionKind
    <3>2. AnswersGrow(VersionKind(flight[r].phase), flight[r].key)
      BY <2>2, <1>t, PutGrows DEF RecordVersion, PublishedLast, Replayed
    <3> QED
      BY <1>4, <1>t, <2>2, <3>1, <3>2 DEF RecordVersion, Publishing
  <2> QED
    BY <1>2, <1>7, <2>1, <2>2 DEF Approval, ApproveDraft, RestoreVersion, RejectDraft
<1>8. ASSUME Recovery PROVE Goal
  <2>1. ASSUME NEW r \in Request, NEW f, flight' = [flight EXCEPT ![r] = f],
               flight[r].phase # "generated", f.phase \notin {"generating", "generated"},
               UNCHANGED <<runs, idempotency>>
        PROVE  Goal
    BY <1>2, <1>t, <2>1
  <2>2. ASSUME NEW r \in Request, NEW x \in DOMAIN disruptions, BeginRepair(r, x)
        PROVE  Goal
    BY <1>t, <2>1, <2>2 DEF BeginRepair, Idle, workspace
  <2>3. ASSUME NEW r \in Request, StoreRepair(r) PROVE Goal
    BY <1>t, <2>1, <2>3 DEF StoreRepair, Idle
  <2>4. ASSUME NEW r \in Request, FailRepair(r) \/ FinishRepair(r) PROVE Goal
    BY <1>t, <2>1, <2>4 DEF FailRepair, FinishRepair, workspace
  <2> QED
    BY <1>2, <1>8, <2>2, <2>3, <2>4 DEF Recovery, DeclareDisruption, RefuseRepair, workspace
<1> QED
  BY <1>5, <1>6, <1>7, <1>8 DEF Next

\* For every number of keys, runs and requests of one guest: sending a generation again
\* returns the run it started.
THEOREM ReplayInvariant ==
  ASSUME Overlap = FALSE
  PROVE  Spec => []ReplayInv
<1>1. Init => RunsIssued /\ GenerationsHeld /\ RunsAnswered /\ GenerationReplay
  <2>1. ASSUME Init
        PROVE  /\ DOMAIN runs = {} /\ DOMAIN idempotency = {}
               /\ \A r \in Request : flight[r].phase = "idle"
    BY <2>1, EmptyTyped DEF Init, Idle
  <2> QED
    BY <2>1 DEF RunsIssued, GenerationsHeld, RunsAnswered, GenerationReplay, OneRunPerKey
<1>2. ReplayInv /\ [Next]_vars
        => RunsIssued' /\ GenerationsHeld' /\ RunsAnswered' /\ GenerationReplay'
  <2>1. ReplayInv /\ Next
          => RunsIssued' /\ GenerationsHeld' /\ RunsAnswered' /\ GenerationReplay'
    BY RunsIssuedStep, ReplayStep DEF ReplayInv, SerialInv, HistoryInv
  <2>2. ReplayInv /\ UNCHANGED vars
          => RunsIssued' /\ GenerationsHeld' /\ RunsAnswered' /\ GenerationReplay'
    BY DEF ReplayInv, RunsIssued, GenerationsHeld, RunsAnswered, GenerationReplay,
           OneRunPerKey, Replayed, vars
  <2> QED
    BY <2>1, <2>2
<1>3. Spec => []SerialInv
  BY SerialInvariant
<1> QED
  BY <1>1, <1>2, <1>3, PTL DEF Spec, ReplayInv

\* A key starts at most one generation and a recorded key answers a run that exists.
THEOREM GenerationReplaySerially ==
  ASSUME Overlap = FALSE
  PROVE  Spec => []GenerationReplay
<1>1. ReplayInv => GenerationReplay
  BY DEF ReplayInv
<1> QED
  BY <1>1, ReplayInvariant, PTL

\* A recorded response is never replaced: each handler records a key that had no answer
\* when it looked, and nobody else has recorded it since.
THEOREM RecordedAnswersStandSerially ==
  ASSUME Overlap = FALSE
  PROVE  Spec => RecordedAnswersStand
<1> DEFINE Stand == \A k \in DOMAIN idempotency \cap DOMAIN idempotency' :
                      idempotency'[k] = idempotency[k]
<1>1. ASSUME ReplayInv, Next PROVE Stand
  <2>1. UNCHANGED idempotency => Stand
    OBVIOUS
  <2>2. ASSUME NEW kind, NEW key, AnswersGrow(kind, key) PROVE Stand
    BY <2>2 DEF AnswersGrow
  <2>3. ClearTournamentState => Stand
    BY EmptyTyped DEF ClearTournamentState
  <2>4. ASSUME NEW k \in Key, NEW rest \in 0..MaxRest, SaveSetup(k, rest) PROVE Stand
    BY <2>2, <2>4, PutGrows DEF SaveSetup
  <2>5. ASSUME NEW r \in Request, FinishGeneration(r) PROVE Stand
    <3>1. ~Replayed("generation", flight[r].key)
      BY <1>1, <2>5 DEF FinishGeneration, ReplayInv, GenerationsHeld
    <3> HIDE DEF Stand
    <3> QED
      BY <2>2, <2>5, <3>1, PutGrows DEF FinishGeneration
  <2>6. ASSUME NEW r \in Request, RecordVersion(r) PROVE Stand
    <3>1. ~Replayed(VersionKind(flight[r].phase), flight[r].key)
      BY <1>1, <2>6 DEF RecordVersion, ReplayInv, SerialInv, PublishedLast, Replayed
    <3> HIDE DEF Stand
    <3> QED
      BY <2>2, <2>6, <3>1, PutGrows DEF RecordVersion
  <2> HIDE DEF Stand
  <2>7. Setup => Stand
    BY <2>1, <2>3, <2>4 DEF Setup, PatchTournament, ConfirmConstraints, ResetWorkspace,
                            ResetUnknownSample
  <2>8. Generation => Stand
    BY <2>1, <2>5 DEF Generation, BeginGeneration, StoreGeneration, FailGeneration,
                      CancelRun, workspace
  <2>9. Approval => Stand
    BY <2>1, <2>6 DEF Approval, ApproveDraft, RestoreVersion, RejectDraft, AppendVersion
  <2>10. Recovery => Stand
    BY <2>1 DEF Recovery, DeclareDisruption, BeginRepair, RefuseRepair, StoreRepair,
                FailRepair, FinishRepair, workspace
  <2> QED
    BY <1>1, <2>7, <2>8, <2>9, <2>10 DEF Next
<1>2. ReplayInv /\ [Next]_vars => [Stand]_vars
  BY <1>1
<1> QED
  BY <1>2, ReplayInvariant, PTL DEF Spec, RecordedAnswersStand

-----------------------------------------------------------------------------
(* What becomes official fits the setup, for a guest who waits for answers  *)

\* A solver in progress works on the tournament there is now.
SolvedAsIs == \A r \in Request :
  /\ Solving(r) => flight[r].basis = tournament
  /\ flight[r].phase = "generating" => ConstraintsConfirmed

\* A draft with the tournament's revision was solved for the tournament there is now.
FitsSetup(d) ==
  /\ drafts[d].revision <= tournament.revision
  /\ drafts[d].revision = tournament.revision =>
       /\ drafts[d].slots = tournament.slots
       /\ d \notin DOMAIN diffs => ConstraintsConfirmed /\ KeepsRest(d, tournament.rest)
FreshFits == \A d \in DOMAIN drafts : FitsSetup(d)

FitInv == TypeInv /\ IdsIssued /\ Alone /\ SolvedAsIs /\ FreshFits /\ DraftBoundToRevision

\* Drafts stay as they are or are cleared, and the tournament moves on to a later
\* revision, while no solver is at work.
LEMMA FitAfterSetup ==
  ASSUME FitInv, MayStart, Overlap = FALSE, UNCHANGED flight, tournament' \in TournamentType,
         \/ ClearTournamentState
         \/ UNCHANGED <<drafts, diffs>> /\ tournament'.revision = tournament.revision + 1
  PROVE  SolvedAsIs' /\ FreshFits' /\ DraftBoundToRevision'
<1>1. SolvedAsIs'
  BY DEF SolvedAsIs, Solving, MayStart, Idle
<1>2. CASE ClearTournamentState
  BY <1>1, <1>2, EmptyTyped DEF ClearTournamentState, FreshFits, FitsSetup, DraftBoundToRevision
<1>3. CASE UNCHANGED <<drafts, diffs>> /\ tournament'.revision = tournament.revision + 1
  <2>1. tournament.revision \in Nat /\ \A d \in DOMAIN drafts : drafts[d].revision \in Nat
    BY DEF FitInv, TypeInv, TypeOK, DictOf, TournamentType, DraftType
  <2>2. FreshFits' /\ DraftBoundToRevision'
    BY <1>3, <2>1 DEF FitInv, FreshFits, FitsSetup, DraftBoundToRevision
  <2> QED
    BY <1>1, <2>2
<1> QED
  BY <1>2, <1>3

\* Drafts and tournament stay; a request that enters the solver takes the tournament.
LEMMA FitAfterFrame ==
  ASSUME FitInv, UNCHANGED <<tournament, confirmed, drafts, diffs>>,
         \A r \in Request :
           \/ flight'[r] = flight[r]
           \/ flight'[r].phase \notin {"generating", "repairing"}
           \/ /\ flight'[r].basis = tournament
              /\ flight'[r].phase = "generating" => ConstraintsConfirmed
  PROVE  SolvedAsIs' /\ FreshFits' /\ DraftBoundToRevision'
BY DEF FitInv, SolvedAsIs, Solving, FreshFits, FitsSetup, DraftBoundToRevision,
       ConstraintsConfirmed, KeepsRest

\* New drafts carry what their solver was given, which is the tournament there is now.
LEMMA FitAfterSolver ==
  ASSUME FitInv, UNCHANGED <<tournament, confirmed>>, NEW new,
         new \cap DOMAIN drafts = {},
         DOMAIN drafts' = DOMAIN drafts \cup new,
         \A d \in DOMAIN drafts : drafts'[d] = drafts[d],
         \A d \in new : \E p \in Placement :
           /\ drafts'[d] = NewDraft(tournament, p)
           /\ d \notin DOMAIN diffs' => ConstraintsConfirmed /\ p \in Feasible(Start, tournament.rest),
         \A d \in DOMAIN drafts : d \in DOMAIN diffs' <=> d \in DOMAIN diffs,
         \A r \in Request : flight'[r] = flight[r]
                              \/ flight'[r].phase \notin {"generating", "repairing"}
  PROVE  SolvedAsIs' /\ FreshFits' /\ DraftBoundToRevision'
<1>1. SolvedAsIs'
  BY DEF FitInv, SolvedAsIs, Solving, ConstraintsConfirmed
<1>2. tournament.revision \in Nat
  BY DEF FitInv, TypeInv, TypeOK, TournamentType
<1>3. ASSUME NEW d \in new
      PROVE  /\ drafts'[d].revision = tournament.revision
             /\ drafts'[d].solvedAt = tournament.revision
             /\ drafts'[d].slots = tournament.slots
             /\ d \notin DOMAIN diffs' => /\ ConstraintsConfirmed
                                          /\ drafts'[d].place \in Feasible(Start, tournament.rest)
  <2>1. PICK p \in Placement :
          /\ drafts'[d] = NewDraft(tournament, p)
          /\ d \notin DOMAIN diffs' => ConstraintsConfirmed /\ p \in Feasible(Start, tournament.rest)
    BY <1>3
  <2> QED
    BY <2>1 DEF NewDraft
<1>4. FreshFits'
  <2>1. ASSUME NEW d \in DOMAIN drafts' PROVE FitsSetup(d)'
    <3>1. CASE d \in new
      BY <1>2, <1>3, <3>1 DEF FitsSetup, ConstraintsConfirmed, KeepsRest
    <3>2. CASE d \in DOMAIN drafts
      BY <3>2 DEF FitInv, FreshFits, FitsSetup, ConstraintsConfirmed, KeepsRest
    <3> QED
      BY <3>1, <3>2
  <2> QED
    BY <2>1 DEF FreshFits
<1>5. DraftBoundToRevision'
  BY <1>3 DEF FitInv, DraftBoundToRevision
<1> QED
  BY <1>1, <1>4, <1>5

\* Each handler keeps fresh drafts fitting the setup: solvers start from the tournament
\* there is, and what changes it makes every draft stale.
LEMMA FitStep ==
  Overlap = FALSE /\ FitInv /\ Next => SolvedAsIs' /\ FreshFits' /\ DraftBoundToRevision'
<1> SUFFICES ASSUME Overlap = FALSE, FitInv, Next
             PROVE  SolvedAsIs' /\ FreshFits' /\ DraftBoundToRevision'
  OBVIOUS
<1> DEFINE Goal == SolvedAsIs' /\ FreshFits' /\ DraftBoundToRevision'
<1>t. /\ flight \in [Request -> FlightType] /\ TypeInv /\ SolvedAsIs /\ FreshFits
      /\ DraftBoundToRevision /\ Idle.phase = "idle" /\ issued.draft \in Nat
      /\ DOMAIN drafts \subseteq 1..issued.draft /\ DOMAIN diffs \subseteq DOMAIN drafts
      /\ Profiles \in Nat
  BY ConstantsAssumption
  DEF FitInv, TypeInv, TypeOK, IssuedType, IdsIssued, Idle, RecordsResolve
<1>n. tournament' \in TournamentType
  BY <1>t, TypeStep DEF TypeOK
<1>f. ASSUME UNCHANGED <<tournament, confirmed, drafts, diffs, flight>> PROVE Goal
  BY <1>f, FitAfterFrame
<1>1. ASSUME Setup PROVE Goal
  <2>0. tournament \in TournamentType
    BY <1>t DEF TypeInv, TypeOK
  <2>1. MayStart /\ UNCHANGED flight
    BY <1>1 DEF Setup, SaveSetup, PatchTournament, ConfirmConstraints, ResetWorkspace,
                ResetUnknownSample
  <2>2. \/ ClearTournamentState
        \/ UNCHANGED <<drafts, diffs>> /\ tournament'.revision = tournament.revision + 1
    <3>1. ASSUME NEW f, tournament' = [tournament EXCEPT !.revision = @ + 1, !.ready = f]
          PROVE  tournament'.revision = tournament.revision + 1
      BY <2>0, <3>1 DEF TournamentType
    <3>2. ASSUME NEW k \in Key, NEW rest \in 0..MaxRest, SaveSetup(k, rest)
          PROVE  UNCHANGED <<drafts, diffs>> /\ tournament'.revision = tournament.revision + 1
      BY <3>2 DEF SaveSetup
    <3>3. ASSUME NEW ready, NEW newSlots, PatchTournament(ready, newSlots)
          PROVE  UNCHANGED <<drafts, diffs>> /\ tournament'.revision = tournament.revision + 1
      BY <2>0, <3>3 DEF PatchTournament, TournamentType
    <3>4. ConfirmConstraints
            => UNCHANGED <<drafts, diffs>> /\ tournament'.revision = tournament.revision + 1
      BY <3>1 DEF ConfirmConstraints
    <3> QED
      BY <1>1, <3>2, <3>3, <3>4 DEF Setup, ResetWorkspace, ResetUnknownSample
  <2> QED
    BY <1>n, <2>1, <2>2, FitAfterSetup
<1>2. ASSUME Generation PROVE Goal
  <2>1. ASSUME NEW r \in Request, NEW k \in Key, BeginGeneration(r, k) PROVE Goal
    <3>1. flight'[r].basis = tournament /\ \A q \in Request : q # r => flight'[q] = flight[q]
      BY <2>1, <1>t DEF BeginGeneration, Idle
    <3> QED
      BY <2>1, <3>1, FitAfterFrame DEF BeginGeneration, workspace
  <2>2. ASSUME NEW r \in Request, StoreGeneration(r) PROVE Goal
    <3> DEFINE new == (issued.draft + 1)..(issued.draft + Profiles)
    <3>1. flight[r].phase = "generating" /\ flight[r].basis = tournament /\ ConstraintsConfirmed
      BY <1>t, <2>2 DEF StoreGeneration, SolvedAsIs, Solving
    <3>2. PICK place \in [new -> Feasible(Start, tournament.rest)] :
            drafts' = [d \in DOMAIN drafts \cup new |->
                         IF d \in new THEN NewDraft(tournament, place[d]) ELSE drafts[d]]
      BY <2>2, <3>1 DEF StoreGeneration
    <3>3. new \cap DOMAIN drafts = {}
      BY <1>t
    <3>4. \A q \in Request : flight'[q] = flight[q]
                               \/ flight'[q].phase \notin {"generating", "repairing"}
      BY <1>t, <2>2 DEF StoreGeneration, Idle
    <3>5. \A d \in new : place[d] \in Feasible(Start, tournament.rest) /\ place[d] \in Placement
      BY <3>2, FeasibleIsPlacement
    <3>6. UNCHANGED <<tournament, confirmed, diffs>>
      BY <2>2 DEF StoreGeneration
    <3> HIDE DEF new, Goal
    <3>7. /\ DOMAIN drafts' = DOMAIN drafts \cup new
          /\ \A d \in DOMAIN drafts : drafts'[d] = drafts[d]
          /\ \A d \in new : drafts'[d] = NewDraft(tournament, place[d])
      BY <3>2, <3>3
    <3> QED
      BY <3>1, <3>3, <3>4, <3>5, <3>6, <3>7, FitAfterSolver DEF Goal
  <2>3. ASSUME NEW r \in Request, FailGeneration(r) \/ FinishGeneration(r) PROVE Goal
    <3>1. \A q \in Request : flight'[q] = flight[q]
                               \/ flight'[q].phase \notin {"generating", "repairing"}
      BY <1>t, <2>3 DEF FailGeneration, FinishGeneration
    <3> QED
      BY <2>3, <3>1, FitAfterFrame DEF FailGeneration, FinishGeneration, workspace
  <2> QED
    BY <1>f, <1>2, <2>1, <2>2, <2>3 DEF Generation, CancelRun
<1>3. ASSUME Approval PROVE Goal
  <2>1. ASSUME NEW r \in Request, NEW phase \in {"approving", "restoring"}, NEW k, NEW d,
               NEW source, AppendVersion(r, phase, k, d, source)
        PROVE  Goal
    <3>1. \A q \in Request : flight'[q] = flight[q]
                               \/ flight'[q].phase \notin {"generating", "repairing"}
      BY <1>t, <2>1 DEF AppendVersion, Idle
    <3> QED
      BY <2>1, <3>1, FitAfterFrame DEF AppendVersion
  <2>2. ASSUME NEW r \in Request, RecordVersion(r) PROVE Goal
    <3>1. \A q \in Request : flight'[q] = flight[q]
                               \/ flight'[q].phase \notin {"generating", "repairing"}
      BY <1>t, <2>2 DEF RecordVersion
    <3> QED
      BY <2>2, <3>1, FitAfterFrame DEF RecordVersion
  <2> QED
    BY <1>f, <1>3, <2>1, <2>2 DEF Approval, ApproveDraft, RestoreVersion, RejectDraft
<1>4. ASSUME Recovery PROVE Goal
  <2>1. ASSUME NEW r \in Request, NEW x \in DOMAIN disruptions, BeginRepair(r, x) PROVE Goal
    <3>1. /\ flight'[r].basis = tournament /\ flight'[r].phase = "repairing"
          /\ \A q \in Request : q # r => flight'[q] = flight[q]
      BY <2>1, <1>t DEF BeginRepair, Idle
    <3> QED
      BY <2>1, <3>1, FitAfterFrame DEF BeginRepair, workspace
  <2>2. ASSUME NEW r \in Request, StoreRepair(r) PROVE Goal
    <3> DEFINE d == issued.draft + 1
    <3>1. flight[r].basis = tournament
      BY <1>t, <2>2 DEF StoreRepair, SolvedAsIs, Solving
    <3>2. PICK p \in Feasible(FreeStarts(tournament, flight[r].unavailable), 0) :
            drafts' = Put(drafts, d, NewDraft(tournament, p))
      BY <2>2, <3>1 DEF StoreRepair
    <3>3. p \in Placement
      BY <3>2, FeasibleIsPlacement DEF FreeStarts
    <3>4. \A q \in Request : flight'[q] = flight[q]
                               \/ flight'[q].phase \notin {"generating", "repairing"}
      BY <1>t, <2>2 DEF StoreRepair, Idle
    <3>5. {d} \cap DOMAIN drafts = {}
      BY <1>t
    <3>6. UNCHANGED <<tournament, confirmed>> /\ diffs' = Put(diffs, d, flight[r].baseline)
      BY <2>2 DEF StoreRepair
    <3> HIDE DEF d, Goal
    <3>7. /\ DOMAIN drafts' = DOMAIN drafts \cup {d}
          /\ \A x \in DOMAIN drafts : drafts'[x] = drafts[x]
          /\ drafts'[d] = NewDraft(tournament, p)
          /\ DOMAIN diffs' = DOMAIN diffs \cup {d}
      BY <3>2, <3>5, <3>6 DEF Put
    <3>8. \A x \in DOMAIN drafts : x \in DOMAIN diffs' <=> x \in DOMAIN diffs
      BY <3>5, <3>7
    <3> QED
      BY <3>3, <3>4, <3>5, <3>6, <3>7, <3>8, FitAfterSolver DEF Goal
  <2>3. ASSUME NEW r \in Request, FailRepair(r) \/ FinishRepair(r) PROVE Goal
    <3>1. \A q \in Request : flight'[q] = flight[q]
                               \/ flight'[q].phase \notin {"generating", "repairing"}
      BY <1>t, <2>3 DEF FailRepair, FinishRepair
    <3> QED
      BY <2>3, <3>1, FitAfterFrame DEF FailRepair, FinishRepair, workspace
  <2> QED
    BY <1>f, <1>4, <2>1, <2>2, <2>3 DEF Recovery, DeclareDisruption, RefuseRepair, workspace
<1> QED
  BY <1>1, <1>2, <1>3, <1>4 DEF Next

\* The invariant behind the staleness guard of approve_draft.
THEOREM FitInvariant ==
  ASSUME Overlap = FALSE
  PROVE  Spec => []FitInv
<1>1. Init => SolvedAsIs /\ FreshFits /\ DraftBoundToRevision
  BY EmptyTyped DEF Init, SolvedAsIs, Solving, FreshFits, FitsSetup, DraftBoundToRevision, Idle
<1>2. FitInv /\ [Next]_vars => SolvedAsIs' /\ FreshFits' /\ DraftBoundToRevision'
  <2>1. FitInv /\ UNCHANGED vars => SolvedAsIs' /\ FreshFits' /\ DraftBoundToRevision'
    BY DEF FitInv, SolvedAsIs, Solving, FreshFits, FitsSetup, DraftBoundToRevision,
           ConstraintsConfirmed, KeepsRest, vars
  <2> QED
    BY <2>1, FitStep
<1>3. SerialInv => TypeInv /\ IdsIssued /\ Alone
  BY DEF SerialInv, HistoryInv
<1>4. Spec => []SerialInv
  BY SerialInvariant
<1> QED
  BY <1>1, <1>2, <1>3, <1>4, PTL DEF Spec, FitInv

\* A draft carries the revision its solver worked on.
THEOREM DraftsBoundSerially ==
  ASSUME Overlap = FALSE
  PROVE  Spec => []DraftBoundToRevision
<1>1. FitInv => DraftBoundToRevision
  BY DEF FitInv
<1> QED
  BY <1>1, FitInvariant, PTL

\* What a step newly approves is fresh: its revision is the tournament's.
LEMMA ApprovedIsFresh ==
  ASSUME TypeInv, IdsIssued, Next, NEW d \in DOMAIN drafts, NewlyApproved(d)
  PROVE  drafts[d].revision = tournament.revision
<1>1. ~UNCHANGED versions /\ versions' # <<>>
  BY DEF NewlyApproved
<1>2. Approval
  BY <1>1 DEF Next, Setup, SaveSetup, PatchTournament, ConfirmConstraints, ResetWorkspace,
              ResetUnknownSample, ClearTournamentState, Generation, BeginGeneration,
              StoreGeneration, FailGeneration, FinishGeneration, CancelRun, Recovery,
              DeclareDisruption, BeginRepair, RefuseRepair, StoreRepair, FailRepair,
              FinishRepair, workspace
<1>3. ASSUME NEW r \in Request, NEW e \in DOMAIN drafts, NEW k \in Key, ApproveDraft(r, e, k)
      PROVE  drafts[d].revision = tournament.revision
  <2>1. e \in Nat
    BY DEF TypeInv, TypeOK, DictOf
  <2>2. versions'[Len(versions')].draft = e
    BY <1>3, <2>1, AppendedHistory DEF ApproveDraft
  <2> QED
    BY <1>3, <2>2 DEF NewlyApproved, ApproveDraft, DraftIsFresh
<1>4. ASSUME NEW r \in Request, NEW i \in DOMAIN versions, NEW k \in Key,
             RestoreVersion(r, i, k)
      PROVE  FALSE
  <2>1. versions[i] \in VersionType
    BY DEF TypeInv, TypeOK
  <2>2. versions[i].draft \in Nat /\ versions[i].id \in Nat
    BY <2>1 DEF VersionType
  <2>3. versions'[Len(versions')].restoredFrom = versions[i].id
    BY <1>4, <2>2, AppendedHistory DEF RestoreVersion
  <2> QED
    BY <1>4, <2>2, <2>3 DEF NewlyApproved, IdsIssued
<1> QED
  BY <1>1, <1>2, <1>3, <1>4 DEF Approval, RejectDraft, RecordVersion

\* A generated option becomes official only under its own confirmed setup.
THEOREM GeneratedFitsSetupSerially ==
  ASSUME Overlap = FALSE
  PROVE  Spec => GeneratedFitsSetup
<1> DEFINE Fits == \A d \in DOMAIN drafts \ DOMAIN diffs : NewlyApproved(d) =>
                     /\ ConstraintsConfirmed
                     /\ drafts[d].slots = tournament.slots
                     /\ KeepsRest(d, tournament.rest)
<1>1. ASSUME FitInv, Next PROVE Fits
  BY <1>1, ApprovedIsFresh DEF FitInv, FreshFits, FitsSetup
<1>2. FitInv /\ [Next]_vars => [Fits]_vars
  BY <1>1
<1> QED
  BY <1>2, FitInvariant, PTL DEF Spec, GeneratedFitsSetup

\* A repair becomes official only on slots the tournament still has.
THEOREM RepairFitsSlotsSerially ==
  ASSUME Overlap = FALSE
  PROVE  Spec => RepairFitsSlots
<1> DEFINE Fits == \A d \in DOMAIN diffs : NewlyApproved(d) => drafts[d].slots = tournament.slots
<1>1. ASSUME FitInv, Next PROVE Fits
  <2>1. DOMAIN diffs \subseteq DOMAIN drafts
    BY <1>1 DEF FitInv, TypeInv, RecordsResolve
  <2> QED
    BY <1>1, <2>1, ApprovedIsFresh DEF FitInv, FreshFits, FitsSetup
<1>2. FitInv /\ [Next]_vars => [Fits]_vars
  BY <1>1
<1> QED
  BY <1>2, FitInvariant, PTL DEF Spec, RepairFitsSlots
=============================================================================
