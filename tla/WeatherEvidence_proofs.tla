----------------------- MODULE WeatherEvidence_proofs -----------------------
(***************************************************************************)
(* Proofs about WeatherEvidence for every tournament, forecast and number  *)
(* of slots: types and the comparison of profiles however requests overlap,*)
(* the rest when the requests of a workspace are answered one at a time.   *)
(***************************************************************************)
EXTENDS WeatherEvidence, WeatherRisk_proofs, TLAPS

\* The parts of the weather that are read.
WeatherShape ==
  \E q, c, k, s, b : weather = [quality |-> q, coverage |-> c, risks |-> k,
                                source |-> s, bound |-> b]

\* Nothing a handler has read is out of date when it is used.
ReadIsCurrent ==
  /\ refresh = Idle \/ generation = Idle
  /\ refresh # Idle => refresh = [slots |-> slots]
  /\ generation # Idle => generation.risks = weather.risks

EvidenceInv == WeatherShape /\ ReadIsCurrent /\ EvidenceBound /\ OneWeatherSnapshot

-----------------------------------------------------------------------------
LEMMA OptionMetrics ==
  ASSUME NEW p, NEW place, NEW S, NEW risks
  PROVE  LET o == Option(p, place, S, risks)
         IN  /\ o.risk = ScheduleRisk(FixtureRisks(o.placement, risks))
             /\ o.coverage = ScheduleCoverage(FixtureRisks(o.placement, risks))
  BY DEF Option

\* Whatever is selected for a profile is some placement with its own metrics.
LEMMA SelectedMetrics ==
  ASSUME NEW P, NEW answers, NEW S, NEW risks, NEW options,
         options = [p \in P |-> Option(p, answers[p], S, risks)],
         NEW p \in P
  PROVE  /\ DOMAIN Selected(options, S, risks) = P
         /\ LET o == Selected(options, S, risks)[p]
            IN  /\ o.risk = ScheduleRisk(FixtureRisks(o.placement, risks))
                /\ o.coverage = ScheduleCoverage(FixtureRisks(o.placement, risks))
<1>1. DOMAIN options = P /\ options[p] = Option(p, answers[p], S, risks)
  OBVIOUS
<1>2. DOMAIN Selected(options, S, risks) = P
  BY <1>1 DEF Selected
<1>3. \E place : Promoted(options, p, S, risks, WeatherKey) = Option(p, place, S, risks)
  BY <1>1 DEF Promoted
<1>4. \E place : Promoted(options, p, S, risks, Fairness) = Option(p, place, S, risks)
  BY <1>1 DEF Promoted
<1>5. \E place : Selected(options, S, risks)[p] = Option(p, place, S, risks)
  BY <1>1, <1>3, <1>4 DEF Selected
<1>. QED
  BY <1>2, <1>5, OptionMetrics

-----------------------------------------------------------------------------
\* The two ways in which a handler leaves weather that is about the tournament.
LEMMA FreshBound ==
  ASSUME NEW source \in Sky \cup {Demo},
         weather' = WeatherFrom(source, slots', revision', slots')
  PROVE  WeatherShape' /\ EvidenceBound'
<1>1. source # NoSource
  BY WeatherAssumption DEF NoSource, Demo
<1>. QED
  BY <1>1 DEF WeatherFrom, WeatherShape, EvidenceBound

LEMMA EmptyBound ==
  ASSUME NEW quality, weather' = WithoutRisks(quality, revision', slots')
  PROVE  WeatherShape' /\ EvidenceBound'
  BY DEF WithoutRisks, WeatherShape, EvidenceBound

LEMMA Rebinding ==
  ASSUME WeatherShape, EvidenceBound, slots' = slots,
         weather' = Bound(weather, revision', slots')
  PROVE  WeatherShape' /\ EvidenceBound' /\ weather'.risks = weather.risks
<1>1. PICK q, c, k, s, b : weather = [quality |-> q, coverage |-> c, risks |-> k,
                                      source |-> s, bound |-> b]
  BY DEF WeatherShape
<1>2. weather' = [quality |-> q, coverage |-> c, risks |-> k, source |-> s,
                  bound |-> [revision |-> revision', slots |-> slots']]
  BY <1>1 DEF Bound
<1>3. weather'.risks = weather.risks /\ weather'.source = weather.source
  BY <1>1, <1>2
<1>4. WeatherShape'
  BY <1>2 DEF WeatherShape
<1>5. weather'.bound = [revision |-> revision', slots |-> slots']
  BY <1>2
<1>6. RisksUnder(weather.source, slots)' = RisksUnder(weather.source, slots)
  BY <1>3 DEF RisksUnder, RiskUnder
<1>. QED
  BY <1>3, <1>4, <1>5, <1>6 DEF EvidenceBound

\* What is read of a run depends on the run alone.
LEMMA RunKept ==
  ASSUME OneWeatherSnapshot, run' \in {run, NoRun}
  PROVE  OneWeatherSnapshot'
<1>1. CASE run' = NoRun
  BY <1>1 DEF OneWeatherSnapshot
<1>2. CASE run' = run
  BY <1>2 DEF OneWeatherSnapshot, ShownRisks, SnapshotOf
<1>. QED
  BY <1>1, <1>2

-----------------------------------------------------------------------------
LEMMA EvidenceInit == Init => EvidenceInv
<1>. SUFFICES ASSUME Init PROVE EvidenceInv
  OBVIOUS
<1>1. ReadIsCurrent /\ OneWeatherSnapshot
  BY DEF Init, ReadIsCurrent, OneWeatherSnapshot
<1>2. CASE HasTournament
  <2>1. weather = WeatherFrom(Demo, slots, revision, slots)
    BY <1>2 DEF Init
  <2>2. Demo # NoSource
    BY DEF Demo, NoSource
  <2>. QED
    BY <1>1, <2>1, <2>2 DEF EvidenceInv, WeatherFrom, WeatherShape, EvidenceBound
<1>3. CASE ~HasTournament
  <2>1. weather = WithoutRisks("not_requested", revision, slots)
    BY <1>3 DEF Init, NotRequested, HasTournament
  <2>. QED
    BY <1>1, <2>1 DEF EvidenceInv, WithoutRisks, WeatherShape, EvidenceBound
<1>. QED
  BY <1>2, <1>3

LEMMA EvidenceStep ==
  ASSUME Overlap = FALSE, EvidenceInv, [Next]_vars
  PROVE  EvidenceInv'
<1>. USE DEF EvidenceInv
<1>1. ASSUME Turn PROVE refresh = Idle /\ generation = Idle
  BY <1>1 DEF Turn
<1>2. ASSUME NEW S \in {SlotsOf(0, SampleShape), NoSlots}, Reset(S) PROVE EvidenceInv'
  <2>1. run' \in {run, NoRun} /\ refresh' = Idle /\ generation' = Idle
    BY <1>1, <1>2 DEF Reset
  <2>2. CASE S = NoSlots
    <3>1. weather' = WithoutRisks("not_requested", revision', slots')
      BY <1>2, <2>2 DEF Reset, NotRequested
    <3>. QED
      BY <2>1, <3>1, EmptyBound, RunKept DEF ReadIsCurrent
  <2>3. CASE S # NoSlots
    <3>1. weather' = WeatherFrom(Demo, slots', revision', slots')
      BY <1>2, <2>3 DEF Reset
    <3>. QED
      BY <2>1, <3>1, FreshBound, RunKept DEF ReadIsCurrent
  <2>. QED
    BY <2>2, <2>3
<1>3. ASSUME ResetUnknownSample PROVE EvidenceInv'
  <2>1. run' \in {run, NoRun}
    BY <1>3 DEF ResetUnknownSample
  <2>2. WeatherShape' /\ ReadIsCurrent' /\ EvidenceBound'
    BY <1>3 DEF ResetUnknownSample, WeatherShape, ReadIsCurrent, EvidenceBound
  <2>. QED
    BY <2>1, <2>2, RunKept
<1>4. ASSUME NEW S, Change(S) PROVE EvidenceInv'
  <2>1. run' \in {run, NoRun} /\ refresh' = Idle /\ generation' = Idle
    BY <1>1, <1>4 DEF Change
  <2>2. CASE S = slots
    <3>1. slots' = slots /\ weather' = Bound(weather, revision', slots')
      BY <1>4, <2>2 DEF Change, AfterChange
    <3>. QED
      BY <2>1, <3>1, Rebinding, RunKept DEF ReadIsCurrent
  <2>3. CASE S # slots
    <3>1. weather' = WithoutRisks("refresh_required", revision', slots')
      BY <1>4, <2>3 DEF Change, AfterChange
    <3>. QED
      BY <2>1, <3>1, EmptyBound, RunKept DEF ReadIsCurrent
  <2>. QED
    BY <2>2, <2>3
<1>5. ASSUME Confirm PROVE EvidenceInv'
  <2>1. run' \in {run, NoRun} /\ refresh' = Idle /\ generation' = Idle
    BY <1>1, <1>5 DEF Confirm
  <2>2. slots' = slots /\ weather' = Bound(weather, revision', slots')
    BY <1>5 DEF Confirm
  <2>. QED
    BY <2>1, <2>2, Rebinding, RunKept DEF ReadIsCurrent
<1>6. ASSUME ActivateDemo PROVE EvidenceInv'
  <2>1. run' \in {run, NoRun} /\ refresh' = Idle /\ generation' = Idle
    BY <1>1, <1>6 DEF ActivateDemo
  <2>2. weather' = WeatherFrom(Demo, slots', revision', slots')
    BY <1>6 DEF ActivateDemo
  <2>. QED
    BY <2>1, <2>2, FreshBound, RunKept DEF ReadIsCurrent
<1>7. ASSUME StartRefresh PROVE EvidenceInv'
  <2>1. run' \in {run, NoRun} /\ generation' = Idle /\ refresh' = [slots |-> slots']
    BY <1>1, <1>7 DEF StartRefresh
  <2>2. WeatherShape' /\ EvidenceBound'
    BY <1>7 DEF StartRefresh, WeatherShape, EvidenceBound
  <2>. QED
    BY <2>1, <2>2, RunKept DEF ReadIsCurrent
<1>8. ASSUME NEW source \in Sky \cup {Demo}, FinishRefresh(source) PROVE EvidenceInv'
  <2>1. run' \in {run, NoRun} /\ refresh' = Idle /\ generation' = Idle
    BY <1>8 DEF FinishRefresh, ReadIsCurrent
  <2>2. refresh.slots = slots
    BY <1>8 DEF FinishRefresh, ReadIsCurrent
  <2>3. CASE HasTournament
    <3>1. weather' = WeatherFrom(source, slots', revision', slots')
      BY <1>8, <2>2, <2>3 DEF FinishRefresh
    <3>. QED
      BY <2>1, <3>1, FreshBound, RunKept DEF ReadIsCurrent
  <2>4. CASE ~HasTournament
    <3>1. WeatherShape' /\ EvidenceBound'
      BY <1>8, <2>4 DEF FinishRefresh, WeatherShape, EvidenceBound
    <3>. QED
      BY <2>1, <3>1, RunKept DEF ReadIsCurrent
  <2>. QED
    BY <2>3, <2>4
<1>9. ASSUME NEW profiles \in Profiles, StartGeneration(profiles) PROVE EvidenceInv'
  <2>1. run' \in {run, NoRun} /\ refresh' = Idle /\ generation'.risks = weather'.risks
    BY <1>1, <1>9 DEF StartGeneration
  <2>2. WeatherShape' /\ EvidenceBound'
    BY <1>9 DEF StartGeneration, WeatherShape, EvidenceBound
  <2>. QED
    BY <2>1, <2>2, RunKept DEF ReadIsCurrent
<1>10. ASSUME generation # Idle,
              NEW answers \in [generation.profiles -> Placements(generation.slots)],
              FinishGeneration(answers)
       PROVE  EvidenceInv'
  <2> DEFINE P       == generation.profiles
             S       == generation.slots
             options == [p \in P |-> Option(p, answers[p], S, weather.risks)]
             shown   == Selected(options, S, weather.risks)
  <2>1. generation.risks = weather.risks /\ refresh = Idle
    BY <1>10 DEF ReadIsCurrent
  <2>2. run' = [options |-> shown, snapshot |-> weather]
    BY <1>10, <2>1 DEF FinishGeneration
  <2>3. ASSUME NEW p \in DOMAIN run'.options
        PROVE  /\ run'.options[p].risk = ScheduleRisk(ShownRisks(run, p)')
               /\ run'.options[p].coverage = ScheduleCoverage(ShownRisks(run, p)')
    <3>1. DOMAIN shown = P
      BY SelectedMetrics DEF Selected
    <3>2. p \in P
      BY <2>2, <2>3, <3>1
    <3>3. /\ shown[p].risk = ScheduleRisk(FixtureRisks(shown[p].placement, weather.risks))
          /\ shown[p].coverage =
               ScheduleCoverage(FixtureRisks(shown[p].placement, weather.risks))
      BY <3>2, SelectedMetrics
    <3>4. ShownRisks(run, p)' = FixtureRisks(shown[p].placement, weather.risks)
      BY <2>2 DEF ShownRisks, SnapshotOf
    <3>. HIDE DEF shown
    <3>. QED
      BY <2>2, <3>3, <3>4
  <2>4. OneWeatherSnapshot'
    BY <2>3 DEF OneWeatherSnapshot
  <2>5. WeatherShape' /\ EvidenceBound' /\ ReadIsCurrent'
    BY <1>10, <2>1 DEF FinishGeneration, WeatherShape, EvidenceBound, ReadIsCurrent
  <2>. QED
    BY <2>4, <2>5
<1>11. ASSUME FailGeneration PROVE EvidenceInv'
  <2>1. run' \in {run, NoRun}
    BY <1>11 DEF FailGeneration
  <2>2. WeatherShape' /\ EvidenceBound' /\ ReadIsCurrent'
    BY <1>11 DEF FailGeneration, WeatherShape, EvidenceBound, ReadIsCurrent
  <2>. QED
    BY <2>1, <2>2, RunKept
<1>12. CASE UNCHANGED vars
  <2>1. run' \in {run, NoRun}
    BY <1>12 DEF vars
  <2>2. WeatherShape' /\ EvidenceBound' /\ ReadIsCurrent'
    BY <1>12 DEF vars, WeatherShape, EvidenceBound, ReadIsCurrent
  <2>. QED
    BY <2>1, <2>2, RunKept
<1>13. ASSUME NEW shape, SaveSetup(shape) PROVE EvidenceInv'
  BY <1>4, <1>13 DEF SaveSetup
<1>14. ASSUME NEW closed, Patch(closed) PROVE EvidenceInv'
  BY <1>4, <1>14 DEF Patch
<1>. HIDE DEF EvidenceInv
<1>. QED
  BY <1>2, <1>3, <1>5, <1>6, <1>7, <1>8, <1>9, <1>10, <1>11, <1>12, <1>13, <1>14 DEF Next

LEMMA EvidenceInvariant == ASSUME Overlap = FALSE PROVE Spec => []EvidenceInv
<1>1. Init => EvidenceInv
  BY EvidenceInit
<1>2. EvidenceInv /\ [Next]_vars => EvidenceInv'
  BY EvidenceStep
<1>. QED
  BY <1>1, <1>2, PTL DEF Spec

\* When requests are answered one at a time, the weather is always about the
\* tournament the workspace has (routes.py:341-361, 591-602).
THEOREM EvidenceBoundHolds == ASSUME Overlap = FALSE PROVE Spec => []EvidenceBound
<1>1. EvidenceInv => EvidenceBound
  BY DEF EvidenceInv
<1>. QED
  BY <1>1, EvidenceInvariant, PTL

\* Then the metrics of every stored run are those of its own snapshot, also of the
\* profiles whose schedule is another's (schedules.py:565, profiles.py:160-205).
THEOREM OneWeatherSnapshotHolds ==
  ASSUME Overlap = FALSE PROVE Spec => []OneWeatherSnapshot
<1>1. EvidenceInv => OneWeatherSnapshot
  BY DEF EvidenceInv
<1>. QED
  BY <1>1, EvidenceInvariant, PTL

-----------------------------------------------------------------------------
(* Types, however requests overlap. *)

\* A shape with some of its open slots closed.
Closing(shape, closed) == [i \in Index |-> [shape[i] EXCEPT !.open = @ /\ i \notin closed]]

\* What a setup expands to are slots that may be read.
LEMMA ShapeRead ==
  ASSUME NEW setup \in 0..setups, NEW shape \in Shapes
  PROVE  SlotsRead(SlotsOf(setup, shape))
<1>1. shape \in [Index -> [venue : Venue, start : Int, open : BOOLEAN]]
  BY WeatherAssumption
<1>2. \A i \in Index : [shape[i] EXCEPT !.open = @ /\ i \notin {}] = shape[i]
  BY <1>1
<1>3. Closing(shape, {}) = shape
  BY <1>1, <1>2 DEF Closing
<1>4. \E closed \in SUBSET Index : SlotsOf(setup, shape) = SlotsOf(setup, Closing(shape, closed))
  BY <1>3
<1>. QED
  BY <1>4 DEF SlotsRead, Closing

\* Closing slots leaves slots of the same setup.
LEMMA PatchRead ==
  ASSUME SlotsRead(slots), slots # NoSlots, NEW closed
  PROVE  SlotsRead([s \in DOMAIN slots |-> [slots[s] EXCEPT !.open = @ /\ s \notin closed]])
<1> DEFINE T == [s \in DOMAIN slots |-> [slots[s] EXCEPT !.open = @ /\ s \notin closed]]
<1>1. PICK setup \in 0..setups, shape \in Shapes : \E c \in SUBSET Index :
        slots = SlotsOf(setup, Closing(shape, c))
  BY DEF SlotsRead, Closing
<1>2. PICK c \in SUBSET Index : slots = SlotsOf(setup, Closing(shape, c))
  BY <1>1
<1> DEFINE d == c \cup {i \in Index : <<setup, i>> \in closed}
<1>3. shape \in [Index -> [venue : Venue, start : Int, open : BOOLEAN]]
  BY WeatherAssumption
<1>4. DOMAIN slots = {setup} \X Index
  BY <1>2 DEF SlotsOf
<1>5. ASSUME NEW i \in Index
      PROVE  T[<<setup, i>>] = SlotsOf(setup, Closing(shape, d))[<<setup, i>>]
  <2>1. <<setup, i>> \in {setup} \X Index
    OBVIOUS
  <2>2. slots[<<setup, i>>] = [shape[i] EXCEPT !.open = @ /\ i \notin c]
    BY <1>2, <2>1 DEF SlotsOf, Closing
  <2>3. SlotsOf(setup, Closing(shape, d))[<<setup, i>>] = [shape[i] EXCEPT !.open = @ /\ i \notin d]
    BY <2>1 DEF SlotsOf, Closing
  <2>4. T[<<setup, i>>] = [slots[<<setup, i>>] EXCEPT !.open = @ /\ <<setup, i>> \notin closed]
    BY <1>4, <2>1
  <2>5. shape[i] \in [venue : Venue, start : Int, open : BOOLEAN]
    BY <1>3
  <2>6. i \in d <=> i \in c \/ <<setup, i>> \in closed
    OBVIOUS
  <2>. HIDE DEF T, d
  <2>. QED
    BY <2>2, <2>3, <2>4, <2>5, <2>6
<1>6. T = SlotsOf(setup, Closing(shape, d))
  <2>1. DOMAIN SlotsOf(setup, Closing(shape, d)) = {setup} \X Index
    BY DEF SlotsOf
  <2>2. DOMAIN T = {setup} \X Index
    BY <1>4
  <2>3. \A s \in {setup} \X Index : T[s] = SlotsOf(setup, Closing(shape, d))[s]
    BY <1>5
  <2>4. SlotsOf(setup, Closing(shape, d)) = [s \in {setup} \X Index |-> Closing(shape, d)[s[2]]]
    BY DEF SlotsOf
  <2>. HIDE DEF d
  <2>. QED
    BY <1>4, <2>1, <2>2, <2>3, <2>4
<1>7. d \in SUBSET Index
  OBVIOUS
<1>. HIDE DEF T, d
<1>8. SlotsRead(T)
  BY <1>6, <1>7 DEF SlotsRead, Closing
<1>. QED
  BY <1>8 DEF T

\* Slots read under one setup may still be read after the next one is saved.
LEMMA ReadStays ==
  ASSUME TypeOK, setups' = setups \/ setups' = setups + 1, NEW S, SlotsRead(S)
  PROVE  SlotsRead(S)'
<1>1. setups \in Nat /\ 0..setups \subseteq 0..setups'
  BY WeatherAssumption DEF TypeOK
<1>. QED
  BY <1>1 DEF SlotsRead

\* Slots a step assigns can be read after it.
LEMMA AssignedRead ==
  ASSUME NEW S, SlotsRead(S), slots' = S, setups' = setups
  PROVE  SlotsRead(slots)'
  BY DEF SlotsRead

\* Every handler keeps the types; a setup that could not be read would make the
\* digest of the slots and the risks of a refresh meaningless.
LEMMA WeatherTypeStep == TypeOK /\ [Next]_vars => TypeOK'
<1>. SUFFICES ASSUME TypeOK, [Next]_vars PROVE TypeOK'
  OBVIOUS
<1>0. revision \in Nat /\ setups \in Nat /\ 0 \in 0..setups /\ 0 \in 0..MaxRevision
  BY WeatherAssumption DEF TypeOK
\* The fields no condition of a handler reads.
<1>1. ASSUME setups' = setups \/ setups' = setups + 1, SlotsRead(slots)',
             refresh' \in {refresh, Idle}, generation' \in {generation, Idle},
             run' \in {run, NoRun}
      PROVE  /\ refresh' = Idle \/ SlotsRead(refresh.slots)'
             /\ generation' = Idle \/ generation'.profiles \in Profiles
             /\ run' = NoRun \/ DOMAIN run'.options \in Profiles
  BY <1>1, ReadStays DEF TypeOK
<1>2. ASSUME UNCHANGED <<slots, setups>> PROVE SlotsRead(slots)'
  BY <1>2 DEF TypeOK, SlotsRead
<1>3. ASSUME NEW S \in {SlotsOf(0, SampleShape), NoSlots}, Reset(S) PROVE TypeOK'
  <2>1. SlotsRead(SlotsOf(0, SampleShape))
    BY <1>0, ShapeRead, WeatherAssumption
  <2>2. SlotsRead(NoSlots)
    BY DEF SlotsRead
  <2>3. slots' = S /\ setups' = setups /\ SlotsRead(S)
    BY <1>3, <2>1, <2>2 DEF Reset
  <2>4. SlotsRead(slots)'
    BY <2>3, AssignedRead
  <2>. QED
    BY <1>0, <1>1, <1>3, <2>4 DEF Reset, TypeOK
<1>4. ASSUME NEW shape \in Shapes, SaveSetup(shape) PROVE TypeOK'
  <2>1. PICK n \in 0..MaxSetups : n = setups + 1 /\ setups' = n
    BY <1>0, <1>4, WeatherAssumption DEF SaveSetup, TypeOK
  <2> DEFINE S == SlotsOf(n, shape)
  <2>2. shape = Closing(shape, {})
    <3>1. shape \in [Index -> [venue : Venue, start : Int, open : BOOLEAN]]
      BY WeatherAssumption
    <3>2. \A i \in Index : [shape[i] EXCEPT !.open = @ /\ i \notin {}] = shape[i]
      BY <3>1
    <3>. QED
      BY <3>1, <3>2 DEF Closing
  <2>3. n \in 0..setups' /\ \E closed \in SUBSET Index : S = SlotsOf(n, Closing(shape, closed))
    BY <1>0, <2>1, <2>2
  <2>4. Change(S)
    BY <1>4, <2>1 DEF SaveSetup
  <2>5. revision' \in 0..MaxRevision /\ slots' = S
    BY <1>0, <2>4, WeatherAssumption DEF Change
  <2>. HIDE DEF S
  <2>6. SlotsRead(slots)'
    BY <2>3, <2>5 DEF SlotsRead, Closing
  <2>. QED
    BY <1>1, <2>1, <2>4, <2>5, <2>6 DEF Change, TypeOK
<1>5. ASSUME NEW closed \in SUBSET DOMAIN slots, Patch(closed) PROVE TypeOK'
  <2> DEFINE S == [s \in DOMAIN slots |-> [slots[s] EXCEPT !.open = @ /\ s \notin closed]]
  <2>1. Change(S) /\ setups' = setups
    BY <1>5 DEF Patch
  <2>2. SlotsRead(S)
    BY <2>1, PatchRead DEF Change, HasTournament, TypeOK
  <2>. HIDE DEF S
  <2>3. revision' \in 0..MaxRevision /\ slots' = S
    BY <1>0, <2>1, WeatherAssumption DEF Change
  <2>4. SlotsRead(slots)'
    BY <2>1, <2>2, <2>3, AssignedRead
  <2>. QED
    BY <1>1, <2>1, <2>3, <2>4 DEF Change, TypeOK
<1>6. ASSUME Confirm PROVE TypeOK'
  BY <1>0, <1>1, <1>2, <1>6, WeatherAssumption DEF Confirm, TypeOK, HasTournament
<1>7. ASSUME ResetUnknownSample \/ ActivateDemo PROVE TypeOK'
  BY <1>1, <1>2, <1>7 DEF ResetUnknownSample, ActivateDemo, TypeOK, HasTournament
<1>8. ASSUME StartRefresh PROVE TypeOK'
  <2>1. SlotsRead(slots)' /\ refresh'.slots = slots'
    BY <1>2, <1>8 DEF StartRefresh
  <2>. QED
    BY <1>8, <2>1 DEF StartRefresh, TypeOK, HasTournament, SlotsRead
<1>9. ASSUME NEW source, FinishRefresh(source) PROVE TypeOK'
  BY <1>1, <1>2, <1>9 DEF FinishRefresh, TypeOK, HasTournament
<1>10. ASSUME NEW profiles \in Profiles, StartGeneration(profiles) PROVE TypeOK'
  <2>1. generation'.profiles = profiles
    BY <1>10 DEF StartGeneration
  <2>2. UNCHANGED <<revision, slots, setups, confirmed, refresh, run>>
    BY <1>10 DEF StartGeneration
  <2>. QED
    BY <1>2, <1>10, <2>1, <2>2, ReadStays DEF TypeOK, HasTournament
<1>11. ASSUME NEW answers, FinishGeneration(answers) PROVE TypeOK'
  <2>1. DOMAIN run'.options = generation.profiles
    BY <1>11 DEF FinishGeneration, Selected
  <2>2. UNCHANGED <<revision, slots, setups, confirmed, refresh>> /\ generation' = Idle
        /\ generation.profiles \in Profiles
    BY <1>11 DEF FinishGeneration, TypeOK
  <2>. QED
    BY <1>2, <2>1, <2>2, ReadStays DEF TypeOK, HasTournament
<1>12. ASSUME FailGeneration PROVE TypeOK'
  BY <1>1, <1>2, <1>12 DEF FailGeneration, TypeOK, HasTournament
<1>13. CASE UNCHANGED vars
  BY <1>1, <1>2, <1>13 DEF vars, TypeOK, HasTournament
<1>. QED
  BY <1>3, <1>4, <1>5, <1>6, <1>7, <1>8, <1>9, <1>10, <1>11, <1>12, <1>13 DEF Next

LEMMA WeatherTypeInit == Init => TypeOK
<1>. SUFFICES ASSUME Init PROVE TypeOK
  OBVIOUS
<1>1. setups \in 0..MaxSetups /\ 0 \in 0..setups /\ revision \in 0..MaxRevision
  BY WeatherAssumption DEF Init
<1>2. SlotsRead(SlotsOf(0, SampleShape)) /\ SlotsRead(NoSlots)
  BY <1>1, ShapeRead, WeatherAssumption DEF SlotsRead
<1>. QED
  BY <1>1, <1>2 DEF Init, TypeOK

\* Slots, refreshes, generations and runs keep their shape however requests overlap:
\* what a late refresh or generation holds are slots of some setup saved before.
THEOREM WeatherTypeCorrect == Spec => []TypeOK
BY WeatherTypeInit, WeatherTypeStep, PTL DEF Spec

-----------------------------------------------------------------------------
(* The worst hour.                                                         *)

\* The slots that are read are those of one setup, each at one of the venues.
LEMMA ReadShape ==
  ASSUME TypeOK, NEW S, SlotsRead(S), S # NoSlots
  PROVE  \E shape \in Shapes : \A s \in DOMAIN S :
           /\ s \in Identity /\ s[2] \in Index
           /\ S[s].venue \in Venue
           /\ S[s].open => S[s] = [shape[s[2]] EXCEPT !.open = TRUE]
<1>2. PICK setup \in 0..setups, shape \in Shapes : \E c \in SUBSET Index :
        S = SlotsOf(setup, Closing(shape, c))
  BY DEF SlotsRead, Closing
<1>3. PICK c \in SUBSET Index : S = SlotsOf(setup, Closing(shape, c))
  BY <1>2
<1>4. shape \in [Index -> [venue : Venue, start : Int, open : BOOLEAN]]
  BY WeatherAssumption
<1>5. DOMAIN S = {setup} \X Index
  BY <1>3 DEF SlotsOf
<1>7. setup \in 0..MaxSetups
  BY WeatherAssumption DEF TypeOK
<1> SUFFICES ASSUME NEW s \in DOMAIN S
             PROVE  /\ s \in Identity /\ s[2] \in Index
                    /\ S[s].venue \in Venue
                    /\ S[s].open => S[s] = [shape[s[2]] EXCEPT !.open = TRUE]
  BY <1>2
<1>6. s = <<setup, s[2]>> /\ s[2] \in Index
  BY <1>5
<1>8. S[s] = [shape[s[2]] EXCEPT !.open = @ /\ s[2] \notin c]
  BY <1>3, <1>5, <1>6 DEF SlotsOf, Closing
<1>9. shape[s[2]] \in [venue : Venue, start : Int, open : BOOLEAN]
  BY <1>4, <1>6
<1>10. S[s].venue \in Venue /\ S[s].open = (shape[s[2]].open /\ s[2] \notin c)
  BY <1>8, <1>9
<1>11. s \in Identity
  BY <1>6, <1>7 DEF Identity
<1>12. S[s].open => S[s] = [shape[s[2]] EXCEPT !.open = TRUE]
  BY <1>8, <1>9, <1>10
<1> QED
  BY <1>6, <1>10, <1>11, <1>12

\* The hours a slot's risk is computed from.
LEMMA WindowHours ==
  ASSUME NEW sky \in Sky, NEW venue \in Venue, NEW start,
         Forecast[sky][venue] # NoForecast
  PROVE  LET window == Relevant(Forecast[sky][venue], start, Allocation)
         IN  IsFiniteSet(window) /\ window \subseteq NormalizedHour
<1>1. IsFiniteSet(Forecast[sky][venue]) /\ Forecast[sky][venue] \subseteq NormalizedHour
  BY ForecastAssumption
<1>2. Relevant(Forecast[sky][venue], start, Allocation) \subseteq Forecast[sky][venue]
  BY DEF Relevant
<1> QED
  BY <1>1, <1>2, FS_Subset

LEMMA ReadingsKnown ==
  ASSUME NEW h \in NormalizedHour, Readings(h)
  PROVE  AllKnown(h)
<1>1. DOMAIN h = {"at", "probability", "amount", "temperature", "apparent",
                  "wind", "gust", "code"}
  BY DEF NormalizedHour
<1>2. \A name \in DOMAIN h : h[name] # NoRisk
  BY DEF Readings
<1>3. /\ h.probability # NoRisk /\ h.amount # NoRisk /\ h.apparent # NoRisk
      /\ h.wind # NoRisk /\ h.gust # NoRisk
  BY <1>1, <1>2
<1> QED
  BY <1>3 DEF AllKnown, Readings, Felt

LEMMA WorstHour ==
  ASSUME TypeOK, EvidenceBound PROVE WorstHourCounts
<1> SUFFICES ASSUME weather.source \in Sky, NEW s \in DOMAIN weather.risks,
                    Forecast[weather.source][slots[s].venue] # NoForecast
             PROVE  LET window == Relevant(Forecast[weather.source][slots[s].venue],
                                           slots[s].start, Allocation)
                    IN  /\ (\A h \in window : Readings(h)) =>
                             \A h \in window : weather.risks[s] >= HoursRisk({h})
                        /\ (\A h \in window : h.probability = NoRisk) =>
                             weather.risks[s] = NoRisk
  BY DEF WorstHourCounts, Relevant, Buffer
<1> DEFINE window == Relevant(Forecast[weather.source][slots[s].venue],
                              slots[s].start, Allocation)
<1>1. weather.source # Demo /\ weather.source # NoSource
  BY WeatherAssumption DEF Demo, NoSource
<1>2. weather.risks = RisksUnder(weather.source, slots)
  BY <1>1 DEF EvidenceBound
<1>3. s \in DOMAIN slots /\ weather.risks[s] = RiskUnder(weather.source, s, slots[s])
  BY <1>2 DEF RisksUnder
<1>4. slots[s].venue \in Venue
  <2>1. SlotsRead(slots) /\ slots # NoSlots
    BY <1>3 DEF TypeOK, NoSlots
  <2> QED
    BY <1>3, <2>1, ReadShape
<1>5. IsFiniteSet(window) /\ window \subseteq NormalizedHour
  BY <1>4, WindowHours
<1>6. weather.risks[s] = HoursRisk(window)
  BY <1>1, <1>3 DEF RiskUnder, SlotRisk
<1> HIDE DEF window
<1>7. ASSUME \A h \in window : Readings(h), NEW h \in window
      PROVE  weather.risks[s] >= HoursRisk({h})
  <2>1. \A x \in window : AllKnown(x)
    BY <1>5, <1>7, ReadingsKnown
  <2>2. HoursRisk({h}) <= HoursRisk(window)
    BY <1>5, <1>7, <2>1, HoursRiskGrows
  <2> QED
    BY <1>6, <2>2
<1>8. ASSUME \A h \in window : h.probability = NoRisk
      PROVE  weather.risks[s] = NoRisk
  BY <1>6, <1>8, NoProbability
<1> QED
  BY <1>7, <1>8 DEF window

\* One hour of bad weather around a match cannot disappear in the mean of better
\* ones, for every forecast and match length.
THEOREM WorstHourCountsHolds ==
  ASSUME Overlap = FALSE PROVE Spec => []WorstHourCounts
<1>1. TypeOK /\ EvidenceBound => WorstHourCounts
  BY WorstHour
<1> QED
  BY <1>1, WeatherTypeCorrect, EvidenceBoundHolds, PTL

-----------------------------------------------------------------------------
(* Keys of the same length, compared by their first difference.            *)

Figures(n) == [1..n -> Int]

LEMMA BeatsNot ==
  ASSUME NEW n \in Nat, NEW k \in Figures(n)
  PROVE  ~Beats(k, k)
BY DEF Beats, Figures

LEMMA BeatsTotal ==
  ASSUME NEW n \in Nat, NEW k \in Figures(n), NEW l \in Figures(n), k # l
  PROVE  Beats(k, l) \/ Beats(l, k)
<1> DEFINE T == {i \in 1..n : k[i] # l[i]}
<1>1. T # {} /\ T \in SUBSET Nat
  BY DEF Figures
<1>2. PICK i \in T : \A j \in T : i <= j
  BY <1>1, LeastNatural
<1>3. i \in 1..n /\ k[i] # l[i] /\ \A j \in 1..(i - 1) : k[j] = l[j]
  BY <1>2
<1>4. k[i] > l[i] \/ l[i] > k[i]
  BY <1>3 DEF Figures
<1> QED
  BY <1>3, <1>4 DEF Beats, Figures

LEMMA BeatsTransitive ==
  ASSUME NEW n \in Nat, NEW k \in Figures(n), NEW l \in Figures(n),
         NEW m \in Figures(n), Beats(k, l), Beats(l, m)
  PROVE  Beats(k, m)
<1>1. PICK i \in 1..n : k[i] > l[i] /\ \A j \in 1..(i - 1) : k[j] = l[j]
  BY DEF Beats, Figures
<1>2. PICK j \in 1..n : l[j] > m[j] /\ \A h \in 1..(j - 1) : l[h] = m[h]
  BY DEF Beats, Figures
<1> DEFINE first == IF i < j THEN i ELSE j
<1>3. first \in 1..n /\ k[first] > m[first]
  BY <1>1, <1>2 DEF Figures
<1>4. \A h \in 1..(first - 1) : k[h] = m[h]
  BY <1>1, <1>2
<1> HIDE DEF first
<1> QED
  BY <1>3, <1>4 DEF Beats, Figures

\* What does not beat a key that does not beat a third does not beat the third.
LEMMA BeatsOrder ==
  ASSUME NEW n \in Nat, NEW k \in Figures(n), NEW l \in Figures(n),
         NEW m \in Figures(n), ~Beats(k, l), ~Beats(l, m)
  PROVE  ~Beats(k, m)
<1> SUFFICES ASSUME Beats(k, m) PROVE FALSE
  OBVIOUS
<1>1. CASE k = l
  BY <1>1
<1>2. CASE k # l
  <2>1. Beats(l, k)
    BY <1>2, BeatsTotal
  <2> QED
    BY <2>1, BeatsTransitive
<1> QED
  BY <1>1, <1>2

\* Finitely many keys have a greatest one.
LEMMA GreatestKey ==
  ASSUME NEW n \in Nat, NEW P, IsFiniteSet(P), P # {}, NEW key \in [P -> Figures(n)]
  PROVE  \E p \in P : \A q \in P : ~Beats(key[q], key[p])
<1> DEFINE Without(Q) == Q # {} /\ \A p \in Q : \E q \in Q : Beats(key[q], key[p])
           T == {c \in Nat : \E Q \in SUBSET P : Cardinality(Q) = c /\ Without(Q)}
<1>0. \A Q \in SUBSET P : IsFiniteSet(Q) /\ Cardinality(Q) \in Nat
  BY FS_Subset, FS_CardinalityType
<1> SUFFICES ASSUME T # {} PROVE FALSE
  <2>1. Cardinality(P) \in Nat /\ P \in SUBSET P
    BY <1>0
  <2> QED
    BY <2>1
<1>1. T \in SUBSET Nat
  OBVIOUS
<1>2. PICK c \in T : \A d \in T : c <= d
  BY <1>1, LeastNatural
<1>3. PICK Q \in SUBSET P : Cardinality(Q) = c /\ Without(Q)
  BY <1>2
<1>4. PICK x \in Q : TRUE
  BY <1>3
<1> DEFINE R == Q \ {x}
<1>5. Cardinality(R) \in Nat /\ Cardinality(R) = c - 1 /\ R \in SUBSET P
  BY <1>0, <1>3, <1>4, FS_RemoveElement
<1>6. ~Without(R)
  <2>1. Cardinality(R) \notin T
    <3>1. c \in Nat /\ ~(c <= Cardinality(R))
      BY <1>1, <1>2, <1>5
    <3> HIDE DEF T
    <3> QED
      BY <1>2, <3>1
  <2> QED
    BY <1>5, <2>1
<1>7. \A p \in Q : key[p] \in Figures(n)
  OBVIOUS
<1>8. PICK y \in Q : Beats(key[y], key[x])
  BY <1>3, <1>4
<1>9. y # x
  BY <1>7, <1>8, BeatsNot
<1>10. PICK z \in R : \A q \in R : ~Beats(key[q], key[z])
  BY <1>6, <1>8, <1>9
<1>11. PICK q \in Q : Beats(key[q], key[z])
  BY <1>3, <1>10
<1>12. q = x
  BY <1>10, <1>11
<1>13. Beats(key[y], key[z])
  BY <1>4, <1>7, <1>8, <1>10, <1>11, <1>12, BeatsTransitive
<1> QED
  BY <1>8, <1>9, <1>10, <1>13

-----------------------------------------------------------------------------
(* The placement selected for a profile.                                   *)

\* The metrics of a placement, whatever profile it is shown for.
RiskOf(place, risks)     == ScheduleRisk(FixtureRisks(place, risks))
CoverageOf(place, risks) == ScheduleCoverage(FixtureRisks(place, risks))
FairnessOf(place, S)     == FairnessKey([m \in Match |-> S[place[m]]])
WeatherOf(place, risks) ==
  <<IF RiskOf(place, risks) = NoRisk THEN -1010 ELSE -RiskOf(place, risks),
    CoverageOf(place, risks)>>

LEMMA OptionIs ==
  ASSUME NEW profile, NEW place, NEW S, NEW risks
  PROVE  LET o == Option(profile, place, S, risks)
         IN  /\ o.placement = place
             /\ o.risk = RiskOf(place, risks)
             /\ o.coverage = CoverageOf(place, risks)
             /\ Fairness(o) = FairnessOf(place, S)
             /\ o.fairness = FairnessOf(place, S)
             /\ WeatherKey(o) = WeatherOf(place, risks)
BY DEF Option, RiskOf, CoverageOf, FairnessOf, WeatherOf, WeatherKey, Fairness

KnownRisks(risks) == \A s \in DOMAIN risks : risks[s] \in Risk

LEMMA ProfilesFinite ==
  ASSUME NEW P \in Profiles
  PROVE  IsFiniteSet(P) /\ Required \subseteq P
<1>1. /\ IsFiniteSet({"balanced"}) /\ IsFiniteSet({"balanced", "weather_first"})
  BY FS_EmptySet, FS_Singleton, FS_AddElement
<1>2. IsFiniteSet(Required)
  <2>1. Required = {"balanced", "weather_first"} \cup {"fairness_first"}
    BY DEF Required
  <2> QED
    BY <1>1, <2>1, FS_AddElement
<1>3. IsFiniteSet(Required \cup {"custom"})
  BY <1>2, FS_AddElement
<1> QED
  BY <1>2, <1>3 DEF Profiles

\* Risks read are numbers or unknown, whatever their source.
LEMMA RisksKnown ==
  ASSUME TypeOK, NEW source \in Sky \cup {Demo}, NEW S, SlotsRead(S)
  PROVE  KnownRisks(RisksUnder(source, S))
<1>1. CASE S = NoSlots
  BY <1>1 DEF KnownRisks, RisksUnder, NoSlots
<1>2. CASE S # NoSlots
  <2> SUFFICES ASSUME NEW s \in DOMAIN S PROVE RiskUnder(source, s, S[s]) \in Risk
    BY DEF KnownRisks, RisksUnder
  <2>1. s \in Identity /\ S[s].venue \in Venue
    BY <1>2, ReadShape
  <2>2. CASE source = Demo
    <3>1. Hash[s] \in 0..255
      BY <2>1, WeatherAssumption
    <3>2. DemoRisk(s) \in 0..1000
      BY <3>1 DEF DemoRisk
    <3> QED
      BY <2>2, <3>2 DEF RiskUnder, Risk
  <2>3. CASE source # Demo /\ Forecast[source][S[s].venue] = NoForecast
    BY <2>3 DEF RiskUnder, Risk
  <2>4. CASE source # Demo /\ Forecast[source][S[s].venue] # NoForecast
    <3> DEFINE window == Relevant(Forecast[source][S[s].venue], S[s].start, Allocation)
    <3>1. IsFiniteSet(window) /\ window \subseteq NormalizedHour
      BY <2>1, <2>4, WindowHours
    <3> HIDE DEF window
    <3>2. HoursRisk(window) \in Risk
      BY <3>1, HoursRiskRange DEF Risk
    <3> QED
      BY <2>4, <3>2 DEF window, RiskUnder, SlotRisk
  <2> QED
    BY <2>2, <2>3, <2>4
<1> QED
  BY <1>1, <1>2

\* Every schedule's fairness is told in the same number of figures.
FairnessTerms(n) ==
  \A shape \in Shapes, p \in [Match -> Index] :
    FairnessKey([m \in Match |-> [shape[p[m]] EXCEPT !.open = TRUE]]) \in Figures(n)

LEMMA PlacementMetrics ==
  ASSUME TypeOK, NEW S, SlotsRead(S), NEW risks, KnownRisks(risks),
         NEW terms \in 1..4, FairnessTerms(terms),
         NEW place \in Placements(S)
  PROVE  /\ RiskOf(place, risks) \in Risk /\ CoverageOf(place, risks) \in 0..1000
         /\ FairnessOf(place, S) \in Figures(terms)
<1>1. IsFiniteSet(Match) /\ 1 \in Match
  <2>1. FixtureCount \in Nat /\ FixtureCount # 0 /\ 1 \in Int
    BY WeatherAssumption
  <2>2. IsFiniteSet(1..FixtureCount)
    BY <2>1, FS_Interval
  <2> QED
    BY <2>1, <2>2 DEF Match
<1>2. place \in [Match -> Open(S)] /\ S # NoSlots
  BY <1>1 DEF Placements, Open, NoSlots
<1>3. RiskOf(place, risks) \in Risk /\ CoverageOf(place, risks) \in 0..1000
  <2> DEFINE f == FixtureRisks(place, risks)
  <2>a. DOMAIN f = Match /\ \A m \in Match : f[m] = RiskIn(risks, place[m])
    BY DEF FixtureRisks
  <2>b. \A s : RiskIn(risks, s) \in Risk
    BY DEF RiskIn, KnownRisks, Risk
  <2>1. DOMAIN f = Match /\ \A m \in Match : f[m] \in Risk
    BY <2>a, <2>b
  <2> HIDE DEF f
  <2>2. ScheduleRisk(f) \in Risk /\ ScheduleCoverage(f) \in 0..1000
    BY <1>1, <2>1, ScheduleRange
  <2> QED
    BY <2>2 DEF f, RiskOf, CoverageOf
<1>4. PICK shape \in Shapes : \A s \in DOMAIN S :
           s[2] \in Index /\ (S[s].open => S[s] = [shape[s[2]] EXCEPT !.open = TRUE])
  BY <1>2, ReadShape
<1> DEFINE q == [m \in Match |-> place[m][2]]
<1>5. \A m \in Match : place[m] \in DOMAIN S /\ S[place[m]].open
  BY <1>2 DEF Open
<1>6. q \in [Match -> Index]
  BY <1>4, <1>5
<1>7. \A m \in Match : S[place[m]] = [shape[q[m]] EXCEPT !.open = TRUE]
  BY <1>4, <1>5
<1>8. [m \in Match |-> S[place[m]]] = [m \in Match |-> [shape[q[m]] EXCEPT !.open = TRUE]]
  BY <1>7
<1> HIDE DEF q
<1>9. FairnessOf(place, S) \in Figures(terms)
  BY <1>6, <1>8 DEF FairnessOf, FairnessTerms
<1> QED
  BY <1>3, <1>9

LEMMA WeatherOrder ==
  ASSUME NEW p, NEW q, NEW risks,
         RiskOf(p, risks) \in Risk, CoverageOf(p, risks) \in 0..1000,
         RiskOf(q, risks) \in Risk, CoverageOf(q, risks) \in 0..1000,
         ~Beats(WeatherOf(q, risks), WeatherOf(p, risks)),
         NEW w, w.risk = RiskOf(p, risks), w.coverage = CoverageOf(p, risks),
         NEW o, o.risk = RiskOf(q, risks), o.coverage = CoverageOf(q, risks)
  PROVE  NoWorse(w, o)
<1> DEFINE k == WeatherOf(q, risks)
           l == WeatherOf(p, risks)
<1>1. /\ k[1] = (IF o.risk = NoRisk THEN -1010 ELSE -o.risk) /\ k[2] = o.coverage
      /\ l[1] = (IF w.risk = NoRisk THEN -1010 ELSE -w.risk) /\ l[2] = w.coverage
      /\ DOMAIN k = 1..2
  BY DEF WeatherOf
<1>2. ~(k[1] > l[1])
  <2>1. 1 \in DOMAIN k /\ \A j \in 1..(1 - 1) : k[j] = l[j]
    BY <1>1
  <2> HIDE DEF k, l
  <2> QED
    BY <2>1 DEF Beats, k, l
<1> HIDE DEF k, l
<1>3. ~(k[1] = l[1] /\ k[2] > l[2])
  <2> SUFFICES ASSUME k[1] = l[1], k[2] > l[2] PROVE Beats(k, l)
    BY DEF k, l
  <2>1. 2 \in DOMAIN k /\ \A j \in 1..(2 - 1) : j = 1
    BY <1>1
  <2> QED
    BY <2>1 DEF Beats
<1>4. NoRisk \notin Int /\ (o.risk \in 0..1000 \/ o.risk = NoRisk)
      /\ (w.risk \in 0..1000 \/ w.risk = NoRisk)
  BY RiskAssumption DEF Risk
<1>5. w.coverage \in Int /\ o.coverage \in Int
  OBVIOUS
<1>6. CASE w.risk = NoRisk
  BY <1>1, <1>2, <1>4, <1>6 DEF NoWorse
<1>7. CASE w.risk # NoRisk /\ o.risk = NoRisk
  BY <1>7 DEF NoWorse
<1>8. CASE w.risk # NoRisk /\ o.risk # NoRisk
  <2>1. k[1] = -o.risk /\ l[1] = -w.risk /\ o.risk \in Int /\ w.risk \in Int
    BY <1>1, <1>4, <1>8
  <2>2. w.risk <= o.risk
    BY <1>2, <2>1
  <2>3. w.risk = o.risk => w.coverage >= o.coverage
    BY <1>1, <1>3, <1>5, <2>1
  <2> QED
    BY <1>8, <2>1, <2>2, <2>3 DEF NoWorse
<1> QED
  BY <1>6, <1>7, <1>8

ByWeather(options, profile, S, risks)  == Promoted(options, profile, S, risks, WeatherKey)
ByFairness(options, profile, S, risks) == Promoted(options, profile, S, risks, Fairness)

\* The option promoted to weather first has a placement no answer's weather beats.
LEMMA WeatherPromoted ==
  ASSUME NEW P, IsFiniteSet(P), NEW profile \in P, NEW answers, NEW S, NEW risks, NEW options,
         DOMAIN options = P, \A p \in P : options[p] = Option(p, answers[p], S, risks),
         \A p \in P : WeatherOf(answers[p], risks) \in Figures(2)
  PROVE  \E b \in P :
           /\ ByWeather(options, profile, S, risks)
                = Option(profile, answers[b], S, risks)
           /\ \A q \in P : ~Beats(WeatherOf(answers[q], risks), WeatherOf(answers[b], risks))
<1> DEFINE key == [p \in P |-> WeatherOf(answers[p], risks)]
<1>1. DOMAIN options = P
  OBVIOUS
<1>2. \A p \in P : /\ options[p] = Option(p, answers[p], S, risks)
                   /\ WeatherKey(options[p]) = key[p] /\ options[p].placement = answers[p]
  BY OptionIs
<1>3. key \in [P -> Figures(2)]
  OBVIOUS
<1>4. \E p \in P : \A q \in P : ~Beats(key[q], key[p])
  <2> HIDE DEF key
  <2>1. 2 \in Nat /\ P # {}
    OBVIOUS
  <2> QED
    BY <1>3, <2>1, GreatestKey
<1> DEFINE b == CHOOSE p \in DOMAIN options :
                  ~\E q \in DOMAIN options :
                     Beats(WeatherKey(options[q]), WeatherKey(options[p]))
<1> HIDE DEF key
<1>5. b \in P /\ \A q \in P : ~Beats(key[q], key[b])
  <2>1. \E p \in DOMAIN options :
          ~\E q \in DOMAIN options :
             Beats(WeatherKey(options[q]), WeatherKey(options[p]))
    BY <1>1, <1>2, <1>4
  <2>2. b \in DOMAIN options /\
          ~\E q \in DOMAIN options : Beats(WeatherKey(options[q]), WeatherKey(options[b]))
    BY <2>1
  <2> HIDE DEF b
  <2> QED
    BY <1>1, <1>2, <2>2
<1>6. Best(options, WeatherKey) = options[b]
  BY DEF Best
<1> HIDE DEF b
<1>7. \A p \in P : key[p] = WeatherOf(answers[p], risks) /\ key[p] \in Figures(2)
  BY <1>3 DEF key
<1>8. CASE Beats(key[b], key[profile])
  <2>1. ByWeather(options, profile, S, risks) = Option(profile, answers[b], S, risks)
    BY <1>2, <1>5, <1>6, <1>8 DEF Promoted, ByWeather, ByFairness
  <2> QED
    BY <1>5, <1>7, <2>1
<1>9. CASE ~Beats(key[b], key[profile])
  <2>1. ByWeather(options, profile, S, risks)
          = Option(profile, answers[profile], S, risks)
    BY <1>2, <1>5, <1>6, <1>9 DEF Promoted, ByWeather, ByFairness
  <2>2. ASSUME NEW q \in P PROVE ~Beats(key[q], key[profile])
    <3>1. 2 \in Nat /\ ~Beats(key[q], key[b])
      BY <1>5
    <3> QED
      BY <1>5, <1>7, <1>9, <3>1, BeatsOrder
  <2> QED
    BY <1>7, <2>1, <2>2
<1> QED
  BY <1>8, <1>9

\* The option promoted to fairness first has a placement no answer's fairness beats.
LEMMA FairnessPromoted ==
  ASSUME NEW P, IsFiniteSet(P), NEW profile \in P, NEW answers, NEW S, NEW risks, NEW options,
         DOMAIN options = P, \A p \in P : options[p] = Option(p, answers[p], S, risks),
         NEW n \in Nat, \A p \in P : FairnessOf(answers[p], S) \in Figures(n)
  PROVE  \E b \in P :
           /\ ByFairness(options, profile, S, risks)
                = Option(profile, answers[b], S, risks)
           /\ \A q \in P : ~Beats(FairnessOf(answers[q], S), FairnessOf(answers[b], S))
<1> DEFINE key == [p \in P |-> FairnessOf(answers[p], S)]
<1>1. DOMAIN options = P
  OBVIOUS
<1>2. \A p \in P : /\ options[p] = Option(p, answers[p], S, risks)
                   /\ Fairness(options[p]) = key[p] /\ options[p].placement = answers[p]
  BY OptionIs
<1>3. key \in [P -> Figures(n)]
  OBVIOUS
<1>4. \E p \in P : \A q \in P : ~Beats(key[q], key[p])
  <2> HIDE DEF key
  <2> QED
    BY <1>3, GreatestKey
<1> DEFINE b == CHOOSE p \in DOMAIN options :
                  ~\E q \in DOMAIN options :
                     Beats(Fairness(options[q]), Fairness(options[p]))
<1> HIDE DEF key
<1>5. b \in P /\ \A q \in P : ~Beats(key[q], key[b])
  <2>1. \E p \in DOMAIN options :
          ~\E q \in DOMAIN options :
             Beats(Fairness(options[q]), Fairness(options[p]))
    BY <1>1, <1>2, <1>4
  <2>2. b \in DOMAIN options /\
          ~\E q \in DOMAIN options : Beats(Fairness(options[q]), Fairness(options[b]))
    BY <2>1
  <2> HIDE DEF b
  <2> QED
    BY <1>1, <1>2, <2>2
<1>6. Best(options, Fairness) = options[b]
  BY DEF Best
<1> HIDE DEF b
<1>7. \A p \in P : key[p] = FairnessOf(answers[p], S) /\ key[p] \in Figures(n)
  BY <1>3 DEF key
<1>8. CASE Beats(key[b], key[profile])
  <2>1. ByFairness(options, profile, S, risks) = Option(profile, answers[b], S, risks)
    BY <1>2, <1>5, <1>6, <1>8 DEF Promoted, ByWeather, ByFairness
  <2> QED
    BY <1>5, <1>7, <2>1
<1>9. CASE ~Beats(key[b], key[profile])
  <2>1. ByFairness(options, profile, S, risks)
          = Option(profile, answers[profile], S, risks)
    BY <1>2, <1>5, <1>6, <1>9 DEF Promoted, ByWeather, ByFairness
  <2>2. ASSUME NEW q \in P PROVE ~Beats(key[q], key[profile])
    <3>1. ~Beats(key[q], key[b])
      BY <1>5
    <3> QED
      BY <1>5, <1>7, <1>9, <3>1, BeatsOrder
  <2> QED
    BY <1>7, <2>1, <2>2
<1> QED
  BY <1>8, <1>9

\* What is selected among the answers of a generation is comparable.
SelectedComparable(o) ==
  /\ Required \subseteq DOMAIN o
  /\ \A p \in DOMAIN o : /\ NoWorse(o["weather_first"], o[p])
                         /\ ~Beats(o[p].fairness, o["fairness_first"].fairness)
  /\ \A group \in IdenticalGroups(o) : \A p, q \in group :
       NoWorse(o[p], o[q]) /\ o[p].fairness = o[q].fairness

\* Whatever the solver answers for each profile, the options selected from the answers
\* deserve their names (profiles.py:160-200).
THEOREM SelectionComparable ==
  ASSUME TypeOK, NEW P \in Profiles, NEW S, SlotsRead(S), NEW risks, KnownRisks(risks),
         NEW answers \in [P -> Placements(S)]
  PROVE  SelectedComparable(Selected([p \in P |-> Option(p, answers[p], S, risks)], S, risks))
<1> DEFINE options == [p \in P |-> Option(p, answers[p], S, risks)]
           o == Selected(options, S, risks)
           w == "weather_first"
           f == "fairness_first"
<1>1. IsFiniteSet(P) /\ Required \subseteq P /\ w \in P /\ f \in P
  BY ProfilesFinite DEF Required
<1>2. PICK n \in 1..4 : FairnessTerms(n)
  BY FairnessAssumption DEF FairnessTerms, Figures
<1>3. ASSUME NEW p \in P
      PROVE  /\ RiskOf(answers[p], risks) \in Risk
             /\ CoverageOf(answers[p], risks) \in 0..1000
             /\ FairnessOf(answers[p], S) \in Figures(n)
             /\ WeatherOf(answers[p], risks) \in Figures(2)
  <2> DEFINE place == answers[p]
             r == RiskOf(place, risks)
             c == CoverageOf(place, risks)
  <2>1. place \in Placements(S)
    OBVIOUS
  <2> HIDE DEF place, r, c
  <2>2. RiskOf(place, risks) \in Risk /\ CoverageOf(place, risks) \in 0..1000
        /\ FairnessOf(place, S) \in Figures(n)
    BY <1>2, <2>1, PlacementMetrics
  <2>3. r \in Risk /\ c \in 0..1000
    BY <2>2 DEF r, c
  <2>4. (IF r = NoRisk THEN -1010 ELSE -r) \in Int /\ c \in Int
    BY <2>3 DEF Risk
  <2>5. WeatherOf(place, risks) = <<IF r = NoRisk THEN -1010 ELSE -r, c>>
    BY DEF WeatherOf, r, c
  <2>6. WeatherOf(place, risks) \in Figures(2)
    BY <2>4, <2>5 DEF Figures
  <2> QED
    BY <2>2, <2>6 DEF place
<1>5. DOMAIN o = P
  BY DEF Selected
<1>6. PICK bw \in P :
        /\ ByWeather(options, w, S, risks) = Option(w, answers[bw], S, risks)
        /\ \A q \in P : ~Beats(WeatherOf(answers[q], risks), WeatherOf(answers[bw], risks))
  <2> HIDE DEF o
  <2>1. \A p \in P : WeatherOf(answers[p], risks) \in Figures(2)
    BY <1>3
  <2>2. /\ IsFiniteSet(P) /\ w \in P /\ DOMAIN options = P
        /\ \A p \in P : options[p] = Option(p, answers[p], S, risks)
    BY <1>1
  <2> HIDE DEF options, w, f
  <2> QED
    BY <2>1, <2>2, WeatherPromoted
<1>7. PICK bf \in P :
        /\ ByFairness(options, f, S, risks) = Option(f, answers[bf], S, risks)
        /\ \A q \in P : ~Beats(FairnessOf(answers[q], S), FairnessOf(answers[bf], S))
  <2> HIDE DEF o
  <2>1. n \in Nat /\ \A p \in P : FairnessOf(answers[p], S) \in Figures(n)
    BY <1>2, <1>3
  <2>2. /\ IsFiniteSet(P) /\ f \in P /\ DOMAIN options = P
        /\ \A p \in P : options[p] = Option(p, answers[p], S, risks)
    BY <1>1
  <2> HIDE DEF options, w, f
  <2> QED
    BY <2>1, <2>2, FairnessPromoted
<1>8. o[w] = Option(w, answers[bw], S, risks) /\ o[f] = Option(f, answers[bf], S, risks)
  BY <1>1, <1>6, <1>7 DEF Selected, ByWeather, ByFairness
<1>9. ASSUME NEW p \in P PROVE \E b \in P : o[p] = Option(p, answers[b], S, risks)
  <2>1. CASE p = w \/ p = f
    BY <1>8, <2>1
  <2>2. CASE p # w /\ p # f
    <3>1. o[p] = options[p]
      BY <2>2 DEF Selected
    <3> QED
      BY <3>1
  <2> QED
    BY <2>1, <2>2
<1> HIDE DEF o, options
<1>10. ASSUME NEW p \in P
       PROVE  NoWorse(o[w], o[p]) /\ ~Beats(o[p].fairness, o[f].fairness)
  <2>1. PICK b \in P : o[p] = Option(p, answers[b], S, risks)
    BY <1>9
  <2>2. /\ o[w].risk = RiskOf(answers[bw], risks) /\ o[w].coverage = CoverageOf(answers[bw], risks)
        /\ o[p].risk = RiskOf(answers[b], risks) /\ o[p].coverage = CoverageOf(answers[b], risks)
        /\ o[p].fairness = FairnessOf(answers[b], S)
        /\ o[f].fairness = FairnessOf(answers[bf], S)
    BY <1>8, <2>1, OptionIs
  <2>3. NoWorse(o[w], o[p])
    BY <1>3, <1>6, <2>2, WeatherOrder
  <2> QED
    BY <1>7, <2>2, <2>3
<1>11. ASSUME NEW group \in IdenticalGroups(o), NEW p \in group, NEW q \in group
       PROVE  NoWorse(o[p], o[q]) /\ o[p].fairness = o[q].fairness
  <2>1. p \in P /\ q \in P /\ o[p].placement = o[q].placement
    BY <1>5, <1>11 DEF IdenticalGroups
  <2>2. PICK b \in P : o[p] = Option(p, answers[b], S, risks)
    BY <1>9, <2>1
  <2>3. PICK c \in P : o[q] = Option(q, answers[c], S, risks)
    BY <1>9, <2>1
  <2>4. /\ o[p].risk = RiskOf(answers[b], risks) /\ o[p].coverage = CoverageOf(answers[b], risks)
        /\ o[p].fairness = FairnessOf(answers[b], S) /\ o[p].placement = answers[b]
        /\ o[q].risk = RiskOf(answers[c], risks) /\ o[q].coverage = CoverageOf(answers[c], risks)
        /\ o[q].fairness = FairnessOf(answers[c], S) /\ o[q].placement = answers[c]
    BY <2>2, <2>3, OptionIs
  <2>5. answers[b] = answers[c]
    BY <2>1, <2>4
  <2>6. CoverageOf(answers[b], risks) \in 0..1000
    BY <1>3
  <2>7. o[p].coverage = o[q].coverage /\ o[p].coverage >= o[q].coverage
    <3> DEFINE c1 == o[p].coverage
               c2 == o[q].coverage
    <3>1. c1 = c2 /\ c1 \in 0..1000
      BY <2>4, <2>5, <2>6
    <3> HIDE DEF c1, c2
    <3>2. c1 = c2 /\ c1 >= c2
      BY <3>1
    <3> QED
      BY <3>2 DEF c1, c2
  <2> QED
    BY <2>4, <2>5, <2>7 DEF NoWorse
<1> QED
  BY <1>1, <1>5, <1>10, <1>11 DEF SelectedComparable, o, options

-----------------------------------------------------------------------------
(* Comparable profiles. *)

\* What is behind the comparison: every risk that may be used is a number or
\* unknown, and a generation computes with slots of a setup.
ComparableInv ==
  /\ TypeOK
  /\ WeatherShape
  /\ KnownRisks(weather.risks)
  /\ generation # Idle => SlotsRead(generation.slots) /\ KnownRisks(generation.risks)
  /\ ProfilesComparable

LEMMA ComparableRun == ProfilesComparable <=> (run # NoRun => SelectedComparable(run.options))
BY DEF ProfilesComparable, SelectedComparable

\* The ways a handler leaves the weather.
LEMMA WeatherKnown ==
  ASSUME TypeOK, WeatherShape, KnownRisks(weather.risks),
         \/ UNCHANGED weather
         \/ \E q : weather' = WithoutRisks(q, revision', slots')
         \/ weather' = NotRequested
         \/ weather' = Bound(weather, revision', slots')
         \/ \E source \in Sky \cup {Demo} : \E S :
              SlotsRead(S) /\ weather' = WeatherFrom(source, S, revision', slots')
  PROVE  WeatherShape' /\ KnownRisks(weather'.risks)
<1>1. KnownRisks(NoRisks)
  BY DEF KnownRisks, NoRisks
<1>2. CASE UNCHANGED weather
  BY <1>2 DEF WeatherShape
<1>3. CASE \E q : weather' = WithoutRisks(q, revision', slots')
  <2>1. PICK q : weather' = WithoutRisks(q, revision', slots')
    BY <1>3
  <2>2. weather'.risks = NoRisks /\ WeatherShape'
    BY <2>1 DEF WithoutRisks, WeatherShape
  <2> QED
    BY <1>1, <2>2
<1>4. CASE weather' = NotRequested
  BY <1>1, <1>4 DEF NotRequested, WithoutRisks, WeatherShape
<1>5. CASE weather' = Bound(weather, revision', slots')
  <2>1. PICK q, c, k, s, b : weather = [quality |-> q, coverage |-> c, risks |-> k,
                                        source |-> s, bound |-> b]
    BY DEF WeatherShape
  <2>2. weather' = [quality |-> q, coverage |-> c, risks |-> k, source |-> s,
                    bound |-> [revision |-> revision', slots |-> slots']]
    BY <1>5, <2>1 DEF Bound
  <2>3. weather'.risks = weather.risks
    BY <2>1, <2>2
  <2> QED
    BY <2>2, <2>3 DEF WeatherShape
<1>6. CASE \E source \in Sky \cup {Demo} : \E S :
             SlotsRead(S) /\ weather' = WeatherFrom(source, S, revision', slots')
  <2>1. PICK source \in Sky \cup {Demo} : \E S :
             SlotsRead(S) /\ weather' = WeatherFrom(source, S, revision', slots')
    BY <1>6
  <2>2. PICK S : SlotsRead(S) /\ weather' = WeatherFrom(source, S, revision', slots')
    BY <2>1
  <2>3. KnownRisks(RisksUnder(source, S))
    BY <2>2, RisksKnown
  <2>4. weather'.risks = RisksUnder(source, S) /\ WeatherShape'
    BY <2>2 DEF WeatherFrom, WeatherShape
  <2> QED
    BY <2>3, <2>4
<1> QED
  BY <1>2, <1>3, <1>4, <1>5, <1>6

\* Every handler leaves the weather in one of them, what a generation holds as it
\* was or just read, and the run as it was, cleared or just selected.
LEMMA ComparableStep == ComparableInv /\ [Next]_vars => ComparableInv'
<1> SUFFICES ASSUME ComparableInv, [Next]_vars PROVE ComparableInv'
  OBVIOUS
<1>0. TypeOK /\ TypeOK' /\ WeatherShape /\ KnownRisks(weather.risks)
  BY WeatherTypeStep DEF ComparableInv
<1> DEFINE Same == UNCHANGED generation /\ run' \in {run, NoRun}
           Kept == WeatherShape' /\ KnownRisks(weather'.risks)
<1>1. SlotsRead(slots) /\ (refresh # Idle => SlotsRead(refresh.slots))
  BY <1>0 DEF TypeOK
<1>2. ASSUME Same, Kept, setups' = setups \/ setups' = setups + 1 PROVE ComparableInv'
  <2>1. ProfilesComparable'
    BY <1>2, ComparableRun DEF ComparableInv, ProfilesComparable
  <2>2. (generation # Idle => SlotsRead(generation.slots) /\ KnownRisks(generation.risks))'
    <3>1. CASE generation = Idle
      BY <1>2, <3>1
    <3>2. CASE generation # Idle
      <4>1. SlotsRead(generation.slots) /\ KnownRisks(generation.risks)
        BY <3>2 DEF ComparableInv
      <4>2. PICK S : S = generation.slots /\ S = generation'.slots
        BY <1>2
      <4>3. SlotsRead(S)
        BY <4>1, <4>2
      <4>4. SlotsRead(S)'
        BY <1>0, <1>2, <4>3, ReadStays
      <4>5. SlotsRead(generation.slots)'
        BY <4>2, <4>4 DEF SlotsRead
      <4> QED
        BY <1>2, <4>1, <4>5 DEF KnownRisks
    <3> QED
      BY <3>1, <3>2
  <2>3. KnownRisks(weather.risks)'
    BY <1>2 DEF KnownRisks
  <2> QED
    BY <1>0, <1>2, <2>1, <2>2, <2>3 DEF ComparableInv
<1>3. ASSUME NEW S, S \in {SlotsOf(0, SampleShape), NoSlots}, Reset(S) PROVE ComparableInv'
  <2>1. weather' = NotRequested \/
        (SlotsRead(S) /\ weather' = WeatherFrom(Demo, S, revision', slots'))
    <3>1. 0 \in 0..setups
      BY <1>0, WeatherAssumption DEF TypeOK
    <3>2. SlotsRead(S)
      <4>1. SlotsRead(SlotsOf(0, SampleShape))
        BY <3>1, ShapeRead, WeatherAssumption
      <4>2. SlotsRead(NoSlots)
        BY DEF SlotsRead
      <4> QED
        BY <1>3, <4>1, <4>2
    <3> QED
      BY <1>3, <3>2 DEF Reset
  <2>2. Kept
    BY <1>0, <2>1, WeatherKnown
  <2> QED
    BY <1>2, <1>3, <2>2 DEF Reset
<1>4. ASSUME NEW S, Change(S), setups' = setups \/ setups' = setups + 1 PROVE ComparableInv'
  <2>1. \/ \E q : weather' = WithoutRisks(q, revision', slots')
        \/ weather' = Bound(weather, revision', slots')
    BY <1>4 DEF Change, AfterChange
  <2>2. Kept
    BY <1>0, <2>1, WeatherKnown
  <2> QED
    BY <1>2, <1>4, <2>2 DEF Change
<1>5. ASSUME NEW shape \in Shapes, SaveSetup(shape) PROVE ComparableInv'
  BY <1>4, <1>5 DEF SaveSetup
<1>6. ASSUME NEW closed, Patch(closed) PROVE ComparableInv'
  BY <1>4, <1>6 DEF Patch
<1>7. ASSUME Confirm PROVE ComparableInv'
  <2>1. weather' = Bound(weather, revision', slots')
    BY <1>7 DEF Confirm
  <2>2. Kept
    BY <1>0, <2>1, WeatherKnown
  <2> QED
    BY <1>2, <1>7, <2>2 DEF Confirm
<1>8. ASSUME ActivateDemo PROVE ComparableInv'
  <2>1. SlotsRead(slots) /\ weather' = WeatherFrom(Demo, slots, revision', slots')
    BY <1>1, <1>8 DEF ActivateDemo
  <2>2. Kept
    BY <1>0, <2>1, WeatherKnown
  <2> QED
    BY <1>2, <1>8, <2>2 DEF ActivateDemo
<1>9. ASSUME NEW source \in Sky \cup {Demo}, FinishRefresh(source) PROVE ComparableInv'
  <2>1. \/ UNCHANGED weather
        \/ /\ SlotsRead(refresh.slots)
           /\ weather' = WeatherFrom(source, refresh.slots, revision', slots')
    BY <1>1, <1>9 DEF FinishRefresh
  <2>2. Kept
    BY <1>0, <2>1, WeatherKnown
  <2> QED
    BY <1>2, <1>9, <2>2 DEF FinishRefresh
<1>10. ASSUME ResetUnknownSample \/ StartRefresh \/ UNCHANGED vars PROVE ComparableInv'
  <2>1. UNCHANGED <<weather, generation, setups>> /\ run' \in {run, NoRun}
    BY <1>10 DEF ResetUnknownSample, StartRefresh, vars
  <2>2. Kept
    BY <1>0, <2>1, WeatherKnown
  <2> QED
    BY <1>2, <2>1, <2>2
<1>11. ASSUME NEW profiles \in Profiles, StartGeneration(profiles) PROVE ComparableInv'
  <2>1. /\ generation'.slots = slots /\ generation'.risks = weather.risks
        /\ UNCHANGED <<weather, run, setups, slots>>
    BY <1>11 DEF StartGeneration
  <2>2. Kept
    BY <1>0, <2>1, WeatherKnown
  <2>3. ProfilesComparable'
    BY <2>1 DEF ComparableInv, ProfilesComparable
  <2>4. SlotsRead(generation.slots)' /\ KnownRisks(generation.risks)'
    BY <1>0, <1>1, <2>1 DEF SlotsRead, KnownRisks
  <2> QED
    BY <1>0, <2>2, <2>3, <2>4 DEF ComparableInv, KnownRisks
<1>12. ASSUME generation # Idle,
              NEW answers \in [generation.profiles -> Placements(generation.slots)],
              FinishGeneration(answers)
       PROVE  ComparableInv'
  <2> DEFINE P == generation.profiles
             S == generation.slots
             risks == generation.risks
  <2>1. P \in Profiles /\ SlotsRead(S) /\ KnownRisks(risks)
    BY <1>0, <1>12 DEF ComparableInv, TypeOK
  <2>2. run'.options = Selected([p \in P |-> Option(p, answers[p], S, risks)], S, risks)
    BY <1>12 DEF FinishGeneration
  <2>3. SelectedComparable(run'.options)
    BY <1>0, <1>12, <2>1, <2>2, SelectionComparable
  <2>4. ProfilesComparable'
    BY <2>3 DEF ProfilesComparable, SelectedComparable
  <2>5. UNCHANGED weather /\ generation' = Idle
    BY <1>12 DEF FinishGeneration
  <2>6. Kept
    BY <1>0, <2>5, WeatherKnown
  <2> QED
    BY <1>0, <2>4, <2>5, <2>6 DEF ComparableInv, KnownRisks
<1>13. ASSUME FailGeneration PROVE ComparableInv'
  <2>1. UNCHANGED <<weather, run>> /\ generation' = Idle
    BY <1>13 DEF FailGeneration
  <2>2. Kept
    BY <1>0, <2>1, WeatherKnown
  <2>3. ProfilesComparable'
    BY <2>1 DEF ComparableInv, ProfilesComparable
  <2> QED
    BY <1>0, <2>1, <2>2, <2>3 DEF ComparableInv, KnownRisks
<1> QED
  BY <1>3, <1>5, <1>6, <1>7, <1>8, <1>9, <1>10, <1>11, <1>12, <1>13 DEF Next

\* However the requests of a workspace overlap, its profiles are comparable: what is
\* promoted has the greatest key among all the answers, on the same risks.
THEOREM ProfilesComparableHolds == Spec => []ProfilesComparable
<1>1. Init => ComparableInv
  <2> SUFFICES ASSUME Init PROVE ComparableInv
    OBVIOUS
  <2>1. TypeOK
    BY WeatherTypeInit
  <2>2. WeatherShape /\ KnownRisks(weather.risks)
    <3>1. CASE HasTournament
      <4>1. KnownRisks(RisksUnder(Demo, slots))
        BY <2>1, RisksKnown DEF TypeOK
      <4>2. weather = WeatherFrom(Demo, slots, 0, slots)
        BY <3>1 DEF Init
      <4> QED
        BY <4>1, <4>2 DEF WeatherFrom, WeatherShape
    <3>2. CASE ~HasTournament
      BY <3>2 DEF Init, NotRequested, WithoutRisks, WeatherShape, KnownRisks, NoRisks
    <3> QED
      BY <3>1, <3>2
  <2> QED
    BY <2>1, <2>2 DEF Init, ComparableInv, ProfilesComparable
<1>2. ComparableInv => ProfilesComparable
  BY DEF ComparableInv
<1> QED
  BY <1>1, <1>2, ComparableStep, PTL DEF Spec

=============================================================================
