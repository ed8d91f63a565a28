-------------------------- MODULE WeatherEvidence --------------------------
(***************************************************************************)
(* The weather of a workspace: how it is refreshed (weather/service.py),   *)
(* bound to the tournament and invalidated by its changes                  *)
(* (weather/state.py, api/routes.py), and used by a generation: the        *)
(* metrics of each profile, the selection among the profiles               *)
(* (scheduling/profiles.py), the snapshot kept with the run and what is    *)
(* read from it later (api/schedules.py).                                  *)
(*                                                                         *)
(* A refresh reads the tournament, calls the provider and then binds the   *)
(* result, on a worker thread; a generation reads the risks, solves, and   *)
(* then stores its run.  Between the two halves of either, with Overlap,   *)
(* any other request may be handled.                                       *)
(***************************************************************************)
EXTENDS WeatherRisk

CONSTANTS Venue, Index,      \* venues, and numbers of slots within one setup
          SampleShape,       \* number -> [venue, start, open] of the sample
          Shapes,            \* what a setup may expand to
          Allocation,        \* minutes of one match
          Sky,               \* what the provider may answer
          Forecast,          \* sky -> venue -> hours, or NoForecast if it failed
          NoForecast,
          Hash,              \* slot identity -> a byte of its hash
          FairnessKey(_),    \* of the sequence of fixtures [venue, start]
          FixtureCount,
          Idle, NoRun,
          Overlap,           \* whether requests of a workspace are concurrent
          MaxRevision, MaxSetups,  \* bounds: revision, setups saved
          MaxClosed                \* bound: slots one patch closes

Match == 1..FixtureCount
Identity == (0..MaxSetups) \X Index

ASSUME WeatherAssumption ==
  /\ SampleShape \in Shapes
  /\ Shapes \subseteq [Index -> [venue : Venue, start : Int, open : BOOLEAN]]
  /\ Hash \in [Identity -> 0..255]
  /\ Sky \cap {"demo", "none"} = {}
  /\ Overlap \in BOOLEAN /\ FixtureCount \in Nat \ {0}
  /\ MaxRevision \in Nat /\ MaxSetups \in Nat /\ MaxClosed \in Nat

ASSUME ForecastAssumption ==
  \A sky \in Sky, venue \in Venue :
    LET hours == Forecast[sky][venue]
    IN  hours = NoForecast \/ (IsFiniteSet(hours) /\ hours \subseteq NormalizedHour)

\* Fairness is a few numbers: four metrics in the program.
ASSUME FairnessAssumption ==
  \E terms \in 1..4 : \A shape \in Shapes, p \in [Match -> Index] :
    FairnessKey([m \in Match |-> [shape[p[m]] EXCEPT !.open = TRUE]])
      \in [1..terms -> Int]

VARIABLES revision,    \* of the tournament
          slots,       \* identity -> [venue, start, open]; NoSlots if it is blank
          setups,      \* setups saved so far
          confirmed,   \* constraints are confirmed at this revision
          weather,     \* the weather of the workspace
          refresh,     \* the slots a refresh has read, or Idle
          generation,  \* what a generation has read, or Idle
          run          \* the latest schedule run, or NoRun

vars == <<revision, slots, setups, confirmed, weather, refresh, generation, run>>

NoSlots == [s \in {} |-> 0]
NoRisks == [s \in {} |-> NoRisk]
HasTournament == slots # NoSlots

SlotsOf(setup, shape) == [s \in {setup} \X Index |-> shape[s[2]]]

-----------------------------------------------------------------------------
(* Weather: risks by slot, the source of the details shown with them, and  *)
(* the revision and the slots (their digest) it is bound to.               *)

Demo == "demo"
NoSource == "none"

DemoRisk(s) == 10 * (10 + (Hash[s] % 76))

RiskUnder(source, s, place) ==
  IF source = Demo THEN DemoRisk(s)
  ELSE IF Forecast[source][place.venue] = NoForecast THEN NoRisk
  ELSE SlotRisk(Forecast[source][place.venue], place.start, Allocation)

RisksUnder(source, S) == [s \in DOMAIN S |-> RiskUnder(source, s, S[s])]

Quality(risks) ==
  CASE Covered(risks) = DOMAIN risks -> "complete"
    [] Covered(risks) = {}           -> "unavailable"
    [] OTHER                         -> "partial"

\* bind_weather_state
Bound(w, r, S) == [w EXCEPT !.bound = [revision |-> r, slots |-> S]]

WeatherFrom(source, S, r, now) ==
  LET risks == RisksUnder(source, S)
  IN  [quality |-> Quality(risks), coverage |-> ScheduleCoverage(risks),
       risks |-> risks, source |-> source,
       bound |-> [revision |-> r, slots |-> now]]

WithoutRisks(quality, r, S) ==
  [quality |-> quality, coverage |-> 0, risks |-> NoRisks, source |-> NoSource,
   bound |-> [revision |-> r, slots |-> S]]

NotRequested == WithoutRisks("not_requested", 0, NoSlots)

\* What a change of the tournament leaves of the weather.
Rebound(w, r, before, after) == Bound(w, r, after)               \* mutant
AfterChange(w, r, before, after) ==
  IF after # before THEN WithoutRisks("refresh_required", r, after)
  ELSE Bound(w, r, after)

-----------------------------------------------------------------------------
(* Options of a generation.                                                *)

Required == {"balanced", "weather_first", "fairness_first"}
Profiles == {Required, Required \cup {"custom"}}
MissingPenalty == [balanced |-> 550, custom |-> 550,
                   weather_first |-> 700, fairness_first |-> 450]

\* Placements of all fixtures in open slots, one after the other: what is asked of
\* a schedule here.  The rules are TournamentRules'.
Open(S) == {s \in DOMAIN S : S[s].open}
Placements(S) ==
  {p \in [Match -> Open(S)] :
     \A m, n \in Match : m < n => S[p[m]].start + Allocation <= S[p[n]].start}

RiskIn(risks, s) == IF s \in DOMAIN risks THEN risks[s] ELSE NoRisk
FixtureRisks(p, risks) == [m \in Match |-> RiskIn(risks, p[m])]

\* A profile's placement with the metrics shown of it.
Option(profile, p, S, risks) ==
  LET risk == FixtureRisks(p, risks)
  IN  [placement |-> p,
       risk      |-> ScheduleRisk(risk),
       coverage  |-> ScheduleCoverage(risk),
       penalty   |-> ObjectivePenalty(risk, MissingPenalty[profile]),
       fairness  |-> FairnessKey([m \in Match |-> S[p[m]]])]

\* The greater of two keys, the first difference deciding.
Beats(k, l) ==
  \E i \in DOMAIN k : k[i] > l[i] /\ \A j \in 1..(i - 1) : k[j] = l[j]

UnknownIsNone(option) ==                                         \* mutant
  <<IF option.risk = NoRisk THEN 0 ELSE -option.risk, option.coverage>>
\* A schedule without any known risk counts as worse than the worst.
WeatherKey(option) ==
  <<IF option.risk = NoRisk THEN -1010 ELSE -option.risk, option.coverage>>
Fairness(option) == option.fairness

\* The option shown for a profile: that of another profile if its key is greater.
\* Among several of the greatest key the code takes one by its digest.
Best(options, Key(_)) ==
  options[CHOOSE p \in DOMAIN options :
            ~\E q \in DOMAIN options : Beats(Key(options[q]), Key(options[p]))]

Promoted(options, profile, S, risks, Key(_)) ==
  LET best == Best(options, Key)
  IN  IF Beats(Key(best), Key(options[profile]))
        THEN Option(profile, best.placement, S, risks)
        ELSE options[profile]

Selected(options, S, risks) ==
  [p \in DOMAIN options |->
     CASE p = "weather_first"  -> Promoted(options, p, S, risks, WeatherKey)
       [] p = "fairness_first" -> Promoted(options, p, S, risks, Fairness)
       [] OTHER                -> options[p]]

-----------------------------------------------------------------------------
(* The handlers.                                                           *)

\* A workspace starts with the sample, or blank.
Init ==
  /\ revision = 0
  /\ slots \in {SlotsOf(0, SampleShape), NoSlots}
  /\ setups = 0
  /\ confirmed = FALSE
  /\ weather = IF HasTournament THEN WeatherFrom(Demo, slots, 0, slots)
                                ELSE NotRequested
  /\ refresh = Idle
  /\ generation = Idle
  /\ run = NoRun

\* Another request is handled now.
Turn == Overlap \/ (refresh = Idle /\ generation = Idle)

ResetKeepingConfirmation(S) ==                                   \* mutant
  /\ Turn
  /\ revision' = 0
  /\ slots' = S
  /\ weather' = IF S = NoSlots THEN NotRequested ELSE WeatherFrom(Demo, S, 0, S)
  /\ run' = NoRun
  /\ UNCHANGED <<setups, confirmed, refresh, generation>>
Reset(S) ==
  /\ Turn
  /\ revision' = 0
  /\ slots' = S
  /\ confirmed' = FALSE
  /\ weather' = IF S = NoSlots THEN NotRequested ELSE WeatherFrom(Demo, S, 0, S)
  /\ run' = NoRun
  /\ UNCHANGED <<setups, refresh, generation>>

\* A sample that does not exist is refused after the schedules have been cleared.
ResetUnknownSample ==
  /\ Turn
  /\ confirmed' = FALSE
  /\ run' = NoRun
  /\ UNCHANGED <<revision, slots, setups, weather, refresh, generation>>

\* The tournament becomes S at the next revision, not confirmed.
Change(S) ==
  /\ Turn
  /\ HasTournament
  /\ revision < MaxRevision
  /\ revision' = revision + 1
  /\ slots' = S
  /\ confirmed' = FALSE
  /\ weather' = AfterChange(weather, revision', slots, S)
  /\ UNCHANGED <<refresh, generation, run>>

\* PUT /tournament expands the weekly patterns into slots of new identities.
SaveSetup(shape) ==
  /\ setups < MaxSetups
  /\ setups' = setups + 1
  /\ Change(SlotsOf(setups', shape))

\* PATCH /tournament; of what it may change, the slots that are open.
Patch(closed) ==
  /\ Change([s \in DOMAIN slots |->
               [slots[s] EXCEPT !.open = @ /\ s \notin closed]])
  /\ UNCHANGED setups

Confirm ==
  /\ Turn
  /\ HasTournament
  /\ revision < MaxRevision
  /\ revision' = revision + 1
  /\ confirmed' = TRUE
  /\ weather' = Bound(weather, revision', slots)
  /\ UNCHANGED <<slots, setups, refresh, generation, run>>

ActivateDemo ==
  /\ Turn
  /\ HasTournament
  /\ weather' = WeatherFrom(Demo, slots, revision, slots)
  /\ UNCHANGED <<revision, slots, setups, confirmed, refresh, generation, run>>

\* POST /weather/refresh reads the tournament and asks the provider for it ...
StartRefresh ==
  /\ Turn
  /\ refresh = Idle
  /\ HasTournament
  /\ refresh' = [slots |-> slots]
  /\ UNCHANGED <<revision, slots, setups, confirmed, weather, generation, run>>

\* ... and binds what it got to the tournament there is by then, if there is one.
FinishRefresh(source) ==
  /\ refresh # Idle
  /\ weather' = IF HasTournament
                  THEN WeatherFrom(source, refresh.slots, revision, slots)
                  ELSE weather
  /\ refresh' = Idle
  /\ UNCHANGED <<revision, slots, setups, confirmed, generation, run>>

\* POST /schedule-runs, after the examination before the solver.
StartGeneration(profiles) ==
  /\ Turn
  /\ generation = Idle
  /\ HasTournament
  /\ confirmed
  /\ Placements(slots) # {}
  /\ generation' = [slots |-> slots, risks |-> weather.risks, profiles |-> profiles]
  /\ UNCHANGED <<revision, slots, setups, confirmed, weather, refresh, run>>

\* The solver answered for every profile; the weather kept with the run is that of
\* the workspace now.
FinishGeneration(answers) ==
  /\ generation # Idle
  /\ HasTournament
  /\ LET risks   == generation.risks
         options == [p \in generation.profiles |->
                       Option(p, answers[p], generation.slots, risks)]
     IN  run' = [options |-> Selected(options, generation.slots, risks),
                 snapshot |-> weather]
  /\ generation' = Idle
  /\ UNCHANGED <<revision, slots, setups, confirmed, weather, refresh>>

\* A profile without a schedule refuses the whole run, and so does a tournament
\* that is gone by then.
FailGeneration ==
  /\ generation # Idle
  /\ generation' = Idle
  /\ UNCHANGED <<revision, slots, setups, confirmed, weather, refresh, run>>

Next ==
  \/ \E S \in {SlotsOf(0, SampleShape), NoSlots} : Reset(S)
  \/ ResetUnknownSample
  \/ \E shape \in Shapes : SaveSetup(shape)
  \/ \E closed \in SUBSET DOMAIN slots : Cardinality(closed) <= MaxClosed /\ Patch(closed)
  \/ Confirm
  \/ ActivateDemo
  \/ StartRefresh
  \/ \E source \in Sky \cup {Demo} : FinishRefresh(source)
  \/ \E profiles \in Profiles : StartGeneration(profiles)
  \/ /\ generation # Idle
     /\ \E answers \in [generation.profiles -> Placements(generation.slots)] :
          FinishGeneration(answers)
  \/ FailGeneration

Spec == Init /\ [][Next]_vars

-----------------------------------------------------------------------------
(* What is read of a run.                                                  *)

\* GET /weather/schedule: the risk of each fixture by the snapshot of the run.
CurrentWeather(r) == weather                                     \* mutant
SnapshotOf(r) == r.snapshot
ShownRisks(r, profile) ==
  FixtureRisks(r.options[profile].placement, SnapshotOf(r).risks)

\* GET /schedule-comparisons groups the profiles whose placements are the same.
IdenticalGroups(options) ==
  {group \in {{q \in DOMAIN options : options[q].placement = options[p].placement} :
              p \in DOMAIN options} : Cardinality(group) > 1}

-----------------------------------------------------------------------------
(* Properties.                                                             *)

SlotsRead(S) == S = NoSlots \/ \E setup \in 0..setups, shape \in Shapes :
                                 \E closed \in SUBSET Index :
                  S = SlotsOf(setup, [i \in Index |->
                        [shape[i] EXCEPT !.open = @ /\ i \notin closed]])

TypeOK ==
  /\ revision \in 0..MaxRevision
  /\ setups \in 0..MaxSetups
  /\ confirmed \in BOOLEAN /\ (confirmed => HasTournament)
  /\ SlotsRead(slots)
  /\ refresh = Idle \/ SlotsRead(refresh.slots)
  /\ generation = Idle \/ generation.profiles \in Profiles
  /\ run = NoRun \/ DOMAIN run.options \in Profiles

\* The weather of a workspace is about the tournament it has: it is bound to the
\* current revision and slots, and every risk is the one its source gives for that
\* slot now, or there are none (weather/state.py:38-65, routes.py:341-361).
EvidenceBound ==
  /\ weather.bound = [revision |-> revision, slots |-> slots]
  /\ weather.risks = IF weather.source = NoSource THEN NoRisks
                     ELSE RisksUnder(weather.source, slots)

\* The metrics compared are those of the weather shown with the fixtures of the
\* run, however often it is refreshed or the tournament changed after the run
\* (schedules.py:565 stores the snapshot, 728-745 reads it).
OneWeatherSnapshot ==
  run # NoRun =>
    \A p \in DOMAIN run.options :
      /\ run.options[p].risk = ScheduleRisk(ShownRisks(run, p))
      /\ run.options[p].coverage = ScheduleCoverage(ShownRisks(run, p))

\* No profile of a run shows less weather risk than weather first, or as much at a
\* greater coverage; none shows better fairness than fairness first; and profiles
\* reported as identical show the same metrics (profiles.py:160-205,
\* comparison.py:29-35).
NoWorse(w, o) ==
  /\ w.risk = NoRisk => o.risk = NoRisk
  /\ (w.risk # NoRisk /\ o.risk # NoRisk) =>
       w.risk < o.risk \/ (w.risk = o.risk /\ w.coverage >= o.coverage)

ProfilesComparable ==
  run # NoRun =>
    LET options == run.options
    IN  /\ Required \subseteq DOMAIN options
        /\ \A p \in DOMAIN options :
             /\ NoWorse(options["weather_first"], options[p])
             /\ ~Beats(options[p].fairness, options["fairness_first"].fairness)
        /\ \A group \in IdenticalGroups(options) : \A p, q \in group :
             /\ NoWorse(options[p], options[q])
             /\ options[p].fairness = options[q].fairness

\* A forecast slot is at least as risky as any single hour from half an hour before
\* the match to half an hour after it, when the readings of these hours and the
\* severity of their codes are known; and while no hour tells the probability of
\* rain it has no risk at all (risk.py:138-212).
Readings(h) == (\A name \in DOMAIN h : h[name] # NoRisk) /\ Severity(h.code) # NoRisk

WorstHourCounts ==
  weather.source \in Sky =>
    \A s \in DOMAIN weather.risks :
      LET place == slots[s]
          known == Forecast[weather.source][place.venue] # NoForecast
          window == {h \in Forecast[weather.source][place.venue] :
                       /\ h.at >= place.start - 30
                       /\ h.at <= place.start + Allocation + 30}
      IN  known =>
            /\ (\A h \in window : Readings(h)) =>
                 \A h \in window : weather.risks[s] >= HoursRisk({h})
            /\ (\A h \in window : h.probability = NoRisk) => weather.risks[s] = NoRisk
=============================================================================
