---------------------------- MODULE RepairPasses ----------------------------
(***************************************************************************)
(* The repair of an approved schedule after slots have become unavailable  *)
(* (scheduling/repair.py, scheduling/repair_objectives.py and the part of  *)
(* generate_repair in api/schedules.py that calls them): the examination   *)
(* before the solver, three solver passes that minimise the number of      *)
(* changed fixtures, then the movement, then a quality cost, each with the *)
(* totals of the earlier ones fixed, the independent validation and the    *)
(* difference shown to the organizer.                                      *)
(*                                                                         *)
(* The solver is external.  Within its time limit it answers with a proven *)
(* optimum, with a solution it could not prove optimal, with a proof that  *)
(* there is none, or with nothing ("UNKNOWN").                             *)
(***************************************************************************)
EXTENDS ScheduleMetrics

CONSTANTS Placement,      \* the placements an instance considers
          Official,       \* the slots the organizer left available
          Baselines,      \* approved placements a repair starts from
          ConfirmedRest,  \* minimum_rest_minutes of the confirmed constraints
          QualityCost,    \* <<match, slot>> -> 0..1000
          FirstVenue, SecondVenue,
          None,           \* no placement yet
          MaxClosed,      \* bound: slots one disruption makes unavailable
          MaxLate         \* bound: passes of a repair that reach the time limit

ASSUME RepairAssumption ==
  /\ Placement \subseteq [Match -> Slot] /\ Baselines \subseteq Placement
  /\ Official \subseteq Slot
  /\ ConfirmedRest \in Nat /\ MaxClosed \in Nat /\ MaxLate \in Nat
  /\ None \notin Placement

VARIABLES baseline,   \* the placement of the official schedule
          open,       \* the slots of the copy of the tournament that is repaired
          stage,      \* where the handler is
          totals,     \* what the finished passes returned as their objective
          late,       \* passes that ended at the time limit
          repaired,   \* the placement the third pass returned
          answer      \* what the organizer is told

vars == <<baseline, open, stage, totals, late, repaired, answer>>

Stages  == {"official", "disrupted", "changed", "movement", "quality",
            "validate", "answered"}
Answers == {"none", "draft", "precheck_refused", "infeasible"}

TypeOK ==
  /\ baseline \in Baselines
  /\ open \subseteq Official
  /\ stage \in Stages
  /\ DOMAIN totals \subseteq {"changed", "movement"}
  /\ late \in 0..MaxLate
  /\ repaired \in Placement \cup {None}
  /\ answer \in Answers

-----------------------------------------------------------------------------
(* The costs of the passes.                                                *)

\* The handler passes no minimum rest to repair_schedule, which takes zero.
RepairRest == 0

Changed(b, p) == {m \in Match : p[m] # b[m]}

Abs(n) == IF n < 0 THEN -n ELSE n

Movement(b, m, s) ==
  Abs(SlotStart[s] - SlotStart[b[m]])
    + IF SlotVenue[s] # SlotVenue[b[m]] THEN Allocation ELSE 0

ChangedCount(b, p) == Cardinality(Changed(b, p))
MovementCost(b, p) == SumFunction([m \in Match |-> Movement(b, m, p[m])])
QualityTotal(p)    == SumFunction([m \in Match |-> QualityCost[<<m, p[m]>>]])

Cost(pass, b, p) ==
  CASE pass = "changed"  -> ChangedCount(b, p)
    [] pass = "movement" -> MovementCost(b, p)
    [] pass = "quality"  -> QualityTotal(p)

\* The placements a pass may answer with: the rules, none of the closed slots, and
\* the totals so far.  The rules do not depend on the closed slots.
Allowed(rest) == {p \in Placement : RulesHold(Match, rest, p)}
AllowedByRepair == Allowed(RepairRest)
AllowedByPrecheck == Allowed(ConfirmedRest)

Within(S, slots) == {p \in S : \A m \in Match : p[m] \in slots}

SolutionsOfAnyTotal(b, slots, fixed) == Within(AllowedByRepair, slots)   \* mutant
Solutions(b, slots, fixed) ==
  {p \in Within(AllowedByRepair, slots) :
     \A pass \in DOMAIN fixed : Cost(pass, b, p) = fixed[pass]}

Optimal(pass, b, S) ==
  LET costs == {Cost(pass, b, q) : q \in S}
  IN  {p \in S : \A c \in costs : Cost(pass, b, p) <= c}

-----------------------------------------------------------------------------
Init ==
  /\ baseline \in Baselines
  /\ open = Official
  /\ stage = "official"
  /\ totals = [pass \in {} |-> 0]
  /\ late = 0
  /\ repaired = None
  /\ answer = "none"

\* The organizer reports slots as unavailable and asks for a repair; the handler
\* closes them in a copy of the tournament.
Disrupt(closed) ==
  /\ stage = "official"
  /\ closed # {}
  /\ open' = open \ closed
  /\ stage' = "disrupted"
  /\ UNCHANGED <<baseline, totals, late, repaired, answer>>

Answer(told) == stage' = "answered" /\ answer' = told

Precheck ==
  /\ stage = "disrupted"
  /\ \/ /\ PrecheckIssues(RepairEligibility(open), open, ConfirmedRest) # {}
        /\ Answer("precheck_refused")
     \/ /\ PrecheckIssues(RepairEligibility(open), open, ConfirmedRest) = {}
        /\ stage' = "changed"
        /\ UNCHANGED answer
  /\ UNCHANGED <<baseline, open, totals, late, repaired>>

StageSkippingMovement(pass) ==                                   \* mutant
  IF pass = "changed" THEN "quality" ELSE "validate"
StageAfter(pass) == CASE pass = "changed" -> "movement"
                      [] pass = "movement" -> "quality"
                      [] pass = "quality" -> "validate"

PassAnswersTotalled(pass, S) ==                                  \* mutant
  /\ stage' = StageAfter(pass)
  /\ \E p \in S :
       /\ totals' = [q \in DOMAIN totals \cup {pass} |-> IF q = pass
                      THEN Cost(pass, baseline, p) ELSE totals[q]]
       /\ repaired' = IF pass = "quality" THEN p ELSE repaired
  /\ UNCHANGED <<baseline, open, answer>>

\* A pass hands on the value of its objective; only the placement of the last one
\* is used.
PassAnswers(pass, S) ==
  /\ stage' = StageAfter(pass)
  /\ \/ /\ pass # "quality"
        /\ \E total \in {Cost(pass, baseline, p) : p \in S} :
             totals' = [q \in DOMAIN totals \cup {pass} |->
                          IF q = pass THEN total ELSE totals[q]]
        /\ UNCHANGED repaired
     \/ /\ pass = "quality"
        /\ repaired' \in S
        /\ UNCHANGED totals
  /\ UNCHANGED <<baseline, open, answer>>

\* OPTIMAL, FEASIBLE at the time limit, UNKNOWN at the time limit, INFEASIBLE.
SolvedOptimal(pass) ==
  /\ stage = pass
  /\ Solutions(baseline, open, totals) # {}
  /\ PassAnswers(pass, Optimal(pass, baseline, Solutions(baseline, open, totals)))
  /\ UNCHANGED late

SolvedFeasible(pass) ==
  /\ stage = pass
  /\ late < MaxLate
  /\ late' = late + 1
  /\ PassAnswers(pass, Solutions(baseline, open, totals))

SolvedUnknown(pass) ==
  /\ stage = pass
  /\ late < MaxLate
  /\ late' = late + 1
  /\ Answer("infeasible")
  /\ UNCHANGED <<baseline, open, totals, repaired>>

SolvedInfeasible(pass) ==
  /\ stage = pass
  /\ Solutions(baseline, open, totals) = {}
  /\ Answer("infeasible")
  /\ UNCHANGED <<baseline, open, totals, late, repaired>>

Validate ==
  /\ stage = "validate"
  /\ Answer(IF Violations(open, RepairRest, Document(repaired)) = {}
            THEN "draft" ELSE "infeasible")
  /\ UNCHANGED <<baseline, open, totals, late, repaired>>

\* The organizer leaves the draft and reports another disruption; the closed
\* slots of the first one were never saved.
AnotherDisruption ==
  /\ stage = "answered"
  /\ stage' = "official"
  /\ open' = Official
  /\ totals' = [pass \in {} |-> 0]
  /\ late' = 0
  /\ repaired' = None
  /\ answer' = "none"
  /\ UNCHANGED baseline

Pass == {"changed", "movement", "quality"}

Next ==
  \/ \E closed \in SUBSET Official :
        Cardinality(closed) <= MaxClosed /\ Disrupt(closed)
  \/ Precheck
  \/ \E pass \in Pass : SolvedOptimal(pass) \/ SolvedFeasible(pass)
                          \/ SolvedUnknown(pass) \/ SolvedInfeasible(pass)
  \/ Validate
  \/ AnotherDisruption

Spec == Init /\ [][Next]_vars

-----------------------------------------------------------------------------
(* Properties.                                                             *)

NoTotals == [pass \in {} |-> 0]

\* A placement the solver returned is never rejected by the independent
\* validator: the two renderings of the rules agree on it (repair.py:113-121
\* would turn a disagreement into "no valid repair exists").
ValidatorNeverRejects ==
  stage = "validate" => Violations(open, RepairRest, Document(repaired)) = {}

\* When every pass proves its optimum, no schedule that obeys the rules and
\* avoids the closed slots changes fewer fixtures, or as few with less movement,
\* or both as little at a lower quality cost (repair.py:76-110).
LexicographicMinimum ==
  (stage = "validate" /\ late = 0) =>
    \A q \in Solutions(baseline, open, NoTotals) :
      /\ ChangedCount(baseline, repaired) <= ChangedCount(baseline, q)
      /\ ChangedCount(baseline, repaired) = ChangedCount(baseline, q) =>
           /\ MovementCost(baseline, repaired) <= MovementCost(baseline, q)
           /\ MovementCost(baseline, repaired) = MovementCost(baseline, q) =>
                QualityTotal(repaired) <= QualityTotal(q)

\* The counts of the earlier passes describe the schedule of the last one, whether
\* or not the passes reached their optimum, and the difference shown to the
\* organizer moves exactly the fixtures the repair counts as changed
\* (repair.py:122-144 compares slots, diff.py:60-75 whole fixtures).
DiffMatchesTotals ==
  stage = "validate" =>
    LET diff == ScheduleDiff(Document(baseline), Document(repaired))
    IN  /\ diff.moved = Changed(baseline, repaired)
        /\ diff.unchanged = Match \ Changed(baseline, repaired)
        /\ diff.added = {} /\ diff.removed = {}
        /\ Cardinality(diff.moved) = totals["changed"]
        /\ MovementCost(baseline, repaired) = totals["movement"]

\* The examination before the solver refuses only what cannot be solved under the
\* confirmed rest (precheck.py:122-259): its conditions are necessary ones.
PrecheckSound ==
  answer = "precheck_refused" => Within(AllowedByPrecheck, open) = {}

\* The preset weights (config/optimization/v1.yaml) and a lopsided custom choice.
Weights(w, r, v, sl, o, a) ==
  [weather_coverage |-> w, rest |-> r, venue_balance |-> v, slot_balance |-> sl,
   organizer_preferences |-> o, audience_timing |-> a]
Priorities == {Weights(25, 25, 15, 10, 20, 5), Weights(50, 20, 10, 5, 10, 5),
               Weights(15, 40, 20, 15, 5, 5), Weights(3, 100, 0, 0, 7, 1)}

\* The penalties of the program's fifteen matches, of which twelve are group matches.
PenaltyOf(number, s, risk, weekend) ==
  Penalties(number, 15, number <= 12, s, risk, 55, weekend, FirstVenue)
Affordable(penalty) ==
  /\ \A name \in DOMAIN penalty : penalty[name] \in 0..100
  /\ \A priority \in Priorities : ObjectiveCost(priority, penalty) \in 0..10000
PenaltiesBounded ==
  \A number \in 1..15, s \in Slot, risk \in {NoRisk, -10, 0, 725, 1001},
     weekend \in BOOLEAN : Affordable(PenaltyOf(number, s, risk, weekend))

\* Every team's rest margin and every knockout path of a validated schedule is at
\* least the rest it was validated with, although the metrics look at consecutive
\* matches and the rules at all pairs; every metric is within the 0 to 100 that
\* ScheduleMetrics accepts (domain/schedules.py:51-61); and no penalty leaves the
\* range outside of which the profiles cannot be generated (profiles.py:38-40).
Rested(p, rest) ==
  \A team \in Team : /\ RestMargin(Document(p), team) >= rest
                     /\ KnockoutRest(Document(p), team) >= rest

MetricsReportable ==
  stage = "validate" =>
    /\ Rested(repaired, RepairRest)
    /\ Violations(Official, ConfirmedRest, Document(baseline)) = {}
         => Rested(baseline, ConfirmedRest)
    /\ LET metrics == FairnessMetrics(Document(repaired), FirstVenue, SecondVenue)
       IN  \A name \in DOMAIN metrics : metrics[name] \in 0..1000
    /\ PenaltiesBounded

\* generate_repair tells the organizer that "the selected disruption leaves no
\* placement that satisfies" the rules (schedules.py:1240-1252).
RefusalMeansNone ==
  answer = "infeasible" => Solutions(baseline, open, NoTotals) = {}
=============================================================================
