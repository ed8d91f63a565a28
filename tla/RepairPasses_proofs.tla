------------------------ MODULE RepairPasses_proofs ------------------------
(***************************************************************************)
(* The repair, for every tournament, baseline, disruption and quality cost *)
(* and any number of passes that reach the time limit: what the solver     *)
(* returns passes the independent validator, the examination before the    *)
(* solver refuses only what cannot be solved, the three passes give the    *)
(* lexicographic minimum, and the counts describe the schedule shown.      *)
(***************************************************************************)
EXTENDS RepairPasses, ScheduleMetrics_proofs

-----------------------------------------------------------------------------
(* The inductive invariant: what the totals are at each stage, and what    *)
(* they say as long as no pass has reached its time limit.                 *)

Before == {"official", "disrupted", "changed"}

TotalsOfStage ==
  /\ stage \in Before => totals = NoTotals
  /\ stage = "movement" => DOMAIN totals = {"changed"}
  /\ stage \in {"quality", "validate"} => DOMAIN totals = {"changed", "movement"}

RepairedIsSolution ==
  stage = "validate" => repaired \in Solutions(baseline, open, totals)

RefusedForIssues ==
  /\ answer = "precheck_refused" =>
       PrecheckIssues(RepairEligibility(open), open, ConfirmedRest) # {}
  /\ stage # "answered" => answer = "none"

FewestChanged ==
  (late = 0 /\ stage \in {"movement", "quality", "validate"}) =>
    \A q \in Solutions(baseline, open, NoTotals) :
      totals["changed"] <= ChangedCount(baseline, q)

LeastMovement ==
  (late = 0 /\ stage \in {"quality", "validate"}) =>
    \A q \in Solutions(baseline, open, NoTotals) :
      ChangedCount(baseline, q) = totals["changed"] =>
        totals["movement"] <= MovementCost(baseline, q)

BestQuality ==
  (late = 0 /\ stage = "validate") =>
    \A q \in Solutions(baseline, open, totals) :
      QualityTotal(repaired) <= QualityTotal(q)

\* A total was handed on by some solution, which has not gone away.
SolutionsRemain ==
  stage \in {"movement", "quality"} => Solutions(baseline, open, totals) # {}

RefusedForNone ==
  (late = 0 /\ answer = "infeasible") => Solutions(baseline, open, NoTotals) = {}

RepairInv ==
  /\ TypeOK /\ TotalsOfStage /\ RepairedIsSolution /\ RefusedForIssues
  /\ FewestChanged /\ LeastMovement /\ BestQuality
  /\ SolutionsRemain /\ RefusedForNone

-----------------------------------------------------------------------------
(* Solutions and optima.                                                   *)

LEMMA SolutionFacts ==
  ASSUME NEW b, NEW slots, NEW fixed, NEW p \in Solutions(b, slots, fixed)
  PROVE  /\ p \in Placement /\ RulesHold(Match, RepairRest, p)
         /\ \A m \in Match : p[m] \in slots
         /\ \A pass \in DOMAIN fixed : Cost(pass, b, p) = fixed[pass]
BY DEF Solutions, Within, AllowedByRepair, Allowed

LEMMA SolutionsFixing ==
  ASSUME NEW b, NEW slots, NEW fixed, NEW q \in Solutions(b, slots, NoTotals),
         \A pass \in DOMAIN fixed : Cost(pass, b, q) = fixed[pass]
  PROVE  q \in Solutions(b, slots, fixed)
BY DEF Solutions

LEMMA SolutionsWithoutTotals ==
  ASSUME NEW b, NEW slots, NEW fixed
  PROVE  Solutions(b, slots, fixed) \subseteq Solutions(b, slots, NoTotals)
BY DEF Solutions, NoTotals

LEMMA OptimalFacts ==
  ASSUME NEW pass, NEW b, NEW S, NEW p \in Optimal(pass, b, S)
  PROVE  p \in S /\ \A q \in S : Cost(pass, b, p) <= Cost(pass, b, q)
BY DEF Optimal

LEMMA Costs ==
  ASSUME NEW b, NEW p
  PROVE  /\ Cost("changed", b, p) = ChangedCount(b, p)
         /\ Cost("movement", b, p) = MovementCost(b, p)
         /\ Cost("quality", b, p) = QualityTotal(p)
BY DEF Cost

-----------------------------------------------------------------------------
(* A pass that answers from a set of solutions.                            *)

LEMMA PassKeeps ==
  ASSUME RepairInv, NEW pass \in Pass, stage = pass,
         NEW S \in SUBSET Solutions(baseline, open, totals),
         PassAnswers(pass, S), late' \in 0..MaxLate
  PROVE  /\ TypeOK' /\ TotalsOfStage' /\ RepairedIsSolution' /\ RefusedForIssues'
         /\ SolutionsRemain' /\ RefusedForNone'
<1> USE DEF RepairInv, TypeOK
<1>a. RefusedForNone'
  BY DEF PassAnswers, RefusedForIssues, RefusedForNone, Pass
<1>0. \A p \in S : p \in Placement
  BY SolutionFacts
<1>1. CASE pass = "changed"
  <2>1. /\ stage' = "movement" /\ repaired' = repaired
        /\ UNCHANGED <<baseline, open, answer>>
        /\ DOMAIN totals' = DOMAIN totals \cup {"changed"}
    BY <1>1 DEF PassAnswers, StageAfter
  <2>2. DOMAIN totals = {}
    BY <1>1 DEF TotalsOfStage, Before, NoTotals
  <2>3. PICK p \in S : totals'["changed"] = Cost("changed", baseline, p)
    BY <1>1 DEF PassAnswers
  <2>4. p \in Solutions(baseline, open, totals')
    BY <2>1, <2>2, <2>3, SolutionsWithoutTotals, SolutionsFixing
  <2>5. SolutionsRemain'
    BY <2>1, <2>4 DEF SolutionsRemain
  <2> QED
    BY <1>1, <1>a, <2>1, <2>2, <2>5 DEF TotalsOfStage, RepairedIsSolution, RefusedForIssues,
       Before, Stages
<1>2. CASE pass = "movement"
  <2>1. /\ stage' = "quality" /\ repaired' = repaired
        /\ UNCHANGED <<baseline, open, answer>>
        /\ DOMAIN totals' = DOMAIN totals \cup {"movement"}
    BY <1>2 DEF PassAnswers, StageAfter
  <2>2. DOMAIN totals = {"changed"}
    BY <1>2 DEF TotalsOfStage
  <2>3. PICK p \in S : /\ totals'["movement"] = Cost("movement", baseline, p)
                       /\ totals'["changed"] = totals["changed"]
    BY <1>2, <2>2 DEF PassAnswers
  <2>4. Cost("changed", baseline, p) = totals["changed"]
    BY <2>2, SolutionFacts
  <2>5. p \in Solutions(baseline, open, totals')
    BY <2>1, <2>2, <2>3, <2>4, SolutionsWithoutTotals, SolutionsFixing
  <2>6. SolutionsRemain'
    BY <2>1, <2>5 DEF SolutionsRemain
  <2> QED
    BY <1>2, <1>a, <2>1, <2>6 DEF TotalsOfStage, RepairedIsSolution, RefusedForIssues,
       Before, Stages
<1>3. CASE pass = "quality"
  <2>1. /\ stage' = "validate" /\ repaired' \in S /\ totals' = totals
        /\ UNCHANGED <<baseline, open, answer>>
    BY <1>3 DEF PassAnswers, StageAfter
  <2> QED
    BY <1>0, <1>3, <1>a, <2>1 DEF TotalsOfStage, RepairedIsSolution, RefusedForIssues,
       SolutionsRemain, Before, Stages
<1> QED
  BY <1>1, <1>2, <1>3 DEF Pass

LEMMA OptimalPassKeeps ==
  ASSUME RepairInv, NEW pass \in Pass, SolvedOptimal(pass)
  PROVE  RepairInv'
<1> DEFINE S == Solutions(baseline, open, totals)
           best == Optimal(pass, baseline, S)
<1>1. stage = pass /\ PassAnswers(pass, best) /\ late' = late
  BY DEF SolvedOptimal
<1>2. best \in SUBSET S
  BY OptimalFacts
<1>3. /\ TypeOK' /\ TotalsOfStage' /\ RepairedIsSolution' /\ RefusedForIssues'
      /\ SolutionsRemain' /\ RefusedForNone'
  BY <1>1, <1>2, PassKeeps DEF RepairInv, TypeOK
<1>4. CASE pass = "changed"
  <2>1. totals = NoTotals
    BY <1>1, <1>4 DEF RepairInv, TotalsOfStage, Before
  <2>2. PICK p \in best :
          /\ stage' = "movement" /\ baseline' = baseline /\ open' = open
          /\ totals'["changed"] = Cost("changed", baseline, p)
    BY <1>1, <1>4 DEF PassAnswers, StageAfter
  <2>3. FewestChanged'
    BY <1>4, <2>1, <2>2, OptimalFacts, Costs DEF FewestChanged
  <2> QED
    BY <1>3, <2>2, <2>3 DEF RepairInv, LeastMovement, BestQuality
<1>5. CASE pass = "movement"
  <2>1. DOMAIN totals = {"changed"}
    BY <1>1, <1>5 DEF RepairInv, TotalsOfStage
  <2>2. PICK p \in best :
          /\ stage' = "quality" /\ baseline' = baseline /\ open' = open
          /\ totals'["movement"] = Cost("movement", baseline, p)
          /\ totals'["changed"] = totals["changed"]
    BY <1>1, <1>5, <2>1 DEF PassAnswers, StageAfter
  <2>3. FewestChanged'
    BY <1>1, <1>5, <2>2 DEF RepairInv, FewestChanged
  <2>4. ASSUME NEW q \in Solutions(baseline, open, NoTotals),
               ChangedCount(baseline, q) = totals["changed"]
        PROVE  Cost("movement", baseline, p) <= MovementCost(baseline, q)
    <3>1. q \in S
      BY <2>1, <2>4, Costs, SolutionsFixing
    <3> QED
      BY <1>5, <2>2, <3>1, OptimalFacts, Costs
  <2>5. LeastMovement'
    BY <2>2, <2>4 DEF LeastMovement
  <2> QED
    BY <1>3, <2>2, <2>3, <2>5 DEF RepairInv, BestQuality
<1>6. CASE pass = "quality"
  <2>1. /\ stage' = "validate" /\ repaired' \in best
        /\ UNCHANGED <<baseline, open, totals>>
    BY <1>1, <1>6 DEF PassAnswers, StageAfter
  <2>2. FewestChanged' /\ LeastMovement'
    BY <1>1, <1>6, <2>1 DEF RepairInv, FewestChanged, LeastMovement
  <2>3. BestQuality'
    BY <1>1, <1>6, <2>1, OptimalFacts, Costs DEF BestQuality
  <2> QED
    BY <1>3, <2>2, <2>3 DEF RepairInv
<1> QED
  BY <1>4, <1>5, <1>6 DEF Pass

LEMMA FeasiblePassKeeps ==
  ASSUME RepairInv, NEW pass \in Pass, SolvedFeasible(pass)
  PROVE  RepairInv'
<1>1. /\ stage = pass /\ late' = late + 1 /\ late \in 0..MaxLate /\ late < MaxLate
      /\ PassAnswers(pass, Solutions(baseline, open, totals))
  BY DEF SolvedFeasible, RepairInv, TypeOK
<1>2. late' \in 0..MaxLate /\ late' # 0
  BY <1>1, RepairAssumption
<1>3. /\ TypeOK' /\ TotalsOfStage' /\ RepairedIsSolution' /\ RefusedForIssues'
      /\ SolutionsRemain' /\ RefusedForNone'
  BY <1>1, <1>2, PassKeeps
<1> QED
  BY <1>2, <1>3 DEF RepairInv, FewestChanged, LeastMovement, BestQuality

-----------------------------------------------------------------------------
(* The invariant.                                                          *)

LEMMA SolutionsValid == RepairInv => ValidatorNeverRejects
<1> SUFFICES ASSUME RepairInv, stage = "validate"
             PROVE  Violations(open, RepairRest, Document(repaired)) = {}
  BY DEF ValidatorNeverRejects
<1>1. /\ repaired \in Placement /\ RulesHold(Match, RepairRest, repaired)
      /\ \A m \in Match : repaired[m] \in open
  BY SolutionFacts DEF RepairInv, RepairedIsSolution
<1>2. repaired \in [Match -> Slot] /\ open \in SUBSET Slot /\ RepairRest \in Nat
  BY <1>1, RepairAssumption DEF RepairInv, TypeOK, RepairRest
<1>3. \A m \in Match : repaired[m] \in RepairEligibility(open)[m]
  BY <1>1 DEF RepairEligibility
<1>4. SolverAllows(RepairEligibility(open), open, RepairRest, repaired)
  BY <1>1, <1>3 DEF SolverAllows
<1> QED
  BY <1>2, <1>3, <1>4, ValidatorAgrees

LEMMA RepairInit == Init => RepairInv
BY RepairAssumption
   DEF Init, RepairInv, TypeOK, TotalsOfStage, RepairedIsSolution, RefusedForIssues,
       FewestChanged, LeastMovement, BestQuality, SolutionsRemain, RefusedForNone,
       Stages, Answers, Before, NoTotals

LEMMA RepairNext == RepairInv /\ [Next]_vars => RepairInv'
<1> SUFFICES ASSUME RepairInv, [Next]_vars PROVE RepairInv'
  OBVIOUS
<1> USE RepairAssumption
        DEF TotalsOfStage, RepairedIsSolution, RefusedForIssues,
            FewestChanged, LeastMovement, BestQuality, SolutionsRemain, RefusedForNone, Before
<1>1. ASSUME NEW closed \in SUBSET Official, Disrupt(closed) PROVE RepairInv'
  BY <1>1 DEF Disrupt, RepairInv, TypeOK, Stages, Answers
<1>2. CASE Precheck
  BY <1>2 DEF Precheck, Answer, RepairInv, TypeOK, Stages, Answers
<1>3. ASSUME NEW pass \in Pass, SolvedOptimal(pass) PROVE RepairInv'
  BY <1>3, OptimalPassKeeps
<1>4. ASSUME NEW pass \in Pass, SolvedFeasible(pass) PROVE RepairInv'
  BY <1>4, FeasiblePassKeeps
<1>5. ASSUME NEW pass \in Pass, SolvedUnknown(pass) PROVE RepairInv'
  <2>1. /\ stage' = "answered" /\ answer' = "infeasible"
        /\ late' \in 0..MaxLate /\ late' # 0
        /\ UNCHANGED <<baseline, open, totals, repaired>>
    BY <1>5 DEF SolvedUnknown, Answer, RepairInv, TypeOK
  <2> QED
    BY <2>1 DEF RepairInv, TypeOK, Stages, Answers
<1>6. ASSUME NEW pass \in Pass, SolvedInfeasible(pass) PROVE RepairInv'
  <2>1. /\ stage = pass /\ Solutions(baseline, open, totals) = {}
        /\ stage' = "answered" /\ answer' = "infeasible"
        /\ UNCHANGED <<baseline, open, totals, late, repaired>>
    BY <1>6 DEF SolvedInfeasible, Answer
  <2>2. stage = "changed"
    BY <2>1 DEF RepairInv, Pass
  <2>3. Solutions(baseline, open, NoTotals) = {}
    BY <2>1, <2>2 DEF RepairInv
  <2> QED
    BY <2>1, <2>2, <2>3 DEF RepairInv, TypeOK, Stages, Answers
<1>7. CASE Validate
  <2>1. /\ stage = "validate" /\ stage' = "answered" /\ answer' = "draft"
        /\ UNCHANGED <<baseline, open, totals, late, repaired>>
    BY <1>7, SolutionsValid DEF Validate, Answer, ValidatorNeverRejects
  <2> QED
    BY <2>1 DEF RepairInv, TypeOK, Stages, Answers
<1>8. CASE AnotherDisruption
  BY <1>8 DEF AnotherDisruption, RepairInv, TypeOK, Stages, Answers, NoTotals
<1>9. CASE UNCHANGED vars
  BY <1>9 DEF vars, RepairInv, TypeOK
<1> QED
  BY <1>1, <1>2, <1>3, <1>4, <1>5, <1>6, <1>7, <1>8, <1>9 DEF Next

THEOREM RepairInvariant == Spec => []RepairInv
BY RepairInit, RepairNext, PTL DEF Spec

-----------------------------------------------------------------------------
(* The properties.                                                         *)

\* The state of a repair is what it is declared to be.
THEOREM TypeCorrect == Spec => []TypeOK
BY RepairInvariant, PTL DEF RepairInv

\* The independent validator never rejects what the solver returned (repair.py:113-121).
THEOREM ValidatorNeverRejectsHolds == Spec => []ValidatorNeverRejects
BY SolutionsValid, RepairInvariant, PTL

\* The three passes, when each proves its optimum, give the lexicographic minimum of
\* changed fixtures, movement and quality cost (repair.py:76-110).
THEOREM LexicographicMinimumHolds == Spec => []LexicographicMinimum
<1>1. RepairInv => LexicographicMinimum
  <2> SUFFICES ASSUME RepairInv, stage = "validate", late = 0,
                      NEW q \in Solutions(baseline, open, NoTotals)
               PROVE  /\ ChangedCount(baseline, repaired) <= ChangedCount(baseline, q)
                      /\ ChangedCount(baseline, repaired) = ChangedCount(baseline, q) =>
                           /\ MovementCost(baseline, repaired) <= MovementCost(baseline, q)
                           /\ MovementCost(baseline, repaired) = MovementCost(baseline, q)
                                => QualityTotal(repaired) <= QualityTotal(q)
    BY DEF LexicographicMinimum
  <2>1. DOMAIN totals = {"changed", "movement"}
    BY DEF RepairInv, TotalsOfStage
  <2>2. /\ ChangedCount(baseline, repaired) = totals["changed"]
        /\ MovementCost(baseline, repaired) = totals["movement"]
    BY <2>1, SolutionFacts, Costs DEF RepairInv, RepairedIsSolution
  <2>3. ChangedCount(baseline, repaired) <= ChangedCount(baseline, q)
    BY <2>2 DEF RepairInv, FewestChanged
  <2>4. ASSUME ChangedCount(baseline, repaired) = ChangedCount(baseline, q)
        PROVE  MovementCost(baseline, repaired) <= MovementCost(baseline, q)
    BY <2>2, <2>4 DEF RepairInv, LeastMovement
  <2>5. ASSUME ChangedCount(baseline, repaired) = ChangedCount(baseline, q),
               MovementCost(baseline, repaired) = MovementCost(baseline, q)
        PROVE  QualityTotal(repaired) <= QualityTotal(q)
    <3>1. q \in Solutions(baseline, open, totals)
      BY <2>1, <2>2, <2>5, Costs, SolutionsFixing
    <3> QED
      BY <3>1 DEF RepairInv, BestQuality
  <2> QED
    BY <2>3, <2>4, <2>5
<1> QED
  BY <1>1, RepairInvariant, PTL

\* The counts of the earlier passes, proven optimal or not, are those of the schedule
\* the last one returned, and the difference shown moves as many fixtures
\* (repair.py:122-144, diff.py:60-75).
THEOREM DiffMatchesTotalsHolds == Spec => []DiffMatchesTotals
<1>1. RepairInv => DiffMatchesTotals
  <2> SUFFICES ASSUME RepairInv, stage = "validate" PROVE DiffMatchesTotals
    BY DEF DiffMatchesTotals
  <2> DEFINE diff == ScheduleDiff(Document(baseline), Document(repaired))
  <2>1. baseline \in [Match -> Slot] /\ repaired \in [Match -> Slot]
    BY SolutionFacts, RepairAssumption DEF RepairInv, TypeOK, RepairedIsSolution
  <2>2. /\ diff.moved = {m \in Match : repaired[m] # baseline[m]}
        /\ diff.unchanged = {m \in Match : repaired[m] = baseline[m]}
        /\ diff.added = {} /\ diff.removed = {}
    BY <2>1, DiffBySlot
  <2>3. /\ diff.moved = Changed(baseline, repaired)
        /\ diff.unchanged = Match \ Changed(baseline, repaired)
    BY <2>2 DEF Changed
  <2>4. /\ ChangedCount(baseline, repaired) = totals["changed"]
        /\ MovementCost(baseline, repaired) = totals["movement"]
    <3>1. DOMAIN totals = {"changed", "movement"}
      BY DEF RepairInv, TotalsOfStage
    <3> QED
      BY <3>1, SolutionFacts, Costs DEF RepairInv, RepairedIsSolution
  <2>5. Cardinality(diff.moved) = totals["changed"]
    BY <2>3, <2>4 DEF ChangedCount
  <2> HIDE DEF diff
  <2> QED
    BY <2>2, <2>3, <2>4, <2>5 DEF DiffMatchesTotals, diff
<1> QED
  BY <1>1, RepairInvariant, PTL

\* The examination before the solver refuses only disruptions that no placement in
\* the remaining slots survives under the confirmed rest (precheck.py:122-259).
THEOREM PrecheckSoundHolds == Spec => []PrecheckSound
<1>1. RepairInv => PrecheckSound
  <2> SUFFICES ASSUME RepairInv, answer = "precheck_refused",
                      NEW p \in Within(AllowedByPrecheck, open)
               PROVE  FALSE
    BY DEF PrecheckSound
  <2>1. /\ p \in [Match -> Slot] /\ open \in SUBSET Slot
        /\ RulesHold(Match, ConfirmedRest, p) /\ \A m \in Match : p[m] \in open
    BY RepairAssumption DEF RepairInv, TypeOK, Within, AllowedByPrecheck, Allowed
  <2>2. RepairEligibility(open) \in [Match -> SUBSET Slot]
    BY <2>1 DEF RepairEligibility
  <2>3. SolverAllows(RepairEligibility(open), open, ConfirmedRest, p)
    BY <2>1 DEF SolverAllows, RepairEligibility
  <2>4. PrecheckIssues(RepairEligibility(open), open, ConfirmedRest) = {}
    BY <2>1, <2>2, <2>3, PrecheckNecessary, RepairAssumption
  <2> QED
    BY <2>4 DEF RepairInv, RefusedForIssues
<1> QED
  BY <1>1, RepairInvariant, PTL

\* A repair is told to have no placement only when there is none, as long as no pass
\* has reached its time limit, which is when the run repair_timeout finds it untrue
\* (repair.py:84-111, schedules.py:1240-1252).
THEOREM RefusalMeansNoneInTime == Spec => [](late = 0 => RefusalMeansNone)
<1>1. RepairInv => (late = 0 => RefusalMeansNone)
  BY DEF RepairInv, RefusedForNone, RefusalMeansNone
<1> QED
  BY <1>1, RepairInvariant, PTL

\* However the passes end, only the first can prove that there is no placement: the
\* totals a later one has to keep are those of a solution, which the rules and the
\* closed slots still allow (repair.py:85-111).
THEOREM LaterPassesSolvable ==
  Spec => [][\A pass \in {"movement", "quality"} : ~SolvedInfeasible(pass)]_vars
<1>1. RepairInv => \A pass \in {"movement", "quality"} : ~SolvedInfeasible(pass)
  BY DEF RepairInv, SolutionsRemain, SolvedInfeasible
<1> QED
  BY <1>1, RepairInvariant, PTL

-----------------------------------------------------------------------------
(* What is reported of the repaired schedule.                              *)

LEMMA RestedByRules ==
  ASSUME NEW p, NEW rest, Proper(p, rest) PROVE Rested(p, rest)
BY RestIsKept, KnockoutRestIsKept DEF Rested

\* The validator accepts only placements with that rest.
LEMMA RestedByValidator ==
  ASSUME NEW starts \in SUBSET Slot, NEW rest \in Nat, NEW p \in [Match -> Slot],
         Violations(starts, rest, Document(p)) = {}
  PROVE  Rested(p, rest)
<1>1. \A m \in Match : p[m] \in [k \in Match |-> Slot][m]
  OBVIOUS
<1>2. RulesHold(Match, rest, p)
  BY <1>1, ValidatorAgrees DEF SolverAllows
<1> QED
  BY <1>2, RestedByRules DEF Proper

LEMMA PriorityFacts ==
  ASSUME NEW priority \in Priorities
  PROVE  /\ DOMAIN priority = Penalized /\ \A x \in Penalized : priority[x] \in Nat
         /\ priority["rest"] > 0
<1>1. CASE priority = Weights(25, 25, 15, 10, 20, 5)
  BY <1>1 DEF Weights, Penalized
<1>2. CASE priority = Weights(50, 20, 10, 5, 10, 5)
  BY <1>2 DEF Weights, Penalized
<1>3. CASE priority = Weights(15, 40, 20, 15, 5, 5)
  BY <1>3 DEF Weights, Penalized
<1>4. CASE priority = Weights(3, 100, 0, 0, 7, 1)
  BY <1>4 DEF Weights, Penalized
<1> QED
  BY <1>1, <1>2, <1>3, <1>4 DEF Priorities

LEMMA EverySlotAffordable ==
  ASSUME NEW number \in 1..15, NEW s \in Slot, NEW risk \in Int \cup {NoRisk},
         NEW weekend \in BOOLEAN
  PROVE  Affordable(PenaltyOf(number, s, risk, weekend))
<1> DEFINE penalty == PenaltyOf(number, s, risk, weekend)
<1>1. DOMAIN penalty = Penalized /\ \A name \in Penalized : penalty[name] \in 0..100
  <2> DEFINE count == 15  missing == 55
  <2>1. count \in Int /\ count > 1 /\ number \in 1..count /\ missing \in 0..100
    OBVIOUS
  <2>a. PICK group \in BOOLEAN : group <=> number <= 12
    OBVIOUS
  <2> HIDE DEF count, missing
  <2>2. InRange(Penalties(number, count, group, s, risk, missing, weekend, FirstVenue))
    BY <2>1, PenaltyRange
  <2>3. penalty = Penalties(number, count, group, s, risk, missing, weekend, FirstVenue)
    BY <2>a DEF count, missing, PenaltyOf, Penalties, Audience
  <2> HIDE DEF penalty
  <2> QED
    BY <2>2, <2>3 DEF InRange
<1> HIDE DEF penalty
<1>2. ASSUME NEW priority \in Priorities PROVE ObjectiveCost(priority, penalty) \in 0..10000
  <2>1. /\ DOMAIN priority = Penalized /\ \A x \in Penalized : priority[x] \in Nat
        /\ priority["rest"] > 0 /\ "rest" \in DOMAIN priority
    BY PriorityFacts DEF Penalized
  <2>2. Weighing(priority)
    BY <2>1, PenalizedFinite DEF Weighing
  <2>3. Scored(DOMAIN priority, penalty)
    BY <1>1, <2>1 DEF Scored
  <2> QED
    BY ONLY <2>2, <2>3, ObjectiveRange
<1>3. \A name \in DOMAIN penalty : penalty[name] \in 0..100
  BY <1>1
<1>4. \A priority \in Priorities : ObjectiveCost(priority, penalty) \in 0..10000
  BY <1>2
<1>5. Affordable(penalty)
  BY ONLY <1>3, <1>4 DEF Affordable
<1> QED
  BY <1>5 DEF penalty

LEMMA PenaltiesAreBounded == PenaltiesBounded
<1>1. ASSUME NEW number \in 1..15, NEW s \in Slot,
             NEW risk \in {NoRisk, -10, 0, 725, 1001}, NEW weekend \in BOOLEAN
      PROVE  Affordable(PenaltyOf(number, s, risk, weekend))
  <2>1. risk \in Int \cup {NoRisk}
    OBVIOUS
  <2> QED
    BY <2>1, EverySlotAffordable
<1> QED
  BY <1>1 DEF PenaltiesBounded

\* Every metric of a repaired schedule can be reported, and the rest it promises is
\* kept by all its teams, for every number of teams and slots and every slot length;
\* so can the penalties of every slot (evaluator.py, profiles.py:38-40).
THEOREM MetricsReportableHolds == Spec => []MetricsReportable
<1>1. RepairInv => MetricsReportable
  <2> SUFFICES ASSUME RepairInv, stage = "validate" PROVE MetricsReportable
    BY DEF MetricsReportable
  <2>1. Proper(repaired, RepairRest)
    BY SolutionFacts, RepairAssumption
       DEF RepairInv, RepairedIsSolution, Proper, RepairRest
  <2>2. Rested(repaired, RepairRest)
    BY <2>1, RestedByRules
  <2>3. Violations(Official, ConfirmedRest, Document(baseline)) = {}
          => Rested(baseline, ConfirmedRest)
    BY RestedByValidator, RepairAssumption DEF RepairInv, TypeOK
  <2>4. LET metrics == FairnessMetrics(Document(repaired), FirstVenue, SecondVenue)
        IN  \A name \in DOMAIN metrics : metrics[name] \in 0..1000
    BY <2>1, MetricsRange
  <2> QED
    BY <2>2, <2>3, <2>4, PenaltiesAreBounded DEF MetricsReportable
<1> QED
  BY <1>1, RepairInvariant, PTL

=============================================================================
