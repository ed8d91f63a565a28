---------------------------- MODULE WeatherRisk ----------------------------
(***************************************************************************)
(* The weather risk of a slot (weather/risk.py) and of a schedule          *)
(* (fairness/metrics.py).  A forecast is a set of hours                    *)
(*   [at, probability, amount, temperature, apparent, wind, gust, code]    *)
(* whose readings are integers (the amount of rain in tenths of a          *)
(* millimetre) or NoRisk when the provider does not know them.  Risks are  *)
(* numbers from 0 to 100 shown with one decimal, rounded half up: here     *)
(* integers counting tenths.                                               *)
(***************************************************************************)
EXTENDS Integers, FiniteSets, FiniteSetsExt, Functions

CONSTANT NoRisk   \* what no forecast tells: a reading, or the risk of a slot

ASSUME RiskAssumption == NoRisk \notin Int

\* An hour of the provider's answer once it is normalized.
Reading(S) == S \cup {NoRisk}
NormalizedHour ==
  [at : Int, probability : Reading(0..100), amount : Reading(Nat),
   temperature : Reading(Int), apparent : Reading(Int),
   wind : Reading(Nat), gust : Reading(Nat), code : Reading(Int)]

Rounded(num, den) == (2 * num + den) \div (2 * den)   \* half up, num >= 0
Percent(num, den) == Rounded(1000 * num, den)         \* tenths of a percent
ClampBelow(x, low, high) == IF x < low THEN low ELSE x   \* mutant
Clamp(x, low, high) == IF x < low THEN low ELSE IF x > high THEN high ELSE x

-----------------------------------------------------------------------------
(* The risk of one slot.  Components are counted in units small enough for *)
(* every curve to be exact.                                                *)

Unit == 10920            \* units in one point of risk
Buffer == 30             \* minutes before and after the match

Known(S) == S \ {NoRisk}
Largest(S)  == IF Known(S) = {} THEN NoRisk ELSE Max(Known(S))
Smallest(S) == IF Known(S) = {} THEN NoRisk ELSE Min(Known(S))

Points(x) == Clamp(x, 0, 100 * Unit)
Curve(value, safe, severe) ==
  IF value = NoRisk THEN NoRisk
  ELSE Points((value - safe) * 100 * (Unit \div (severe - safe)))
InverseCurve(value, safe, severe) ==
  IF value = NoRisk THEN NoRisk
  ELSE Points((safe - value) * 100 * (Unit \div (safe - severe)))

\* Of the codes no case names, as of none, the severity is not known.
Severity(code) ==
  CASE code \in 0..3                -> 0
    [] code \in {45, 48}            -> 20 * Unit
    [] code \in 51..57              -> 30 * Unit
    [] code \in {61, 66, 80}        -> 50 * Unit
    [] code \in {63, 67, 81}        -> 65 * Unit
    [] code \in {65, 82}            -> 80 * Unit
    [] code \in 71..77 \cup {85, 86} -> 70 * Unit
    [] code = 95                    -> 90 * Unit
    [] code \in {96, 99}            -> 100 * Unit
    [] OTHER                        -> NoRisk

FirstHours(hours, start, allocation) ==                          \* mutant
  {h \in hours : start - Buffer <= h.at /\ h.at <= start + Buffer}
Relevant(hours, start, allocation) ==
  {h \in hours : start - Buffer <= h.at /\ h.at <= start + allocation + Buffer}

Felt(h) == IF h.apparent # NoRisk THEN h.apparent ELSE h.temperature

Components(hours) ==
  LET scaled(amount) == IF amount = NoRisk THEN NoRisk ELSE Points(amount * 2 * Unit)
      chance(p)      == IF p = NoRisk THEN NoRisk ELSE p * Unit
      felt           == {Felt(h) : h \in hours}
      sustained      == Largest({h.wind : h \in hours})
      gust           == Largest({h.gust : h \in hours})
  IN  [rain |-> Largest({chance(Largest({h.probability : h \in hours})),
                         scaled(Largest({h.amount : h \in hours}))}),
       heat |-> Curve(Largest(felt), 32, 45),
       cold |-> InverseCurve(Smallest(felt), 12, 0),
       wind |-> Largest({Curve(sustained, 25, 60), Curve(gust, 35, 75)}),
       condition |-> Largest({Severity(h.code) : h \in hours})]

Weight == [rain |-> 9, heat |-> 4, cold |-> 2, wind |-> 3, condition |-> 2]

\* Rain is only known by its probability; temperature and wind must be known too.
IsCovered(hours) ==
  /\ Known({h.probability : h \in hours}) # {}
  /\ Known({Felt(h) : h \in hours}) # {}
  /\ Components(hours).wind # NoRisk

\* Three fifths of the worst component and two fifths of the weighted mean of the
\* known ones, to whole points.
HoursRisk(hours) ==
  LET value  == Components(hours)
      known  == {name \in DOMAIN value : value[name] # NoRisk}
      weight == SumFunction(Restrict(Weight, known))
      sum    == SumFunction([name \in known |-> Weight[name] * value[name]])
      worst  == Max({value[name] : name \in known})
  IN  IF IsCovered(hours)
        THEN 10 * Rounded(3 * worst * weight + 2 * sum, 5 * weight * Unit)
        ELSE NoRisk

\* The risk of a match that starts at start, from all the hours of a forecast.
SlotRisk(hours, start, allocation) == HoursRisk(Relevant(hours, start, allocation))

-----------------------------------------------------------------------------
(* The risk of a schedule, from the risk of every fixture.                 *)

Covered(risk) == {m \in DOMAIN risk : risk[m] # NoRisk}
RiskSum(risk) == SumFunction(Restrict(risk, Covered(risk)))

ScheduleRisk(risk) ==
  IF Covered(risk) = {} THEN NoRisk
  ELSE Rounded(RiskSum(risk), Cardinality(Covered(risk)))

ScheduleCoverage(risk) ==
  Percent(Cardinality(Covered(risk)), Cardinality(DOMAIN risk))

\* An uncovered fixture counts as much as the profile's penalty for it.
ObjectivePenalty(risk, penalty) ==
  Rounded(RiskSum(risk)
            + penalty * Cardinality(DOMAIN risk \ Covered(risk)),
          Cardinality(DOMAIN risk))
=============================================================================
