-------------------------- MODULE ScheduleMetrics --------------------------
(***************************************************************************)
(* The comparable metrics of a schedule (fairness/metrics.py and           *)
(* fairness/evaluator.py) and the generation of slots from weekly patterns *)
(* (scheduling/slot_patterns.py).  Metrics are numbers from 0 to 100 shown *)
(* with one decimal, rounded half up: here integers counting tenths.  The  *)
(* objective of the profiles (api/schedules.py, scheduling/profiles.py)     *)
(* counts points.                                                          *)
(*                                                                         *)
(* Start times are minutes in the time zone both venues share, whose       *)
(* offset does not change within the tournament.                           *)
(***************************************************************************)
EXTENDS TournamentRules, WeatherRisk

\* Every team plays as often as any other, and more than once.
ASSUME FieldAssumption ==
  /\ GroupA \cap GroupB = {}
  /\ Cardinality(GroupA) = Cardinality(GroupB) /\ Cardinality(GroupA) > 2

Team  == GroupA \cup GroupB
DayMinutes == 1440

-----------------------------------------------------------------------------
(* Rest.  The group matches of a team, in the order they are played.       *)

GroupMatchesOf(team) == {m \in GroupMatch : team \in m}

Consecutive(doc, team) ==
  {pair \in GroupMatchesOf(team) \X GroupMatchesOf(team) :
     /\ doc[pair[1]].start < doc[pair[2]].start
     /\ ~\E k \in GroupMatchesOf(team) : /\ doc[pair[1]].start < doc[k].start
                                          /\ doc[k].start < doc[pair[2]].start}

RestMargin(doc, team) ==
  Min({doc[pair[2]].start - doc[pair[1]].end : pair \in Consecutive(doc, team)})

\* Half the mean of the teams' margins, a day counting as full, and half the
\* distance of the best margin from the worst.
GroupRestFairness(doc) ==
  LET full    == DayMinutes * Cardinality(Team)
      q(team) == Clamp(RestMargin(doc, team), 0, DayMinutes)
      spread  == Max({q(t) : t \in Team}) - Min({q(t) : t \in Team})
  IN  Percent(SumFunction([t \in Team |-> q(t)]) + full - Cardinality(Team) * spread, 2 * full)

\* From the end of a team's last group match to either semifinal.
KnockoutRest(doc, team) ==
  LET lastEnd == Max({doc[m].end : m \in GroupMatchesOf(team)})
  IN  Min({doc[sf].start - lastEnd : sf \in Semifinal})

PotentialKnockoutRest(doc) ==
  Percent(Clamp(Min({KnockoutRest(doc, t) : t \in Team}), 0, DayMinutes),
          DayMinutes)

-----------------------------------------------------------------------------
(* Balance of venues and of times of day over the group matches.           *)

Imbalance(doc, team, first, second) ==
  LET at(v) == Cardinality({m \in GroupMatchesOf(team) : doc[m].venue = v})
      d     == at(first) - at(second)
  IN  Clamp((IF d < 0 THEN -d ELSE d) - 1, 0, 2)

VenueBalance(doc, first, second) ==
  LET whole == 2 * Cardinality(Team)
  IN  Percent(whole - SumFunction([t \in Team |-> Imbalance(doc, t, first, second)]),
              whole)

TimeOfDay(hour) ==
  CASE hour \in 6..11  -> "morning"
    [] hour \in 12..16 -> "day"
    [] hour \in 17..22 -> "evening"
    [] OTHER           -> "off_hours"

FixtureTime(f) == TimeOfDay((f.start % DayMinutes) \div 60)

\* Half the distance of a team's share of each time of day from the tournament's,
\* in units of one over the two numbers of matches; every team plays as often.
TimeDistance(doc, team) ==
  LET mine == GroupMatchesOf(team)
      count(S, time) == Cardinality({m \in S : FixtureTime(doc[m]) = time})
      gap(time) == LET d == count(mine, time) * Cardinality(GroupMatch)
                              - count(GroupMatch, time) * Cardinality(mine)
                   IN  IF d < 0 THEN -d ELSE d
  IN  SumFunction([time \in {"morning", "day", "evening", "off_hours"} |-> gap(time)])

SlotBalance(doc) ==
  LET each == Cardinality(GroupMatchesOf(CHOOSE t \in Team : TRUE))
      whole == 2 * each * Cardinality(GroupMatch) * Cardinality(Team)
  IN  Percent(whole - SumFunction([t \in Team |-> TimeDistance(doc, t)]), whole)

\* No organizer preference reaches the evaluation, so their satisfaction is full.
FairnessMetrics(doc, first, second) ==
  [group_rest_fairness     |-> GroupRestFairness(doc),
   potential_knockout_rest |-> PotentialKnockoutRest(doc),
   venue_balance           |-> VenueBalance(doc, first, second),
   slot_balance            |-> SlotBalance(doc),
   preference_satisfaction |-> 1000]

-----------------------------------------------------------------------------
(* The objective a profile's solver is given: what it costs, in points from 0 to   *)
(* 100, to play the match with number sequence in slot s.                  *)

\* Python's round: half goes to the even number.
HalfEven(num, den) ==
  LET q == num \div den
      r == 2 * (num % den)
  IN  IF r > den \/ (r = den /\ q % 2 = 1) THEN q + 1 ELSE q

\* The distance of the start's rank from where an even spread would put the match.
Rank(s)  == Cardinality({SlotStart[t] : t \in {u \in Slot : SlotStart[u] < SlotStart[s]}})
LastRank == Max({1, Cardinality({SlotStart[s] : s \in Slot}) - 1})
Cadence(sequence, count, s) ==
  LET target == HalfEven((sequence - 1) * LastRank, count - 1)
      d      == Rank(s) - target
  IN  IF count < 2 THEN 0 ELSE HalfEven((IF d < 0 THEN -d ELSE d) * 100, LastRank)

\* The matches take the times of day in turn, in the order in which the slots first
\* offer them.
TimeAt(s) == TimeOfDay((SlotStart[s] % DayMinutes) \div 60)
TurnOf(time) ==
  LET earliest(x) == Min({SlotStart[s] : s \in {u \in Slot : TimeAt(u) = x}})
  IN  Cardinality({x \in {TimeAt(s) : s \in Slot} : earliest(x) < earliest(time)})
TimesUsed == Cardinality({TimeAt(s) : s \in Slot})

Audience(group, time, weekend) ==
  CASE group \/ time = "evening"             -> 0
    [] ~group /\ time # "evening" /\ weekend -> 30
    [] OTHER -> IF time = "off_hours" THEN 100 ELSE 60

\* An unknown risk costs the same under every profile; organizer preferences cost
\* nothing.
Penalties(sequence, count, group, s, risk, missing, weekend, first) ==
  [weather_coverage |-> IF risk = NoRisk THEN missing ELSE Clamp(risk, 0, 1000) \div 10,
   rest             |-> Cadence(sequence, count, s),
   venue_balance    |-> IF (SlotVenue[s] = first) <=> (sequence % 2 = 1) THEN 0 ELSE 100,
   slot_balance     |-> IF TurnOf(TimeAt(s)) = (sequence - 1) % TimesUsed THEN 0 ELSE 100,
   audience_timing  |-> Audience(group, TimeAt(s), weekend),
   organizer_preferences |-> 0]

\* The priorities, first brought to a sum of one hundred, weigh the penalties.
ObjectiveCost(priority, penalty) ==
  Rounded(100 * SumFunction([name \in DOMAIN priority |-> priority[name] * penalty[name]]),
          SumFunction(priority))

-----------------------------------------------------------------------------
(* Slots from a pattern: every start time of every day at every venue, for *)
(* the length of one match, closed on the blackout days.                   *)

PatternSlots(startTimes, venues) ==
  UNION {{day} \X startTimes[day] \X venues : day \in DOMAIN startTimes}

PatternStart(slot) == slot[1] * DayMinutes + slot[2]
PatternOpen(slots, blackoutDays) == {s \in slots : s[1] \notin blackoutDays}

=============================================================================
