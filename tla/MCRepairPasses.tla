--------------------------- MODULE MCRepairPasses ---------------------------
(* An instance of RepairPasses for TLC (a constant is given a name of a     *)
(* value, which TLC then computes once): two groups of three teams, so nine  *)
(* matches; eleven starts on five days, one of them at both venues.            *)
EXTENDS RepairPasses, SequencesExt

TeamsA == {"Alpha", "Antelopes", "Arrows"}
TeamsB == {"Badgers", "Bears", "Bolts"}

\* The slots, numbered by their start: morning and evening of days 1, 2 and 3 for
\* the groups, the last of them at both venues (slots 6 and 7), two starts on day 5
\* for the semifinals, three on day 6 for the final.
Days    == <<1, 1, 2, 2, 3, 3, 3, 5, 5, 6, 6, 6>>
Venues  == <<1, 1, 1, 1, 1, 1, 2, 1, 1, 1, 1, 1>>
Starting == <<2040, 2520, 3480, 3960, 4920, 5400, 5400, 7800, 8040, 9240, 9480, 9720>>
Ending  == <<2280, 2760, 3720, 4200, 5160, 5640, 5640, 8040, 8280, 9480, 9720, 9960>>

Slots   == 1..12
DayOf   == Days
VenueOf == Venues
StartOf == Starting
EndOf   == Ending

\* They are among the slots a weekly pattern expands to.
Times == [day \in 1..6 |-> CASE day = 5 -> {600, 840}
                            [] day = 6 -> {600, 840, 1080}
                            [] OTHER   -> {600, 1080}]
ASSUME PatternAssumption ==
  \A s \in Slots : \E slot \in PatternSlots(Times, {1, 2}) :
    /\ StartOf[s] = PatternStart(slot) /\ DayOf[s] = slot[1] /\ VenueOf[s] = slot[3]
    /\ EndOf[s] = StartOf[s] + 240

\* The matches in an order, and the placement a sequence of slots stands for.
Order == <<Final, {"A1", "B2"}, {"B1", "A2"},
           {"Alpha", "Antelopes"}, {"Alpha", "Arrows"}, {"Antelopes", "Arrows"},
           {"Badgers", "Bears"}, {"Badgers", "Bolts"}, {"Bears", "Bolts"}>>
Position(m) == CHOOSE i \in DOMAIN Order : Order[i] = m
PlacementOf(q) == [m \in Match |-> q[Position(m)]]

\* All placements that obey the rules when no rest is confirmed and no slot is
\* closed; more rest and fewer slots only take some of them away.  They are found
\* match by match, the final first, over the numbers of matches and slots.
RulePlacements ==
  LET order == Order
      pair(i, s, j, t) == ((i * 50 + s) * 50 + j) * 50 + t
      together ==
        {pair(w[1], w[2], w[3], w[4]) :
           w \in {v \in (1..Len(order)) \X Slot \X (1..Len(order)) \X Slot :
                    v[3] < v[1] /\
                    LET m == order[v[1]]  n == order[v[3]]
                    IN  RulesHold({m, n}, 0,
                          [k \in {m, n} |-> IF k = m THEN v[2] ELSE v[4]])}}
      extended(found, i) ==
        UNION {{Append(q, s) : s \in {t \in Slot : \A j \in DOMAIN q :
                                       pair(i, t, j, q[j]) \in together}} :
               q \in found}
      numbered == FoldLeft(extended, {<<>>}, [i \in DOMAIN order |-> i])
  IN  {PlacementOf(q) : q \in numbered}

AllPlacements == RulePlacements

MorningCost == [pair \in Match \X Slots |->
            IF SlotStart[pair[2]] % DayMinutes = 1080 THEN 0 ELSE 7]

Cost0 == MorningCost

\* Two approved schedules; the confirmed rest of the instance allows both.  When
\* its final is closed, the first leaves the choice to the quality cost, the second
\* to the movement.
SomeBaselines == {PlacementOf(<<11, 8, 9, 1, 3, 5, 2, 4, 6>>),
                  PlacementOf(<<10, 9, 8, 1, 3, 5, 2, 4, 7>>)}
ASSUME BaselineAssumption ==
  \A p \in SomeBaselines : RulesHold(Match, ConfirmedRest, p)
=============================================================================
