-------------------------- MODULE TournamentRules --------------------------
(***************************************************************************)
(* The rules of a tournament, written three times as the code writes them: *)
(* the constraints given to the CP-SAT solver (scheduling/model.py,        *)
(* intervals.py, chronology.py), the independent validator                 *)
(* (validation/validator.py) and the necessary conditions examined before  *)
(* the solver is started (scheduling/precheck.py); with the fixed match    *)
(* graph they share and the difference of two schedules.                   *)
(*                                                                         *)
(* A match is the set of its two participants: two teams of one group, two *)
(* qualification roles, or the winners of the semifinals.  The groups have *)
(* four teams in the program; here they are parameters, and 15 is the      *)
(* number of matches.  A placement gives every match a slot.               *)
(***************************************************************************)
EXTENDS Integers, FiniteSets

CONSTANTS GroupA, GroupB,  \* the teams of each group
          Slot,            \* identities of the venue slots of the tournament
          SlotStart,       \* slot -> start, in minutes
          SlotEnd,         \* slot -> end
          SlotDay,         \* slot -> local date
          SlotVenue,       \* slot -> venue
          Allocation       \* minutes one match occupies its slot

ASSUME TeamAssumption ==
  /\ IsFiniteSet(GroupA) /\ IsFiniteSet(GroupB)
  /\ (GroupA \cup GroupB) \cap {"A1", "A2", "B1", "B2"} = {}

ASSUME SlotAssumption ==
  /\ IsFiniteSet(Slot)
  /\ SlotStart \in [Slot -> Int]
  /\ SlotEnd \in [Slot -> Int]
  /\ Allocation \in Nat \ {0}

-----------------------------------------------------------------------------
(* The match graph: two round robins, two semifinals, one final.           *)

RoundRobin(group) == {pair \in SUBSET group : Cardinality(pair) = 2}
GroupMatch == RoundRobin(GroupA) \cup RoundRobin(GroupB)
Semifinal  == {{"A1", "B2"}, {"B1", "A2"}}
Final      == {"SF1 Winner", "SF2 Winner"}
Match      == GroupMatch \cup Semifinal \cup {Final}

\* The qualification roles a team can still reach.
TeamPath == (GroupA \X {"A1", "A2"}) \cup (GroupB \X {"B1", "B2"})

\* Pairs of matches one team may have to play one after the other: a group
\* match before the semifinals its teams can reach, each semifinal before the
\* final.
RestEdge ==
  {edge \in GroupMatch \X Semifinal :
      \E path \in TeamPath : path[1] \in edge[1] /\ path[2] \in edge[2]}
    \cup (Semifinal \X {Final})

Rivals(m, n) == m \cap n # {}

-----------------------------------------------------------------------------
(* The constraints of the solver.  eligible gives each match the slots it  *)
(* may use, open is the set of slots whose availability is "available".    *)

AllocationEnd(s) == SlotStart[s] + Allocation

Precedes(s, t, rest) == AllocationEnd(s) + rest <= SlotStart[t]
HasGap(s, t, rest)   == Precedes(s, t, rest) \/ Precedes(t, s, rest)

Fits(s) == AllocationEnd(s) <= SlotEnd[s]

\* What is asked of any two matches, of two group matches with a common team, of
\* the stages, and of the knockout paths, among the matches M.
SlotRules(M, p) ==
  /\ \A m \in M : Fits(p[m])
  /\ \A m, n \in M : m # n =>
       /\ p[m] # p[n]
       /\ SlotStart[p[m]] # SlotStart[p[n]]
       /\ SlotVenue[p[m]] = SlotVenue[p[n]] => HasGap(p[m], p[n], 0)

TeamRules(M, rest, p) ==
  \A m, n \in M \cap GroupMatch : m # n /\ Rivals(m, n) =>
    SlotDay[p[m]] # SlotDay[p[n]] /\ HasGap(p[m], p[n], rest)

StageRules(M, p) ==
  \A g \in M \cap GroupMatch, sf \in M \cap Semifinal : Precedes(p[g], p[sf], 0)

PathRules(M, rest, p) ==
  \A edge \in RestEdge : edge[1] \in M /\ edge[2] \in M =>
    /\ SlotDay[p[edge[1]]] # SlotDay[p[edge[2]]]
    /\ Precedes(p[edge[1]], p[edge[2]], rest)

RulesHold(M, rest, p) ==
  SlotRules(M, p) /\ TeamRules(M, rest, p) /\ StageRules(M, p) /\ PathRules(M, rest, p)

SolverAllows(eligible, open, rest, p) ==
  RulesHold(Match, rest, p) /\ \A m \in Match : p[m] \in eligible[m] \cap open

-----------------------------------------------------------------------------
(* The independent validator reads a document: rows, each the claim that a *)
(* match is played in a slot, at a venue, from a start to an end.  A       *)
(* sequence of fixtures is such a document, and so is a placement, whose   *)
(* rows are the matches.  It returns the codes of the rules that are       *)
(* broken.  (It also compares the match graph it is handed with the fixed  *)
(* one, which no definition here can change.)                              *)

Fixture(m, s) == [match |-> m, slot |-> s, venue |-> SlotVenue[s],
                  start |-> SlotStart[s], end |-> AllocationEnd(s)]

\* The document made from a placement (_placements, _fixture_placements).
Document(p) == [m \in Match |-> Fixture(m, p[m])]

RowsOf(doc, m) == {i \in DOMAIN doc : doc[i].match = m}

MembershipViolations(doc) ==
  {code \in {"missing_match", "duplicate_match", "fabricated_match"} :
     CASE code = "missing_match" -> \E m \in Match : RowsOf(doc, m) = {}
       [] code = "duplicate_match" ->
            \E i, j \in DOMAIN doc : i # j /\ doc[i].match = doc[j].match
       [] code = "fabricated_match" ->
            \E i \in DOMAIN doc : doc[i].match \notin Match}

KnownRows(doc) == {i \in DOMAIN doc : doc[i].slot \in Slot}

Mismatched(f) == \/ f.venue # SlotVenue[f.slot]
                 \/ f.start # SlotStart[f.slot]
                 \/ f.end # f.start + Allocation

TouchingOrOverlapping(f, g) ==                                   \* mutant
  f.venue = g.venue /\ f.start <= g.end /\ g.start <= f.end

Overlapping(f, g) ==
  f.venue = g.venue /\ f.start < g.end /\ g.start < f.end

SlotViolations(open, doc) ==
  LET known == KnownRows(doc)
  IN {code \in {"unknown_slot", "unavailable_slot", "placement_mismatch",
                "allocation_overflow", "tournament_concurrency", "venue_overlap"} :
        CASE code = "unknown_slot" -> known # DOMAIN doc
          [] code = "unavailable_slot" -> \E i \in known : doc[i].slot \notin open
          [] code = "placement_mismatch" -> \E i \in known : Mismatched(doc[i])
          [] code = "allocation_overflow" ->
               \E i \in known : doc[i].start + Allocation > SlotEnd[doc[i].slot]
          [] code = "tournament_concurrency" ->
               \E i, j \in known : i # j /\ doc[i].start = doc[j].start
          [] code = "venue_overlap" ->
               \E i, j \in known : i # j /\ Overlapping(doc[i], doc[j])}

\* placement_by_match keeps one row of each match.
Placed(doc) == [m \in Match |-> doc[CHOOSE i \in DOMAIN doc : doc[i].match = m]]

SameLocalDay(f, g) ==
  f.slot \in Slot /\ g.slot \in Slot /\ SlotDay[f.slot] = SlotDay[g.slot]

\* The earlier of two fixtures ends too late for the later one.  Sorting by the
\* start leaves two fixtures of one start in either order; both are too close.
TooClose(f, g, rest) ==
  IF f.start <= g.start THEN f.end + rest > g.start ELSE g.end + rest > f.start

\* The knockout paths are checked against the slots' local days as well.
BrokenPath(f, g, rest) ==
  \/ f.end + rest > g.start
  \/ f.slot \notin Slot \/ g.slot \notin Slot
  \/ SameLocalDay(f, g)

ChronologyViolations(rest, doc) ==
  LET f == Placed(doc)
  IN IF \E m \in Match : RowsOf(doc, m) = {} THEN {} ELSE
     {code \in {"team_local_day", "rest_violation", "stage_chronology",
                "qualification_path"} :
        CASE code = "team_local_day" ->
               \E m, n \in GroupMatch :
                  m # n /\ Rivals(m, n) /\ SameLocalDay(f[m], f[n])
          [] code = "rest_violation" ->
               \E m, n \in GroupMatch :
                  m # n /\ Rivals(m, n) /\ TooClose(f[m], f[n], rest)
          [] code = "stage_chronology" ->
               \/ \E g \in GroupMatch, sf \in Semifinal : f[g].end > f[sf].start
               \/ \E sf \in Semifinal : f[sf].end > f[Final].start
          [] code = "qualification_path" ->
               \E edge \in RestEdge : BrokenPath(f[edge[1]], f[edge[2]], rest)}

Violations(open, rest, doc) ==
  MembershipViolations(doc) \cup SlotViolations(open, doc)
    \cup ChronologyViolations(rest, doc)

-----------------------------------------------------------------------------
(* The examination before the solver.                                      *)

Candidates(eligible, open, m) == eligible[m] \cap open

Starts(slots) == {SlotStart[s] : s \in slots}
EligibleForSome(eligible) == UNION {eligible[m] : m \in Match}

OneStartSpare(slots) == Cardinality(Starts(slots)) <= Cardinality(Match)   \* mutant
TooFewStarts(slots) == Cardinality(Starts(slots)) < Cardinality(Match)

PrecheckIssues(eligible, open, rest) ==
  LET cands(m) == Candidates(eligible, open, m)
      raw      == EligibleForSome(eligible)
      short    == TooFewStarts(raw \cap open)
      everyHas == \A m \in Match : cands(m) # {}
      semifinalLate(sf) ==
        \E t \in cands(sf) : \A g \in GroupMatch :
           \E s \in cands(g) : Precedes(s, t, 0)
      finalLate ==
        \E t \in cands(Final) : \A sf \in Semifinal :
           \E s \in cands(sf) : Precedes(s, t, 0)
      rested(edge) ==
        \E s \in cands(edge[1]), t \in cands(edge[2]) :
           Precedes(s, t, rest) /\ SlotDay[s] # SlotDay[t]
  IN {code \in {"blackout_capacity", "insufficient_capacity", "no_eligible_slot",
                "chronology_conflict", "rest_conflict"} :
        CASE code = "blackout_capacity" ->
               short /\ ~TooFewStarts(raw)
          [] code = "insufficient_capacity" ->
               short /\ TooFewStarts(raw)
          [] code = "no_eligible_slot" -> ~everyHas
          [] code = "chronology_conflict" ->
               everyHas /\ ~(finalLate /\ \A sf \in Semifinal : semifinalLate(sf))
          [] code = "rest_conflict" ->
               everyHas /\ \E edge \in RestEdge : ~rested(edge)}

\* What a generation makes eligible (schedules.py, _eligibility) and what a
\* repair does: the former gives up when the open starts cannot hold all matches.
GenerationEligibility(open) ==
  [m \in Match |-> IF TooFewStarts(open) THEN {} ELSE open]
RepairEligibility(open) == [m \in Match |-> open]

-----------------------------------------------------------------------------
(* The difference of two schedules, by match and by whole fixture.         *)

PlacedIn(doc) == {doc[i].match : i \in DOMAIN doc}
FixtureOf(doc, m) == doc[CHOOSE i \in DOMAIN doc : doc[i].match = m]

ScheduleDiff(baseline, draft) ==
  LET both == PlacedIn(baseline) \cap PlacedIn(draft)
  IN  [unchanged |-> {m \in both : FixtureOf(baseline, m) = FixtureOf(draft, m)},
       moved     |-> {m \in both : FixtureOf(baseline, m) # FixtureOf(draft, m)},
       removed   |-> PlacedIn(baseline) \ PlacedIn(draft),
       added     |-> PlacedIn(draft) \ PlacedIn(baseline)]

=============================================================================
