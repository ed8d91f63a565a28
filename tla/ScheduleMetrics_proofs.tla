------------------------ MODULE ScheduleMetrics_proofs ------------------------
(***************************************************************************)
(* The rules and the metrics of a schedule, for every tournament: the      *)
(* independent validator accepts what the rules given to the solver allow  *)
(* and nothing else, the examination before the solver asks only for what  *)
(* is necessary, the difference of two schedules is that of their slots,   *)
(* every metric lies within the range it is reported in and every penalty  *)
(* within the range the solver is given.                                   *)
(***************************************************************************)
EXTENDS ScheduleMetrics, WeatherRisk_proofs, TLAPS

-----------------------------------------------------------------------------
(* The document of a placement.                                            *)

LEMMA MatchParts ==
  /\ GroupMatch \subseteq Match /\ Semifinal \subseteq Match /\ Final \in Match
  /\ \A edge \in RestEdge : edge[1] \in Match /\ edge[2] \in Match
BY DEF Match, RestEdge

LEMMA DocumentRows ==
  ASSUME NEW p \in [Match -> Slot]
  PROVE  /\ DOMAIN Document(p) = Match
         /\ \A m \in Match : /\ Document(p)[m].match = m
                             /\ Document(p)[m].slot = p[m]
                             /\ Document(p)[m].venue = SlotVenue[p[m]]
                             /\ Document(p)[m].start = SlotStart[p[m]]
                             /\ Document(p)[m].end = AllocationEnd(p[m])
         /\ \A m \in Match : RowsOf(Document(p), m) = {m}
         /\ KnownRows(Document(p)) = Match
<1>1. DOMAIN Document(p) = Match
  BY DEF Document
<1>2. \A m \in Match : Document(p)[m] = Fixture(m, p[m])
  BY DEF Document
<1>3. ASSUME NEW m \in Match
      PROVE  /\ Document(p)[m].match = m
             /\ Document(p)[m].slot = p[m]
             /\ Document(p)[m].venue = SlotVenue[p[m]]
             /\ Document(p)[m].start = SlotStart[p[m]]
             /\ Document(p)[m].end = AllocationEnd(p[m])
  <2>1. Document(p)[m] = [match |-> m, slot |-> p[m], venue |-> SlotVenue[p[m]],
                          start |-> SlotStart[p[m]], end |-> AllocationEnd(p[m])]
    BY <1>2, Zenon DEF Fixture
  <2> QED
    BY <2>1
<1>4. \A m \in Match : RowsOf(Document(p), m) = {m}
  BY <1>1, <1>3 DEF RowsOf
<1>5. KnownRows(Document(p)) = Match
  BY <1>1, <1>3 DEF KnownRows
<1> QED
  BY <1>1, <1>3, <1>4, <1>5

LEMMA PlacedDocument ==
  ASSUME NEW p \in [Match -> Slot]
  PROVE  Placed(Document(p)) = Document(p)
<1>1. ASSUME NEW m \in Match
      PROVE  (CHOOSE i \in DOMAIN Document(p) : Document(p)[i].match = m) = m
  <2> DEFINE doc == Document(p)
             row == CHOOSE i \in DOMAIN doc : doc[i].match = m
  <2>1. \A i \in DOMAIN doc : doc[i].match = m => i = m
    BY DocumentRows
  <2>2. m \in DOMAIN doc /\ doc[m].match = m
    BY DocumentRows
  <2> HIDE DEF doc
  <2>3. row \in DOMAIN doc /\ doc[row].match = m
    BY <2>2
  <2>4. row = m
    BY <2>1, <2>3
  <2> QED
    BY <2>4 DEF doc
<1>2. ASSUME NEW m \in Match
      PROVE  Placed(Document(p))[m] = Document(p)[m]
  BY <1>1, Zenon DEF Placed
<1>3. Placed(Document(p)) = [m \in Match |-> Placed(Document(p))[m]]
  BY DEF Placed
<1>4. Document(p) = [m \in Match |-> Document(p)[m]]
  BY DEF Document
<1> QED
  BY <1>2, <1>3, <1>4, Zenon

LEMMA NoMembershipViolations ==
  ASSUME NEW p \in [Match -> Slot]
  PROVE  MembershipViolations(Document(p)) = {}
<1> SUFFICES ASSUME NEW code \in MembershipViolations(Document(p)) PROVE FALSE
  OBVIOUS
<1>1. CASE code = "missing_match"
  BY <1>1, DocumentRows DEF MembershipViolations
<1>2. CASE code = "duplicate_match"
  BY <1>2, DocumentRows DEF MembershipViolations
<1>3. CASE code = "fabricated_match"
  BY <1>3, DocumentRows DEF MembershipViolations
<1> QED
  BY <1>1, <1>2, <1>3 DEF MembershipViolations

-----------------------------------------------------------------------------
(* What the slot checks say of a placement.                                *)

SlotsAccepted(open, p) ==
  /\ \A m \in Match : p[m] \in open /\ Fits(p[m])
  /\ \A m, n \in Match : m # n =>
       /\ SlotStart[p[m]] # SlotStart[p[n]]
       /\ SlotVenue[p[m]] = SlotVenue[p[n]] => HasGap(p[m], p[n], 0)

LEMMA OverlapIsNoGap ==
  ASSUME NEW p \in [Match -> Slot], NEW m \in Match, NEW n \in Match
  PROVE  Overlapping(Document(p)[m], Document(p)[n]) <=>
           SlotVenue[p[m]] = SlotVenue[p[n]] /\ ~HasGap(p[m], p[n], 0)
<1> DEFINE s == p[m]  t == p[n]
<1>1. /\ SlotStart[s] \in Int /\ SlotStart[t] \in Int
      /\ AllocationEnd(s) \in Int /\ AllocationEnd(t) \in Int
  BY SlotAssumption DEF AllocationEnd
<1>2. Overlapping(Document(p)[m], Document(p)[n]) <=>
        /\ SlotVenue[s] = SlotVenue[t]
        /\ SlotStart[s] < AllocationEnd(t) /\ SlotStart[t] < AllocationEnd(s)
  BY DocumentRows DEF Overlapping
<1>3. HasGap(s, t, 0) <=>
        AllocationEnd(s) <= SlotStart[t] \/ AllocationEnd(t) <= SlotStart[s]
  BY <1>1 DEF HasGap, Precedes
<1> QED
  BY <1>1, <1>2, <1>3

LEMMA SlotChecks ==
  ASSUME NEW open \in SUBSET Slot, NEW p \in [Match -> Slot]
  PROVE  SlotViolations(open, Document(p)) = {} <=> SlotsAccepted(open, p)
<1> DEFINE doc == Document(p)
           broken == SlotViolations(open, doc)
<1>0. KnownRows(doc) = Match /\ DOMAIN doc = Match
  BY DocumentRows
<1>a. \A m \in Match : /\ SlotStart[p[m]] \in Int /\ SlotEnd[p[m]] \in Int
                       /\ AllocationEnd(p[m]) = SlotStart[p[m]] + Allocation
                       /\ AllocationEnd(p[m]) \in Int
  BY SlotAssumption DEF AllocationEnd
<1>1. "unknown_slot" \notin broken
  BY <1>0 DEF SlotViolations
<1>2. "unavailable_slot" \in broken <=> \E m \in Match : p[m] \notin open
  BY <1>0, DocumentRows DEF SlotViolations
<1>3. "placement_mismatch" \notin broken
  <2>1. \A m \in Match : ~Mismatched(doc[m])
    BY <1>a, DocumentRows DEF Mismatched
  <2> QED
    BY <1>0, <2>1 DEF SlotViolations
<1>4. "allocation_overflow" \in broken <=> \E m \in Match : ~Fits(p[m])
  <2>1. \A m \in Match : doc[m].start + Allocation > SlotEnd[doc[m].slot]
                           <=> ~Fits(p[m])
    BY <1>a, DocumentRows DEF Fits
  <2> QED
    BY <1>0, <2>1 DEF SlotViolations
<1>5. "tournament_concurrency" \in broken <=>
        \E m, n \in Match : m # n /\ SlotStart[p[m]] = SlotStart[p[n]]
  BY <1>0, DocumentRows DEF SlotViolations
<1>6. "venue_overlap" \in broken <=>
        \E m, n \in Match : m # n /\ SlotVenue[p[m]] = SlotVenue[p[n]]
                                  /\ ~HasGap(p[m], p[n], 0)
  <2>1. \A m, n \in Match : Overlapping(doc[m], doc[n]) <=>
          SlotVenue[p[m]] = SlotVenue[p[n]] /\ ~HasGap(p[m], p[n], 0)
    BY OverlapIsNoGap
  <2>2. "venue_overlap" \in broken <=>
          \E m, n \in Match : m # n /\ Overlapping(doc[m], doc[n])
    BY <1>0 DEF SlotViolations
  <2> QED
    BY <2>1, <2>2
<1>7. broken \subseteq {"unknown_slot", "unavailable_slot", "placement_mismatch",
                        "allocation_overflow", "tournament_concurrency",
                        "venue_overlap"}
  BY DEF SlotViolations
<1> HIDE DEF broken
<1>8. broken = {} <=> /\ "unavailable_slot" \notin broken
                      /\ "allocation_overflow" \notin broken
                      /\ "tournament_concurrency" \notin broken
                      /\ "venue_overlap" \notin broken
  BY <1>1, <1>3, <1>7
<1>9. broken = {} <=> SlotsAccepted(open, p)
  BY <1>2, <1>4, <1>5, <1>6, <1>8 DEF SlotsAccepted
<1> QED
  BY <1>9 DEF broken

-----------------------------------------------------------------------------
(* What the chronology checks say of a placement.                          *)

ChronologyAccepted(rest, p) ==
  TeamRules(Match, rest, p) /\ StageRules(Match, p) /\ PathRules(Match, rest, p)

LEMMA CloseIsNoGap ==
  ASSUME NEW rest \in Nat, NEW p \in [Match -> Slot], NEW m \in Match, NEW n \in Match
  PROVE  TooClose(Document(p)[m], Document(p)[n], rest) <=> ~HasGap(p[m], p[n], rest)
<1> DEFINE s == p[m]  t == p[n]
<1>1. /\ SlotStart[s] \in Int /\ SlotStart[t] \in Int
      /\ AllocationEnd(s) = SlotStart[s] + Allocation
      /\ AllocationEnd(t) = SlotStart[t] + Allocation
      /\ Allocation \in Nat \ {0}
  BY SlotAssumption DEF AllocationEnd
<1>2. TooClose(Document(p)[m], Document(p)[n], rest) <=>
        IF SlotStart[s] <= SlotStart[t] THEN AllocationEnd(s) + rest > SlotStart[t]
                                        ELSE AllocationEnd(t) + rest > SlotStart[s]
  BY DocumentRows DEF TooClose
<1>3. HasGap(s, t, rest) <=> \/ AllocationEnd(s) + rest <= SlotStart[t]
                            \/ AllocationEnd(t) + rest <= SlotStart[s]
  BY DEF HasGap, Precedes
<1> QED
  BY <1>1, <1>2, <1>3

LEMMA SemifinalsFirst ==
  ASSUME NEW rest \in Nat, NEW p \in [Match -> Slot], PathRules(Match, rest, p),
         NEW sf \in Semifinal
  PROVE  Precedes(p[sf], p[Final], 0)
<1>1. <<sf, Final>> \in RestEdge
  BY DEF RestEdge
<1>2. Precedes(p[sf], p[Final], rest)
  BY <1>1, MatchParts DEF PathRules
<1>3. AllocationEnd(p[sf]) \in Int /\ SlotStart[p[Final]] \in Int
  BY MatchParts, SlotAssumption DEF AllocationEnd
<1> QED
  BY <1>2, <1>3 DEF Precedes

LEMMA ChronologyChecks ==
  ASSUME NEW rest \in Nat, NEW p \in [Match -> Slot]
  PROVE  ChronologyViolations(rest, Document(p)) = {} <=> ChronologyAccepted(rest, p)
<1> DEFINE f == Document(p)
           broken == ChronologyViolations(rest, f)
<1>a. \A m \in Match : /\ SlotStart[p[m]] \in Int
                       /\ AllocationEnd(p[m]) \in Int
  BY SlotAssumption DEF AllocationEnd
<1>b. Placed(f) = f /\ ~\E m \in Match : RowsOf(f, m) = {}
  BY PlacedDocument, DocumentRows
<1>c. \A m, n \in Match : SameLocalDay(f[m], f[n]) <=> SlotDay[p[m]] = SlotDay[p[n]]
  BY DocumentRows DEF SameLocalDay
<1>1. "team_local_day" \in broken <=>
        \E m, n \in GroupMatch : m # n /\ Rivals(m, n) /\ SlotDay[p[m]] = SlotDay[p[n]]
  <2>1. "team_local_day" \in broken <=>
          \E m, n \in GroupMatch : m # n /\ Rivals(m, n) /\ SameLocalDay(f[m], f[n])
    BY <1>b DEF ChronologyViolations
  <2> QED
    BY <1>c, <2>1, MatchParts
<1>2. "rest_violation" \in broken <=>
        \E m, n \in GroupMatch : m # n /\ Rivals(m, n) /\ ~HasGap(p[m], p[n], rest)
  <2>1. "rest_violation" \in broken <=>
          \E m, n \in GroupMatch : m # n /\ Rivals(m, n) /\ TooClose(f[m], f[n], rest)
    BY <1>b DEF ChronologyViolations
  <2> QED
    BY <2>1, MatchParts, CloseIsNoGap
<1>3. "stage_chronology" \in broken <=>
        \/ \E g \in GroupMatch, sf \in Semifinal : ~Precedes(p[g], p[sf], 0)
        \/ \E sf \in Semifinal : ~Precedes(p[sf], p[Final], 0)
  <2>1. "stage_chronology" \in broken <=>
          \/ \E g \in GroupMatch, sf \in Semifinal : f[g].end > f[sf].start
          \/ \E sf \in Semifinal : f[sf].end > f[Final].start
    BY <1>b DEF ChronologyViolations
  <2>2. \A m, n \in Match : f[m].end > f[n].start <=> ~Precedes(p[m], p[n], 0)
    BY <1>a, DocumentRows DEF Precedes
  <2> QED
    BY <2>1, <2>2, MatchParts
<1>4. "qualification_path" \in broken <=>
        \E edge \in RestEdge : \/ SlotDay[p[edge[1]]] = SlotDay[p[edge[2]]]
                               \/ ~Precedes(p[edge[1]], p[edge[2]], rest)
  <2>1. "qualification_path" \in broken <=>
          \E edge \in RestEdge : BrokenPath(f[edge[1]], f[edge[2]], rest)
    BY <1>b DEF ChronologyViolations
  <2>2. \A m, n \in Match : BrokenPath(f[m], f[n], rest) <=>
          SlotDay[p[m]] = SlotDay[p[n]] \/ ~Precedes(p[m], p[n], rest)
    BY <1>a, <1>c, DocumentRows DEF BrokenPath, Precedes
  <2> QED
    BY <2>1, <2>2, MatchParts
<1>5. broken \subseteq {"team_local_day", "rest_violation", "stage_chronology",
                        "qualification_path"}
  BY <1>b DEF ChronologyViolations
<1> HIDE DEF broken
<1>6. broken = {} <=> /\ "team_local_day" \notin broken
                      /\ "rest_violation" \notin broken
                      /\ "stage_chronology" \notin broken
                      /\ "qualification_path" \notin broken
  BY <1>5
<1>7. TeamRules(Match, rest, p) <=> /\ "team_local_day" \notin broken
                                    /\ "rest_violation" \notin broken
  BY <1>1, <1>2, MatchParts DEF TeamRules
<1>8. PathRules(Match, rest, p) <=> "qualification_path" \notin broken
  BY <1>4, MatchParts DEF PathRules
<1>9. PathRules(Match, rest, p) =>
        \A sf \in Semifinal : Precedes(p[sf], p[Final], 0)
  BY SemifinalsFirst
<1>10. (StageRules(Match, p) /\ PathRules(Match, rest, p)) <=>
         ("stage_chronology" \notin broken /\ "qualification_path" \notin broken)
  BY <1>3, <1>8, <1>9, MatchParts DEF StageRules
<1>11. broken = {} <=> ChronologyAccepted(rest, p)
  BY <1>6, <1>7, <1>10 DEF ChronologyAccepted
<1> QED
  BY <1>11 DEF broken

\* The independent validator and the constraints of the solver are two renderings of
\* the same rules: a placement in eligible slots has no violation exactly when the
\* solver could have returned it (validator.py:46-306 against model.py:60-152).
THEOREM ValidatorAgrees ==
  ASSUME NEW open \in SUBSET Slot, NEW rest \in Nat,
         NEW eligible, NEW p \in [Match -> Slot],
         \A m \in Match : p[m] \in eligible[m]
  PROVE  Violations(open, rest, Document(p)) = {}
           <=> SolverAllows(eligible, open, rest, p)
<1>1. Violations(open, rest, Document(p)) = {} <=>
        SlotsAccepted(open, p) /\ ChronologyAccepted(rest, p)
  BY NoMembershipViolations, SlotChecks, ChronologyChecks DEF Violations
<1>2. SlotsAccepted(open, p) <=> SlotRules(Match, p) /\ \A m \in Match : p[m] \in open
  BY DEF SlotsAccepted, SlotRules
<1> QED
  BY <1>1, <1>2 DEF SolverAllows, RulesHold, ChronologyAccepted

-----------------------------------------------------------------------------
(* The difference of two schedules.                                        *)

\* Between two schedules made from placements the difference, which compares whole
\* fixtures (diff.py:60-75), moves exactly the matches whose slot differs, and adds
\* and removes none.
THEOREM DiffBySlot ==
  ASSUME NEW b \in [Match -> Slot], NEW p \in [Match -> Slot]
  PROVE  LET diff == ScheduleDiff(Document(b), Document(p))
         IN  /\ diff.moved = {m \in Match : p[m] # b[m]}
             /\ diff.unchanged = {m \in Match : p[m] = b[m]}
             /\ diff.added = {} /\ diff.removed = {}
<1> DEFINE diff == ScheduleDiff(Document(b), Document(p))
<1>1. ASSUME NEW q \in [Match -> Slot]
      PROVE  /\ PlacedIn(Document(q)) = Match
             /\ \A m \in Match : FixtureOf(Document(q), m) = Fixture(m, q[m])
  <2>1. PlacedIn(Document(q)) = Match
    BY DocumentRows DEF PlacedIn
  <2>2. \A m \in Match : FixtureOf(Document(q), m) = Placed(Document(q))[m]
    BY DEF FixtureOf, Placed
  <2>3. \A m \in Match : Placed(Document(q))[m] = Fixture(m, q[m])
    BY PlacedDocument DEF Document
  <2> QED
    BY <2>1, <2>2, <2>3
<1>2. \A m \in Match : Fixture(m, b[m]) = Fixture(m, p[m]) <=> p[m] = b[m]
  BY DEF Fixture
<1>3. /\ diff.moved = {m \in Match : Fixture(m, b[m]) # Fixture(m, p[m])}
      /\ diff.unchanged = {m \in Match : Fixture(m, b[m]) = Fixture(m, p[m])}
      /\ diff.added = {} /\ diff.removed = {}
  BY <1>1 DEF ScheduleDiff
<1> HIDE DEF diff
<1>4. /\ diff.moved = {m \in Match : p[m] # b[m]}
      /\ diff.unchanged = {m \in Match : p[m] = b[m]}
  BY <1>2, <1>3
<1> QED
  BY <1>3, <1>4 DEF diff

-----------------------------------------------------------------------------
(* The examination before the solver.                                      *)

LEMMA FiniteMatches == IsFiniteSet(Match)
<1>1. \A group : IsFiniteSet(group) => IsFiniteSet(RoundRobin(group))
  <2> SUFFICES ASSUME NEW group, IsFiniteSet(group)
               PROVE  IsFiniteSet(RoundRobin(group))
    OBVIOUS
  <2>1. IsFiniteSet(SUBSET group)
    BY FS_SUBSET
  <2>2. RoundRobin(group) \in SUBSET (SUBSET group)
    BY DEF RoundRobin
  <2> QED
    BY <2>1, <2>2, FS_Subset
<1>2. IsFiniteSet(GroupMatch)
  BY <1>1, FS_Union, TeamAssumption DEF GroupMatch
<1>3. IsFiniteSet({{"A1", "B2"}} \cup {{"B1", "A2"}})
  BY FS_Singleton, FS_Union
<1>4. IsFiniteSet(Semifinal)
  <2>1. Semifinal = {{"A1", "B2"}} \cup {{"B1", "A2"}}
    BY DEF Semifinal
  <2> QED
    BY <1>3, <2>1
<1>5. IsFiniteSet(GroupMatch \cup Semifinal)
  BY <1>2, <1>4, FS_Union
<1> QED
  BY <1>5, FS_Singleton, FS_Union DEF Match

\* Matches with slots of different starts need as many starts.
LEMMA EnoughStarts ==
  ASSUME NEW slots \in SUBSET Slot, NEW p \in [Match -> slots],
         \A m, n \in Match : m # n => SlotStart[p[m]] # SlotStart[p[n]]
  PROVE  ~TooFewStarts(slots)
<1> DEFINE start == [s \in slots |-> SlotStart[s]]
           f == [m \in Match |-> SlotStart[p[m]]]
<1>1. IsFiniteSet(slots)
  BY FS_Subset, SlotAssumption
<1>2. start \in Surjection(slots, Starts(slots))
  BY DEF Surjection, Starts
<1>3. IsFiniteSet(Starts(slots))
  BY <1>1, <1>2, FS_Surjection
<1>4. f \in [Match -> Starts(slots)]
  BY DEF Starts
<1>5. ~(Cardinality(Starts(slots)) < Cardinality(Match))
  <2>1. ~\E m, n \in Match : m # n /\ f[m] = f[n]
    OBVIOUS
  <2> HIDE DEF f
  <2> QED
    BY <1>3, <1>4, <2>1, FiniteMatches, FS_PigeonHole
<1> QED
  BY <1>5 DEF TooFewStarts

\* What the examination before the solver asks for is necessary: when the solver's
\* constraints allow a placement, it reports no issue (precheck.py:122-259).
THEOREM PrecheckNecessary ==
  ASSUME NEW open \in SUBSET Slot, NEW rest \in Nat,
         NEW eligible \in [Match -> SUBSET Slot], NEW p \in [Match -> Slot],
         SolverAllows(eligible, open, rest, p)
  PROVE  PrecheckIssues(eligible, open, rest) = {}
<1> DEFINE raw == EligibleForSome(eligible)
           cands(m) == Candidates(eligible, open, m)
<1> SUFFICES ASSUME NEW code \in PrecheckIssues(eligible, open, rest) PROVE FALSE
  OBVIOUS
<1>1. /\ SlotRules(Match, p) /\ StageRules(Match, p) /\ PathRules(Match, rest, p)
      /\ \A m \in Match : p[m] \in eligible[m] \cap open
  BY DEF SolverAllows, RulesHold
<1>2. \A m \in Match : p[m] \in cands(m)
  BY <1>1 DEF Candidates
<1>3. ~TooFewStarts(raw \cap open)
  <2>1. raw \cap open \in SUBSET Slot
    OBVIOUS
  <2>2. p \in [Match -> raw \cap open]
    BY <1>1 DEF EligibleForSome
  <2>3. \A m, n \in Match : m # n => SlotStart[p[m]] # SlotStart[p[n]]
    BY <1>1 DEF SlotRules
  <2> QED
    BY <2>1, <2>2, <2>3, EnoughStarts
<1>4. CASE code \in {"blackout_capacity", "insufficient_capacity"}
  BY <1>3, <1>4 DEF PrecheckIssues
<1>5. CASE code = "no_eligible_slot"
  BY <1>2, <1>5 DEF PrecheckIssues
<1>6. CASE code = "chronology_conflict"
  <2>1. \A sf \in Semifinal : \E t \in cands(sf) : \A g \in GroupMatch :
          \E s \in cands(g) : Precedes(s, t, 0)
    BY <1>1, <1>2, MatchParts DEF StageRules
  <2>2. \E t \in cands(Final) : \A sf \in Semifinal :
          \E s \in cands(sf) : Precedes(s, t, 0)
    BY <1>1, <1>2, MatchParts, SemifinalsFirst
  <2> QED
    BY <1>6, <2>1, <2>2 DEF PrecheckIssues
<1>7. CASE code = "rest_conflict"
  <2>1. \A edge \in RestEdge : \E s \in cands(edge[1]), t \in cands(edge[2]) :
          Precedes(s, t, rest) /\ SlotDay[s] # SlotDay[t]
    BY <1>1, <1>2, MatchParts DEF PathRules
  <2> QED
    BY <1>7, <2>1 DEF PrecheckIssues
<1> QED
  BY <1>4, <1>5, <1>6, <1>7 DEF PrecheckIssues

-----------------------------------------------------------------------------
(* The matches of a team.                                                  *)

LEMMA Field ==
  /\ IsFiniteSet(Team) /\ Cardinality(Team) \in Nat /\ Cardinality(Team) > 0
  /\ IsFiniteSet(GroupMatch) /\ Cardinality(GroupMatch) \in Nat
<1>1. IsFiniteSet(Team) /\ Cardinality(Team) \in Nat
  BY TeamAssumption, FS_Union, FS_CardinalityType DEF Team
<1>2. Team # {}
  BY FieldAssumption, FS_EmptySet DEF Team
<1>3. Cardinality(Team) > 0
  BY <1>1, <1>2, FS_EmptySet
<1>4. GroupMatch \subseteq Match
  BY DEF Match
<1>5. IsFiniteSet(GroupMatch)
  BY <1>4, FiniteMatches, FS_Subset
<1> QED
  BY <1>1, <1>3, <1>5, FS_CardinalityType

\* A team plays every other team of its group once.
LEMMA OpponentsOf ==
  ASSUME NEW group \in {GroupA, GroupB}, NEW team \in group
  PROVE  /\ GroupMatchesOf(team) = {{team, x} : x \in group \ {team}}
         /\ IsFiniteSet(group \ {team})
         /\ Cardinality(group \ {team}) = Cardinality(GroupA) - 1
<1>1. \A x \in group \ {team} : IsFiniteSet({team, x}) /\ Cardinality({team, x}) = 2
  <2> SUFFICES ASSUME NEW x \in group \ {team}
               PROVE  IsFiniteSet({team, x}) /\ Cardinality({team, x}) = 2
    OBVIOUS
  <2>1. {team, x} = {team} \cup {x} /\ x \notin {team}
    OBVIOUS
  <2>2. IsFiniteSet({team}) /\ Cardinality({team}) = 1
    BY FS_Singleton
  <2>3. IsFiniteSet({team} \cup {x}) /\ Cardinality({team} \cup {x}) = 1 + 1
    BY <2>1, <2>2, FS_AddElement
  <2> QED
    BY <2>1, <2>3
<1>2. ASSUME NEW x \in group \ {team} PROVE {team, x} \in GroupMatchesOf(team)
  BY <1>1 DEF GroupMatchesOf, GroupMatch, RoundRobin
<1>3. ASSUME NEW m \in GroupMatchesOf(team)
      PROVE  \E x \in group \ {team} : m = {team, x}
  <2>1. PICK g \in {GroupA, GroupB} : m \in SUBSET g /\ Cardinality(m) = 2 /\ team \in m
    BY DEF GroupMatchesOf, GroupMatch, RoundRobin
  <2>2. g = group
    BY <2>1, FieldAssumption
  <2>3. IsFiniteSet(m)
    BY <2>1, TeamAssumption, FS_Subset
  <2>4. Cardinality(m \ {team}) = 1 /\ IsFiniteSet(m \ {team})
    BY <2>1, <2>3, FS_RemoveElement
  <2>5. PICK x : m \ {team} = {x}
    BY <2>4, FS_Singleton
  <2> QED
    BY <2>1, <2>2, <2>5
<1>4. GroupMatchesOf(team) = {{team, x} : x \in group \ {team}}
  BY <1>2, <1>3
<1> QED
  BY <1>4, FS_RemoveElement, TeamAssumption, FieldAssumption

LEMMA MatchesOf ==
  ASSUME NEW team \in Team
  PROVE  /\ IsFiniteSet(GroupMatchesOf(team)) /\ GroupMatchesOf(team) \subseteq GroupMatch
         /\ Cardinality(GroupMatchesOf(team)) = Cardinality(GroupA) - 1
         /\ Cardinality(GroupA) - 1 \in Nat /\ Cardinality(GroupA) - 1 > 1
         /\ \E m, n \in GroupMatchesOf(team) : m # n
<1>1. PICK group \in {GroupA, GroupB} : team \in group
  BY DEF Team
<1> DEFINE others == group \ {team}
           f == [x \in others |-> {team, x}]
           k == Cardinality(GroupA) - 1
<1>2. /\ GroupMatchesOf(team) = {f[x] : x \in DOMAIN f} /\ DOMAIN f = others
      /\ IsFiniteSet(others) /\ Cardinality(others) = k
  BY <1>1, OpponentsOf
<1>3. Cardinality(GroupA) \in Nat /\ Cardinality(GroupA) > 2
  BY TeamAssumption, FieldAssumption, FS_CardinalityType
<1>4. f \in Bijection(others, GroupMatchesOf(team))
  <2>1. f \in [others -> GroupMatchesOf(team)]
    BY <1>2
  <2>2. \A x, y \in others : f[x] = f[y] => x = y
    OBVIOUS
  <2>3. \A m \in GroupMatchesOf(team) : \E x \in others : f[x] = m
    BY <1>2
  <2> HIDE DEF f, others
  <2> QED
    BY <2>1, <2>2, <2>3 DEF Bijection, Injection, Surjection, IsInjective
<1>5. IsFiniteSet(GroupMatchesOf(team)) /\ Cardinality(GroupMatchesOf(team)) = k
  BY <1>2, <1>4, FS_Bijection DEF ExistsBijection
<1>6. \E m, n \in GroupMatchesOf(team) : m # n
  <2>1. GroupMatchesOf(team) # {}
    BY <1>3, <1>5, FS_EmptySet
  <2>2. \A m : GroupMatchesOf(team) # {m}
    BY <1>3, <1>5, FS_Singleton
  <2> QED
    BY <2>1, <2>2
<1>7. GroupMatchesOf(team) \subseteq GroupMatch
  BY DEF GroupMatchesOf
<1> QED
  BY <1>3, <1>5, <1>6, <1>7

-----------------------------------------------------------------------------
(* Rest: what holds of all pairs holds of the consecutive ones, and there  *)
(* are some.                                                               *)

\* A placement by the rules, in the sense of the metrics.
Proper(p, rest) ==
  p \in [Match -> Slot] /\ rest \in Nat /\ RulesHold(Match, rest, p)

LEMMA DocumentTimes ==
  ASSUME NEW p, NEW rest, Proper(p, rest)
  PROVE  /\ DOMAIN Document(p) = Match
         /\ \A m \in Match : /\ Document(p)[m].start = SlotStart[p[m]]
                             /\ Document(p)[m].end = SlotStart[p[m]] + Allocation
                             /\ Document(p)[m].venue = SlotVenue[p[m]]
                             /\ Document(p)[m].start \in Int /\ Document(p)[m].end \in Int
         /\ \A m, n \in Match : m # n => Document(p)[m].start # Document(p)[n].start
<1>1. \A m \in Match : Document(p)[m] = Fixture(m, p[m])
  BY DEF Document
<1>2. \A m \in Match : p[m] \in Slot /\ SlotStart[p[m]] \in Int /\ Allocation \in Int
  BY SlotAssumption DEF Proper
<1>3. \A m, n \in Match : m # n => SlotStart[p[m]] # SlotStart[p[n]]
  BY DEF Proper, RulesHold, SlotRules
<1>4. DOMAIN Document(p) = Match
  BY DEF Document
<1>5. \A m \in Match : /\ Document(p)[m].start = SlotStart[p[m]]
                       /\ Document(p)[m].end = SlotStart[p[m]] + Allocation
                       /\ Document(p)[m].venue = SlotVenue[p[m]]
  <2> SUFFICES ASSUME NEW m \in Match
               PROVE  /\ Document(p)[m].start = SlotStart[p[m]]
                      /\ Document(p)[m].end = SlotStart[p[m]] + Allocation
                      /\ Document(p)[m].venue = SlotVenue[p[m]]
    OBVIOUS
  <2>1. Document(p)[m] = Fixture(m, p[m])
    BY <1>1
  <2> QED
    BY <2>1 DEF Fixture, AllocationEnd
<1>6. \A m \in Match : Document(p)[m].start \in Int /\ Document(p)[m].end \in Int
  BY <1>2, <1>5
<1> QED
  BY <1>3, <1>4, <1>5, <1>6

\* The first match of a team and the next one are consecutive.
LEMMA SomeConsecutive ==
  ASSUME NEW p, NEW rest, Proper(p, rest), NEW team \in Team
  PROVE  Consecutive(Document(p), team) # {}
<1> DEFINE mine == GroupMatchesOf(team)
           start == [m \in mine |-> Document(p)[m].start]
<1>1. IsFiniteSet(mine) /\ mine \subseteq Match /\ \E m, n \in mine : m # n
  BY MatchesOf DEF Match
<1>2. \A m \in mine : start[m] \in Int
  BY <1>1, DocumentTimes
<1>3. \A m, n \in mine : m # n => start[m] # start[n]
  BY <1>1, DocumentTimes
<1> HIDE DEF mine
<1>4. \A S \in SUBSET mine : S # {} => \E m \in S : \A n \in S : start[m] <= start[n]
  <2> SUFFICES ASSUME NEW S \in SUBSET mine, S # {}
               PROVE  \E m \in S : \A n \in S : start[m] <= start[n]
    OBVIOUS
  <2> DEFINE f == [m \in S |-> start[m]]
             R == {f[x] : x \in DOMAIN f}
  <2>1. IsFiniteSet(S)
    BY <1>1, FS_Subset
  <2>2. IsFiniteSet(R)
    BY <2>1, ImageFinite
  <2>3. R \in SUBSET Int /\ R # {} /\ \A m \in S : start[m] \in R
    BY <1>2
  <2>4. \A r \in R : \E m \in S : r = start[m]
    OBVIOUS
  <2> HIDE DEF R, start
  <2>5. PICK r \in R : \A y \in R : r <= y
    BY <2>2, <2>3, LeastExists
  <2> QED
    BY <2>3, <2>4, <2>5
<1>5. PICK m \in mine : \A n \in mine : start[m] <= start[n]
  BY <1>1, <1>4
<1>6. PICK n \in mine \ {m} : \A k \in mine \ {m} : start[n] <= start[k]
  <2>1. mine \ {m} # {} /\ mine \ {m} \in SUBSET mine
    BY <1>1
  <2> QED
    BY <1>4, <2>1
<1>7. start[m] < start[n] /\ ~\E k \in mine : start[m] < start[k] /\ start[k] < start[n]
  BY <1>2, <1>3, <1>5, <1>6
<1>8. \A k \in mine : start[k] = Document(p)[k].start
  OBVIOUS
<1> HIDE DEF start
<1>9. <<m, n>> \in Consecutive(Document(p), team)
  <2>1. /\ Document(p)[m].start < Document(p)[n].start
        /\ ~\E k \in mine : /\ Document(p)[m].start < Document(p)[k].start
                            /\ Document(p)[k].start < Document(p)[n].start
    BY <1>5, <1>6, <1>7, <1>8
  <2>2. <<m, n>> \in mine \X mine
    BY <1>6
  <2> QED
    BY <2>1, <2>2 DEF Consecutive, mine
<1> QED
  BY <1>9

LEMMA RestIsKept ==
  ASSUME NEW p, NEW rest, Proper(p, rest), NEW team \in Team
  PROVE  RestMargin(Document(p), team) \in Int /\ RestMargin(Document(p), team) >= rest
<1> DEFINE pairs == Consecutive(Document(p), team)
           mine == GroupMatchesOf(team)
           gap == [pair \in pairs |-> Document(p)[pair[2]].start - Document(p)[pair[1]].end]
           R == {gap[pair] : pair \in DOMAIN gap}
<1>1. IsFiniteSet(mine) /\ mine \subseteq GroupMatch /\ GroupMatch \subseteq Match
  BY MatchesOf DEF Match
<1>2. pairs \subseteq mine \X mine
  BY DEF Consecutive
<1>3. IsFiniteSet(pairs)
  <2>1. IsFiniteSet(mine \X mine)
    BY <1>1, FS_Product
  <2> QED
    BY <1>2, <2>1, FS_Subset
<1>4. IsFiniteSet(R)
  <2>1. IsFiniteSet(DOMAIN gap)
    BY <1>3
  <2> HIDE DEF gap
  <2> QED
    BY <2>1, ImageFinite
<1>5. ASSUME NEW pair \in pairs PROVE gap[pair] \in Int /\ gap[pair] >= rest
  <2>1. pair[1] \in mine /\ pair[2] \in mine
        /\ Document(p)[pair[1]].start < Document(p)[pair[2]].start
    BY <1>2 DEF Consecutive
  <2> DEFINE m == pair[1]  n == pair[2]
             s == SlotStart[p[m]]  t == SlotStart[p[n]]
  <2>2. m \in GroupMatch /\ n \in GroupMatch /\ m \in Match /\ n \in Match
        /\ team \in m /\ team \in n
    BY <1>1, <2>1 DEF GroupMatchesOf
  <2>3. /\ s \in Int /\ t \in Int /\ s < t /\ rest \in Nat /\ Allocation \in Nat
        /\ gap[pair] = t - (s + Allocation)
    <3>1. /\ Document(p)[m].start = s /\ Document(p)[n].start = t
          /\ Document(p)[m].end = s + Allocation /\ s \in Int /\ t \in Int
      BY <2>2, DocumentTimes
    <3>2. rest \in Nat /\ Allocation \in Nat
      BY SlotAssumption DEF Proper
    <3> QED
      BY <2>1, <3>1, <3>2
  <2>4. m # n /\ Rivals(m, n)
    BY <2>2, <2>3 DEF Rivals
  <2>5. HasGap(p[m], p[n], rest)
    BY <2>2, <2>4 DEF Proper, RulesHold, TeamRules
  <2>6. s + Allocation + rest <= t \/ t + Allocation + rest <= s
    BY <2>5 DEF HasGap, Precedes, AllocationEnd
  <2> HIDE DEF s, t, gap
  <2> QED
    BY <2>3, <2>6
<1>6. R \in SUBSET Int /\ R # {} /\ \A r \in R : r >= rest
  <2>1. pairs # {}
    BY SomeConsecutive
  <2> QED
    BY <1>5, <2>1
<1>7. RestMargin(Document(p), team) = Min(R)
  <2>1. R = {Document(p)[pair[2]].start - Document(p)[pair[1]].end : pair \in pairs}
    OBVIOUS
  <2> QED
    BY <2>1 DEF RestMargin
<1> HIDE DEF R
<1> QED
  BY <1>4, <1>6, <1>7, MinFacts

LEMMA SemifinalFacts ==
  IsFiniteSet(Semifinal) /\ Semifinal # {} /\ Semifinal \subseteq Match
<1>1. Semifinal # {} /\ Semifinal \subseteq Match
  BY DEF Semifinal, Match
<1> QED
  BY <1>1, FiniteMatches, FS_Subset

\* Whichever role a team reaches, its group matches come before both semifinals.
LEMMA EveryTeamHasPaths ==
  ASSUME NEW team \in Team, NEW m \in GroupMatchesOf(team), NEW sf \in Semifinal
  PROVE  <<m, sf>> \in RestEdge
<1>1. m \in GroupMatch /\ team \in m
  BY DEF GroupMatchesOf
<1>2. PICK role : role \in sf /\ <<team, role>> \in TeamPath
  <2>1. CASE team \in GroupA
    <3>1. \E role \in {"A1", "A2"} : role \in sf
      BY DEF Semifinal
    <3> QED
      BY <2>1, <3>1 DEF TeamPath
  <2>2. CASE team \in GroupB
    <3>1. \E role \in {"B1", "B2"} : role \in sf
      BY DEF Semifinal
    <3> QED
      BY <2>2, <3>1 DEF TeamPath
  <2> QED
    BY <2>1, <2>2 DEF Team
<1>3. <<m, sf>> \in GroupMatch \X Semifinal
  BY <1>1
<1> QED
  BY <1>1, <1>2, <1>3 DEF RestEdge

LEMMA KnockoutRestIsKept ==
  ASSUME NEW p, NEW rest, Proper(p, rest), NEW team \in Team
  PROVE  KnockoutRest(Document(p), team) \in Int /\ KnockoutRest(Document(p), team) >= rest
<1> DEFINE mine == GroupMatchesOf(team)
           end == [m \in mine |-> Document(p)[m].end]
           E == {end[m] : m \in DOMAIN end}
           last == Max(E)
           gap == [sf \in Semifinal |-> Document(p)[sf].start - last]
           R == {gap[sf] : sf \in DOMAIN gap}
<1>1. IsFiniteSet(mine) /\ mine \subseteq Match /\ mine # {}
  BY MatchesOf DEF Match
<1>2. IsFiniteSet(E) /\ E \in SUBSET Int /\ E # {} /\ \A e \in E : \E m \in mine : e = end[m]
  <2>1. IsFiniteSet(DOMAIN end) /\ \A m \in mine : end[m] \in Int
    BY <1>1, DocumentTimes
  <2>2. E \in SUBSET Int /\ E # {} /\ \A e \in E : \E m \in mine : e = end[m]
    BY <1>1, <2>1
  <2> HIDE DEF end
  <2>3. IsFiniteSet({end[m] : m \in DOMAIN end})
    BY <2>1, ImageFinite
  <2> QED
    BY <2>2, <2>3
<1>3. last \in E /\ last \in Int
  <2> HIDE DEF E
  <2> QED
    BY <1>2, MaxFacts
<1>4. PICK m \in mine : last = Document(p)[m].end
  BY <1>2, <1>3
<1>5. KnockoutRest(Document(p), team) = Min(R)
  <2>1. E = {Document(p)[x].end : x \in mine}
    OBVIOUS
  <2>2. R = {Document(p)[sf].start - last : sf \in Semifinal}
    OBVIOUS
  <2> QED
    BY <2>1, <2>2 DEF KnockoutRest
<1> HIDE DEF last, mine
<1>6. ASSUME NEW sf \in Semifinal PROVE gap[sf] \in Int /\ gap[sf] >= rest
  <2> DEFINE s == SlotStart[p[m]]
             t == SlotStart[p[sf]]
  <2>1. m \in Match /\ sf \in Match
    BY <1>1, <1>4, SemifinalFacts
  <2>2. last = s + Allocation /\ Document(p)[sf].start = t /\ s \in Int /\ t \in Int
    BY <1>4, <2>1, DocumentTimes
  <2>3. rest \in Nat /\ Allocation \in Nat
    BY SlotAssumption DEF Proper
  <2>4. Precedes(p[m], p[sf], rest)
    <3>1. <<m, sf>> \in RestEdge
      BY <1>4, EveryTeamHasPaths DEF mine
    <3> QED
      BY <2>1, <3>1 DEF Proper, RulesHold, PathRules
  <2>5. s + Allocation + rest <= t
    BY <2>4 DEF Precedes, AllocationEnd
  <2>6. gap[sf] = t - (s + Allocation)
    BY <2>2
  <2> HIDE DEF s, t, gap
  <2> QED
    BY <2>2, <2>3, <2>5, <2>6
<1>7. R \in SUBSET Int /\ R # {} /\ \A r \in R : r >= rest
  BY <1>6, SemifinalFacts
<1>8. IsFiniteSet(R)
  <2>1. IsFiniteSet(DOMAIN gap)
    BY SemifinalFacts
  <2> HIDE DEF gap
  <2> QED
    BY <2>1, ImageFinite
<1> HIDE DEF R
<1> QED
  BY <1>5, <1>7, <1>8, MinFacts

-----------------------------------------------------------------------------
(* The metrics are within 0 and 100.                                       *)

LEMMA ClampRange ==
  ASSUME NEW x \in Int, NEW low \in Int, NEW high \in Int, low <= high
  PROVE  Clamp(x, low, high) \in low..high
BY DEF Clamp

LEMMA GroupRestRange ==
  ASSUME NEW p, NEW rest, Proper(p, rest)
  PROVE  GroupRestFairness(Document(p)) \in 0..1000
<1> DEFINE doc == Document(p)
           day == DayMinutes
           n == Cardinality(Team)
           q == [t \in Team |-> Clamp(RestMargin(doc, t), 0, day)]
           Q == {q[t] : t \in DOMAIN q}
           high == Max(Q)
           low == Min(Q)
           sum == SumFunction(q)
<1>1. day \in Int /\ 0 <= day /\ day > 0 /\ n \in Int /\ n > 0 /\ IsFiniteSet(Team)
  BY Field DEF DayMinutes
<1>2. \A t \in Team : q[t] \in 0..day
  <2> SUFFICES ASSUME NEW t \in Team PROVE q[t] \in 0..day
    OBVIOUS
  <2>1. RestMargin(doc, t) \in Int /\ 0 \in Int
    BY RestIsKept
  <2> HIDE DEF day, doc
  <2> QED
    BY <1>1, <2>1, ClampRange
<1>3. GroupRestFairness(doc) = Percent(sum + day * n - n * (high - low), 2 * (day * n))
  <2>1. Q = {Clamp(RestMargin(doc, t), 0, DayMinutes) : t \in Team}
    OBVIOUS
  <2> QED
    BY <2>1 DEF GroupRestFairness
<1> HIDE DEF day, doc
<1>4. IsFiniteSet(Q) /\ Q \in SUBSET (0..day) /\ Q # {}
  <2>1. IsFiniteSet(DOMAIN q) /\ Q \in SUBSET (0..day)
    BY <1>1, <1>2
  <2>2. Q # {}
    BY <1>1, FS_EmptySet
  <2> HIDE DEF q
  <2> QED
    BY <2>1, <2>2, ImageFinite
<1>5. DOMAIN q = Team
  OBVIOUS
<1> HIDE DEF Q, q
<1>6. high \in 0..day /\ low \in 0..day /\ low <= high
  BY <1>1, <1>4, MaxFacts, MinFacts
<1>7. sum \in Int /\ 0 * n <= sum /\ sum <= day * n
  <2>1. 0 \in Int
    OBVIOUS
  <2> QED
    BY <1>1, <1>2, <1>5, <2>1, SumBounds
<1> HIDE DEF n, high, low, sum
<1>8. /\ n * (high - low) \in Int /\ 0 <= n * (high - low) /\ n * (high - low) <= day * n
      /\ day * n \in Int /\ day * n > 0 /\ 0 * n = 0
  <2> DEFINE d == high - low
  <2>1. d \in Int /\ 0 <= d /\ d <= day
    BY <1>1, <1>6
  <2> HIDE DEF d
  <2>2. /\ n * d \in Int /\ 0 <= n * d /\ n * d <= day * n
        /\ day * n \in Int /\ day * n > 0 /\ 0 * n = 0
    BY <1>1, <2>1
  <2> QED
    BY <2>2 DEF d
<1> DEFINE x == n * (high - low)
           full == day * n
           num == sum + full - x
<1>9. num \in Int /\ 0 <= num /\ num <= 2 * full /\ 2 * full \in Int /\ 2 * full > 0
  <2>1. x \in Int /\ 0 <= x /\ x <= full /\ full \in Int /\ full > 0
        /\ sum \in Int /\ 0 <= sum /\ sum <= full
    BY <1>7, <1>8
  <2> HIDE DEF x, full
  <2> QED
    BY <2>1
<1>10. Percent(num, 2 * full) \in 0..1000
  <2> HIDE DEF num, full
  <2> QED
    BY <1>9, PercentRange
<1> QED
  BY <1>3, <1>10 DEF doc

LEMMA KnockoutRange ==
  ASSUME NEW p, NEW rest, Proper(p, rest)
  PROVE  PotentialKnockoutRest(Document(p)) \in 0..1000
<1> DEFINE f == [t \in Team |-> KnockoutRest(Document(p), t)]
           R == {f[t] : t \in DOMAIN f}
           day == DayMinutes
           zero == 0
           least == Min(R)
           x == Clamp(least, zero, day)
<1>1. IsFiniteSet(DOMAIN f) /\ R \in SUBSET Int /\ R # {}
  BY Field, FS_EmptySet, KnockoutRestIsKept
<1>2. PotentialKnockoutRest(Document(p)) = Percent(x, day)
  <2>1. R = {KnockoutRest(Document(p), t) : t \in Team}
    OBVIOUS
  <2> QED
    BY <2>1 DEF PotentialKnockoutRest
<1>3. IsFiniteSet(R)
  <2> HIDE DEF f
  <2> QED
    BY <1>1, ImageFinite
<1> HIDE DEF R
<1>4. least \in Int
  BY <1>1, <1>3, MinFacts
<1>5. day \in Int /\ day > 0 /\ zero \in Int /\ zero <= day /\ zero = 0
  BY DEF DayMinutes
<1> HIDE DEF day, zero, least
<1>6. x \in zero..day
  BY <1>4, <1>5, ClampRange
<1> HIDE DEF x
<1>7. x \in Int /\ 0 <= x /\ x <= day
  BY <1>5, <1>6
<1>8. Percent(x, day) \in 0..1000
  <2>1. x \in Int /\ 0 <= x /\ x <= day /\ day \in Int /\ day > 0
    BY <1>5, <1>7
  <2> QED
    BY <2>1, PercentRange
<1> QED
  BY <1>2, <1>8

LEMMA VenueRange ==
  ASSUME NEW p, NEW rest, Proper(p, rest), NEW first, NEW second
  PROVE  VenueBalance(Document(p), first, second) \in 0..1000
<1> DEFINE doc == Document(p)
           n == Cardinality(Team)
           f == [t \in Team |-> Imbalance(doc, t, first, second)]
           sum == SumFunction(f)
<1>1. n \in Int /\ n > 0 /\ IsFiniteSet(Team)
  BY Field
<1>2. \A t \in Team : f[t] \in 0..2
  <2> SUFFICES ASSUME NEW t \in Team PROVE Imbalance(doc, t, first, second) \in 0..2
    OBVIOUS
  <2> DEFINE At(v) == {m \in GroupMatchesOf(t) : doc[m].venue = v}
             a == Cardinality(At(first))
             b == Cardinality(At(second))
             x == (IF a - b < 0 THEN -(a - b) ELSE a - b) - 1
  <2>1. \A v : IsFiniteSet(At(v)) /\ Cardinality(At(v)) \in Nat
    BY MatchesOf, FS_Subset, FS_CardinalityType
  <2>2. a \in Nat /\ b \in Nat
    BY <2>1
  <2>3. Imbalance(doc, t, first, second) = Clamp(x, 0, 2)
    BY DEF Imbalance
  <2> HIDE DEF a, b
  <2>4. x \in Int
    BY <2>2
  <2> DEFINE zero == 0  two == 2
  <2>5. Clamp(x, zero, two) = Clamp(x, 0, 2) /\ zero..two = 0..2
        /\ zero \in Int /\ two \in Int /\ zero <= two
    OBVIOUS
  <2> HIDE DEF x, zero, two
  <2>6. Clamp(x, zero, two) \in zero..two
    BY <2>4, <2>5, ClampRange
  <2> QED
    BY <2>3, <2>5, <2>6
<1>3. VenueBalance(doc, first, second) = Percent(2 * n - sum, 2 * n)
  BY DEF VenueBalance
<1>4. DOMAIN f = Team
  OBVIOUS
<1> HIDE DEF f, doc
<1>5. sum \in Int /\ 0 * n <= sum /\ sum <= 2 * n
  <2>1. 0 \in Int /\ 2 \in Int
    OBVIOUS
  <2> QED
    BY <1>1, <1>2, <1>4, <2>1, SumBounds
<1> HIDE DEF n, sum
<1> DEFINE num == 2 * n - sum
           den == 2 * n
<1>6. num \in Int /\ den \in Int /\ 0 <= num /\ num <= den /\ den > 0
  BY <1>1, <1>5
<1> HIDE DEF num, den
<1>7. Percent(num, den) \in 0..1000
  BY <1>6, PercentRange
<1> QED
  BY <1>3, <1>7 DEF num, den, doc

-----------------------------------------------------------------------------
(* The times of day of a team and of the tournament.                       *)

Times4 == {"morning", "day", "evening", "off_hours"}

\* The sum over the four times of day.
LEMMA FourTimes ==
  ASSUME NEW f, DOMAIN f = Times4, \A time \in Times4 : f[time] \in Int
  PROVE  SumFunction(f) = f["morning"] + f["day"] + f["evening"] + f["off_hours"]
<1> DEFINE U == {"day", "evening", "off_hours"}
           V == {"evening", "off_hours"}
           W == {"off_hours"}
           P == PartialSum(f)
<1>1. IsFiniteSet(DOMAIN f) /\ \A x \in DOMAIN f : f[x] \in Int
  <2>1. Times4 = (({"morning"} \cup {"day"}) \cup {"evening"}) \cup {"off_hours"}
    BY DEF Times4
  <2>2. IsFiniteSet({"morning"})
    BY FS_Singleton
  <2>3. IsFiniteSet({"morning"} \cup {"day"})
    BY <2>2, FS_AddElement
  <2>4. IsFiniteSet(({"morning"} \cup {"day"}) \cup {"evening"})
    BY <2>3, FS_AddElement
  <2> QED
    BY <2>1, <2>4, FS_AddElement
<1>2. /\ Times4 \ {"morning"} = U /\ U \ {"day"} = V /\ V \ {"evening"} = W
      /\ W \ {"off_hours"} = {} /\ U \subseteq Times4 /\ V \subseteq Times4
      /\ W \subseteq Times4 /\ {} \subseteq Times4
  BY DEF Times4
<1>3. \A s \in SUBSET DOMAIN f : P[s] \in Int /\ \A a \in s : P[s] = f[a] + P[s \ {a}]
  BY <1>1, PartialSumTake, PartialSumInt
<1>4. P[{}] = 0
  BY <1>1, PartialSumStep
<1>5. /\ P[Times4] = f["morning"] + P[U] /\ P[U] = f["day"] + P[V]
      /\ P[V] = f["evening"] + P[W] /\ P[W] = f["off_hours"] + P[{}]
      /\ P[U] \in Int /\ P[V] \in Int /\ P[W] \in Int
  <2>1. /\ "morning" \in Times4 /\ "day" \in U /\ "evening" \in V /\ "off_hours" \in W
        /\ Times4 \in SUBSET DOMAIN f /\ U \in SUBSET DOMAIN f
        /\ V \in SUBSET DOMAIN f /\ W \in SUBSET DOMAIN f
    BY <1>2 DEF Times4
  <2> HIDE DEF P, U, V, W
  <2>2. /\ P[Times4] = f["morning"] + P[Times4 \ {"morning"}]
        /\ P[U] = f["day"] + P[U \ {"day"}]
        /\ P[V] = f["evening"] + P[V \ {"evening"}]
        /\ P[W] = f["off_hours"] + P[W \ {"off_hours"}]
    BY <1>3, <2>1
  <2> QED
    BY <1>2, <1>3, <2>1, <2>2
<1>6. SumFunction(f) = P[Times4]
  BY SumIsPartial
<1>7. /\ f["morning"] \in Int /\ f["day"] \in Int
      /\ f["evening"] \in Int /\ f["off_hours"] \in Int
  BY DEF Times4
<1> HIDE DEF P, U, V, W
<1> QED
  BY <1>4, <1>5, <1>6, <1>7

AtTime(S, doc, time) == {m \in S : FixtureTime(doc[m]) = time}

LEMMA Disjoint ==
  ASSUME NEW S, NEW T, IsFiniteSet(S), IsFiniteSet(T), S \cap T = {}
  PROVE  IsFiniteSet(S \cup T) /\ Cardinality(S \cup T) = Cardinality(S) + Cardinality(T)
<1>1. Cardinality(S) \in Nat /\ Cardinality(T) \in Nat
  BY FS_CardinalityType
<1>2. IsFiniteSet(S \cup T)
      /\ Cardinality(S \cup T) = Cardinality(S) + Cardinality(T) - Cardinality(S \cap T)
  BY FS_Union
<1>3. Cardinality(S \cap T) = 0
  BY FS_EmptySet
<1> QED
  BY <1>1, <1>2, <1>3

\* The matches at the four times are no more than all of them.
LEMMA TimesApart ==
  ASSUME NEW S, IsFiniteSet(S), NEW doc
  PROVE  /\ \A time : Cardinality(AtTime(S, doc, time)) \in Nat
         /\ Cardinality(AtTime(S, doc, "morning")) + Cardinality(AtTime(S, doc, "day"))
              + Cardinality(AtTime(S, doc, "evening"))
              + Cardinality(AtTime(S, doc, "off_hours")) <= Cardinality(S)
<1> DEFINE M == AtTime(S, doc, "morning")  D == AtTime(S, doc, "day")
           E == AtTime(S, doc, "evening")  O == AtTime(S, doc, "off_hours")
<1>1. \A time : AtTime(S, doc, time) \in SUBSET S
  BY DEF AtTime
<1>2. \A time : /\ IsFiniteSet(AtTime(S, doc, time))
                /\ Cardinality(AtTime(S, doc, time)) \in Nat
  BY <1>1, FS_Subset, FS_CardinalityType
<1>3. M \cap D = {} /\ (M \cup D) \cap E = {} /\ ((M \cup D) \cup E) \cap O = {}
  BY DEF AtTime
<1>4. ((M \cup D) \cup E) \cup O \in SUBSET S
  BY <1>1
<1>5. IsFiniteSet(M) /\ IsFiniteSet(D) /\ IsFiniteSet(E) /\ IsFiniteSet(O)
      /\ Cardinality(M) \in Nat /\ Cardinality(D) \in Nat
      /\ Cardinality(E) \in Nat /\ Cardinality(O) \in Nat
  BY <1>2
<1> HIDE DEF M, D, E, O
<1>6. IsFiniteSet(M \cup D) /\ Cardinality(M \cup D) = Cardinality(M) + Cardinality(D)
  BY <1>3, <1>5, Disjoint
<1>7. /\ IsFiniteSet((M \cup D) \cup E)
      /\ Cardinality((M \cup D) \cup E) = Cardinality(M \cup D) + Cardinality(E)
  BY <1>3, <1>5, <1>6, Disjoint
<1>8. Cardinality(((M \cup D) \cup E) \cup O) = Cardinality((M \cup D) \cup E) + Cardinality(O)
  BY <1>3, <1>5, <1>7, Disjoint
<1>9. Cardinality(((M \cup D) \cup E) \cup O) <= Cardinality(S)
  BY <1>4, FS_Subset
<1>10. Cardinality(S) \in Nat
  BY FS_CardinalityType
<1>11. Cardinality(M) + Cardinality(D) + Cardinality(E) + Cardinality(O) <= Cardinality(S)
  BY <1>5, <1>6, <1>7, <1>8, <1>9, <1>10
<1> QED
  BY <1>2, <1>11 DEF M, D, E, O

\* Four shares c of k and four shares C of g differ by at most everything.
Distance(a, b) == IF a - b < 0 THEN -(a - b) ELSE a - b

LEMMA Distances ==
  ASSUME NEW c1 \in Nat, NEW c2 \in Nat, NEW c3 \in Nat, NEW c4 \in Nat, NEW k \in Nat,
         NEW d1 \in Nat, NEW d2 \in Nat, NEW d3 \in Nat, NEW d4 \in Nat, NEW g \in Nat,
         c1 + c2 + c3 + c4 <= k, d1 + d2 + d3 + d4 <= g
  PROVE  Distance(c1 * g, d1 * k) + Distance(c2 * g, d2 * k)
           + Distance(c3 * g, d3 * k) + Distance(c4 * g, d4 * k) \in 0..(2 * (k * g))
<1>1. \A a, b \in Nat : Distance(a, b) \in Nat /\ Distance(a, b) <= a + b
  BY DEF Distance
<1>2. \A a, b \in Nat : a * b \in Nat
  OBVIOUS
<1>3. \A a \in Nat, x, y \in Nat : x <= y => x * a <= y * a
  OBVIOUS
<1>4. (c1 + c2 + c3 + c4) * g <= k * g /\ (d1 + d2 + d3 + d4) * k <= g * k
  <2>1. c1 + c2 + c3 + c4 \in Nat /\ d1 + d2 + d3 + d4 \in Nat
    OBVIOUS
  <2> QED
    BY <1>3, <2>1
<1>5. /\ (c1 + c2 + c3 + c4) * g = c1 * g + c2 * g + c3 * g + c4 * g
      /\ (d1 + d2 + d3 + d4) * k = d1 * k + d2 * k + d3 * k + d4 * k
      /\ g * k = k * g
  OBVIOUS
<1> DEFINE a1 == c1 * g  a2 == c2 * g  a3 == c3 * g  a4 == c4 * g
           b1 == d1 * k  b2 == d2 * k  b3 == d3 * k  b4 == d4 * k
           t == k * g
<1>6. /\ a1 \in Nat /\ a2 \in Nat /\ a3 \in Nat /\ a4 \in Nat
      /\ b1 \in Nat /\ b2 \in Nat /\ b3 \in Nat /\ b4 \in Nat /\ t \in Nat
      /\ a1 + a2 + a3 + a4 <= t /\ b1 + b2 + b3 + b4 <= t
  BY <1>2, <1>4, <1>5
<1> HIDE DEF a1, a2, a3, a4, b1, b2, b3, b4, t
<1>7. /\ Distance(a1, b1) \in Nat /\ Distance(a1, b1) <= a1 + b1
      /\ Distance(a2, b2) \in Nat /\ Distance(a2, b2) <= a2 + b2
      /\ Distance(a3, b3) \in Nat /\ Distance(a3, b3) <= a3 + b3
      /\ Distance(a4, b4) \in Nat /\ Distance(a4, b4) <= a4 + b4
  BY <1>1, <1>6
<1>8. Distance(a1, b1) + Distance(a2, b2) + Distance(a3, b3) + Distance(a4, b4) \in 0..(2 * t)
  BY <1>6, <1>7
<1> QED
  BY <1>8 DEF a1, a2, a3, a4, b1, b2, b3, b4, t

LEMMA TimeDistanceRange ==
  ASSUME NEW doc, NEW team \in Team
  PROVE  TimeDistance(doc, team) \in
           0..(2 * (Cardinality(GroupMatchesOf(team)) * Cardinality(GroupMatch)))
<1> DEFINE mine == GroupMatchesOf(team)
           k == Cardinality(mine)
           g == Cardinality(GroupMatch)
           c(time) == Cardinality(AtTime(mine, doc, time))
           d(time) == Cardinality(AtTime(GroupMatch, doc, time))
           f == [time \in Times4 |-> Distance(c(time) * g, d(time) * k)]
<1>1. IsFiniteSet(mine) /\ IsFiniteSet(GroupMatch) /\ k \in Nat /\ g \in Nat
  BY MatchesOf, Field, FS_CardinalityType
<1>2. TimeDistance(doc, team) = SumFunction(f)
  BY DEF TimeDistance, Distance, AtTime, Times4
<1>3. /\ \A time : c(time) \in Nat
      /\ c("morning") + c("day") + c("evening") + c("off_hours") <= k
  BY <1>1, TimesApart
<1>4. /\ \A time : d(time) \in Nat
      /\ d("morning") + d("day") + d("evening") + d("off_hours") <= g
  BY <1>1, TimesApart
<1> HIDE DEF c, d, k, g, mine
<1>5. Distance(c("morning") * g, d("morning") * k) + Distance(c("day") * g, d("day") * k)
        + Distance(c("evening") * g, d("evening") * k)
        + Distance(c("off_hours") * g, d("off_hours") * k) \in 0..(2 * (k * g))
  BY <1>1, <1>3, <1>4, Distances
<1>6. \A time \in Times4 : f[time] = Distance(c(time) * g, d(time) * k)
  OBVIOUS
<1>7. \A time \in Times4 : f[time] \in Int
  <2>1. \A time : c(time) * g \in Int /\ d(time) * k \in Int
    BY <1>1, <1>3, <1>4
  <2>2. \A a, b \in Int : Distance(a, b) \in Int
    BY DEF Distance
  <2> QED
    BY <1>6, <2>1, <2>2
<1>8. DOMAIN f = Times4
  OBVIOUS
<1> HIDE DEF f
<1>9. SumFunction(f) = f["morning"] + f["day"] + f["evening"] + f["off_hours"]
  BY <1>7, <1>8, FourTimes
<1>10. SumFunction(f) \in 0..(2 * (k * g))
  BY <1>5, <1>6, <1>9 DEF Times4
<1> QED
  BY <1>2, <1>10 DEF k, g, mine

LEMMA SlotRange ==
  ASSUME NEW doc PROVE SlotBalance(doc) \in 0..1000
<1> DEFINE each == Cardinality(GroupMatchesOf(CHOOSE t \in Team : TRUE))
           g == Cardinality(GroupMatch)
           n == Cardinality(Team)
           f == [t \in Team |-> TimeDistance(doc, t)]
           sum == SumFunction(f)
<1>1. n \in Nat /\ n > 0 /\ g \in Nat /\ IsFiniteSet(Team) /\ Team # {}
  BY Field, FS_EmptySet
<1>2. each \in Nat /\ each > 0 /\ g > 0
        /\ \A t \in Team : Cardinality(GroupMatchesOf(t)) = each
  <2>1. (CHOOSE t \in Team : TRUE) \in Team
    BY <1>1
  <2>2. PICK one \in Team : one = CHOOSE t \in Team : TRUE
    BY <2>1
  <2>3. GroupMatchesOf(one) \subseteq GroupMatch /\ GroupMatchesOf(one) # {}
    BY MatchesOf
  <2>4. g # 0
    BY <2>3, Field, FS_EmptySet
  <2>5. \A t \in Team : Cardinality(GroupMatchesOf(t)) = Cardinality(GroupA) - 1
    BY MatchesOf
  <2>6. Cardinality(GroupA) - 1 \in Nat /\ Cardinality(GroupA) - 1 > 1
    BY <2>1, MatchesOf
  <2>7. each = Cardinality(GroupA) - 1
    BY <2>1, <2>5
  <2> QED
    BY <1>1, <2>4, <2>5, <2>6, <2>7
<1>3. SlotBalance(doc) = Percent(2 * each * g * n - sum, 2 * each * g * n)
  BY DEF SlotBalance
<1>4. DOMAIN f = Team /\ \A t \in Team : f[t] \in 0..(2 * (each * g))
  BY <1>2, TimeDistanceRange
<1> HIDE DEF f, each, g, n
<1> DEFINE most == 2 * (each * g)
           whole == most * n
<1>5. each * g \in Nat /\ each * g > 0
  BY <1>1, <1>2
<1>6. most \in Int /\ most > 0
  <2> DEFINE x == each * g
  <2>1. x \in Nat /\ x > 0
    BY <1>5
  <2> HIDE DEF x
  <2>2. 2 * x \in Int /\ 2 * x > 0
    BY <2>1
  <2> QED
    BY <2>2 DEF x
<1>7. 2 * each * g * n = whole
  BY <1>1, <1>2
<1>8. \A t \in Team : f[t] \in 0..most
  BY <1>4
<1> HIDE DEF most
<1>9. sum \in Int /\ 0 * n <= sum /\ sum <= most * n
  <2>1. 0 \in Int
    OBVIOUS
  <2> QED
    BY <1>1, <1>4, <1>6, <1>8, <2>1, SumBounds DEF n
<1>10. whole \in Int /\ whole > 0 /\ 0 <= sum
  BY <1>1, <1>6, <1>9
<1> HIDE DEF sum
<1> DEFINE num == whole - sum
<1>11. num \in Int /\ 0 <= num /\ num <= whole
  BY <1>9, <1>10
<1> HIDE DEF whole, num
<1>12. Percent(num, whole) \in 0..1000
  BY <1>10, <1>11, PercentRange
<1> QED
  BY <1>3, <1>7, <1>12 DEF num

-----------------------------------------------------------------------------
(* The penalties are within 0 and 100, and so are their weighted sums.     *)

\* Rounding half to the even number stays within a whole bound.
LEMMA HalfEvenRange ==
  ASSUME NEW num \in Int, NEW den \in Int, NEW k \in Int, den > 0, 0 <= num, num <= k * den
  PROVE  HalfEven(num, den) \in 0..k
<1> DEFINE q == num \div den
           r == num % den
<1>1. q \in Int /\ den * q <= num /\ num < den * q + den
  BY Division
<1>2. r = num - den * q /\ r \in Int /\ 0 <= r /\ r < den
  BY <1>1
<1>3. HalfEven(num, den) =
        IF 2 * r > den \/ (2 * r = den /\ q % 2 = 1) THEN q + 1 ELSE q
  BY DEF HalfEven
<1> HIDE DEF q, r
<1>4. 0 <= q
  <2> SUFFICES ASSUME q <= -1 PROVE FALSE
    BY <1>1
  <2>1. den * q <= den * (-1)
    BY <1>1
  <2> QED
    BY <1>1, <2>1
<1>5. q <= k
  <2> SUFFICES ASSUME k + 1 <= q PROVE FALSE
    BY <1>1
  <2>1. den * (k + 1) <= den * q
    BY <1>1
  <2>2. den * (k + 1) = k * den + den
    OBVIOUS
  <2> QED
    BY <1>1, <2>1, <2>2
<1>6. q = k => r = 0
  <2> SUFFICES ASSUME q = k PROVE r = 0
    OBVIOUS
  <2>1. den * q = k * den
    OBVIOUS
  <2> QED
    BY <1>1, <1>2, <2>1
<1>7. CASE q = k
  BY <1>1, <1>3, <1>4, <1>6, <1>7
<1>8. CASE q # k
  BY <1>1, <1>3, <1>4, <1>5, <1>8
<1> QED
  BY <1>7, <1>8

\* No slot comes later in the order of the starts than the last one.
LEMMA Ranks ==
  ASSUME NEW s \in Slot
  PROVE  LastRank \in Int /\ LastRank > 0 /\ Rank(s) \in 0..LastRank
<1> DEFINE all == {SlotStart[t] : t \in Slot}
           below == {SlotStart[t] : t \in {u \in Slot : SlotStart[u] < SlotStart[s]}}
           n == Cardinality(all)
           T == {1, n - 1}
<1>1. IsFiniteSet(all)
  <2> DEFINE f == [t \in Slot |-> SlotStart[t]]
  <2>1. IsFiniteSet(DOMAIN f)
    BY SlotAssumption
  <2>2. IsFiniteSet({f[t] : t \in DOMAIN f})
    <3> HIDE DEF f
    <3> QED
      BY <2>1, ImageFinite
  <2> QED
    BY <2>2
<1>2. SlotStart[s] \in all /\ SlotStart[s] \notin below /\ below \in SUBSET all
  <2>1. SlotStart[s] \in Int
    BY SlotAssumption
  <2> QED
    BY <2>1
<1>3. Rank(s) = Cardinality(below) /\ LastRank = Max(T)
  BY DEF Rank, LastRank
<1> HIDE DEF all, below
<1>4. /\ n \in Nat /\ Cardinality(below) \in Nat
      /\ Cardinality(all \ {SlotStart[s]}) = n - 1 /\ IsFiniteSet(all \ {SlotStart[s]})
  BY <1>1, <1>2, FS_Subset, FS_CardinalityType, FS_RemoveElement
<1>5. Cardinality(below) <= n - 1
  <2>1. below \in SUBSET (all \ {SlotStart[s]})
    BY <1>2
  <2> QED
    BY <1>4, <2>1, FS_Subset
<1>6. T \in SUBSET Int /\ T # {} /\ 1 \in T /\ n - 1 \in T
  BY <1>4
<1>7. IsFiniteSet(T)
  <2>1. T = {1} \cup {n - 1}
    OBVIOUS
  <2>2. IsFiniteSet({1})
    BY FS_Singleton
  <2> QED
    BY <2>1, <2>2, FS_AddElement
<1> HIDE DEF T, n
<1>8. Max(T) \in Int /\ 1 <= Max(T) /\ n - 1 <= Max(T)
  BY <1>6, <1>7, MaxFacts
<1> QED
  BY <1>3, <1>4, <1>5, <1>8

LEMMA CadenceRange ==
  ASSUME NEW count \in Int, count > 1, NEW sequence \in 1..count, NEW s \in Slot
  PROVE  Cadence(sequence, count, s) \in 0..100
<1> DEFINE last == LastRank
           rank == Rank(s)
           num == (sequence - 1) * last
           target == HalfEven(num, count - 1)
           d == rank - target
           a == IF d < 0 THEN -d ELSE d
           hundred == 100
<1>1. last \in Int /\ last > 0 /\ rank \in 0..last
  BY Ranks
<1>2. Cadence(sequence, count, s) = HalfEven(a * hundred, last)
  BY DEF Cadence
<1> HIDE DEF last, rank
<1>3. num \in Int /\ 0 <= num /\ num <= last * (count - 1)
        /\ count - 1 \in Int /\ count - 1 > 0
  <2> DEFINE x == sequence - 1  y == count - 1
  <2>1. x \in Int /\ y \in Int /\ 0 <= x /\ x <= y /\ y > 0
    OBVIOUS
  <2> HIDE DEF x, y
  <2>2. x * last \in Int /\ 0 <= x * last /\ x * last <= last * y
    BY <1>1, <2>1
  <2> QED
    BY <2>1, <2>2 DEF x, y
<1> HIDE DEF num
<1>4. target \in 0..last
  <2> DEFINE den == count - 1
  <2>1. den \in Int /\ den > 0 /\ num <= last * den
    BY <1>3
  <2> HIDE DEF den
  <2>2. HalfEven(num, den) \in 0..last
    BY <1>1, <1>3, <2>1, HalfEvenRange
  <2> QED
    BY <2>2 DEF den
<1> HIDE DEF target
<1>5. a \in 0..last
  BY <1>1, <1>4
<1> HIDE DEF a
<1>6. hundred \in Int /\ hundred > 0
  OBVIOUS
<1>7. 0..hundred = 0..100
  OBVIOUS
<1> HIDE DEF hundred
<1> DEFINE top == a * hundred
<1>8. top \in Int /\ 0 <= top /\ top <= hundred * last
  BY <1>1, <1>5, <1>6
<1> HIDE DEF top
<1>9. HalfEven(top, last) \in 0..hundred
  BY <1>1, <1>6, <1>8, HalfEvenRange
<1> QED
  BY <1>2, <1>7, <1>9 DEF top

LEMMA SumPositive ==
  ASSUME NEW f, IsFiniteSet(DOMAIN f), \A x \in DOMAIN f : f[x] \in Nat,
         NEW a \in DOMAIN f, f[a] > 0
  PROVE  SumFunction(f) \in Int /\ SumFunction(f) > 0
<1> DEFINE zero == 0
           D == DOMAIN f
           g == [x \in D |-> zero]
           rest == D \ {a}
<1>1. \A x \in D : f[x] \in Int /\ zero <= f[x]
  OBVIOUS
<1>2. zero \in Int /\ rest \in SUBSET D /\ D \in SUBSET D /\ a \in D
        /\ IsFiniteSet(D) /\ IsFiniteSet(rest) /\ Cardinality(rest) \in Nat
  BY FS_RemoveElement, FS_CardinalityType
<1> HIDE DEF rest
<1>3. SumFunction(f) = PartialSum(f)[D]
  BY SumIsPartial
<1>4. PartialSum(f)[D] = f[a] + PartialSum(f)[D \ {a}]
  BY <1>1, <1>2, PartialSumTake
<1>5. PartialSum(f)[rest] \in Int
  BY <1>1, <1>2, PartialSumInt
<1>6. PartialSum(g)[rest] = zero * Cardinality(rest)
  <2> HIDE DEF zero, D
  <2> QED
    BY <1>2, PartialSumConstant
<1>7. PartialSum(g)[rest] <= PartialSum(f)[rest]
  <2>1. DOMAIN g = D /\ \A x \in D : g[x] = zero
    OBVIOUS
  <2> HIDE DEF zero, g
  <2> QED
    BY <1>1, <1>2, <2>1, PartialSumMonotone
<1>8. f[a] \in Nat
  OBVIOUS
<1>9. PartialSum(f)[rest] >= 0
  BY <1>2, <1>5, <1>6, <1>7
<1> QED
  BY <1>3, <1>4, <1>5, <1>8, <1>9 DEF rest

\* Priorities of which at least one counts, and penalties the objective accepts.
Weighing(priority) ==
  /\ IsFiniteSet(DOMAIN priority)
  /\ \A x \in DOMAIN priority : priority[x] \in Nat
  /\ \E a \in DOMAIN priority : priority[a] > 0
Scored(names, penalty) == \A x \in names : penalty[x] \in 0..100

\* The cost of a placement in a profile's objective, in hundredths of a point, is that
\* of a mean: within 0 and 100 points when its penalties are, for every choice of
\* priorities of which one counts (profiles.py:28-48).
THEOREM ObjectiveRange ==
  ASSUME NEW priority, Weighing(priority), NEW penalty, Scored(DOMAIN priority, penalty)
  PROVE  ObjectiveCost(priority, penalty) \in 0..10000
<1>a. /\ IsFiniteSet(DOMAIN priority) /\ \A x \in DOMAIN priority : priority[x] \in Nat
      /\ \A x \in DOMAIN priority : penalty[x] \in 0..100
  BY DEF Weighing, Scored
<1>b. PICK a \in DOMAIN priority : priority[a] > 0
  BY DEF Weighing
<1> DEFINE zero == 0  hundred == 100  most == 10000
           f == [x \in DOMAIN priority |-> priority[x] * penalty[x]]
           Scaling(c) == [x \in DOMAIN priority |-> c * priority[x]]
           sum == SumFunction(priority)
           w == SumFunction(f)
<1>1. \A x \in DOMAIN priority : priority[x] \in Int
  BY <1>a
<1>2. sum \in Int /\ sum > 0
  BY <1>a, <1>b, SumPositive
<1>3. SumFunction(Scaling(zero)) = zero * sum /\ SumFunction(Scaling(hundred)) = hundred * sum
  <2>1. zero \in Int /\ hundred \in Int
    OBVIOUS
  <2> HIDE DEF zero, hundred
  <2> QED
    BY <1>1, <1>a, <2>1, SumScaled
<1>4. \A x \in DOMAIN priority :
        /\ f[x] \in Int /\ Scaling(zero)[x] \in Int /\ Scaling(hundred)[x] \in Int
        /\ Scaling(zero)[x] <= f[x] /\ f[x] <= Scaling(hundred)[x]
  <2> SUFFICES ASSUME NEW x \in DOMAIN priority
               PROVE  /\ f[x] \in Int /\ Scaling(zero)[x] \in Int /\ Scaling(hundred)[x] \in Int
                      /\ Scaling(zero)[x] <= f[x] /\ f[x] <= Scaling(hundred)[x]
    OBVIOUS
  <2> DEFINE u == priority[x]  v == penalty[x]
  <2>1. u \in Nat /\ v \in 0..100
    BY <1>a
  <2>2. f[x] = u * v /\ Scaling(zero)[x] = 0 * u /\ Scaling(hundred)[x] = 100 * u
    OBVIOUS
  <2> HIDE DEF u, v, f
  <2>3. u * v \in Int /\ 0 * u <= u * v /\ u * v <= 100 * u
    BY <2>1
  <2> QED
    BY <2>1, <2>2, <2>3
<1>5. DOMAIN f = DOMAIN priority /\ DOMAIN Scaling(zero) = DOMAIN priority
      /\ DOMAIN Scaling(hundred) = DOMAIN priority
  OBVIOUS
<1>6. w \in Int /\ SumFunction(Scaling(zero)) <= w /\ w <= SumFunction(Scaling(hundred))
  <2> DEFINE l == Scaling(zero)  h == Scaling(hundred)
  <2>1. /\ DOMAIN f = DOMAIN priority /\ DOMAIN l = DOMAIN priority /\ DOMAIN h = DOMAIN priority
        /\ \A x \in DOMAIN priority : f[x] \in Int /\ l[x] \in Int /\ h[x] \in Int
                                      /\ l[x] <= f[x] /\ f[x] <= h[x]
    BY <1>4, <1>5
  <2> HIDE DEF f, l, h
  <2>2. w \in Int
    BY <1>a, <2>1, SumInt
  <2>3. SumFunction(l) <= w
    BY <1>a, <2>1, SumMonotone
  <2>4. w <= SumFunction(h)
    BY <1>a, <2>1, SumMonotone
  <2> QED
    BY <2>2, <2>3, <2>4 DEF l, h
<1>7. ObjectiveCost(priority, penalty) = Rounded(hundred * w, sum)
  BY DEF ObjectiveCost
<1> HIDE DEF w, sum, Scaling
<1> DEFINE num == hundred * w
<1>8. num \in Int /\ 0 <= num /\ num <= sum * most /\ most \in Int /\ 0 <= most
  BY <1>2, <1>3, <1>6
<1>9. 0..most = 0..10000
  OBVIOUS
<1> HIDE DEF num, most
<1>10. Rounded(num, sum) \in 0..most
  BY <1>2, <1>8, RoundedRange
<1> QED
  BY <1>7, <1>9, <1>10 DEF num

LEMMA AudienceRange ==
  ASSUME NEW group \in BOOLEAN, NEW time, NEW weekend \in BOOLEAN
  PROVE  Audience(group, time, weekend) \in 0..100
<1>1. CASE group \/ time = "evening"
  BY <1>1 DEF Audience
<1>2. CASE ~group /\ time # "evening" /\ weekend
  BY <1>2 DEF Audience
<1>3. CASE ~group /\ time # "evening" /\ ~weekend
  BY <1>3 DEF Audience
<1> QED
  BY <1>1, <1>2, <1>3

Penalized == {"weather_coverage", "rest", "venue_balance", "slot_balance",
              "organizer_preferences", "audience_timing"}

InRange(penalty) ==
  DOMAIN penalty = Penalized /\ \A name \in Penalized : penalty[name] \in 0..100

LEMMA PenaltyRange ==
  ASSUME NEW count \in Int, count > 1, NEW sequence \in 1..count, NEW group \in BOOLEAN,
         NEW s \in Slot, NEW risk \in Int \cup {NoRisk}, NEW missing \in 0..100,
         NEW weekend \in BOOLEAN, NEW first
  PROVE  InRange(Penalties(sequence, count, group, s, risk, missing, weekend, first))
<1> DEFINE penalty == Penalties(sequence, count, group, s, risk, missing, weekend, first)
           clamped == Clamp(risk, 0, 1000)
<1>1. DOMAIN penalty = Penalized
  BY DEF Penalties, Penalized
<1>2. /\ penalty.weather_coverage = IF risk = NoRisk THEN missing ELSE clamped \div 10
      /\ penalty.rest = Cadence(sequence, count, s)
      /\ penalty.venue_balance \in {0, 100} /\ penalty.slot_balance \in {0, 100}
      /\ penalty.audience_timing = Audience(group, TimeAt(s), weekend)
      /\ penalty.organizer_preferences = 0
  BY DEF Penalties
<1>3. penalty.weather_coverage \in 0..100
  <2>1. CASE risk = NoRisk
    BY <1>2, <2>1
  <2>2. CASE risk # NoRisk
    <3>1. clamped \in 0..1000
      BY <2>2 DEF Clamp
    <3> HIDE DEF clamped
    <3>2. clamped \div 10 \in 0..100
      BY <3>1
    <3> QED
      BY <1>2, <2>2, <3>2
  <2> QED
    BY <2>1, <2>2
<1>4. penalty.rest \in 0..100
  BY <1>2, CadenceRange
<1>5. penalty.audience_timing \in 0..100
  BY <1>2, AudienceRange
<1> HIDE DEF penalty
<1> QED
  BY <1>1, <1>2, <1>3, <1>4, <1>5 DEF Penalized, InRange, penalty

LEMMA PenalizedFinite == IsFiniteSet(Penalized)
<1>1. IsFiniteSet({"weather_coverage"})
  BY FS_Singleton
<1>2. IsFiniteSet({"weather_coverage"} \cup {"rest"})
  BY <1>1, FS_AddElement
<1> DEFINE two == {"weather_coverage"} \cup {"rest"}
           three == two \cup {"venue_balance"}
           four == three \cup {"slot_balance"}
           five == four \cup {"organizer_preferences"}
<1>3. Penalized = five \cup {"audience_timing"}
  BY DEF Penalized
<1>4. IsFiniteSet(three)
  BY <1>2, FS_AddElement
<1> HIDE DEF two, three
<1>5. IsFiniteSet(four)
  BY <1>4, FS_AddElement
<1> HIDE DEF four
<1>6. IsFiniteSet(five)
  BY <1>5, FS_AddElement
<1> HIDE DEF five
<1> QED
  BY <1>3, <1>6, FS_AddElement

\* Each fairness metric of a placement that obeys the rules is within 0 and 100, for
\* every tournament: no integer division or clamp leaves it (evaluator.py:69-143,
\* domain/schedules.py:51-61).
THEOREM MetricsRange ==
  ASSUME NEW p, NEW rest, Proper(p, rest), NEW first, NEW second
  PROVE  LET metrics == FairnessMetrics(Document(p), first, second)
         IN  \A name \in DOMAIN metrics : metrics[name] \in 0..1000
<1>1. /\ GroupRestFairness(Document(p)) \in 0..1000
      /\ PotentialKnockoutRest(Document(p)) \in 0..1000
      /\ VenueBalance(Document(p), first, second) \in 0..1000
      /\ SlotBalance(Document(p)) \in 0..1000 /\ 1000 \in 0..1000
  BY GroupRestRange, KnockoutRange, VenueRange, SlotRange
<1> QED
  BY <1>1 DEF FairnessMetrics

=============================================================================
