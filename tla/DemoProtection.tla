--------------------------- MODULE DemoProtection ---------------------------
(***************************************************************************)
(* PublicDemoProtection of app/limits/public_demo.py: the rolling limits   *)
(* on a guest's requests, the solver jobs in progress and queued, and the  *)
(* daily budget of the model provider.  One object serves every handler,   *)
(* the coroutines and the worker threads (the weather refresh is one).     *)
(*                                                                         *)
(* consume takes two steps: it reads the clock, then it takes the lock and *)
(* decides with that reading, so readings reach the windows out of order.  *)
(* Every other operation is one step under the lock; where it reads the    *)
(* clock first, the reading goes into the abuse record only.               *)
(*                                                                         *)
(* Data: time is a count of ticks; a window is named by the limit it       *)
(* serves, an action of a workspace or the agent calls of an address.      *)
(***************************************************************************)
EXTENDS Integers, Sequences, FiniteSets

CONSTANTS
  Thread,             \* concurrent calls of consume
  Workspace, Address,
  None,               \* no clock reading, no address, no promise, no budget day
  Action,             \* the limited actions, "agent" among them
  WorkspaceLimit,     \* action -> its limit per workspace and window
  AddressLimit,       \* agent_calls_per_ip_24h
  ActiveLimit,        \* active_jobs_per_workspace
  GlobalLimit,        \* concurrent_solver_jobs_per_worker
  QueueLimit,         \* queued_jobs_per_workspace
  Budget,             \* provider_daily_budget_usd
  Amount,             \* costs a provider call may have
  Window, Day,        \* 24 hours, in ticks
  \* bounds of the model
  MaxTime, MaxSpend

ASSUME ProtectionAssumption ==
  /\ IsFiniteSet(Workspace)
  /\ None \notin Nat /\ None \notin Address
  /\ "address" \notin Action
  /\ WorkspaceLimit \in [Action -> Nat \ {0}] /\ AddressLimit \in Nat \ {0}
  /\ {ActiveLimit, GlobalLimit, QueueLimit} \subseteq Nat
  /\ Budget \in Nat \ {0} /\ Amount \subseteq Nat
  /\ Window \in Nat \ {0} /\ Day \in Nat \ {0}
  /\ MaxTime \in Nat /\ MaxSpend \in Nat

VARIABLES
  now,          \* the clock
  call,         \* thread -> the consume it is in
  events,       \* window -> admitted readings not yet pruned
  active,       \* workspace -> solver jobs
  globalJobs,   \* solver jobs of the worker
  queued,       \* workspace -> reserved queue places
  spend,        \* _provider_spend
  budgetDay,    \* _budget_day
  emergency,    \* _emergency_deterministic
  \* ghosts
  admitted,     \* window -> every reading ever admitted
  promised,     \* window -> reset time of the last denial since an admission
  spentToday    \* cost recorded this day, or since the operator's reset

windows == <<call, events, admitted, promised>>
jobs    == <<active, globalJobs, queued>>
budget  == <<spend, budgetDay, emergency, spentToday>>
vars    == <<now, windows, jobs, budget>>

-----------------------------------------------------------------------------
(* Windows *)

WindowId == (Action \X Workspace) \cup ({"address"} \X Address)
OfWorkspace(c) == <<c.action, c.workspace>>
OfAddress(c)   == <<"address", c.address>>
LimitOf(win)   == IF win[1] = "address" THEN AddressLimit ELSE WorkspaceLimit[win[1]]
Idle == [reading |-> None]
Busy(t) == call[t] # Idle
ByAddress(c) == c.action = "agent" /\ c.address # None

\* _prune: readings at the head that are a whole window old are dropped, up to the
\* first that is not.
ExpiredLate(reading, at)  == reading + Window < at                \* mutants of Expired
ExpiredEarly(reading, at) == reading + Window <= at + 1
Expired(reading, at) == reading + Window <= at
Prunes(s, at, n) ==
  /\ \A i \in 1..n : Expired(s[i], at)
  /\ n < Len(s) => ~Expired(s[n + 1], at)
Without(s, n) == SubSeq(s, n + 1, Len(s))

\* The window win, pruned at the reading of the call, becomes s.
Pruned(win, at, s) ==
  \E n \in 0..Len(events[win]) : Prunes(events[win], at, n) /\ s = Without(events[win], n)
Suffixes(win) == {Without(events[win], n) : n \in 0..Len(events[win])}

-----------------------------------------------------------------------------
(* The budget *)

Today == now \div Day

\* _roll_budget_day: the first use on a new day starts from zero.
SpendCarried == spend                                             \* mutant of Rolled
Rolled == IF budgetDay = Today THEN spend ELSE 0
Roll == spend' = Rolled /\ budgetDay' = Today

Mode(amount) ==
  IF emergency \/ amount >= Budget THEN "deterministic"
  ELSE IF 4 * amount >= 3 * Budget THEN "conserve"
  ELSE "normal"

\* Only an agent call looks at the budget, and so rolls its day.
AgentRoll(c) == IF c.action = "agent" THEN Roll /\ UNCHANGED <<emergency, spentToday>>
                ELSE UNCHANGED budget
Funded(c) == c.action = "agent" => Mode(Rolled) # "deterministic"

-----------------------------------------------------------------------------
(* consume *)

\* The clock is read before the lock is taken.
Consume(t, action, w, a) ==
  /\ ~Busy(t)
  /\ call' = [call EXCEPT ![t] = [reading |-> now, action |-> action, workspace |-> w,
                                  address |-> a]]
  /\ UNCHANGED <<now, events, admitted, promised, jobs, budget>>

\* Under the lock: one of four outcomes.
Decide(t) == /\ Busy(t)
             /\ call' = [call EXCEPT ![t] = Idle]
             /\ AgentRoll(call[t])
             /\ UNCHANGED <<now, jobs>>

DenyBudget(t) ==
  /\ Decide(t)
  /\ ~Funded(call[t])
  /\ UNCHANGED <<events, admitted, promised>>

DenyWorkspace(t) ==
  LET c == call[t]
      win == OfWorkspace(c)
  IN
  /\ Decide(t) /\ Funded(c)
  /\ \E s \in Suffixes(win) :
       /\ Pruned(win, c.reading, s) /\ Len(s) >= LimitOf(win)
       /\ events' = [events EXCEPT ![win] = s]
       /\ promised' = [promised EXCEPT ![win] = s[1] + Window]
  /\ UNCHANGED admitted

DenyAddress(t) ==
  LET c == call[t]
      win == OfWorkspace(c)
      ip  == OfAddress(c)
  IN
  /\ Decide(t) /\ Funded(c) /\ ByAddress(c)
  /\ \E s \in Suffixes(win), q \in Suffixes(ip) :
       /\ Pruned(win, c.reading, s) /\ Len(s) < LimitOf(win)
       /\ Pruned(ip, c.reading, q) /\ Len(q) >= LimitOf(ip)
       /\ events' = [events EXCEPT ![win] = s, ![ip] = q]
       /\ promised' = [promised EXCEPT ![ip] = q[1] + Window]
  /\ UNCHANGED admitted

\* The windows an admitted call is entered into.
Entered(c) == {OfWorkspace(c)} \cup IF ByAddress(c) THEN {OfAddress(c)} ELSE {}

Admit(t) ==
  LET c == call[t] IN
  /\ Decide(t) /\ Funded(c)
  /\ \E kept \in [Entered(c) -> UNION {Suffixes(win) : win \in Entered(c)}] :
       /\ \A win \in Entered(c) :
            Pruned(win, c.reading, kept[win]) /\ Len(kept[win]) < LimitOf(win)
       /\ events' = [win \in WindowId |->
            IF win \in Entered(c) THEN Append(kept[win], c.reading) ELSE events[win]]
  /\ admitted' = [win \in WindowId |->
       IF win \in Entered(c) THEN Append(admitted[win], c.reading) ELSE admitted[win]]
  /\ promised' = [win \in WindowId |-> IF win \in Entered(c) THEN None ELSE promised[win]]

-----------------------------------------------------------------------------
(* Solver jobs *)

AcquireJob(w) ==
  /\ active[w] < ActiveLimit
  /\ globalJobs < GlobalLimit
  /\ active' = [active EXCEPT ![w] = @ + 1]
  /\ globalJobs' = globalJobs + 1
  /\ UNCHANGED <<now, windows, queued, budget>>

ReleaseUnchecked(w) ==                                        \* mutant of ReleaseJob
  /\ active' = [active EXCEPT ![w] = IF @ > 0 THEN @ - 1 ELSE 0]
  /\ globalJobs' = IF globalJobs > 0 THEN globalJobs - 1 ELSE 0
  /\ UNCHANGED <<now, windows, queued, budget>>
\* A release of a workspace without a job returns early.
ReleaseJob(w) ==
  /\ active[w] > 0
  /\ active' = [active EXCEPT ![w] = @ - 1]
  /\ globalJobs' = IF globalJobs > 0 THEN globalJobs - 1 ELSE 0
  /\ UNCHANGED <<now, windows, queued, budget>>

EnqueueOneMore(w) ==                                          \* mutant of EnqueueJob
  /\ queued[w] <= QueueLimit
  /\ queued' = [queued EXCEPT ![w] = @ + 1]
  /\ UNCHANGED <<now, windows, active, globalJobs, budget>>
EnqueueJob(w) ==
  /\ queued[w] < QueueLimit
  /\ queued' = [queued EXCEPT ![w] = @ + 1]
  /\ UNCHANGED <<now, windows, active, globalJobs, budget>>

DequeueJob(w) ==
  /\ queued' = [queued EXCEPT ![w] = IF @ <= 1 THEN 0 ELSE @ - 1]
  /\ UNCHANGED <<now, windows, active, globalJobs, budget>>

-----------------------------------------------------------------------------
(* The provider budget *)

RecordProviderCost(usd) ==
  /\ spentToday + usd <= MaxSpend
  /\ spend' = Rolled + usd
  /\ budgetDay' = Today
  /\ spentToday' = spentToday + usd
  /\ UNCHANGED <<now, windows, jobs, emergency>>

\* budget_mode, which the resilience manager asks before a run and a retry.
ReadBudgetMode ==
  /\ Roll
  /\ UNCHANGED <<now, windows, jobs, emergency, spentToday>>

ResetDailyBudget ==
  /\ spend' = 0 /\ budgetDay' = Today /\ spentToday' = 0
  /\ UNCHANGED <<now, windows, jobs, emergency>>

SetEmergencyDeterministic(enabled) ==
  /\ emergency' = enabled
  /\ UNCHANGED <<now, windows, jobs, spend, budgetDay, spentToday>>

-----------------------------------------------------------------------------
Tick ==
  /\ now < MaxTime
  /\ now' = now + 1
  /\ spentToday' = IF (now + 1) \div Day = Today THEN spentToday ELSE 0
  /\ UNCHANGED <<windows, jobs, spend, budgetDay, emergency>>

Init ==
  /\ now = 0
  /\ call = [t \in Thread |-> Idle]
  /\ events = [win \in WindowId |-> <<>>]
  /\ active = [w \in Workspace |-> 0] /\ globalJobs = 0
  /\ queued = [w \in Workspace |-> 0]
  /\ spend = 0 /\ budgetDay = None /\ emergency = FALSE
  /\ admitted = [win \in WindowId |-> <<>>]
  /\ promised = [win \in WindowId |-> None]
  /\ spentToday = 0

Next ==
  \/ \E t \in Thread, action \in Action, w \in Workspace, a \in Address \cup {None} :
       Consume(t, action, w, a)
  \/ \E t \in Thread : DenyBudget(t) \/ DenyWorkspace(t) \/ DenyAddress(t) \/ Admit(t)
  \/ \E w \in Workspace : AcquireJob(w) \/ ReleaseJob(w) \/ EnqueueJob(w) \/ DequeueJob(w)
  \/ \E usd \in Amount : RecordProviderCost(usd)
  \/ ReadBudgetMode
  \/ ResetDailyBudget
  \/ \E enabled \in BOOLEAN : SetEmergencyDeterministic(enabled)
  \/ Tick

Spec == Init /\ [][Next]_vars

-----------------------------------------------------------------------------
CallType == {Idle} \cup [reading : Nat, action : Action, workspace : Workspace,
                         address : Address \cup {None}]

\* The type invariant: no window, job count or queue exceeds its limit, although
\* releases and dequeues may come at any moment and in any number.
TypeOK ==
  /\ now \in Nat
  /\ call \in [Thread -> CallType]
  /\ events \in [WindowId -> Seq(Nat)]
  /\ \A win \in WindowId : Len(events[win]) <= LimitOf(win)
  /\ active \in [Workspace -> 0..ActiveLimit] /\ globalJobs \in 0..GlobalLimit
  /\ queued \in [Workspace -> 0..QueueLimit]
  /\ spend \in Nat /\ budgetDay \in Nat \cup {None} /\ emergency \in BOOLEAN
  /\ admitted \in [WindowId -> Seq(Nat)]
  /\ promised \in [WindowId -> Nat \cup {None}]
  /\ spentToday \in Nat

\* Of the calls that began within the last 24 hours no more than the limit were
\* admitted, per action and workspace and per address, although the clock readings
\* enter the windows out of order and pruning stops at the first recent one.
AdmittedWithinLimit ==
  \A win \in WindowId :
    Cardinality({i \in DOMAIN admitted[win] : admitted[win][i] + Window > now}) <= LimitOf(win)

\* The reset time a denial states is honoured: a call that begins at that time or
\* later finds room in the window, unless another call was admitted meanwhile.
ResetTimeHonoured ==
  \A win \in WindowId :
    promised[win] # None /\ promised[win] <= now =>
      Len(events[win]) < LimitOf(win) \/ Expired(events[win][1], now)

\* A job is one of the jobs 1..active[w] of its workspace.
Jobs == {job \in Workspace \X (1..ActiveLimit) : job[2] <= active[job[1]]}

\* The worker's count is the number of the workspaces' jobs: no order of acquisitions
\* and releases, superfluous releases included, leaves capacity blocked or lent twice.
JobsAccounted == globalJobs = Cardinality(Jobs)

\* The lazily reset budget is the budget of the current day: whoever looks at it
\* first after midnight, the mode is that of what was spent since midnight.
SpendIsTodays == Rolled = spentToday
=============================================================================
