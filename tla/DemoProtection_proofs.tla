----------------------- MODULE DemoProtection_proofs -----------------------
(***************************************************************************)
(* Proofs about DemoProtection, for any number of threads, workspaces and  *)
(* addresses and any limits.  The invariant speaks of one window at a      *)
(* time: the readings in it are the last ones admitted, and those that     *)
(* were pruned are a whole window old.                                     *)
(***************************************************************************)
EXTENDS DemoProtection, FiniteSetTheorems, TLAPS

ClockInv ==
  /\ now \in Nat
  /\ call \in [Thread -> CallType]
  /\ \A t \in Thread : Busy(t) => call[t].reading <= now

\* One window: ev is the end of adm, what is missing has expired at time t, and a
\* full window is no longer full at the promised time.
WindowInv(ev, adm, prom, limit, t) ==
  /\ ev \in Seq(Nat) /\ adm \in Seq(Nat)
  /\ Len(ev) <= limit /\ Len(ev) <= Len(adm)
  /\ \A j \in 1..Len(ev) : ev[j] = adm[Len(adm) - Len(ev) + j]
  /\ \A i \in 1..(Len(adm) - Len(ev)) : adm[i] + Window <= t
  /\ prom \in Nat \cup {None}
  /\ prom # None /\ Len(ev) >= limit => ev[1] + Window <= prom

WindowsInv ==
  /\ events = [win \in WindowId |-> events[win]]
  /\ admitted = [win \in WindowId |-> admitted[win]]
  /\ promised = [win \in WindowId |-> promised[win]]
  /\ \A win \in WindowId :
       WindowInv(events[win], admitted[win], promised[win], LimitOf(win), now)

JobsInv ==
  /\ active \in [Workspace -> 0..ActiveLimit] /\ globalJobs \in 0..GlobalLimit
  /\ queued \in [Workspace -> 0..QueueLimit]
  /\ JobsAccounted

BudgetInv ==
  /\ spend \in Nat /\ emergency \in BOOLEAN /\ spentToday \in Nat
  /\ budgetDay = None \/ (budgetDay \in Nat /\ budgetDay <= Today)
  /\ SpendIsTodays

ProtectionInv == ClockInv /\ WindowsInv /\ JobsInv /\ BudgetInv

-----------------------------------------------------------------------------
(* Windows *)

LEMMA LimitTyped == \A win \in WindowId : LimitOf(win) \in Nat \ {0}
  BY ProtectionAssumption DEF WindowId, LimitOf

\* Dropping n readings from the head.
LEMMA WithoutIs ==
  ASSUME NEW s \in Seq(Nat), NEW n \in 0..Len(s)
  PROVE  /\ Without(s, n) \in Seq(Nat) /\ Len(Without(s, n)) = Len(s) - n
         /\ \A j \in 1..(Len(s) - n) : Without(s, n)[j] = s[n + j]
  BY DEF Without

\* Pruning keeps a window sound.
LEMMA PruningSound ==
  ASSUME NEW ev, NEW adm, NEW prom, NEW limit \in Nat \ {0}, NEW t \in Nat, NEW at \in Nat,
         NEW n \in 0..Len(ev), WindowInv(ev, adm, prom, limit, t), Prunes(ev, at, n), at <= t
  PROVE  WindowInv(Without(ev, n), adm, prom, limit, t)
<1> DEFINE s == Without(ev, n)
<1>1. /\ ev \in Seq(Nat) /\ adm \in Seq(Nat) /\ Len(ev) \in Nat /\ Len(adm) \in Nat
      /\ Len(ev) <= limit /\ Len(ev) <= Len(adm) /\ Window \in Nat
  BY ProtectionAssumption DEF WindowInv
<1>2. s \in Seq(Nat) /\ Len(s) = Len(ev) - n /\ \A j \in 1..(Len(ev) - n) : s[j] = ev[n + j]
  BY <1>1, WithoutIs
<1>3. \A j \in 1..Len(s) : s[j] = adm[Len(adm) - Len(s) + j]
  <2> TAKE j \in 1..Len(s)
  <2>1. n \in Nat /\ j \in Nat /\ j >= 1 /\ j <= Len(ev) - n
    BY <1>1, <1>2
  <2>2. n + j \in 1..Len(ev) /\ j \in 1..(Len(ev) - n)
    BY <1>1, <2>1
  <2>3. Len(adm) - Len(ev) + (n + j) = Len(adm) - Len(s) + j
    BY <1>1, <1>2, <2>1
  <2>4. ev[n + j] = adm[Len(adm) - Len(ev) + (n + j)]
    BY <2>2 DEF WindowInv
  <2> QED
    BY <1>2, <2>2, <2>3, <2>4
<1>4. \A i \in 1..(Len(adm) - Len(s)) : adm[i] + Window <= t
  <2> TAKE i \in 1..(Len(adm) - Len(s))
  <2>1. CASE i \in 1..(Len(adm) - Len(ev))
    BY <2>1 DEF WindowInv
  <2>2. CASE i \notin 1..(Len(adm) - Len(ev))
    <3> DEFINE j == i - (Len(adm) - Len(ev))
    <3>1. j \in 1..n /\ j \in 1..Len(ev) /\ Len(adm) - Len(ev) + j = i
      <4>1. PICK a \in Nat, l \in Nat : a = Len(adm) /\ l = Len(ev)
        BY <1>1
      <4>2. i \in 1..(a - (l - n)) /\ i \notin 1..(a - l) /\ n \in 0..l /\ l <= a
        BY <1>1, <1>2, <2>2, <4>1
      <4>3. i - (a - l) \in 1..n /\ a - l + (i - (a - l)) = i
        BY <4>2
      <4> QED
        BY <4>1, <4>2, <4>3
    <3> HIDE DEF j
    <3>2. ev[j] = adm[i]
      BY <3>1 DEF WindowInv
    <3>3. ev[j] \in Nat /\ Expired(ev[j], at)
      <4>1. ev \in Seq(Nat) /\ j \in 1..Len(ev)
        BY <1>1, <3>1
      <4>2. ev[j] \in Nat
        BY <4>1
      <4>3. Expired(ev[j], at)
        BY <3>1 DEF Prunes
      <4> QED
        BY <4>2, <4>3
    <3>4. PICK r \in Nat : r = adm[i]
      BY <3>2, <3>3
    <3>5. r + Window <= at
      BY <3>2, <3>3, <3>4 DEF Expired
    <3>6. r + Window <= t
      <4>1. \A x, y, z \in Nat : x <= y /\ y <= z => x <= z
        OBVIOUS
      <4>2. Window \in Nat
        BY ProtectionAssumption
      <4>3. r + Window \in Nat
        BY <4>2
      <4> QED
        BY <3>5, <4>1, <4>3
    <3> QED
      BY <3>4, <3>6
  <2> QED
    BY <2>1, <2>2
<1>5. Len(s) >= limit => s = ev
  <2>1. Len(s) >= limit => n = 0
    BY <1>1, <1>2
  <2>2. Without(ev, 0) = ev
    BY <1>1 DEF Without
  <2> QED
    BY <2>1, <2>2
<1>6. prom \in Nat \cup {None} /\ (prom # None /\ Len(s) >= limit => s[1] + Window <= prom)
  BY <1>5 DEF WindowInv
<1> QED
  BY <1>1, <1>2, <1>3, <1>4, <1>6 DEF WindowInv

\* A denial promises the time its oldest reading expires.
LEMMA DenialSound ==
  ASSUME NEW ev, NEW adm, NEW prom, NEW limit \in Nat \ {0}, NEW t \in Nat,
         WindowInv(ev, adm, prom, limit, t), Len(ev) >= limit
  PROVE  WindowInv(ev, adm, ev[1] + Window, limit, t)
<1>1. ev \in Seq(Nat) /\ 1 \in 1..Len(ev) /\ Window \in Nat
  BY ProtectionAssumption DEF WindowInv
<1>2. ev[1] + Window \in Nat
  BY <1>1
<1> QED
  BY <1>2 DEF WindowInv

\* An admission is entered at the end and clears the promise.
LEMMA AdmissionSound ==
  ASSUME NEW ev, NEW adm, NEW prom, NEW limit \in Nat \ {0}, NEW t \in Nat, NEW at \in Nat,
         WindowInv(ev, adm, prom, limit, t), Len(ev) < limit
  PROVE  WindowInv(Append(ev, at), Append(adm, at), None, limit, t)
<1> DEFINE ev2  == Append(ev, at)
           adm2 == Append(adm, at)
<1>1. /\ ev \in Seq(Nat) /\ adm \in Seq(Nat) /\ Len(ev) \in Nat /\ Len(adm) \in Nat
      /\ Len(ev) <= Len(adm)
  BY DEF WindowInv
<1>2. /\ ev2 \in Seq(Nat) /\ Len(ev2) = Len(ev) + 1 /\ ev2[Len(ev) + 1] = at
      /\ \A j \in 1..Len(ev) : ev2[j] = ev[j]
  BY <1>1
<1>3. /\ adm2 \in Seq(Nat) /\ Len(adm2) = Len(adm) + 1 /\ adm2[Len(adm) + 1] = at
      /\ \A j \in 1..Len(adm) : adm2[j] = adm[j]
  BY <1>1
<1>4. \A j \in 1..Len(ev2) : ev2[j] = adm2[Len(adm2) - Len(ev2) + j]
  <2> TAKE j \in 1..Len(ev2)
  <2>1. CASE j = Len(ev) + 1
    BY <1>1, <1>2, <1>3, <2>1
  <2>2. CASE j \in 1..Len(ev)
    <3>1. ev[j] = adm[Len(adm) - Len(ev) + j] /\ Len(adm) - Len(ev) + j \in 1..Len(adm)
      BY <1>1, <2>2 DEF WindowInv
    <3>2. Len(adm2) - Len(ev2) + j = Len(adm) - Len(ev) + j
      BY <1>1, <1>2, <1>3
    <3> QED
      BY <1>2, <1>3, <2>2, <3>1, <3>2
  <2>3. j = Len(ev) + 1 \/ j \in 1..Len(ev)
    BY <1>1, <1>2
  <2> QED
    BY <2>1, <2>2, <2>3
<1>5. \A i \in 1..(Len(adm2) - Len(ev2)) : adm2[i] + Window <= t
  <2> TAKE i \in 1..(Len(adm2) - Len(ev2))
  <2>1. i \in 1..(Len(adm) - Len(ev)) /\ i \in 1..Len(adm)
    BY <1>1, <1>2, <1>3
  <2> QED
    BY <1>3, <2>1 DEF WindowInv
<1>6. Len(ev2) <= limit /\ Len(ev2) <= Len(adm2)
  BY <1>1, <1>2, <1>3
<1> QED
  BY <1>2, <1>3, <1>4, <1>5, <1>6 DEF WindowInv

\* Time passes.
LEMMA WaitingSound ==
  ASSUME NEW ev, NEW adm, NEW prom, NEW limit \in Nat \ {0}, NEW t \in Nat,
         WindowInv(ev, adm, prom, limit, t)
  PROVE  WindowInv(ev, adm, prom, limit, t + 1)
<1>1. \A i \in 1..(Len(adm) - Len(ev)) : adm[i] + Window <= t + 1
  <2> TAKE i \in 1..(Len(adm) - Len(ev))
  <2>1. Window \in Nat
    BY ProtectionAssumption
  <2>2. adm[i] \in Nat
    BY DEF WindowInv
  <2>3. adm[i] + Window <= t
    BY DEF WindowInv
  <2> QED
    BY <2>1, <2>2, <2>3
<1> QED
  BY <1>1 DEF WindowInv

\* A call that has read the clock names windows that exist, at a past reading.
LEMMA CallTyped ==
  ASSUME ClockInv, NEW t \in Thread, Busy(t)
  PROVE  /\ call[t].reading \in Nat /\ call[t].reading <= now
         /\ OfWorkspace(call[t]) \in WindowId
         /\ ByAddress(call[t]) => OfAddress(call[t]) \in WindowId
         /\ OfWorkspace(call[t]) # OfAddress(call[t])
<1>1. call[t] \in [reading : Nat, action : Action, workspace : Workspace,
                   address : Address \cup {None}]
  BY DEF ClockInv, CallType, Busy
<1>2. call[t].action \in Action /\ call[t].workspace \in Workspace
      /\ call[t].address \in Address \cup {None}
  BY <1>1
<1>3. OfWorkspace(call[t]) \in WindowId
  BY <1>2 DEF OfWorkspace, WindowId
<1>4. ByAddress(call[t]) => OfAddress(call[t]) \in WindowId
  BY <1>2 DEF ByAddress, OfAddress, WindowId
<1>5. OfWorkspace(call[t]) # OfAddress(call[t])
  BY <1>2, ProtectionAssumption DEF OfWorkspace, OfAddress
<1> QED
  BY <1>1, <1>3, <1>4, <1>5 DEF ClockInv

LEMMA ClockStep == ClockInv /\ Next => ClockInv'
<1> SUFFICES ASSUME ClockInv, Next PROVE ClockInv'
  OBVIOUS
<1>1. ASSUME UNCHANGED <<now, call>> PROVE ClockInv'
  BY <1>1 DEF ClockInv, Busy
<1>2. ASSUME NEW t \in Thread, Decide(t) PROVE ClockInv'
  <2>1. now' = now /\ call' = [call EXCEPT ![t] = Idle] /\ Idle \in CallType
    BY <1>2 DEF Decide, CallType
  <2>2. \A q \in Thread : Busy(q)' => call'[q] = call[q] /\ Busy(q)
    BY <2>1 DEF ClockInv, Busy
  <2> QED
    BY <2>1, <2>2 DEF ClockInv
<1>3. ASSUME NEW t \in Thread, NEW action \in Action, NEW w \in Workspace,
             NEW a \in Address \cup {None}, Consume(t, action, w, a)
      PROVE  ClockInv'
  <2> DEFINE c == [reading |-> now, action |-> action, workspace |-> w, address |-> a]
  <2>1. now' = now /\ call' = [call EXCEPT ![t] = c]
    BY <1>3 DEF Consume
  <2>2. c \in CallType /\ c.reading <= now
    BY DEF ClockInv, CallType
  <2> QED
    BY <2>1, <2>2 DEF ClockInv, Busy
<1>4. ASSUME Tick PROVE ClockInv'
  <2>1. now' = now + 1 /\ UNCHANGED call
    BY <1>4 DEF Tick, windows
  <2>2. \A t \in Thread : Busy(t) => call[t].reading \in Nat /\ call[t].reading <= now
    BY CallTyped
  <2> QED
    BY <2>1, <2>2 DEF ClockInv, Busy
<1>5. ASSUME NEW w \in Workspace,
             AcquireJob(w) \/ ReleaseJob(w) \/ EnqueueJob(w) \/ DequeueJob(w)
      PROVE  ClockInv'
  BY <1>1, <1>5 DEF AcquireJob, ReleaseJob, EnqueueJob, DequeueJob, windows
<1>6. ASSUME NEW usd \in Amount, RecordProviderCost(usd) PROVE ClockInv'
  BY <1>1, <1>6 DEF RecordProviderCost, windows
<1>7. ASSUME ReadBudgetMode \/ ResetDailyBudget PROVE ClockInv'
  BY <1>1, <1>7 DEF ReadBudgetMode, ResetDailyBudget, windows
<1>8. ASSUME NEW enabled \in BOOLEAN, SetEmergencyDeterministic(enabled) PROVE ClockInv'
  BY <1>1, <1>8 DEF SetEmergencyDeterministic, windows
<1> QED
  BY <1>2, <1>3, <1>4, <1>5, <1>6, <1>7, <1>8
  DEF Next, DenyBudget, DenyWorkspace, DenyAddress, Admit

\* A pruned window, as the actions write it, is sound.
LEMMA PrunedSound ==
  ASSUME ClockInv, WindowsInv, NEW win \in WindowId, NEW at \in Nat, at <= now,
         NEW s, Pruned(win, at, s)
  PROVE  WindowInv(s, admitted[win], promised[win], LimitOf(win), now)
<1>1. PICK n \in 0..Len(events[win]) : Prunes(events[win], at, n) /\ s = Without(events[win], n)
  BY DEF Pruned
<1>2. WindowInv(events[win], admitted[win], promised[win], LimitOf(win), now)
  BY DEF WindowsInv
<1>3. LimitOf(win) \in Nat \ {0} /\ now \in Nat
  BY LimitTyped DEF ClockInv
<1> QED
  BY <1>1, <1>2, <1>3, PruningSound

LEMMA WindowsStep == ClockInv /\ WindowsInv /\ Next => WindowsInv'
<1> SUFFICES ASSUME ClockInv, WindowsInv, Next PROVE WindowsInv'
  OBVIOUS
<1>l. \A win \in WindowId : LimitOf(win) \in Nat \ {0}
  BY LimitTyped
<1>n. now \in Nat
  BY DEF ClockInv
<1>1. ASSUME UNCHANGED <<now, events, admitted, promised>> PROVE WindowsInv'
  BY <1>1 DEF WindowsInv
<1>2. ASSUME NEW t \in Thread, DenyWorkspace(t) PROVE WindowsInv'
  <2> DEFINE c == call[t]
             win == OfWorkspace(c)
  <2>1. Busy(t) /\ now' = now /\ UNCHANGED admitted
    BY <1>2 DEF DenyWorkspace, Decide
  <2>2. PICK s : /\ Pruned(win, c.reading, s) /\ Len(s) >= LimitOf(win)
                 /\ events' = [events EXCEPT ![win] = s]
                 /\ promised' = [promised EXCEPT ![win] = s[1] + Window]
    BY <1>2 DEF DenyWorkspace
  <2>3. win \in WindowId /\ c.reading \in Nat /\ c.reading <= now
    BY <2>1, CallTyped
  <2>4. WindowInv(s, admitted[win], promised[win], LimitOf(win), now)
    BY <2>2, <2>3, PrunedSound
  <2>5. WindowInv(s, admitted[win], s[1] + Window, LimitOf(win), now)
    BY <1>l, <1>n, <2>2, <2>3, <2>4, DenialSound
  <2> QED
    BY <2>1, <2>2, <2>3, <2>5 DEF WindowsInv
<1>3. ASSUME NEW t \in Thread, DenyAddress(t) PROVE WindowsInv'
  <2> DEFINE c == call[t]
             win == OfWorkspace(c)
             ip == OfAddress(c)
  <2>1. Busy(t) /\ now' = now /\ UNCHANGED admitted /\ ByAddress(c)
    BY <1>3 DEF DenyAddress, Decide
  <2>2. PICK s, q : /\ Pruned(win, c.reading, s)
                    /\ Pruned(ip, c.reading, q) /\ Len(q) >= LimitOf(ip)
                    /\ events' = [events EXCEPT ![win] = s, ![ip] = q]
                    /\ promised' = [promised EXCEPT ![ip] = q[1] + Window]
    BY <1>3 DEF DenyAddress
  <2>3. win \in WindowId /\ ip \in WindowId /\ win # ip
        /\ c.reading \in Nat /\ c.reading <= now
    BY <2>1, CallTyped
  <2>4. WindowInv(s, admitted[win], promised[win], LimitOf(win), now)
    BY <2>2, <2>3, PrunedSound
  <2>5. WindowInv(q, admitted[ip], promised[ip], LimitOf(ip), now)
    BY <2>2, <2>3, PrunedSound
  <2>6. WindowInv(q, admitted[ip], q[1] + Window, LimitOf(ip), now)
    BY <1>l, <1>n, <2>2, <2>3, <2>5, DenialSound
  <2> QED
    BY <2>1, <2>2, <2>3, <2>4, <2>6 DEF WindowsInv
<1>4. ASSUME NEW t \in Thread, Admit(t) PROVE WindowsInv'
  <2> DEFINE c == call[t]
  <2>1. Busy(t) /\ now' = now
    BY <1>4 DEF Admit, Decide
  <2>2. PICK kept :
          /\ \A win \in Entered(c) :
               Pruned(win, c.reading, kept[win]) /\ Len(kept[win]) < LimitOf(win)
          /\ events' = [win \in WindowId |->
               IF win \in Entered(c) THEN Append(kept[win], c.reading) ELSE events[win]]
    BY <1>4 DEF Admit
  <2>3. /\ admitted' = [win \in WindowId |->
             IF win \in Entered(c) THEN Append(admitted[win], c.reading) ELSE admitted[win]]
        /\ promised' = [win \in WindowId |-> IF win \in Entered(c) THEN None ELSE promised[win]]
    BY <1>4 DEF Admit
  <2>4. c.reading \in Nat /\ c.reading <= now
    BY <2>1, CallTyped
  <2>5. ASSUME NEW win \in WindowId
        PROVE  WindowInv(events'[win], admitted'[win], promised'[win], LimitOf(win), now)
    <3>1. CASE win \notin Entered(c)
      BY <2>2, <2>3, <3>1 DEF WindowsInv
    <3>2. CASE win \in Entered(c)
      <4>1. WindowInv(kept[win], admitted[win], promised[win], LimitOf(win), now)
        BY <2>2, <2>4, <3>2, PrunedSound
      <4>2. WindowInv(Append(kept[win], c.reading), Append(admitted[win], c.reading), None,
                      LimitOf(win), now)
        BY <1>l, <1>n, <2>2, <2>4, <3>2, <4>1, AdmissionSound
      <4> QED
        BY <2>2, <2>3, <3>2, <4>2
    <3> QED
      BY <3>1, <3>2
  <2> QED
    BY <2>1, <2>2, <2>3, <2>5 DEF WindowsInv
<1>5. ASSUME Tick PROVE WindowsInv'
  <2>1. now' = now + 1 /\ UNCHANGED <<events, admitted, promised>>
    BY <1>5 DEF Tick, windows
  <2>2. \A win \in WindowId :
          WindowInv(events[win], admitted[win], promised[win], LimitOf(win), now + 1)
    BY <1>l, <1>n, WaitingSound DEF WindowsInv
  <2> QED
    BY <2>1, <2>2 DEF WindowsInv
<1>6. ASSUME NEW t \in Thread, DenyBudget(t) PROVE WindowsInv'
  BY <1>1, <1>6 DEF DenyBudget, Decide
<1>7. ASSUME NEW t \in Thread, NEW action \in Action, NEW w \in Workspace,
             NEW a \in Address \cup {None}, Consume(t, action, w, a)
      PROVE  WindowsInv'
  BY <1>1, <1>7 DEF Consume
<1>8. ASSUME NEW w \in Workspace,
             AcquireJob(w) \/ ReleaseJob(w) \/ EnqueueJob(w) \/ DequeueJob(w)
      PROVE  WindowsInv'
  BY <1>1, <1>8 DEF AcquireJob, ReleaseJob, EnqueueJob, DequeueJob, windows
<1>9. ASSUME NEW usd \in Amount, RecordProviderCost(usd) PROVE WindowsInv'
  BY <1>1, <1>9 DEF RecordProviderCost, windows
<1>10. ASSUME ReadBudgetMode \/ ResetDailyBudget PROVE WindowsInv'
  BY <1>1, <1>10 DEF ReadBudgetMode, ResetDailyBudget, windows
<1>11. ASSUME NEW enabled \in BOOLEAN, SetEmergencyDeterministic(enabled) PROVE WindowsInv'
  BY <1>1, <1>11 DEF SetEmergencyDeterministic, windows
<1> QED
  BY <1>2, <1>3, <1>4, <1>5, <1>6, <1>7, <1>8, <1>9, <1>10, <1>11 DEF Next

-----------------------------------------------------------------------------
(* Jobs *)

LEMMA JobsFinite == IsFiniteSet(Jobs)
<1>1. IsFiniteSet(Workspace) /\ ActiveLimit \in Int
  BY ProtectionAssumption
<1>2. IsFiniteSet(1..ActiveLimit)
  BY <1>1, FS_Interval
<1>3. IsFiniteSet(Workspace \X (1..ActiveLimit))
  BY <1>1, <1>2, FS_Product
<1>4. Jobs \in SUBSET (Workspace \X (1..ActiveLimit))
  BY DEF Jobs
<1> QED
  BY <1>3, <1>4, FS_Subset

\* An acquired job is a new one.
LEMMA AcquireAdds ==
  ASSUME JobsInv, NEW w \in Workspace, AcquireJob(w)
  PROVE  /\ Jobs' = Jobs \cup {<<w, active[w] + 1>>}
         /\ <<w, active[w] + 1>> \notin Jobs
<1> DEFINE new == <<w, active[w] + 1>>
<1>0. /\ active \in [Workspace -> 0..ActiveLimit] /\ ActiveLimit \in Nat
      /\ active[w] \in Nat /\ active[w] + 1 \in 1..ActiveLimit
      /\ active' = [active EXCEPT ![w] = @ + 1]
  BY ProtectionAssumption DEF JobsInv, AcquireJob
<1>1. new \in Jobs' /\ new \notin Jobs
  BY <1>0 DEF Jobs
<1>2. ASSUME NEW job \in Workspace \X (1..ActiveLimit), job # new
      PROVE  job[2] <= active'[job[1]] <=> job[2] <= active[job[1]]
  <2>1. CASE job[1] # w
    BY <1>0, <2>1
  <2>2. CASE job[1] = w
    <3>1. job[2] # active[w] + 1 /\ job[2] \in 1..ActiveLimit
      BY <1>2, <2>2
    <3> QED
      BY <1>0, <2>2, <3>1
  <2> QED
    BY <2>1, <2>2
<1> QED
  BY <1>1, <1>2 DEF Jobs

\* A released job is one there was.
LEMMA ReleaseRemoves ==
  ASSUME JobsInv, NEW w \in Workspace, ReleaseJob(w)
  PROVE  Jobs' = Jobs \ {<<w, active[w]>>} /\ <<w, active[w]>> \in Jobs
<1> DEFINE old == <<w, active[w]>>
<1>0. /\ active \in [Workspace -> 0..ActiveLimit] /\ ActiveLimit \in Nat
      /\ active[w] \in 1..ActiveLimit
      /\ active' = [active EXCEPT ![w] = @ - 1]
  BY ProtectionAssumption DEF JobsInv, ReleaseJob
<1>1. old \in Jobs /\ old \notin Jobs'
  BY <1>0 DEF Jobs
<1>2. ASSUME NEW job \in Workspace \X (1..ActiveLimit), job # old
      PROVE  job[2] <= active'[job[1]] <=> job[2] <= active[job[1]]
  <2>1. CASE job[1] # w
    BY <1>0, <2>1
  <2>2. CASE job[1] = w
    <3>1. job[2] # active[w] /\ job[2] \in 1..ActiveLimit
      BY <1>2, <2>2
    <3> QED
      BY <1>0, <2>2, <3>1
  <2> QED
    BY <2>1, <2>2
<1> QED
  BY <1>1, <1>2 DEF Jobs

LEMMA JobsStep == JobsInv /\ Next => JobsInv'
<1> SUFFICES ASSUME JobsInv, Next PROVE JobsInv'
  OBVIOUS
<1>t. /\ active \in [Workspace -> 0..ActiveLimit] /\ globalJobs \in 0..GlobalLimit
      /\ queued \in [Workspace -> 0..QueueLimit] /\ globalJobs = Cardinality(Jobs)
  BY DEF JobsInv, JobsAccounted
<1>l. {ActiveLimit, GlobalLimit, QueueLimit} \subseteq Nat
  BY ProtectionAssumption
<1>1. ASSUME UNCHANGED jobs PROVE JobsInv'
  BY <1>1 DEF JobsInv, JobsAccounted, Jobs, jobs
<1>2. ASSUME NEW w \in Workspace, AcquireJob(w) PROVE JobsInv'
  <2>1. Cardinality(Jobs') = Cardinality(Jobs) + 1
    BY <1>2, AcquireAdds, JobsFinite, FS_AddElement
  <2>2. active' \in [Workspace -> 0..ActiveLimit]
    BY <1>2, <1>t, <1>l DEF AcquireJob
  <2>3. globalJobs' = globalJobs + 1 /\ globalJobs' \in 0..GlobalLimit /\ queued' = queued
    BY <1>2, <1>t, <1>l DEF AcquireJob
  <2> QED
    BY <1>t, <2>1, <2>2, <2>3 DEF JobsInv, JobsAccounted
<1>3. ASSUME NEW w \in Workspace, ReleaseJob(w) PROVE JobsInv'
  <2>1. Cardinality(Jobs') = Cardinality(Jobs) - 1
    BY <1>3, ReleaseRemoves, JobsFinite, FS_RemoveElement
  <2>2. Cardinality(Jobs) > 0
    <3>1. Cardinality(Jobs) # 0
      BY <1>3, ReleaseRemoves, JobsFinite, FS_EmptySet
    <3> QED
      BY <1>t, <1>l, <3>1
  <2>3. active' \in [Workspace -> 0..ActiveLimit]
    BY <1>3, <1>t, <1>l DEF ReleaseJob
  <2>4. globalJobs' = globalJobs - 1 /\ globalJobs' \in 0..GlobalLimit /\ queued' = queued
    BY <1>3, <1>t, <1>l, <2>2 DEF ReleaseJob
  <2> QED
    BY <1>t, <2>1, <2>3, <2>4 DEF JobsInv, JobsAccounted
<1>4. ASSUME NEW w \in Workspace, EnqueueJob(w) \/ DequeueJob(w) PROVE JobsInv'
  <2>1. UNCHANGED <<active, globalJobs>>
    BY <1>4 DEF EnqueueJob, DequeueJob
  <2>2. queued' \in [Workspace -> 0..QueueLimit]
    BY <1>4, <1>t, <1>l DEF EnqueueJob, DequeueJob
  <2> QED
    BY <1>t, <2>1, <2>2 DEF JobsInv, JobsAccounted, Jobs
<1>5. ASSUME NEW t \in Thread, DenyBudget(t) \/ DenyWorkspace(t) \/ DenyAddress(t) \/ Admit(t)
      PROVE  JobsInv'
  BY <1>1, <1>5 DEF DenyBudget, DenyWorkspace, DenyAddress, Admit, Decide
<1>6. ASSUME NEW t \in Thread, NEW action \in Action, NEW w \in Workspace,
             NEW a \in Address \cup {None}, Consume(t, action, w, a)
      PROVE  JobsInv'
  BY <1>1, <1>6 DEF Consume
<1>7. ASSUME NEW usd \in Amount, RecordProviderCost(usd) PROVE JobsInv'
  BY <1>1, <1>7 DEF RecordProviderCost
<1>8. ASSUME ReadBudgetMode \/ ResetDailyBudget \/ Tick PROVE JobsInv'
  BY <1>1, <1>8 DEF ReadBudgetMode, ResetDailyBudget, Tick
<1>9. ASSUME NEW enabled \in BOOLEAN, SetEmergencyDeterministic(enabled) PROVE JobsInv'
  BY <1>1, <1>9 DEF SetEmergencyDeterministic
<1> QED
  BY <1>2, <1>3, <1>4, <1>5, <1>6, <1>7, <1>8, <1>9 DEF Next

-----------------------------------------------------------------------------
(* The budget *)

\* A day is not over before it has begun.
LEMMA DaysPass ==
  ASSUME NEW t \in Nat
  PROVE  t \div Day \in Nat /\ (t + 1) \div Day \in Nat /\ t \div Day <= (t + 1) \div Day
<1>1. Day \in Nat /\ Day > 0
  BY ProtectionAssumption
<1> QED
  BY <1>1, Z3

LEMMA BudgetStep == ClockInv /\ BudgetInv /\ Next => BudgetInv'
<1> SUFFICES ASSUME ClockInv, BudgetInv, Next PROVE BudgetInv'
  OBVIOUS
<1>t. /\ spend \in Nat /\ emergency \in BOOLEAN /\ spentToday \in Nat /\ now \in Nat
      /\ budgetDay = None \/ (budgetDay \in Nat /\ budgetDay <= Today)
      /\ Rolled = spentToday
  BY DEF BudgetInv, SpendIsTodays, ClockInv
<1>d. Today \in Nat /\ None \notin Nat
  BY <1>t, DaysPass, ProtectionAssumption DEF Today
<1>1. ASSUME UNCHANGED <<now, budget>> PROVE BudgetInv'
  BY <1>1 DEF BudgetInv, SpendIsTodays, Rolled, Today, budget
<1>2. ASSUME now' = now, Roll, UNCHANGED <<emergency, spentToday>> PROVE BudgetInv'
  <2>1. Today' = Today /\ budgetDay' = Today /\ spend' = spentToday
    BY <1>2, <1>t DEF Roll, Today
  <2> QED
    BY <1>2, <1>t, <1>d, <2>1 DEF BudgetInv, SpendIsTodays, Rolled
<1>3. ASSUME NEW t \in Thread, Decide(t) PROVE BudgetInv'
  BY <1>1, <1>2, <1>3 DEF Decide, AgentRoll
<1>4. ASSUME ReadBudgetMode PROVE BudgetInv'
  BY <1>2, <1>4 DEF ReadBudgetMode
<1>5. ASSUME NEW usd \in Amount, RecordProviderCost(usd) PROVE BudgetInv'
  <2>1. usd \in Nat
    BY ProtectionAssumption
  <2>2. /\ Today' = Today /\ budgetDay' = Today /\ spend' = spentToday + usd
        /\ spentToday' = spentToday + usd /\ emergency' = emergency
    BY <1>5, <1>t DEF RecordProviderCost, Today
  <2> QED
    BY <1>t, <1>d, <2>1, <2>2 DEF BudgetInv, SpendIsTodays, Rolled
<1>6. ASSUME ResetDailyBudget PROVE BudgetInv'
  <2>1. /\ Today' = Today /\ budgetDay' = Today /\ spend' = 0 /\ spentToday' = 0
        /\ emergency' = emergency
    BY <1>6 DEF ResetDailyBudget, Today
  <2> QED
    BY <1>t, <1>d, <2>1 DEF BudgetInv, SpendIsTodays, Rolled
<1>7. ASSUME NEW enabled \in BOOLEAN, SetEmergencyDeterministic(enabled) PROVE BudgetInv'
  <2>1. UNCHANGED <<now, spend, budgetDay, spentToday>> /\ emergency' \in BOOLEAN
    BY <1>7 DEF SetEmergencyDeterministic
  <2> QED
    BY <2>1 DEF BudgetInv, SpendIsTodays, Rolled, Today
<1>8. ASSUME Tick PROVE BudgetInv'
  <2>1. /\ UNCHANGED <<spend, budgetDay, emergency>>
        /\ spentToday' = IF Today' = Today THEN spentToday ELSE 0
        /\ Today' \in Nat /\ Today <= Today'
    BY <1>8, <1>t, DaysPass DEF Tick, Today
  <2>2. CASE Today' = Today
    BY <1>t, <2>1, <2>2 DEF BudgetInv, SpendIsTodays, Rolled
  <2>3. CASE Today' # Today
    BY <1>t, <1>d, <2>1, <2>3 DEF BudgetInv, SpendIsTodays, Rolled
  <2> QED
    BY <2>2, <2>3
<1>9. ASSUME NEW w \in Workspace,
             AcquireJob(w) \/ ReleaseJob(w) \/ EnqueueJob(w) \/ DequeueJob(w)
      PROVE  BudgetInv'
  BY <1>1, <1>9 DEF AcquireJob, ReleaseJob, EnqueueJob, DequeueJob
<1>10. ASSUME NEW t \in Thread, NEW action \in Action, NEW w \in Workspace,
              NEW a \in Address \cup {None}, Consume(t, action, w, a)
       PROVE  BudgetInv'
  BY <1>1, <1>10 DEF Consume
<1> QED
  BY <1>3, <1>4, <1>5, <1>6, <1>7, <1>8, <1>9, <1>10
  DEF Next, DenyBudget, DenyWorkspace, DenyAddress, Admit

-----------------------------------------------------------------------------
(* Theorems *)

LEMMA ProtectionInit == Init => ProtectionInv
<1> SUFFICES ASSUME Init PROVE ProtectionInv
  OBVIOUS
<1>0. /\ None \notin Nat /\ {ActiveLimit, GlobalLimit, QueueLimit} \subseteq Nat
      /\ \A win \in WindowId : LimitOf(win) \in Nat \ {0}
  BY ProtectionAssumption, LimitTyped
<1>1. ClockInv
  BY DEF Init, ClockInv, CallType, Busy
<1>2. WindowsInv
  <2>1. \A limit \in Nat \ {0} : WindowInv(<<>>, <<>>, None, limit, now)
    BY DEF WindowInv
  <2> QED
    BY <1>0, <2>1 DEF Init, WindowsInv
<1>3. JobsInv
  <2>1. Jobs = {}
    BY <1>0 DEF Init, Jobs
  <2> QED
    BY <1>0, <2>1, FS_EmptySet DEF Init, JobsInv, JobsAccounted
<1>4. BudgetInv
  BY DEF Init, BudgetInv, SpendIsTodays, Rolled
<1> QED
  BY <1>1, <1>2, <1>3, <1>4 DEF ProtectionInv

\* The inductive invariant of the demo protection, in every reachable state.
THEOREM ProtectionInvariant == Spec => []ProtectionInv
<1>1. ProtectionInv /\ [Next]_vars => ProtectionInv'
  <2>1. ProtectionInv /\ Next => ProtectionInv'
    BY ClockStep, WindowsStep, JobsStep, BudgetStep DEF ProtectionInv
  <2>2. ProtectionInv /\ UNCHANGED vars => ProtectionInv'
    <3> SUFFICES ASSUME ProtectionInv, UNCHANGED vars PROVE ProtectionInv'
      OBVIOUS
    <3>1. ClockInv' /\ WindowsInv'
      BY DEF ProtectionInv, ClockInv, Busy, WindowsInv, vars, windows
    <3>2. JobsInv'
      BY DEF ProtectionInv, JobsInv, JobsAccounted, Jobs, vars, jobs
    <3>3. BudgetInv'
      BY DEF ProtectionInv, BudgetInv, SpendIsTodays, Rolled, Today, vars, budget
    <3> QED
      BY <3>1, <3>2, <3>3 DEF ProtectionInv
  <2> QED
    BY <2>1, <2>2
<1> QED
  BY ProtectionInit, <1>1, PTL DEF Spec

\* No window, job count or queue ever exceeds its limit.
THEOREM ProtectionTypeCorrect == Spec => []TypeOK
<1>1. ProtectionInv => TypeOK
  <2> SUFFICES ASSUME ProtectionInv PROVE TypeOK
    OBVIOUS
  <2>1. /\ events \in [WindowId -> Seq(Nat)] /\ admitted \in [WindowId -> Seq(Nat)]
        /\ promised \in [WindowId -> Nat \cup {None}]
        /\ \A win \in WindowId : Len(events[win]) <= LimitOf(win)
    BY DEF ProtectionInv, WindowsInv, WindowInv
  <2>2. budgetDay \in Nat \cup {None}
    BY DEF ProtectionInv, BudgetInv
  <2> QED
    BY <2>1, <2>2 DEF ProtectionInv, ClockInv, JobsInv, BudgetInv, TypeOK
<1> QED
  BY ProtectionInvariant, <1>1, PTL

\* Of a log whose entries before the last len are a whole window old, at most len
\* are recent.
LEMMA RecentFew ==
  ASSUME NEW adm \in Seq(Nat), NEW len \in Nat, NEW t \in Nat,
         len <= Len(adm),
         \A i \in 1..(Len(adm) - len) : adm[i] + Window <= t
  PROVE  LET recent == {i \in DOMAIN adm : adm[i] + Window > t}
         IN  IsFiniteSet(recent) /\ Cardinality(recent) \in Nat /\ Cardinality(recent) <= len
<1>1. PICK n \in Nat : n = Len(adm) /\ DOMAIN adm = 1..n
  OBVIOUS
<1>2. Window \in Nat
  BY ProtectionAssumption
<1> DEFINE kept   == (n - len + 1)..n
           recent == {i \in DOMAIN adm : adm[i] + Window > t}
<1>3. recent \in SUBSET kept
  <2> SUFFICES ASSUME NEW i \in 1..n, adm[i] + Window > t PROVE i \in kept
    BY <1>1
  <2>1. adm[i] \in Nat
    BY <1>1
  <2>2. i \notin 1..(n - len)
    BY <1>1, <1>2, <2>1
  <2> QED
    BY <1>1, <2>2
<1>4. IsFiniteSet(kept) /\ Cardinality(kept) = len
  <2>1. n - len + 1 \in Int /\ n \in Int /\ n - len + 1 <= n + 1
    BY <1>1
  <2>2. IsFiniteSet(kept)
        /\ Cardinality(kept) = IF n - len + 1 > n THEN 0 ELSE n - (n - len + 1) + 1
    BY <2>1, FS_Interval
  <2>3. n - len + 1 > n <=> len = 0
    BY <1>1
  <2>4. n - (n - len + 1) + 1 = len
    BY <1>1
  <2> QED
    BY <2>2, <2>3, <2>4
<1> HIDE DEF kept, recent
<1>5. IsFiniteSet(recent) /\ Cardinality(recent) <= Cardinality(kept)
  BY <1>3, <1>4, FS_Subset
<1>6. Cardinality(recent) \in Nat
  BY <1>5, FS_CardinalityType
<1> QED
  BY <1>4, <1>5, <1>6 DEF recent

\* Of the calls that began in the last window no more than the limit are admitted:
\* what was pruned is a whole window old, the rest is still there to be counted.
THEOREM AdmissionsWithinLimit == Spec => []AdmittedWithinLimit
<1>1. ProtectionInv => AdmittedWithinLimit
  <2> SUFFICES ASSUME ProtectionInv, NEW win \in WindowId
               PROVE  Cardinality({i \in DOMAIN admitted[win] : admitted[win][i] + Window > now})
                        <= LimitOf(win)
    BY DEF AdmittedWithinLimit
  <2>1. PICK adm : adm = admitted[win]
    OBVIOUS
  <2>2. PICK len : len = Len(events[win])
    OBVIOUS
  <2>3. WindowInv(events[win], adm, promised[win], LimitOf(win), now)
    BY <2>1 DEF ProtectionInv, WindowsInv
  <2>4. /\ adm \in Seq(Nat) /\ len \in Nat /\ len <= Len(adm) /\ len <= LimitOf(win)
        /\ \A i \in 1..(Len(adm) - len) : adm[i] + Window <= now
    BY <2>2, <2>3 DEF WindowInv
  <2>5. LimitOf(win) \in Nat /\ now \in Nat
    BY LimitTyped DEF ProtectionInv, ClockInv
  <2>6. PICK c : c = Cardinality({i \in DOMAIN adm : adm[i] + Window > now})
    OBVIOUS
  <2>7. c \in Nat /\ c <= len
    BY <2>4, <2>5, <2>6, RecentFew
  <2>8. c <= LimitOf(win)
    BY <2>4, <2>5, <2>7
  <2> QED
    BY <2>1, <2>6, <2>8
<1> QED
  BY ProtectionInvariant, <1>1, PTL

\* A call that begins at or after the reset time of a denial finds room.
THEOREM ResetTimesHonoured == Spec => []ResetTimeHonoured
<1>1. ProtectionInv => ResetTimeHonoured
  <2> SUFFICES ASSUME ProtectionInv, NEW win \in WindowId, promised[win] # None,
                      promised[win] <= now, ~(Len(events[win]) < LimitOf(win))
               PROVE  Expired(events[win][1], now)
    BY DEF ResetTimeHonoured
  <2>1. WindowInv(events[win], admitted[win], promised[win], LimitOf(win), now)
    BY DEF ProtectionInv, WindowsInv
  <2>2. LimitOf(win) \in Nat \ {0} /\ Window \in Nat /\ now \in Nat
    BY LimitTyped, ProtectionAssumption DEF ProtectionInv, ClockInv
  <2>3. /\ events[win] \in Seq(Nat) /\ Len(events[win]) >= LimitOf(win)
        /\ promised[win] \in Nat
    BY <2>1, <2>2 DEF WindowInv
  <2>4. events[win][1] \in Nat /\ events[win][1] + Window <= promised[win]
    BY <2>1, <2>2, <2>3 DEF WindowInv
  <2> QED
    BY <2>2, <2>3, <2>4 DEF Expired
<1> QED
  BY ProtectionInvariant, <1>1, PTL

\* The worker's job count is the number of the workspaces' jobs.
THEOREM JobsAlwaysAccounted == Spec => []JobsAccounted
<1>1. ProtectionInv => JobsAccounted
  BY DEF ProtectionInv, JobsInv
<1> QED
  BY ProtectionInvariant, <1>1, PTL

\* The lazily reset budget is that of the current day.
THEOREM SpendAlwaysTodays == Spec => []SpendIsTodays
<1>1. ProtectionInv => SpendIsTodays
  BY DEF ProtectionInv, BudgetInv
<1> QED
  BY ProtectionInvariant, <1>1, PTL
=============================================================================
