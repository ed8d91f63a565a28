-------------------------- MODULE MCDemoProtection --------------------------
(* Instances of DemoProtection for TLC. *)
EXTENDS DemoProtection, TLC

\* One call per workspace and window, two agent calls per address (in the cfg).
Limits == [action \in Action |-> 1]

\* The jobs, the budget and the windows share little but the lock and the clock.  The
\* jobs are explored at the first tick and with no call under way; costs and the
\* emergency switch in states where no call has been admitted.
NoJobs   == globalJobs = 0 /\ \A w \in Workspace : queued[w] = 0
NoCalls  == now = 0 /\ \A t \in Thread : ~Busy(t)
NoCosts  == spend = 0 /\ spentToday = 0 /\ ~emergency
NoEvents == \A win \in WindowId : admitted[win] = <<>>
PartsApart == (NoJobs \/ NoCalls) /\ (NoCosts \/ NoEvents)

\* Threads and workspaces are model values the program only compares.
Symmetry == Permutations(Thread) \cup Permutations(Workspace)
=============================================================================
