------------------------ MODULE MCScheduleLifecycle ------------------------
(* Instances of ScheduleLifecycle for TLC. *)
EXTENDS ScheduleLifecycle, TLC

\* Requests and keys are model values the handlers only compare.
Symmetry == Permutations(Request) \cup Permutations(Key)
=============================================================================
