-------------------------- MODULE MCWorkspaceStore --------------------------
(* Instances of WorkspaceStore for TLC. *)
EXTENDS WorkspaceStore, TLC

\* Requests and keys are model values the store only compares.
Symmetry == Permutations(Request) \cup Permutations(Key)
=============================================================================
