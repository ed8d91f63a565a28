-------------------------- MODULE OfficialHistory --------------------------
(***************************************************************************)
(* What a workspace promises about its official schedule, whoever          *)
(* publishes and in whatever order requests are served: a history that     *)
(* only grows, one version at a time, numbered from one without a gap, in  *)
(* which a restore is a new version carrying the draft of an earlier one,  *)
(* until the workspace is reset and the history starts again.              *)
(***************************************************************************)
EXTENDS Naturals, Sequences

CONSTANT Draft      \* the drafts that may become official

VARIABLES
  history,          \* official versions, oldest first
  last              \* version identifiers issued so far

Carries(source, draft) ==
  \E i \in DOMAIN history : history[i].id = source /\ history[i].draft = draft

Publish(draft, source) ==
  /\ source # 0 => Carries(source, draft)
  /\ history' = Append(history, [id |-> last + 1, number |-> Len(history) + 1,
                                 draft |-> draft, restoredFrom |-> source])
  /\ last' = last + 1

Reset == history' = <<>> /\ UNCHANGED last

Init == history = <<>> /\ last = 0

Next == (\E draft \in Draft, source \in 0..last : Publish(draft, source)) \/ Reset

Spec == Init /\ [][Next]_<<history, last>>
=============================================================================
