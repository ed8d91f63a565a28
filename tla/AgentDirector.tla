--------------------------- MODULE AgentDirector ---------------------------
(***************************************************************************)
(* The work that is asked of the agents: the turns of the tournament       *)
(* director (app/api/director.py and DirectorRuntime of                    *)
(* app/agents/runtime.py) and the evidence the specialists give after a    *)
(* generation or a repair (app/agents/workflow_orchestrator.py).  A turn's *)
(* first call runs under the director's AgentResilienceManager, whose      *)
(* module this one extends; its second call, with the specialists'         *)
(* evidence, does not.  Specialists run under a manager of their own       *)
(* (app/agents/specialist_runtime.py), of which this module keeps what     *)
(* AgentResilience shows of any manager: a run is answered in the end,     *)
(* with validated output or without.                                       *)
(*                                                                         *)
(* The coroutines interleave at their awaits with each other and with the  *)
(* handlers that change the workspace.  What a model writes is its choice: *)
(* the specialists it requests, and whether its output is valid.           *)
(***************************************************************************)
EXTENDS AgentResilience, Sequences

CONSTANT
  MaxRequests       \* specialists one answer of the director requests

VARIABLES
  task,             \* run -> what its coroutine waits for
  site,             \* what the requests read of the workspace
  shown             \* OperationsState: who answered the last turn

directorVars == <<vars, task, site, shown>>

-----------------------------------------------------------------------------
Specialist == {"rules", "strategy", "weather", "fairness", "recovery"}
Requests   == UNION {[1..n -> Specialist] : n \in 0..MaxRequests}

\* The specialists a workflow runs side by side before the fairness audit.
Workflow == {"generation", "repair"}
Gathered(flow) == IF flow = "generation" THEN {"strategy", "weather"}
                                         ELSE {"weather", "recovery"}

NoTask == [phase |-> "none", ask |-> <<>>, open |-> {}]

Doing(r, phase) == task[r].phase = phase

-----------------------------------------------------------------------------
(* The director's turn *)

\* A turn is over: its answer is what the operations panel of every workspace shows.
Finish(r, answer) ==
  /\ task' = [task EXCEPT ![r] = NoTask]
  /\ shown' = answer

\* build_specialist_request prepares evidence for these; the other requests are
\* skipped (a workspace always has a tournament, a blank one at the least).
Built(role) == role \in {"rules", "strategy", "weather"}

\* A comparison of the options brings in the strategist once there are options.
Normalized(requests, comparison) ==
  IF comparison /\ site.runs /\ \A i \in DOMAIN requests : requests[i] # "strategy"
  THEN Append(requests, "strategy")
  ELSE requests

\* Go on with the requests that are left: the next specialist, the second call of
\* the director if any evidence was collected, or the first answer as it is.
Continue(r, ask, collected) ==
  LET built == {i \in DOMAIN ask : Built(ask[i])} IN
  \/ \E next \in built :
       /\ \A i \in built : next <= i
       /\ task' = [task EXCEPT ![r] =
            [NoTask EXCEPT !.phase = "specialist",
                           !.ask = SubSeq(ask, next + 1, Len(ask))]]
       /\ UNCHANGED shown
  \/ /\ built = {} /\ collected
     /\ task' = [task EXCEPT ![r] = [NoTask EXCEPT !.phase = "direct"]]
     /\ UNCHANGED shown
  \/ built = {} /\ ~collected /\ Finish(r, run'[r].answer)

AskAssumingCall(r) ==                                         \* mutant of Ask
  /\ Doing(r, "none")
  /\ Start(r)
  /\ task' = [task EXCEPT ![r].phase = "managed"]
  /\ UNCHANGED <<site, shown>>

\* Deterministic at once when no circuit lets the turn through or the budget is spent.
Ask(r) ==
  /\ Doing(r, "none")
  /\ Start(r)
  /\ IF run'[r].phase = "idle"
     THEN Finish(r, run'[r].answer)
     ELSE /\ task' = [task EXCEPT ![r].phase = "managed"]
          /\ UNCHANGED shown
  /\ UNCHANGED site

Answer(r) ==
  /\ Doing(r, "managed")
  /\ Succeed(r)
  /\ \E requests \in Requests, comparison \in BOOLEAN :
       Continue(r, Normalized(requests, comparison), FALSE)
  /\ UNCHANGED site

CallFails(r, cause) ==
  /\ Doing(r, "managed")
  /\ Fail(r, cause)
  /\ IF run'[r].phase = "idle" THEN Finish(r, run'[r].answer)
                               ELSE UNCHANGED <<task, shown>>
  /\ UNCHANGED site

Retry(r) ==
  /\ Doing(r, "managed")
  /\ WakeUp(r)
  /\ UNCHANGED <<task, site, shown>>

\* An unavailable specialist is evidence too.
SpecialistAnswers(r) ==
  /\ Doing(r, "specialist")
  /\ UNCHANGED vars
  /\ Continue(r, task[r].ask, TRUE)
  /\ UNCHANGED site

\* The second call goes to the provider of the first, past its circuit and without
\* a timeout; when it fails the handler answers as if there were no director.
DirectAnswers(r) ==
  /\ Doing(r, "direct")
  /\ Finish(r, run[r].answer)
  /\ UNCHANGED <<vars, site>>

DirectFails(r) ==
  /\ Doing(r, "direct")
  /\ Finish(r, "deterministic")
  /\ UNCHANGED <<vars, site>>

-----------------------------------------------------------------------------
(* The evidence of a generation or a repair *)

\* The draft is stored and two specialists are run side by side, their requests made
\* at once; a repair needs an approved draft.
BeginWorkflow(r, flow) ==
  /\ Doing(r, "none") /\ At(r, "idle")
  /\ flow = "repair" => site.runs
  /\ site' = [site EXCEPT !.runs = TRUE, !.drafts = @ \cup {r}]
  /\ task' = [task EXCEPT ![r] = [NoTask EXCEPT !.phase = "gather",
                                                !.open = Gathered(flow)]]
  /\ UNCHANGED <<vars, shown>>

\* The audit's request is made when the other two have answered, from the workspace
\* of that moment: it raises when the draft is gone, and the evidence is lost.
Auditable(r) == r \in site.drafts

\* The draft stays, but no workflow in progress is about it any more.
Forgotten(r) == [site EXCEPT !.drafts = @ \ {r}]

GatherAwaitsDraft(r, role) ==                                 \* mutant of GatherAnswers
  /\ Doing(r, "gather")
  /\ role \in task[r].open
  /\ task[r].open = {role} => Auditable(r)
  /\ task' = [task EXCEPT ![r] = IF task[r].open = {role}
                                 THEN [NoTask EXCEPT !.phase = "audit"]
                                 ELSE [task[r] EXCEPT !.open = @ \ {role}]]
  /\ UNCHANGED <<vars, site, shown>>
GatherAnswers(r, role) ==
  /\ Doing(r, "gather")
  /\ role \in task[r].open
  /\ task' = [task EXCEPT ![r] =
       CASE @.open # {role} -> [task[r] EXCEPT !.open = @ \ {role}]
         [] @.open = {role} /\ Auditable(r) ->
              [NoTask EXCEPT !.phase = "audit"]
         [] OTHER -> NoTask]
  /\ site' = IF task'[r].phase = "none" THEN Forgotten(r) ELSE site
  /\ UNCHANGED <<vars, shown>>

\* All three, available or not, are recorded with the run or the disruption.
AuditAnswers(r) ==
  /\ Doing(r, "audit")
  /\ task' = [task EXCEPT ![r] = NoTask]
  /\ site' = Forgotten(r)
  /\ UNCHANGED <<vars, shown>>

-----------------------------------------------------------------------------
(* Other handlers of the workspace *)

Reset ==
  /\ site.runs
  /\ site' = [runs |-> FALSE, drafts |-> {}]
  /\ UNCHANGED <<vars, task, shown>>

Passing == (Tick \/ SetMode) /\ UNCHANGED <<task, site, shown>>

-----------------------------------------------------------------------------
DirectorInit ==
  /\ Init
  /\ task = [r \in Run |-> NoTask]
  /\ site = [runs |-> FALSE, drafts |-> {}]
  /\ shown = "primary"

Turn(r) ==
  \/ Ask(r) \/ Answer(r) \/ Retry(r)
  \/ \E cause \in Cause : CallFails(r, cause)
  \/ SpecialistAnswers(r) \/ DirectAnswers(r) \/ DirectFails(r)

Evidence(r) ==
  \/ \E flow \in Workflow : BeginWorkflow(r, flow)
  \/ \E role \in Specialist : GatherAnswers(r, role)
  \/ AuditAnswers(r)

DirectorNext ==
  \/ \E r \in Run : Turn(r) \/ Evidence(r)
  \/ Reset \/ Passing

DirectorSpec == DirectorInit /\ [][DirectorNext]_directorVars

\* A managed call ends by its timeout, a specialist run is answered, the event loop
\* runs a ready coroutine and time passes.  The director's second call has no timeout:
\* nothing says that it ends.
DirectorFairness ==
  /\ \A r \in Run :
       /\ WF_directorVars(Answer(r) \/ \E cause \in Cause : CallFails(r, cause))
       /\ WF_directorVars(Retry(r))
       /\ WF_directorVars(SpecialistAnswers(r))
       /\ WF_directorVars(\E role \in Specialist : GatherAnswers(r, role))
       /\ WF_directorVars(AuditAnswers(r))
  /\ WF_directorVars(Tick /\ UNCHANGED <<task, site, shown>>)

DirectorFairSpec == DirectorSpec /\ DirectorFairness

-----------------------------------------------------------------------------
TaskType  == [phase : {"none", "managed", "specialist", "direct", "gather", "audit"},
              ask : Seq(Specialist),
              open : SUBSET Specialist]

\* The type invariant; the manager is busy with a run exactly while its turn waits
\* for the first call, and a second call follows a decision of the first.
DirectorTypeOK ==
  /\ TypeOK
  /\ task \in [Run -> TaskType]
  /\ site \in [runs : BOOLEAN, drafts : SUBSET Run]
  /\ shown \in Provider \cup {"deterministic"}
  /\ \A r \in site.drafts : task[r].phase \in {"gather", "audit"}
  /\ \A r \in Run : Doing(r, "managed") <=> ~At(r, "idle")
  /\ \A r \in Run : task[r].phase \in {"specialist", "direct"} => run[r].answer \in Provider

\* A coroutine is held up by nothing but a second call that never ends: neither by
\* the circuits and retries, nor by a specialist that stays unavailable, nor by
\* evidence that is lost.  So the agents never hold up the answer to a generation or
\* a repair, and a turn is answered when its second call ends.
AgentWorkEnds ==
  \A r \in Run : ([]<>~Doing(r, "direct")) => (~Doing(r, "none") ~> Doing(r, "none"))

\* When the primary stops failing, the second calls too, and turns keep being asked for and
\* allowed, the primary's circuit closes for good without an operator and the
\* status every workspace is shown comes to say so, whatever turns were in progress.
ServiceRecovers ==
  (/\ <>[][\A r \in Run : ~PrimaryFails(r) /\ ~DirectFails(r)]_directorVars
   /\ <>[](mode # "deterministic")
   /\ []<><<\E r \in Run : Ask(r)>>_directorVars)
  => <>[](breaker["primary"].state = "closed" /\ shown = "primary")
=============================================================================
