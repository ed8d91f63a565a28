--------------------------- MODULE WorkspaceStore ---------------------------
(***************************************************************************)
(* The durable store of one guest workspace: the row and the snapshot in   *)
(* Postgres (PostgresGuestWorkspaceStore in app/api/workspace.py), the     *)
(* cache of the API process, the process-wide audit log                    *)
(* (OperationsState.audit_events) and the middleware of app/main.py that   *)
(* restores both before a request and writes both back after it.           *)
(*                                                                         *)
(* A request makes up to five steps.  The middleware gets the workspace    *)
(* (Restore), require_workspace gets it again for the handler (Attach),    *)
(* the handler runs on that second object, the middleware copies the audit *)
(* log into whatever object is cached and persists that object (Save), and *)
(* the answer leaves (Respond).  Every get builds a new object from the    *)
(* snapshot and caches it.                                                 *)
(*                                                                         *)
(* Data: of the workspace the model keeps what durability is about, the    *)
(* official versions, the approval keys, the presence of an approvable     *)
(* draft and the audit events, each as a set; the order of the versions is *)
(* the subject of ScheduleLifecycle.  An audit event is the identifier of  *)
(* the version it reports, or one of the events named below; an approval   *)
(* key is mapped to the version in its recorded answer, or to 0.           *)
(***************************************************************************)
EXTENDS Naturals, FiniteSets

CONSTANTS
  Request,     \* concurrent requests with the guest's cookie
  Key,         \* Idempotency-Key header values
  None,        \* no cached object
  Created, Generated, WasReset,  \* audit events of the other handlers
  Overlap,     \* TRUE: the guest's requests may overlap
  MaxVersion   \* bound of the model

OtherEvent == {Created, Generated, WasReset}

ASSUME StoreAssumption ==
  /\ OtherEvent \cap Nat = {}
  /\ None \notin Request \X {"restored", "own"}
  /\ Overlap \in BOOLEAN /\ MaxVersion \in Nat

VARIABLES
  row,         \* the guest_workspaces row: "live", "marked" (deleted_at set) or "gone"
  snapshot,    \* payload of the workspace_snapshots row
  cache,       \* _items[digest]: the cached object, or None
  objects,     \* the objects each request's two gets have built
  audit,       \* operations.audit_events[workspace_id]
  flight,      \* the requests in progress
  issued,      \* version identifiers issued (uuids are never reused)
  acked        \* versions whose approval the guest has seen answered

process == <<cache, objects, audit, flight>>
vars == <<row, snapshot, cache, objects, audit, flight, issued, acked>>

-----------------------------------------------------------------------------
Event   == Nat \cup OtherEvent
Object  == Request \X {"restored", "own"}
Restored(r) == <<r, "restored">>
Own(r)      == <<r, "own">>

Blank == [draft |-> FALSE, versions |-> {}, keys |-> [k \in Key |-> 0], audit |-> {}]
Idle  == [phase |-> "idle", answer |-> 0, clears |-> FALSE]

MayStart == Overlap \/ \A r \in Request : flight[r] = Idle
At(r, phase) == flight[r].phase = phase
Move(r, phase) == flight' = [flight EXCEPT ![r].phase = phase]

\* What get serves and persist overwrites: a row that is there and not marked.
RowExists  == row # "gone"                                  \* mutant of Writable
Readable   == row = "live"
Writable   == row = "live"

-----------------------------------------------------------------------------
(* The middleware and the dependency *)

\* get: a new object from the snapshot, cached; without a live row the cached
\* object is dropped.
Get(o) ==
  IF Readable THEN objects' = [objects EXCEPT ![o] = snapshot] /\ cache' = o
  ELSE cache' = None /\ UNCHANGED objects

\* The audit log is taken from the snapshot unless the snapshot has none.
Restore(r) ==
  /\ MayStart /\ flight[r] = Idle
  /\ Get(Restored(r))
  /\ audit' = IF Readable /\ snapshot.audit # {} THEN snapshot.audit ELSE audit
  /\ Move(r, "restored")
  /\ UNCHANGED <<row, snapshot, issued, acked>>

\* require_workspace; without a workspace the answer is 401.
Attach(r) ==
  /\ At(r, "restored")
  /\ Get(Own(r))
  /\ Move(r, IF Readable THEN "attached" ELSE "handled")
  /\ UNCHANGED <<row, snapshot, audit, issued, acked>>

\* A route without require_workspace: samples, health, a second bootstrap.
PassThrough(r) ==
  /\ At(r, "restored")
  /\ Move(r, "handled")
  /\ UNCHANGED <<row, snapshot, cache, objects, audit, issued, acked>>

\* cached.audit_events is set to the process's audit log.
EventsKept(o) == o                                          \* mutant of WithAudit
WithAudit(o)  == [o EXCEPT !.audit = audit]
WriteAudit == objects' = IF cache = None THEN objects
                         ELSE [objects EXCEPT ![cache] = WithAudit(@)]

Save(r) ==
  /\ At(r, "handled")
  /\ WriteAudit
  /\ snapshot' = IF cache # None /\ Writable THEN WithAudit(objects[cache]) ELSE snapshot
  /\ acked' = IF flight[r].clears THEN {} ELSE acked
  /\ Move(r, "saved")
  /\ UNCHANGED <<row, cache, audit, issued>>

AnsweredUnsaved(r) ==                                       \* mutant of FailSave
  /\ At(r, "handled")
  /\ Move(r, "saved")
  /\ UNCHANGED <<row, snapshot, cache, objects, audit, issued, acked>>
\* The handler raised (persist is skipped) or the database failed: 500.
FailSave(r) ==
  /\ At(r, "handled")
  /\ WriteAudit \/ UNCHANGED objects
  /\ flight' = [flight EXCEPT ![r] = Idle]
  /\ UNCHANGED <<row, snapshot, cache, audit, issued, acked>>

Respond(r) ==
  /\ At(r, "saved")
  /\ acked' = IF flight[r].answer = 0 THEN acked ELSE acked \cup {flight[r].answer}
  /\ flight' = [flight EXCEPT ![r] = Idle]
  /\ UNCHANGED <<row, snapshot, cache, objects, audit, issued>>

-----------------------------------------------------------------------------
(* Handlers *)

Handled(r, answer, clears) ==
  /\ At(r, "attached")
  /\ flight' = [flight EXCEPT ![r] = [phase |-> "handled", answer |-> answer,
                                      clears |-> clears]]

\* A read, or a request refused with a problem response.
Read(r) == /\ Handled(r, 0, FALSE)
           /\ UNCHANGED <<row, snapshot, cache, objects, audit, issued, acked>>

Generate(r) ==
  /\ Handled(r, 0, FALSE)
  /\ objects' = [objects EXCEPT ![Own(r)].draft = TRUE]
  /\ audit' = audit \cup {Generated}
  /\ UNCHANGED <<row, snapshot, cache, issued, acked>>

NeverReplayed(o, k) == FALSE                                \* mutant of Replayed
Replayed(o, k) == objects[o].keys[k] # 0

Replay(r, k) ==
  /\ Replayed(Own(r), k)
  /\ Handled(r, objects[Own(r)].keys[k], FALSE)
  /\ UNCHANGED <<row, snapshot, cache, objects, audit, issued, acked>>

Approve(r, k) ==
  LET id == issued + 1 IN
  /\ ~Replayed(Own(r), k)
  /\ objects[Own(r)].draft
  /\ id <= MaxVersion
  /\ Handled(r, id, FALSE)
  /\ objects' = [objects EXCEPT ![Own(r)].versions = @ \cup {id},
                                ![Own(r)].keys[k] = id]
  /\ audit' = audit \cup {id}
  /\ issued' = id
  /\ UNCHANGED <<row, snapshot, cache, acked>>

\* reset clears the workspace and the audit log and notes the reset; a reset to an
\* unknown sample is refused after the clearing.
ResetWorkspace(r, known) ==
  /\ Handled(r, 0, TRUE)
  /\ objects' = [objects EXCEPT ![Own(r)] = Blank]
  /\ audit' = IF known THEN {WasReset} ELSE {}
  /\ UNCHANGED <<row, snapshot, cache, issued, acked>>

\* The row goes with its snapshot (ON DELETE CASCADE); the cached object is dropped.
DeleteWorkspace(r) ==
  /\ Handled(r, 0, FALSE)
  /\ row' = "gone" /\ snapshot' = Blank
  /\ cache' = None
  /\ UNCHANGED <<objects, audit, issued, acked>>

-----------------------------------------------------------------------------
(* The environment: retention worker, a process of its own, and restarts *)

\* run_retention_cleanup.  A request extends the row's expiry, so the worker meets
\* one only at the last moment; the model lets it mark the row at any moment.
MarkDeleted ==
  /\ row = "live"
  /\ row' = "marked"
  /\ UNCHANGED <<snapshot, cache, objects, audit, flight, issued, acked>>

OrphanSnapshot ==                                           \* mutant of HardDelete
  /\ row = "marked"
  /\ row' = "gone"
  /\ UNCHANGED <<snapshot, cache, objects, audit, flight, issued, acked>>
HardDelete ==
  /\ row = "marked"
  /\ row' = "gone" /\ snapshot' = Blank
  /\ UNCHANGED <<cache, objects, audit, flight, issued, acked>>

\* The API process ends and is started again: what it held in memory is lost and
\* its requests stay unanswered.
Restart ==
  /\ cache' = None
  /\ objects' = [o \in Object |-> Blank]
  /\ audit' = {}
  /\ flight' = [r \in Request |-> Idle]
  /\ UNCHANGED <<row, snapshot, issued, acked>>

-----------------------------------------------------------------------------
\* create_workspace has just answered: it persisted the object before the event it
\* had appended to the audit log was copied into it.
Init ==
  /\ row = "live" /\ snapshot = Blank
  /\ cache = None /\ objects = [o \in Object |-> Blank]
  /\ audit = {Created}
  /\ flight = [r \in Request |-> Idle]
  /\ issued = 0 /\ acked = {}

Step(r) ==
  \/ Restore(r) \/ Attach(r) \/ PassThrough(r)
  \/ Read(r) \/ Generate(r) \/ DeleteWorkspace(r)
  \/ \E k \in Key : Approve(r, k) \/ Replay(r, k)
  \/ \E known \in BOOLEAN : ResetWorkspace(r, known)
  \/ Save(r) \/ FailSave(r) \/ Respond(r)

Next == (\E r \in Request : Step(r)) \/ MarkDeleted \/ HardDelete \/ Restart

Spec == Init /\ [][Next]_vars

-----------------------------------------------------------------------------
ObjectType == [draft : BOOLEAN, versions : SUBSET Nat, keys : [Key -> Nat],
               audit : SUBSET Event]
FlightType == [phase : {"idle", "restored", "attached", "handled", "saved"},
               answer : Nat, clears : BOOLEAN]

\* The type invariant: objects keep the shape of the payload they are built from
\* whichever object the middleware writes the audit log into, and no payload
\* outlives its row.
TypeOK ==
  /\ row \in {"live", "marked", "gone"}
  /\ snapshot \in ObjectType /\ (row = "gone" => snapshot = Blank)
  /\ cache \in Object \cup {None}
  /\ objects \in [Object -> ObjectType]
  /\ audit \in SUBSET Event
  /\ flight \in [Request -> FlightType]
  /\ issued \in Nat /\ acked \in SUBSET Nat

\* A deleted workspace stays deleted and its payload is never written again, not
\* by a request that was under way when the retention worker or the guest deleted
\* it, nor after a restart.
DeletedStaysDeleted ==
  [][row # "live" => /\ row' # "live"
                     /\ snapshot' \in {snapshot, Blank}]_vars

\* An approval the guest has seen answered survives: it is in the snapshot until a
\* reset or the deletion of the workspace, across restarts, failed writes and
\* retries.  It holds when the guest waits for each answer.
AcknowledgedDurable == row = "live" => acked \subseteq snapshot.versions

\* The durable audit trail and the durable history are written from two places
\* (the process-wide log and the cached object) and still agree: an event for
\* every official version and no event for a version that was not saved.
AuditMatchesHistory == snapshot.audit \cap Nat = snapshot.versions

SavedKeys == {k \in Key : snapshot.keys[k] # 0}

\* Across restarts and retries each saved version answers exactly one key, and
\* each saved key a saved version.
OneSavedVersionPerKey ==
  /\ {snapshot.keys[k] : k \in SavedKeys} = snapshot.versions
  /\ \A k, l \in SavedKeys : snapshot.keys[k] = snapshot.keys[l] => k = l
=============================================================================
