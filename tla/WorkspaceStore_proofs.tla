----------------------- MODULE WorkspaceStore_proofs -----------------------
(***************************************************************************)
(* Theorems about WorkspaceStore for every set of requests and keys.       *)
(*                                                                         *)
(* That a deleted workspace stays deleted needs nothing but the type       *)
(* invariant, and holds however the guest's requests overlap.  The other   *)
(* three properties hold when they do not; their invariant says what the   *)
(* cached object and the process's audit log are worth at each step of the *)
(* one request in progress.                                                *)
(***************************************************************************)
EXTENDS WorkspaceStore, TLAPS

\* A payload whose approval keys and official versions correspond one to one.
Consistent(o) ==
  /\ o.versions \subseteq 1..issued
  /\ \A k \in Key : o.keys[k] # 0 => o.keys[k] \in o.versions
  /\ \A v \in o.versions : \E k \in Key : o.keys[k] = v
  /\ \A k, l \in Key : o.keys[k] # 0 /\ o.keys[k] = o.keys[l] => k = l

\* A log that reports exactly the versions of a payload.
Agree(o, log) == log \cap Nat = o.versions /\ (o.draft => log # {})

Alone == \A r, q \in Request : flight[r] # Idle /\ flight[q] # Idle => r = q

SnapshotInv ==
  /\ Consistent(snapshot) /\ Agree(snapshot, snapshot.audit)
  /\ row = "live" => acked \subseteq snapshot.versions

\* With nothing saved yet the log of the process reports no version.
LogInv == row = "live" /\ snapshot.audit = {} => audit \cap Nat = {}

Fresh(o) == cache = o /\ objects[o] = snapshot /\ Agree(snapshot, audit)

\* What is cached when the handler of r has run may be saved.
Savable(r) ==
  /\ cache \in Object
  /\ Consistent(objects[cache]) /\ Agree(objects[cache], audit)
  /\ ~flight[r].clears => snapshot.versions \subseteq objects[cache].versions
  /\ flight[r].answer # 0 => flight[r].answer \in objects[cache].versions

FlightInv(r) ==
  row = "live" =>
    /\ At(r, "restored") => Fresh(Restored(r)) /\ flight[r].answer = 0
    /\ At(r, "attached") => Fresh(Own(r))
    /\ At(r, "handled") => Savable(r)
    /\ At(r, "saved") /\ flight[r].answer # 0 => flight[r].answer \in snapshot.versions

SerialInv ==
  TypeOK /\ Alone /\ SnapshotInv /\ LogInv /\ \A r \in Request : FlightInv(r)

-----------------------------------------------------------------------------
LEMMA ObjectsDiffer ==
  ASSUME NEW r \in Request, NEW q \in Request
  PROVE  /\ Own(r) \in Object /\ Restored(r) \in Object
         /\ Own(r) # Restored(q)
         /\ (Own(r) = Own(q) \/ Restored(r) = Restored(q)) => r = q
         /\ None \notin Object
BY StoreAssumption DEF Own, Restored, Object

LEMMA BlankTyped == Blank \in ObjectType
BY DEF Blank, ObjectType

\* Copying a typed audit log into a typed payload keeps it typed and changes
\* nothing else of it.
LEMMA WithAuditTyped ==
  ASSUME TypeOK, NEW o \in ObjectType
  PROVE  /\ WithAudit(o) \in ObjectType
         /\ WithAudit(o).draft = o.draft /\ WithAudit(o).versions = o.versions
         /\ WithAudit(o).keys = o.keys /\ WithAudit(o).audit = audit
BY DEF WithAudit, ObjectType, TypeOK

\* get builds typed objects and caches one of them.
LEMMA GetTyped ==
  ASSUME TypeOK, NEW o \in Object, Get(o)
  PROVE  objects' \in [Object -> ObjectType] /\ cache' \in Object \cup {None}
BY DEF TypeOK, Get

LEMMA WriteAuditTyped ==
  ASSUME TypeOK, WriteAudit
  PROVE  objects' \in [Object -> ObjectType]
<1>1. CASE cache = None
  BY <1>1 DEF WriteAudit, TypeOK
<1>2. CASE cache # None
  <2>1. objects[cache] \in ObjectType
    BY <1>2 DEF TypeOK
  <2>2. WithAudit(objects[cache]) \in ObjectType
    BY <2>1, WithAuditTyped
  <2> QED
    BY <1>2, <2>2 DEF WriteAudit, TypeOK
<1> QED
  BY <1>1, <1>2

-----------------------------------------------------------------------------
(* Type correctness *)

LEMMA TypeStep == TypeOK /\ [Next]_vars => TypeOK'
<1> SUFFICES ASSUME TypeOK, [Next]_vars PROVE TypeOK'
  OBVIOUS
<1>i. Idle \in FlightType
  BY DEF Idle, FlightType
<1>1. ASSUME NEW r \in Request, Restore(r) PROVE TypeOK'
  <2>1. objects' \in [Object -> ObjectType] /\ cache' \in Object \cup {None}
    BY <1>1, GetTyped, ObjectsDiffer DEF Restore
  <2>2. audit' \in SUBSET Event
    BY <1>1 DEF Restore, TypeOK, ObjectType
  <2> QED
    BY <1>1, <2>1, <2>2 DEF Restore, Move, TypeOK, FlightType
<1>2. ASSUME NEW r \in Request, Attach(r) PROVE TypeOK'
  <2>1. objects' \in [Object -> ObjectType] /\ cache' \in Object \cup {None}
    BY <1>2, GetTyped, ObjectsDiffer DEF Attach
  <2> QED
    BY <1>2, <2>1 DEF Attach, Move, TypeOK, FlightType
<1>3. ASSUME NEW r \in Request, PassThrough(r) PROVE TypeOK'
  BY <1>3 DEF PassThrough, Move, TypeOK, FlightType
<1>4. ASSUME NEW r \in Request, Save(r) PROVE TypeOK'
  <2>1. objects' \in [Object -> ObjectType]
    BY <1>4, WriteAuditTyped DEF Save
  <2>2. snapshot' \in ObjectType /\ (row' = "gone" => snapshot' = Blank)
    <3>1. CASE cache # None /\ Writable
      <4>1. objects[cache] \in ObjectType
        BY <3>1 DEF TypeOK
      <4> QED
        BY <1>4, <3>1, <4>1, WithAuditTyped DEF Save, Writable
    <3>2. CASE ~(cache # None /\ Writable)
      BY <1>4, <3>2 DEF Save, TypeOK
    <3> QED
      BY <3>1, <3>2
  <2>3. acked' \in SUBSET Nat
    BY <1>4 DEF Save, TypeOK
  <2> QED
    BY <1>4, <2>1, <2>2, <2>3 DEF Save, Move, TypeOK, FlightType
<1>5. ASSUME NEW r \in Request, FailSave(r) PROVE TypeOK'
  <2>1. objects' \in [Object -> ObjectType]
    BY <1>5, WriteAuditTyped DEF FailSave, TypeOK
  <2> QED
    BY <1>5, <1>i, <2>1 DEF FailSave, TypeOK
<1>6. ASSUME NEW r \in Request, Respond(r) PROVE TypeOK'
  BY <1>6, <1>i DEF Respond, TypeOK, FlightType
<1>7. ASSUME NEW r \in Request, Read(r) PROVE TypeOK'
  BY <1>7 DEF Read, Handled, TypeOK, FlightType
<1>8. ASSUME NEW r \in Request, Generate(r) PROVE TypeOK'
  <2>1. objects' \in [Object -> ObjectType]
    BY <1>8, ObjectsDiffer DEF Generate, TypeOK, ObjectType
  <2> QED
    BY <1>8, <2>1 DEF Generate, Handled, TypeOK, FlightType, Event, OtherEvent
<1>9. ASSUME NEW r \in Request, DeleteWorkspace(r) PROVE TypeOK'
  BY <1>9, BlankTyped DEF DeleteWorkspace, Handled, TypeOK, FlightType
<1>10. ASSUME NEW r \in Request, NEW k \in Key, Approve(r, k) PROVE TypeOK'
  <2>1. issued + 1 \in Nat
    BY DEF TypeOK
  <2>2. objects' \in [Object -> ObjectType]
    BY <1>10, <2>1, ObjectsDiffer DEF Approve, TypeOK, ObjectType
  <2> QED
    BY <1>10, <2>1, <2>2 DEF Approve, Handled, TypeOK, FlightType, Event
<1>11. ASSUME NEW r \in Request, NEW k \in Key, Replay(r, k) PROVE TypeOK'
  <2>1. objects[Own(r)].keys[k] \in Nat
    BY ObjectsDiffer DEF TypeOK, ObjectType
  <2> QED
    BY <1>11, <2>1 DEF Replay, Handled, TypeOK, FlightType
<1>12. ASSUME NEW r \in Request, NEW known \in BOOLEAN, ResetWorkspace(r, known)
       PROVE  TypeOK'
  <2>1. objects' \in [Object -> ObjectType]
    BY <1>12, BlankTyped DEF ResetWorkspace, TypeOK
  <2> QED
    BY <1>12, <2>1 DEF ResetWorkspace, Handled, TypeOK, FlightType, Event, OtherEvent
<1>13. ASSUME MarkDeleted \/ HardDelete PROVE TypeOK'
  BY <1>13, BlankTyped DEF MarkDeleted, HardDelete, TypeOK
<1>14. ASSUME Restart PROVE TypeOK'
  BY <1>14, <1>i, BlankTyped DEF Restart, TypeOK
<1>15. CASE UNCHANGED vars
  BY <1>15 DEF vars, TypeOK
<1> QED
  BY <1>1, <1>2, <1>3, <1>4, <1>5, <1>6, <1>7, <1>8, <1>9, <1>10, <1>11, <1>12, <1>13,
     <1>14, <1>15 DEF Next, Step

LEMMA TypeInit == Init => TypeOK
BY BlankTyped DEF Init, TypeOK, Idle, FlightType, Event, OtherEvent

\* The state keeps its shape, and no payload outlives its row.
THEOREM StoreTypeCorrect == Spec => []TypeOK
<1>1. TypeOK /\ [Next]_vars => TypeOK'
  BY TypeStep
<1> QED
  BY TypeInit, <1>1, PTL DEF Spec

-----------------------------------------------------------------------------
(* Deletion *)

\* A deleted workspace stays deleted and its payload is never written again,
\* however the guest's requests overlap with one another and with the worker.
THEOREM DeletionIsFinal == Spec => DeletedStaysDeleted
<1>1. ASSUME TypeOK, Next, row # "live"
      PROVE  row' # "live" /\ snapshot' \in {snapshot, Blank}
  BY <1>1 DEF Next, Step, Restore, Attach, PassThrough, Save, FailSave, Respond, Read,
     Generate, DeleteWorkspace, Approve, Replay, ResetWorkspace, MarkDeleted, HardDelete,
     Restart, Writable
<1>2. ASSUME TypeOK, [Next]_vars
      PROVE  [row # "live" => row' # "live" /\ snapshot' \in {snapshot, Blank}]_vars
  BY <1>1, <1>2
<1> QED
  BY StoreTypeCorrect, <1>2, PTL DEF Spec, DeletedStaysDeleted

-----------------------------------------------------------------------------
(* One request at a time *)

\* The other requests are idle before and after a step of one of them.
LEMMA OthersIdle ==
  ASSUME Overlap = FALSE, TypeOK, Alone, NEW r \in Request, Step(r)
  PROVE  \A q \in Request \ {r} : flight'[q] = Idle
<1>1. \A q \in Request \ {r} : flight[q] = Idle
  <2>1. CASE Restore(r)
    BY <2>1 DEF Restore, MayStart
  <2>2. CASE ~Restore(r)
    <3>1. flight[r].phase # "idle"
      BY <2>2 DEF Step, Attach, PassThrough, Read, Generate, DeleteWorkspace, Approve,
         Replay, ResetWorkspace, Save, FailSave, Respond, Handled, At
    <3> QED
      BY <3>1 DEF Alone, Idle
  <2> QED
    BY <2>1, <2>2
<1>2. \A q \in Request \ {r} : flight'[q] = flight[q]
  BY DEF Step, Restore, Attach, PassThrough, Read, Generate, DeleteWorkspace, Approve,
     Replay, ResetWorkspace, Save, FailSave, Respond, Handled, Move, TypeOK
<1> QED
  BY <1>1, <1>2

\* A cleared workspace promises nothing.
LEMMA BlankConsistent == Consistent(Blank) /\ Blank.audit = {} /\ ~Blank.draft
                         /\ Blank.versions = {}
BY DEF Consistent, Blank

LEMMA SerialInit == Init => SerialInv
<1> SUFFICES ASSUME Init PROVE SerialInv
  OBVIOUS
<1>1. TypeOK
  BY TypeInit
<1>2. SnapshotInv /\ LogInv
  BY BlankConsistent, StoreAssumption DEF Init, SnapshotInv, LogInv, Agree, OtherEvent
<1>3. Alone /\ \A r \in Request : FlightInv(r)
  BY DEF Init, Alone, FlightInv, At, Idle
<1> QED
  BY <1>1, <1>2, <1>3 DEF SerialInv

\* A step of request r keeps what the invariant says of the snapshot, of the log
\* and of r itself.
LEMMA RequestStep ==
  ASSUME SerialInv, NEW r \in Request, Step(r)
  PROVE  SnapshotInv' /\ LogInv' /\ FlightInv(r)'
<1>t. TypeOK /\ SnapshotInv /\ LogInv /\ FlightInv(r)
  BY DEF SerialInv
<1>f. /\ snapshot \in ObjectType /\ flight[r] \in FlightType /\ issued \in Nat
      /\ objects \in [Object -> ObjectType] /\ flight \in [Request -> FlightType]
      /\ audit \in SUBSET Event /\ acked \in SUBSET Nat
  BY <1>t DEF TypeOK
<1>o. Own(r) \in Object /\ Restored(r) \in Object /\ Own(r) # Restored(r) /\ None \notin Object
  BY ObjectsDiffer
<1>e. Created \notin Nat /\ Generated \notin Nat /\ WasReset \notin Nat
  BY StoreAssumption DEF OtherEvent
<1>l. snapshot.audit = {} => snapshot.versions = {} /\ ~snapshot.draft
  BY <1>t, <1>f DEF SnapshotInv, Agree, ObjectType
<1>c. Consistent(snapshot) /\ Agree(snapshot, snapshot.audit)
  BY <1>t DEF SnapshotInv
\* Steps that leave the snapshot, the acknowledged versions and the counter alone.
<1>k. ASSUME UNCHANGED <<row, snapshot, acked, issued>>
      PROVE  SnapshotInv'
  BY <1>k, <1>t DEF SnapshotInv, Consistent, Agree
<1>1. CASE Restore(r)
  <2>1. SnapshotInv'
    BY <1>1, <1>k DEF Restore
  <2>2. ASSUME row = "live" PROVE Fresh(Restored(r))'
    <3>1. objects'[Restored(r)] = snapshot /\ cache' = Restored(r) /\ snapshot' = snapshot
      BY <1>1, <2>2, <1>f, <1>o DEF Restore, Get, Readable
    <3>2. Agree(snapshot, audit')
      BY <1>1, <2>2, <1>t, <1>l, <1>c DEF Restore, Readable, LogInv, Agree
    <3> QED
      BY <3>1, <3>2 DEF Fresh, Agree
  <2>3. LogInv'
    BY <1>1, <1>t DEF Restore, Readable, LogInv
  <2>4. FlightInv(r)'
    BY <1>1, <2>2, <1>f DEF Restore, Move, FlightInv, At, FlightType, Idle
  <2> QED
    BY <2>1, <2>3, <2>4
<1>2. CASE Attach(r)
  <2>1. SnapshotInv' /\ LogInv'
    BY <1>2, <1>k, <1>t DEF Attach, LogInv
  <2>2. ASSUME row = "live" PROVE Fresh(Own(r))'
    <3>1. objects'[Own(r)] = snapshot /\ cache' = Own(r) /\ snapshot' = snapshot
          /\ audit' = audit
      BY <1>2, <2>2, <1>f, <1>o DEF Attach, Get, Readable
    <3>2. Agree(snapshot, audit)
      BY <1>2, <2>2, <1>t DEF Attach, FlightInv, Fresh
    <3> QED
      BY <3>1, <3>2 DEF Fresh, Agree
  <2>3. FlightInv(r)'
    BY <1>2, <2>2, <1>f DEF Attach, Move, FlightInv, At, FlightType, Readable
  <2> QED
    BY <2>1, <2>3
<1>3. CASE PassThrough(r)
  <2>1. SnapshotInv' /\ LogInv'
    BY <1>3, <1>k, <1>t DEF PassThrough, LogInv
  <2>2. ASSUME row = "live" PROVE Savable(r)'
    <3>1. cache = Restored(r) /\ objects[cache] = snapshot /\ Agree(snapshot, audit)
          /\ flight[r].answer = 0
      BY <1>3, <2>2, <1>t DEF PassThrough, FlightInv, Fresh
    <3>2. flight'[r].answer = 0 /\ UNCHANGED <<cache, objects, audit, snapshot, issued>>
      BY <1>3, <3>1, <1>f DEF PassThrough, Move, FlightType
    <3> QED
      BY <3>1, <3>2, <1>o, <1>c DEF Savable, Consistent, Agree
  <2>3. FlightInv(r)'
    BY <1>3, <2>2, <1>f DEF PassThrough, Move, FlightInv, At, FlightType
  <2> QED
    BY <2>1, <2>3
<1>4. CASE Save(r)
  <2>1. CASE row = "live"
    <3>1. Savable(r)
      BY <1>4, <2>1, <1>t DEF Save, FlightInv
    <3>2. cache # None /\ objects[cache] \in ObjectType
      BY <3>1, <1>o, <1>f DEF Savable
    <3>3. snapshot' = WithAudit(objects[cache]) /\ UNCHANGED <<row, audit, issued>>
      BY <1>4, <2>1, <3>2 DEF Save, Writable
    <3>4. /\ snapshot'.versions = objects[cache].versions
          /\ snapshot'.keys = objects[cache].keys
          /\ snapshot'.draft = objects[cache].draft /\ snapshot'.audit = audit
      BY <3>2, <3>3, <1>t, WithAuditTyped
    <3>5. acked' \subseteq snapshot'.versions
      BY <1>4, <2>1, <3>1, <3>4, <1>t DEF Save, Savable, SnapshotInv
    <3>6. Consistent(snapshot)' /\ Agree(snapshot, snapshot.audit)'
      BY <3>1, <3>3, <3>4 DEF Savable, Consistent, Agree
    <3>7. LogInv'
      BY <3>3, <3>4 DEF LogInv
    <3>8. FlightInv(r)'
      BY <1>4, <3>1, <3>4, <1>f DEF Save, Move, FlightInv, At, Savable, FlightType
    <3> QED
      BY <3>5, <3>6, <3>7, <3>8 DEF SnapshotInv
  <2>2. CASE row # "live"
    <3>1. UNCHANGED <<row, snapshot, issued>>
      BY <1>4, <2>2 DEF Save, Writable
    <3> QED
      BY <2>2, <3>1, <1>c DEF SnapshotInv, LogInv, FlightInv, Consistent, Agree
  <2> QED
    BY <2>1, <2>2
<1>5. CASE FailSave(r)
  <2>1. SnapshotInv' /\ LogInv'
    BY <1>5, <1>k, <1>t DEF FailSave, LogInv
  <2>2. FlightInv(r)'
    BY <1>5, <1>f DEF FailSave, FlightInv, At, Idle
  <2> QED
    BY <2>1, <2>2
<1>6. CASE Respond(r)
  <2>1. SnapshotInv'
    BY <1>6, <1>t DEF Respond, SnapshotInv, FlightInv, Consistent, Agree
  <2>2. LogInv' /\ FlightInv(r)'
    BY <1>6, <1>t, <1>f DEF Respond, LogInv, FlightInv, At, Idle
  <2> QED
    BY <2>1, <2>2
\* The handlers: the object attached is the snapshot, the log agrees with it.
<1>h. ASSUME At(r, "attached"), row = "live"
      PROVE  /\ cache = Own(r) /\ objects[Own(r)] = snapshot /\ objects[cache] = snapshot
             /\ Agree(snapshot, audit)
  BY <1>h, <1>t DEF FlightInv, Fresh
<1>g. ASSUME NEW answer \in Nat, NEW clears \in BOOLEAN, Handled(r, answer, clears),
             row' = "live" => Savable(r)'
      PROVE  FlightInv(r)'
  BY <1>g, <1>f DEF Handled, FlightInv, At
<1>7. CASE Read(r)
  <2>1. SnapshotInv' /\ LogInv'
    BY <1>7, <1>k, <1>t DEF Read, LogInv
  <2>2. ASSUME row = "live" PROVE Savable(r)'
    <3>1. flight'[r].answer = 0 /\ UNCHANGED <<cache, objects, audit, snapshot, issued>>
      BY <1>7, <1>f DEF Read, Handled
    <3> QED
      BY <1>7, <2>2, <3>1, <1>h, <1>o, <1>c DEF Read, Handled, Savable, Consistent, Agree
  <2> QED
    BY <1>7, <2>1, <2>2, <1>g DEF Read
<1>8. CASE Generate(r)
  <2>1. SnapshotInv'
    BY <1>8, <1>k DEF Generate
  <2>2. audit' \cap Nat = audit \cap Nat /\ audit' # {}
    BY <1>8, <1>e DEF Generate
  <2>3. LogInv'
    BY <1>8, <1>t, <2>2 DEF Generate, LogInv
  <2>4. ASSUME row = "live" PROVE Savable(r)'
    <3>1. /\ flight'[r].answer = 0 /\ UNCHANGED <<cache, snapshot, issued>>
          /\ objects'[Own(r)] = [objects[Own(r)] EXCEPT !.draft = TRUE]
      BY <1>8, <1>f, <1>o DEF Generate, Handled
    <3>2. cache = Own(r) /\ objects[Own(r)] = snapshot /\ Agree(snapshot, audit)
      BY <1>8, <2>4, <1>h DEF Generate, Handled
    <3>3. objects'[Own(r)].versions = snapshot.versions /\ objects'[Own(r)].keys = snapshot.keys
      BY <3>1, <3>2, <1>f DEF ObjectType
    <3>4. Consistent(objects[cache])'
      <4>1. cache' = Own(r) /\ issued' = issued
        BY <3>1, <3>2
      <4>2. /\ snapshot.versions \subseteq 1..issued
            /\ \A j \in Key : snapshot.keys[j] # 0 => snapshot.keys[j] \in snapshot.versions
            /\ \A v \in snapshot.versions : \E j \in Key : snapshot.keys[j] = v
            /\ \A j, l \in Key :
                 snapshot.keys[j] # 0 /\ snapshot.keys[j] = snapshot.keys[l] => j = l
        BY <1>c DEF Consistent
      <4> QED
        BY <3>3, <4>1, <4>2, ZenonT(30) DEF Consistent
    <3>5. Agree(objects[cache], audit)'
      BY <2>2, <3>1, <3>2, <3>3 DEF Agree
    <3> QED
      BY <3>1, <3>2, <3>3, <3>4, <3>5, <1>o DEF Savable
  <2> QED
    BY <1>8, <2>1, <2>3, <2>4, <1>g DEF Generate
<1>9. CASE DeleteWorkspace(r)
  <2>1. row' = "gone" /\ snapshot' = Blank /\ issued' = issued
    BY <1>9 DEF DeleteWorkspace
  <2> QED
    BY <2>1, BlankConsistent DEF SnapshotInv, LogInv, FlightInv, Consistent, Agree, Blank
<1>10. ASSUME NEW k \in Key, Approve(r, k) PROVE SnapshotInv' /\ LogInv' /\ FlightInv(r)'
  <2>1. UNCHANGED <<row, snapshot, acked, cache>> /\ issued' = issued + 1
        /\ audit' = audit \cup {issued'} /\ At(r, "attached")
    BY <1>10 DEF Approve, Handled
  <2>2. SnapshotInv'
    <3>1. Consistent(snapshot)'
      BY <2>1, <1>c, <1>f DEF Consistent
    <3> QED
      BY <2>1, <3>1, <1>t DEF SnapshotInv, Agree
  <2>3. LogInv'
    BY <1>10, <2>1, <1>h, <1>l DEF Approve, LogInv
  <2>4. ASSUME row = "live" PROVE Savable(r)'
    <3>1. cache = Own(r) /\ objects[Own(r)] = snapshot /\ Agree(snapshot, audit)
      BY <2>1, <2>4, <1>h
    <3>2. /\ objects'[Own(r)].versions = snapshot.versions \cup {issued'}
          /\ objects'[Own(r)].keys = [snapshot.keys EXCEPT ![k] = issued']
          /\ snapshot.keys[k] = 0 /\ flight'[r].answer = issued'
      BY <1>10, <3>1, <1>f, <1>o DEF Approve, Handled, Replayed, ObjectType
    <3>3. audit' \cap Nat = snapshot.versions \cup {issued'} /\ audit' # {}
      BY <2>1, <3>1, <1>f DEF Agree
    <3>4. snapshot.keys \in [Key -> Nat] /\ snapshot.versions \subseteq 1..issued
      BY <1>f, <1>c DEF ObjectType, Consistent
    <3>5. Consistent(objects[cache])'
      BY <2>1, <3>1, <3>2, <3>4, <1>c, <1>f DEF Consistent
    <3> QED
      BY <2>1, <3>1, <3>2, <3>3, <3>5, <1>o DEF Savable, Agree
  <2>5. Handled(r, issued + 1, FALSE)
    BY <1>10 DEF Approve
  <2>6. FlightInv(r)'
    <3>1. issued + 1 \in Nat
      BY <1>f
    <3> QED
      BY <2>1, <2>4, <2>5, <3>1, <1>g
  <2> QED
    BY <2>2, <2>3, <2>6
<1>11. ASSUME NEW k \in Key, Replay(r, k) PROVE SnapshotInv' /\ LogInv' /\ FlightInv(r)'
  <2>1. SnapshotInv' /\ LogInv'
    BY <1>11, <1>k, <1>t DEF Replay, LogInv
  <2>2. objects[Own(r)].keys[k] \in Nat /\ objects[Own(r)].keys[k] # 0
    BY <1>11, <1>f, <1>o DEF Replay, Replayed, ObjectType
  <2>3. ASSUME row = "live" PROVE Savable(r)'
    <3>1. /\ flight'[r].answer = objects[Own(r)].keys[k]
          /\ UNCHANGED <<cache, objects, audit, snapshot, issued>>
      BY <1>11, <1>f DEF Replay, Handled
    <3> QED
      BY <1>11, <2>2, <2>3, <3>1, <1>h, <1>o, <1>c DEF Replay, Handled, Savable,
         Consistent, Agree
  <2> QED
    BY <1>11, <2>1, <2>2, <2>3, <1>g DEF Replay
<1>12. ASSUME NEW known \in BOOLEAN, ResetWorkspace(r, known)
       PROVE  SnapshotInv' /\ LogInv' /\ FlightInv(r)'
  <2>1. SnapshotInv'
    BY <1>12, <1>k DEF ResetWorkspace
  <2>2. audit' \cap Nat = {}
    BY <1>12, <1>e DEF ResetWorkspace
  <2>3. LogInv'
    BY <2>2 DEF LogInv
  <2>4. ASSUME row = "live" PROVE Savable(r)'
    <3>1. /\ flight'[r].answer = 0 /\ flight'[r].clears /\ UNCHANGED <<cache, issued>>
          /\ objects'[Own(r)] = Blank /\ cache = Own(r)
      BY <1>12, <2>4, <1>h, <1>f, <1>o DEF ResetWorkspace, Handled
    <3> QED
      BY <2>2, <3>1, <1>o, BlankConsistent DEF Savable, Consistent, Agree, Blank
  <2> QED
    BY <1>12, <2>1, <2>3, <2>4, <1>g DEF ResetWorkspace
<1> QED
  BY <1>1, <1>2, <1>3, <1>4, <1>5, <1>6, <1>7, <1>8, <1>9, <1>10, <1>11, <1>12 DEF Step

\* The worker and a restart keep the invariant: a row that is not live any more is
\* not written, and a restart ends every request.
LEMMA EnvironmentStep ==
  ASSUME SerialInv, MarkDeleted \/ HardDelete \/ Restart
  PROVE  SnapshotInv' /\ LogInv' /\ Alone' /\ \A r \in Request : FlightInv(r)'
<1>t. TypeOK /\ SnapshotInv /\ LogInv /\ Alone /\ \A r \in Request : FlightInv(r)
  BY DEF SerialInv
<1>1. CASE MarkDeleted
  <2>1. row' # "live" /\ UNCHANGED <<snapshot, issued, flight>>
    BY <1>1 DEF MarkDeleted
  <2> QED
    BY <1>t, <2>1 DEF SnapshotInv, Consistent, Agree, LogInv, Alone, FlightInv
<1>2. CASE HardDelete
  <2>1. row' # "live" /\ snapshot' = Blank /\ UNCHANGED <<issued, flight>>
    BY <1>2 DEF HardDelete
  <2>2. SnapshotInv'
    BY <2>1, BlankConsistent DEF SnapshotInv, Consistent, Agree, Blank
  <2> QED
    BY <1>t, <2>1, <2>2 DEF LogInv, Alone, FlightInv
<1>3. CASE Restart
  <2>1. /\ UNCHANGED <<row, snapshot, issued, acked>> /\ audit' = {}
        /\ flight' = [r \in Request |-> Idle]
    BY <1>3 DEF Restart
  <2>2. SnapshotInv' /\ LogInv'
    BY <1>t, <2>1 DEF SnapshotInv, Consistent, Agree, LogInv
  <2>3. Alone' /\ \A r \in Request : FlightInv(r)'
    BY <2>1 DEF Alone, FlightInv, At, Idle
  <2> QED
    BY <2>2, <2>3
<1> QED
  BY <1>1, <1>2, <1>3

LEMMA SerialStep ==
  ASSUME Overlap = FALSE, SerialInv, [Next]_vars
  PROVE  SerialInv'
<1>t. TypeOK'
  BY TypeStep DEF SerialInv
<1>1. ASSUME NEW r \in Request, Step(r) PROVE SerialInv'
  <2>1. \A q \in Request \ {r} : flight'[q] = Idle
    BY <1>1, OthersIdle DEF SerialInv
  <2>2. Alone'
    BY <2>1 DEF Alone
  <2>3. SnapshotInv' /\ LogInv' /\ FlightInv(r)'
    BY <1>1, RequestStep
  <2>4. \A q \in Request \ {r} : FlightInv(q)'
    BY <2>1 DEF FlightInv, At, Idle
  <2> QED
    BY <1>t, <2>2, <2>3, <2>4 DEF SerialInv
<1>2. CASE MarkDeleted \/ HardDelete \/ Restart
  BY <1>2, <1>t, EnvironmentStep DEF SerialInv
<1>3. CASE UNCHANGED vars
  BY <1>3, <1>t DEF vars, SerialInv, Alone, SnapshotInv, LogInv, FlightInv, Consistent, Agree,
     Fresh, Savable, At
<1> QED
  BY <1>1, <1>2, <1>3 DEF Next

LEMMA SerialInvariant == ASSUME Overlap = FALSE PROVE Spec => []SerialInv
<1>1. SerialInv /\ [Next]_vars => SerialInv'
  BY SerialStep
<1> QED
  BY SerialInit, <1>1, PTL DEF Spec

\* When the guest waits for each answer, every approval seen answered stays in the
\* snapshot until a reset or a deletion, across restarts, failed writes and retries.
THEOREM AcknowledgedSurvive == ASSUME Overlap = FALSE PROVE Spec => []AcknowledgedDurable
<1>1. SerialInv => AcknowledgedDurable
  BY DEF SerialInv, SnapshotInv, AcknowledgedDurable
<1> QED
  BY SerialInvariant, <1>1, PTL

\* Likewise the saved audit trail reports exactly the saved versions.
THEOREM AuditTrailExact == ASSUME Overlap = FALSE PROVE Spec => []AuditMatchesHistory
<1>1. SerialInv => AuditMatchesHistory
  BY DEF SerialInv, SnapshotInv, Agree, AuditMatchesHistory
<1> QED
  BY SerialInvariant, <1>1, PTL

\* Likewise each saved version answers exactly one saved key.
THEOREM SavedKeysOneToOne == ASSUME Overlap = FALSE PROVE Spec => []OneSavedVersionPerKey
<1>1. ASSUME SerialInv PROVE OneSavedVersionPerKey
  <2>1. Consistent(snapshot)
    BY <1>1 DEF SerialInv, SnapshotInv
  <2>3. {snapshot.keys[k] : k \in SavedKeys} \subseteq snapshot.versions
    BY <2>1 DEF Consistent, SavedKeys
  <2>4. ASSUME NEW v \in snapshot.versions PROVE \E k \in SavedKeys : snapshot.keys[k] = v
    BY <2>1, <1>1 DEF Consistent, SavedKeys, SerialInv, TypeOK
  <2> QED
    BY <2>1, <2>3, <2>4 DEF OneSavedVersionPerKey, Consistent, SavedKeys
<1> QED
  BY SerialInvariant, <1>1, PTL
=============================================================================
