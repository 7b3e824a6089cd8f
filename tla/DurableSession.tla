---------------------------- MODULE DurableSession ----------------------------
(***************************************************************************)
(* The durable lifecycle of one sid of a StorageNode in catalog mode:      *)
(* CreateSession, RetainSession, CloseSession, durable buffer reads and    *)
(* writes, Start, Stop and crashes.  The disk keeps the sid's catalog      *)
(* record, the generation directories and their contents; everything else  *)
(* is process memory.                                                      *)
(*                                                                         *)
(* Threads call the API concurrently.  catalog_mutex is explicit (holder), *)
(* the shared side of catalog_gate is the set of threads whose pc is in    *)
(* InGate, liveliness_mutex is held at "announcing", and what the code     *)
(* does under the unique session_mutex is one step.                        *)
(***************************************************************************)
EXTENDS Naturals, FiniteSets

CONSTANTS
    Threads,         \* host threads and transport callbacks
    NoThread,        \* nobody holds catalog_mutex
    Items,           \* durable buffer entries
    MaxGeneration,   \* bound: generations ever created under the sid
    MaxCrashes,      \* bound: crashes of the host
    MaxFailures,     \* bound: failing disk operations
    MaxAccesses      \* bound: durable buffer reads and writes

ASSUME NoThreadAssumption == NoThread \notin Threads
ASSUME BoundsAssumption ==
    MaxGeneration \in Nat /\ MaxCrashes \in Nat /\ MaxFailures \in Nat /\ MaxAccesses \in Nat

VARIABLES
    catalog,     \* the catalog database: "absent", "raw" (without its schema) or "ready"
    disk,        \* session/<sid> in the catalog database
    dirs,        \* generation directories that hold a store
    store,       \* entries of each generation's store
    synced,      \* those that survive a power loss
    node,        \* "down", "starting", "up" or "stopping"
    view,        \* SessionCatalog's in-memory record
    latched,     \* State::catalog_unavailable
    rec,         \* State::sessions[sid]
    token,       \* generation of the declared liveliness token, or 0
    holder,      \* owner of catalog_mutex
    kind, pc,    \* the operation each thread runs and its next step
    gen,         \* the generation it observed (0: no session)
    item,        \* entries it writes, or found stored when it began to retain
    failed,      \* its directory removal reported an error
    born,        \* generation UUIDs drawn so far
    promised,    \* history: entries a successful RetainSession vouched for
    crashes, failures, accesses

durable == <<catalog, disk, dirs, store, synced>>
process == <<node, view, latched, rec, token, holder>>
calls == <<kind, pc, gen, item, failed>>
history == <<born, promised>>
counters == <<crashes, failures, accesses>>
vars == <<durable, process, calls, history, counters>>

-----------------------------------------------------------------------------
Generation == 1 .. MaxGeneration

LifecycleState == {"active", "retained", "orphaned", "deleting", "delete_failed", "deleted"}

\* The optional members of a record that are not null.
Mark == {"retained_at", "orphaned_at", "deleting_at", "deleted_at", "failure"}
NoRecord == [gen |-> 0, state |-> "none", marks |-> {}]
ActiveRecord(g) == [gen |-> g, state |-> "active", marks |-> {}]
Moved(r, state, mark) == [r EXCEPT !.state = state, !.marks = @ \union {mark}]
CatalogRecord == {NoRecord} \union [gen: Generation, state: LifecycleState, marks: SUBSET Mark]

\* What DecodeSessionRecord demands of the optional members; without it the whole
\* catalog is refused.
HasLifecycleMetadata(r) ==
    LET Has(some) == some \subseteq r.marks
        Lacks(none) == none \intersect r.marks = {}
    IN  /\ r.state = "active" => Lacks(Mark)
        /\ r.state = "retained" =>
              Has({"retained_at"}) /\ Lacks({"deleting_at", "deleted_at", "failure"})
        /\ r.state = "orphaned" =>
              Has({"orphaned_at"}) /\ Lacks({"deleting_at", "deleted_at", "failure"})
        /\ r.state = "deleting" => Has({"deleting_at"}) /\ Lacks({"deleted_at"})
        /\ r.state = "delete_failed" =>
              Has({"deleting_at", "failure"}) /\ Lacks({"deleted_at"})
        /\ r.state = "deleted" => Has({"deleting_at", "deleted_at"}) /\ Lacks({"failure"})

Readable(r) == r # NoRecord => HasLifecycleMetadata(r)

\* open: durable_buffers holds the engine.  The volatile snapshot and overlay
\* are held exactly while lifecycle is "active".
SessionRecord == [gen: 0 .. MaxGeneration, phase: {"None", "Creating", "Active", "Closing"},
                  lifecycle: LifecycleState, reconciled: BOOLEAN, open: BOOLEAN]
NoSession == [gen |-> 0, phase |-> "None", lifecycle |-> "deleted",
              reconciled |-> FALSE, open |-> FALSE]

Kind == {"none", "create", "close", "retain", "write", "read", "start"}

\* Steps that run while the thread holds catalog_gate shared.
InGate == {"opening", "removing", "syncing", "commit", "writing", "reading"}
PC == InGate \union {"idle", "active", "store", "deleting", "activate", "announce", "announcing",
                     "rollback", "begin", "token", "drain", "finish", "finishing", "latching",
                     "retain", "gate", "withdraw", "admitted", "open", "initialize", "reconcile",
                     "orphan"}

\* An operation that holds an admission of the session record.
Admitted(t) == kind[t] \in {"retain", "write", "read"}

Init ==
    /\ catalog = "absent" /\ disk = NoRecord /\ dirs = {}
    /\ store = [g \in Generation |-> {}] /\ synced = [g \in Generation |-> {}]
    /\ node = "down" /\ view = NoRecord /\ latched = FALSE
    /\ rec = NoSession /\ token = 0 /\ holder = NoThread
    /\ kind = [t \in Threads |-> "none"] /\ pc = [t \in Threads |-> "idle"]
    /\ gen = [t \in Threads |-> 0] /\ item = [t \in Threads |-> {}]
    /\ failed = [t \in Threads |-> FALSE]
    /\ born = 0 /\ promised = [g \in Generation |-> {}]
    /\ crashes = 0 /\ failures = 0 /\ accesses = 0

-----------------------------------------------------------------------------
(* Control of one operation.                                                *)

\* The operation returns to its caller; Start publishes the node instead.
Return(t) ==
    /\ kind' = [kind EXCEPT ![t] = "none"]
    /\ pc' = [pc EXCEPT ![t] = "idle"]
    /\ node' = IF kind[t] = "start" THEN "up" ELSE node

\* The operation's local variables, which end with it.
Locals(t) ==
    IF kind'[t] = "none"
    THEN /\ gen' = [gen EXCEPT ![t] = 0]
         /\ item' = [item EXCEPT ![t] = {}]
         /\ failed' = [failed EXCEPT ![t] = FALSE]
    ELSE UNCHANGED <<gen, item, failed>>

\* next = "done": the durable part is over; a creation rolls back, since
\* CreateCatalogStore only comes here with an error.
Goto(t, next) ==
    IF next = "done" /\ kind[t] # "create" THEN Return(t)
    ELSE /\ pc' = [pc EXCEPT ![t] = IF next = "done" THEN "rollback" ELSE next]
         /\ UNCHANGED <<kind, node>>

Call(t, k, next) ==
    /\ node = "up" /\ kind[t] = "none"
    /\ kind' = [kind EXCEPT ![t] = k]
    /\ pc' = [pc EXCEPT ![t] = next]
    /\ UNCHANGED node

Fail == failures < MaxFailures /\ failures' = failures + 1

\* A synchronized catalog write, under catalog_mutex; with it the session
\* record becomes s.  A failed write may or may not have reached the disk; the
\* thread keeps catalog_mutex until it has published the latch.
PutRecord(t, r, s, next) ==
    \/ /\ ~latched
       /\ disk' = r /\ view' = r /\ rec' = s
       /\ Goto(t, next)
       /\ UNCHANGED <<failures, holder>>
    \/ /\ \/ latched /\ UNCHANGED <<disk, failures>>
          \/ ~latched /\ Fail /\ disk' \in {disk, r}
       /\ holder' = t
       /\ Goto(t, "latching")
       /\ UNCHANGED <<view, rec>>

\* Mutant: the flag is set without the unique catalog_gate.
LatchWithoutGate(t) ==
    /\ pc[t] = "latching"
    /\ latched' = TRUE
    /\ holder' = IF holder = t THEN NoThread ELSE holder
    /\ Goto(t, "done")
    /\ Locals(t)
    /\ UNCHANGED <<durable, view, rec, token, born, promised, counters>>

\* LatchCatalogUnavailable: the unique catalog_gate waits for every shared
\* holder, then the flag is set and the caller gives up catalog_mutex.
Latch(t) ==
    /\ pc[t] = "latching"
    /\ \A u \in Threads : pc[u] \notin InGate
    /\ latched' = TRUE
    /\ holder' = IF holder = t THEN NoThread ELSE holder
    /\ Goto(t, "done")
    /\ Locals(t)
    /\ UNCHANGED <<durable, view, rec, token, born, promised, counters>>

-----------------------------------------------------------------------------
(* CreateSession with the durable route.                                    *)

\* Publish the Creating record unless the sid is in use; a base engine that
\* cannot take a snapshot sends the creation straight to its rollback.
CreateSession(t) ==
    /\ \E next \in {"active", "rollback"} : Call(t, "create", next)
    /\ ~latched /\ born < MaxGeneration
    /\ rec = NoSession /\ view.state \in {"none", "deleted"}
    /\ born' = born + 1
    /\ gen' = [gen EXCEPT ![t] = born + 1]
    /\ rec' = [NoSession EXCEPT !.gen = born + 1, !.phase = "Creating", !.lifecycle = "active"]
    /\ UNCHANGED <<durable, view, latched, token, holder, item, failed, promised, counters>>

\* CreateCatalogStore: the synchronized active record precedes the store.
WriteActive(t) ==
    /\ pc[t] = "active" /\ holder = NoThread
    /\ PutRecord(t, ActiveRecord(gen[t]), rec, "store")
    /\ Locals(t)
    /\ UNCHANGED <<catalog, dirs, store, synced, latched, token, history, crashes,
                   accesses>>

\* The gate is entered and the latch checked again before the store is made.
EnterCreateGate(t) ==
    /\ pc[t] = "store"
    /\ Goto(t, IF latched THEN "done" ELSE "opening")
    /\ Locals(t)
    /\ UNCHANGED <<durable, view, latched, rec, token, holder, history, counters>>

\* create_directories and RocksDBEngine::Open; a failure may leave a directory.
OpenStore(t) ==
    /\ pc[t] = "opening"
    /\ \/ /\ dirs' = dirs \union {gen[t]}
          /\ rec' = [rec EXCEPT !.open = TRUE]
          /\ Goto(t, "activate")
          /\ UNCHANGED failures
       \/ /\ Fail
          /\ dirs' \in {dirs, dirs \union {gen[t]}}
          /\ Goto(t, "deleting")
          /\ UNCHANGED rec
    /\ Locals(t)
    /\ UNCHANGED <<catalog, disk, store, synced, view, latched, token, holder, history,
                   crashes, accesses>>

\* The failed generation goes through the deletion order.
WriteDeleting(t) ==
    /\ pc[t] = "deleting" /\ holder = NoThread
    /\ PutRecord(t, Moved(ActiveRecord(gen[t]), "deleting", "deleting_at"), rec, "finish")
    /\ Locals(t)
    /\ UNCHANGED <<catalog, dirs, store, synced, latched, token, history, crashes,
                   accesses>>

\* SessionRollbackGuard.
Rollback(t) ==
    /\ pc[t] = "rollback"
    /\ rec' = IF rec.gen = gen[t] THEN NoSession ELSE rec
    /\ Return(t)
    /\ Locals(t)
    /\ UNCHANGED <<durable, view, latched, token, holder, history, counters>>

ActivateSession(t) ==
    /\ pc[t] = "activate"
    /\ rec' = [rec EXCEPT !.phase = "Active"]
    /\ Goto(t, "announce")
    /\ Locals(t)
    /\ UNCHANGED <<durable, view, latched, token, holder, history, counters>>

-----------------------------------------------------------------------------
(* The liveliness token of the session.                                     *)

\* Someone holds the record's liveliness_mutex while the token is declared.
Announcing(g) == \E u \in Threads : pc[u] = "announcing" /\ gen[u] = g

\* AnnounceSession takes liveliness_mutex and checks the session is active.
AnnounceSession(t) ==
    /\ pc[t] = "announce"
    /\ IF rec.gen = gen[t] /\ rec.phase = "Active" /\ rec.lifecycle = "active"
          THEN Goto(t, "announcing")
          ELSE Return(t)
    /\ Locals(t)
    /\ UNCHANGED <<durable, view, latched, rec, token, holder, history, counters>>

\* DeclareLivelinessToken returns; a failure leaves the session unannounced.
DeclareToken(t) ==
    /\ pc[t] = "announcing"
    /\ token' \in {token, gen[t]}
    /\ Return(t)
    /\ Locals(t)
    /\ UNCHANGED <<durable, view, latched, rec, holder, history, counters>>

\* Mutant: a closer does not wait for a declaration in progress.
WithdrawWithoutMutex(t) == token' = IF token = gen[t] THEN 0 ELSE token

\* Take the token under liveliness_mutex and withdraw it.
WithdrawToken(t) == ~Announcing(gen[t]) /\ token' = IF token = gen[t] THEN 0 ELSE token

-----------------------------------------------------------------------------
(* CloseSession and the deletion order.                                     *)

\* Observe an Active record, or none; a Creating or Closing one is refused.
CloseSession(t) ==
    /\ Call(t, "close", "begin")
    /\ ~latched /\ rec.phase \in {"None", "Active"}
    /\ gen' = [gen EXCEPT ![t] = rec.gen]
    /\ UNCHANGED <<durable, view, latched, rec, token, holder, item, failed, history,
                   counters>>

\* The selection no longer stands, or there is nothing catalogued to delete.
DeletionRefused(t) ==
    \/ rec.gen # gen[t]
    \/ gen[t] # 0 /\ rec.phase # "Active"
    \/ view.state \in {"none", "deleted"}
    \/ gen[t] # 0 /\ view.gen # gen[t]
    \/ gen[t] = 0 /\ view.state = "active"

\* Under catalog_mutex and session_mutex the selection is validated again, and
\* the deleting record and the end of admission become visible together.
BeginCatalogDeletion(t) ==
    /\ pc[t] = "begin" /\ holder = NoThread
    /\ LET closing == IF gen[t] = 0 THEN rec ELSE [rec EXCEPT !.phase = "Closing"]
           next == IF gen[t] = 0 THEN "finish" ELSE "token"
       IN  \/ /\ DeletionRefused(t)
              /\ Return(t)
              /\ gen' = [gen EXCEPT ![t] = 0]
              /\ UNCHANGED <<disk, view, rec, holder, failures>>
           \/ /\ ~DeletionRefused(t)
              /\ gen' = [gen EXCEPT ![t] = view.gen]
              /\ IF view.state = "deleting"
                    THEN /\ rec' = closing
                         /\ Goto(t, next)
                         /\ UNCHANGED <<disk, view, holder, failures>>
                    ELSE PutRecord(t, Moved(view, "deleting", "deleting_at"), closing, next)
    /\ UNCHANGED <<catalog, dirs, store, synced, latched, token, item, failed, history,
                   crashes, accesses>>

\* The token is withdrawn after a declaration in progress.
WithdrawClosed(t) ==
    /\ pc[t] = "token"
    /\ WithdrawToken(t)
    /\ Goto(t, "drain")
    /\ Locals(t)
    /\ UNCHANGED <<durable, view, latched, rec, holder, history, counters>>

\* Mutant: the owners are released without WaitForAdmission.
ReleaseWithoutDrain(t) ==
    /\ pc[t] = "drain"
    /\ rec' = NoSession
    /\ Goto(t, "finish")
    /\ Locals(t)
    /\ UNCHANGED <<durable, view, latched, token, holder, history, counters>>

\* WaitForAdmission, then every owner of the generation is released.
ReleaseSession(t) ==
    /\ pc[t] = "drain"
    /\ \A u \in Threads : ~(Admitted(u) /\ gen[u] = gen[t])
    /\ rec' = NoSession
    /\ Goto(t, "finish")
    /\ Locals(t)
    /\ UNCHANGED <<durable, view, latched, token, holder, history, counters>>

\* FinishCatalogDeletion: the gate and a fresh latch check before the removal.
EnterRemoveGate(t) ==
    /\ pc[t] = "finish"
    /\ Goto(t, IF latched THEN "done" ELSE "removing")
    /\ Locals(t)
    /\ UNCHANGED <<durable, view, latched, rec, token, holder, history, counters>>

\* RemoveGeneration; an error may have removed part of the store.
RemoveGeneration(t) ==
    /\ pc[t] = "removing"
    /\ \/ /\ dirs' = dirs \ {gen[t]}
          /\ store' = [store EXCEPT ![gen[t]] = {}]
          /\ failed' = [failed EXCEPT ![t] = FALSE]
          /\ UNCHANGED failures
       \/ /\ Fail
          /\ \E left \in SUBSET store[gen[t]] : store' = [store EXCEPT ![gen[t]] = left]
          /\ failed' = [failed EXCEPT ![t] = TRUE]
          /\ UNCHANGED dirs
    /\ synced' = [synced EXCEPT ![gen[t]] = @ \intersect store'[gen[t]]]
    /\ Goto(t, "finishing")
    /\ UNCHANGED <<catalog, disk, view, latched, rec, token, holder, gen, item, history,
                   crashes, accesses>>

\* Mutant: the failure of an earlier attempt stays in the record.
DeletionKeepsFailure(error) ==
    IF error THEN Moved(view, "delete_failed", "failure")
    ELSE Moved(view, "deleted", "deleted_at")

\* The record that ends a removal; every copy of it a closer may hold differs from the
\* catalog's at most in the failure, which is set or cleared here.
Deletion(error) ==
    IF error THEN Moved(view, "delete_failed", "failure")
    ELSE [Moved(view, "deleted", "deleted_at") EXCEPT !.marks = @ \ {"failure"}]

\* Mutant: a late closer does not look at the current record.
FinishUnchecked(t) ==
    /\ pc[t] = "finishing" /\ holder = NoThread
    /\ PutRecord(t, [Deletion(failed[t]) EXCEPT !.gen = gen[t]], rec, "done")
    /\ Locals(t)
    /\ UNCHANGED <<catalog, dirs, store, synced, latched, token, history, crashes,
                   accesses>>

\* Another closer may have finished this generation, and the sid may hold a new
\* one: only the same generation's pending deletion is completed.
FinishCatalogDeletion(t) ==
    /\ pc[t] = "finishing" /\ holder = NoThread
    /\ IF view.gen = gen[t] /\ view.state \in {"deleting", "delete_failed"}
          THEN PutRecord(t, Deletion(failed[t]), rec, "done")
          ELSE Goto(t, "done") /\ UNCHANGED <<disk, view, rec, holder, failures>>
    /\ Locals(t)
    /\ UNCHANGED <<catalog, dirs, store, synced, latched, token, history, crashes,
                   accesses>>

-----------------------------------------------------------------------------
(* RetainSession.                                                           *)

\* Admission of an Active record.
RetainSession(t) ==
    /\ Call(t, "retain", "retain")
    /\ ~latched /\ rec.phase = "Active"
    /\ gen' = [gen EXCEPT ![t] = rec.gen]
    /\ item' = [item EXCEPT ![t] = store[rec.gen]]
    /\ UNCHANGED <<durable, view, latched, rec, token, holder, failed, history, counters>>

\* Under catalog_mutex: only a live active session that no close has claimed.
CheckRetainable(t) ==
    /\ pc[t] = "retain" /\ holder = NoThread
    /\ IF /\ rec.lifecycle = "active" /\ ~rec.reconciled
          /\ rec.phase = "Active" /\ view.state = "active"
         THEN Goto(t, "gate") /\ holder' = t
         ELSE Return(t) /\ UNCHANGED holder
    /\ Locals(t)
    /\ UNCHANGED <<durable, view, latched, rec, token, history, counters>>

EnterRetainGate(t) ==
    /\ pc[t] = "gate"
    /\ IF latched
          THEN Return(t) /\ holder' = NoThread
          ELSE Goto(t, "syncing") /\ UNCHANGED holder
    /\ Locals(t)
    /\ UNCHANGED <<durable, view, latched, rec, token, history, counters>>

\* Mutant: retention is committed without Sync.
SyncSkipped(t) ==
    /\ pc[t] = "syncing"
    /\ Goto(t, "commit")
    /\ Locals(t)
    /\ UNCHANGED <<durable, view, latched, rec, token, holder, history, counters>>

\* Mutant: the early return after a failed Sync keeps catalog_mutex.
SyncFailureKeepsLock(t) ==
    /\ pc[t] = "syncing"
    /\ \/ /\ synced' = [synced EXCEPT ![gen[t]] = store[gen[t]]]
          /\ Goto(t, "commit")
          /\ UNCHANGED failures
       \/ Fail /\ Return(t) /\ UNCHANGED synced
    /\ Locals(t)
    /\ UNCHANGED <<catalog, disk, dirs, store, view, latched, rec, token, holder,
                   history, crashes, accesses>>

\* The durable prefix is synchronized before the catalog claims retention.
SyncStore(t) ==
    /\ pc[t] = "syncing"
    /\ \/ /\ synced' = [synced EXCEPT ![gen[t]] = store[gen[t]]]
          /\ Goto(t, "commit")
          /\ UNCHANGED <<holder, failures>>
       \/ /\ Fail
          /\ Return(t)
          /\ holder' = NoThread
          /\ UNCHANGED synced
    /\ Locals(t)
    /\ UNCHANGED <<catalog, disk, dirs, store, view, latched, rec, token, history,
                   crashes, accesses>>

\* The retained record and the release of volatile state become visible together.
CommitRetained(t) ==
    /\ pc[t] = "commit"
    /\ PutRecord(t, Moved(view, "retained", "retained_at"),
                 [rec EXCEPT !.lifecycle = "retained"], "withdraw")
    /\ promised' = IF rec' # rec THEN [promised EXCEPT ![gen[t]] = item[t]] ELSE promised
    /\ Locals(t)
    /\ UNCHANGED <<catalog, dirs, store, synced, latched, token, born, crashes,
                   accesses>>

WithdrawRetained(t) ==
    /\ pc[t] = "withdraw"
    /\ WithdrawToken(t)
    /\ holder' = NoThread
    /\ Return(t)
    /\ Locals(t)
    /\ UNCHANGED <<durable, view, latched, rec, history, counters>>

-----------------------------------------------------------------------------
(* Durable buffer traffic.                                                  *)

\* A buffer sample is admitted to an Active session.
WriteSample(t) ==
    /\ Call(t, "write", "admitted")
    /\ rec.phase = "Active"
    /\ accesses < MaxAccesses /\ accesses' = accesses + 1
    /\ gen' = [gen EXCEPT ![t] = rec.gen]
    /\ \E i \in Items : item' = [item EXCEPT ![t] = {i}]
    /\ UNCHANGED <<durable, view, latched, rec, token, holder, failed, history, crashes,
                   failures>>

EnterWriteGate(t) ==
    /\ pc[t] = "admitted"
    /\ IF latched \/ rec.reconciled THEN Return(t) ELSE Goto(t, "writing")
    /\ Locals(t)
    /\ UNCHANGED <<durable, view, latched, rec, token, holder, history, counters>>

\* ApplyDurableBufferWrite: an unsynchronized Put that may fail.
ApplyDurableBufferWrite(t) ==
    /\ pc[t] = "writing"
    /\ store' \in {store, [store EXCEPT ![gen[t]] = @ \union item[t]]}
    /\ Return(t)
    /\ Locals(t)
    /\ UNCHANGED <<catalog, disk, dirs, synced, view, latched, rec, token, holder,
                   history, counters>>

\* ReplyBufferQuery: the gate and the latch check come before the admission.
QueryBuffer(t) ==
    /\ Call(t, "read", "reading")
    /\ ~latched /\ rec.phase = "Active"
    /\ accesses < MaxAccesses /\ accesses' = accesses + 1
    /\ gen' = [gen EXCEPT ![t] = rec.gen]
    /\ UNCHANGED <<durable, view, latched, rec, token, holder, item, failed, history,
                   crashes, failures>>

ReplyBufferQuery(t) ==
    /\ pc[t] = "reading"
    /\ Return(t)
    /\ Locals(t)
    /\ UNCHANGED <<durable, view, latched, rec, token, holder, history, counters>>

-----------------------------------------------------------------------------
(* Start, Stop and crashes.                                                 *)

\* A new State, whose latch is clear.
Start(t) ==
    /\ node = "down" /\ node' = "starting"
    /\ latched' = FALSE
    /\ kind' = [kind EXCEPT ![t] = "start"]
    /\ pc' = [pc EXCEPT ![t] = "open"]
    /\ UNCHANGED <<durable, view, rec, token, holder, gen, item, failed, history, counters>>

\* LoadEntries: the schema is there and every record decodes.
Loadable == catalog = "ready" /\ Readable(disk)

\* SessionCatalog::Open: an existing catalog is loaded, and a new one is made only beside
\* an empty sessions directory.  One that cannot be opened or validated leaves the node
\* up with the latch set.
OpenCatalog(t) ==
    /\ pc[t] = "open"
    /\ \/ /\ Loadable
          /\ view' = disk /\ gen' = [gen EXCEPT ![t] = disk.gen]
          /\ Goto(t, "reconcile")
          /\ UNCHANGED <<catalog, failures>>
       \/ /\ catalog = "absent" /\ dirs = {}
          /\ catalog' = "raw"
          /\ Goto(t, "initialize")
          /\ UNCHANGED <<view, gen, failures>>
       \/ /\ \/ ~Loadable /\ (catalog # "absent" \/ dirs # {}) /\ UNCHANGED <<catalog, failures>>
             \/ Fail /\ catalog' \in {catalog, IF catalog = "absent" THEN "raw" ELSE catalog}
          /\ Goto(t, "latching")
          /\ UNCHANGED <<view, gen>>
    /\ UNCHANGED <<disk, dirs, store, synced, latched, rec, token, holder, item, failed,
                   history, crashes, accesses>>

\* The synchronized batch with the schema and the instance.
InitializeCatalog(t) ==
    /\ pc[t] = "initialize"
    /\ \/ catalog' = "ready" /\ Goto(t, "reconcile") /\ UNCHANGED failures
       \/ Fail /\ catalog' \in {"raw", "ready"} /\ Goto(t, "latching")
    /\ gen' = [gen EXCEPT ![t] = 0]
    /\ UNCHANGED <<disk, dirs, store, synced, view, latched, rec, token, holder, item,
                   failed, history, crashes, accesses>>

\* InstallReconciledSession.
Reconciled(g, state) ==
    [gen |-> g, phase |-> "Active", lifecycle |-> state, reconciled |-> TRUE, open |-> TRUE]

\* OpenReconciledStore failed: the catalog fails closed.
ReconcileFails(t) == Goto(t, "latching") /\ UNCHANGED rec

\* An active record's store may not exist yet and is created first.
ReconcileActive(t) ==
    \/ /\ dirs' = dirs \union {gen[t]}
       /\ Goto(t, "orphan")
       /\ UNCHANGED <<rec, failures>>
    \/ /\ Fail
       /\ dirs' \in {dirs, dirs \union {gen[t]}}
       /\ ReconcileFails(t)

\* An established store must exist; it is reopened for reads and deletion.
ReconcileEstablished(t) ==
    /\ \/ /\ gen[t] \in dirs
          /\ rec' = Reconciled(gen[t], view.state)
          /\ Return(t)
          /\ UNCHANGED failures
       \/ gen[t] \in dirs /\ Fail /\ ReconcileFails(t)
       \/ gen[t] \notin dirs /\ ReconcileFails(t) /\ UNCHANGED failures
    /\ UNCHANGED dirs

\* Mutant: Start leaves a pending deletion alone.
ReconcileDeletingSkipped(t) == Return(t) /\ UNCHANGED <<dirs, rec, failures>>

\* A durable administrative request continues after restart.
ReconcileDeleting(t) == Goto(t, "finish") /\ UNCHANGED <<dirs, rec, failures>>

\* ReconcileCatalog dispatches on the record's state.
ReconcileCatalog(t) ==
    /\ pc[t] = "reconcile"
    /\ \/ /\ view.state \in {"none", "deleted", "delete_failed"}
          /\ Return(t)
          /\ UNCHANGED <<dirs, rec, failures>>
       \/ view.state = "deleting" /\ ReconcileDeleting(t)
       \/ view.state = "active" /\ ReconcileActive(t)
       \/ view.state \in {"retained", "orphaned"} /\ ReconcileEstablished(t)
    /\ Locals(t)
    /\ UNCHANGED <<catalog, disk, store, synced, view, latched, token, holder, history,
                   crashes, accesses>>

\* orphaned is committed only once the store is ready, then served.
WriteOrphaned(t) ==
    /\ pc[t] = "orphan" /\ holder = NoThread
    /\ PutRecord(t, Moved(view, "orphaned", "orphaned_at"), Reconciled(gen[t], "orphaned"), "done")
    /\ Locals(t)
    /\ UNCHANGED <<catalog, dirs, store, synced, latched, token, history, crashes,
                   accesses>>

\* Stop closes admission of new calls.
Stop ==
    /\ node = "up" /\ node' = "stopping"
    /\ UNCHANGED <<durable, view, latched, rec, token, holder, calls, history, counters>>

\* Quiesce: the admitted calls are drained, every record and then the catalog
\* are released.
Quiesce ==
    /\ node = "stopping"
    /\ \A t \in Threads : kind[t] = "none"
    /\ node' = "down" /\ rec' = NoSession /\ token' = 0 /\ view' = NoRecord
    /\ UNCHANGED <<durable, latched, holder, calls, history, counters>>

\* A failed catalog write of another sid latches the whole node.
LatchElsewhere ==
    /\ node = "up" /\ ~latched /\ Fail
    /\ holder = NoThread /\ \A t \in Threads : pc[t] \notin InGate
    /\ latched' = TRUE
    /\ UNCHANGED <<durable, node, view, rec, token, holder, calls, born, promised, crashes,
                   accesses>>

\* Entries a power loss may take: those not synchronized, and any of a
\* generation whose removal is under way.
AtRisk(g) ==
    IF \E t \in Threads : pc[t] = "removing" /\ gen[t] = g THEN store[g] ELSE store[g] \ synced[g]

\* The host loses power: process memory is gone, the disk keeps what was
\* synchronized and any part of the rest.
Crash ==
    /\ crashes < MaxCrashes /\ crashes' = crashes + 1
    /\ \E lost \in SUBSET Items :
           /\ store' = [g \in Generation |-> store[g] \ (lost \intersect AtRisk(g))]
           /\ synced' = [g \in Generation |-> synced[g] \ (lost \intersect AtRisk(g))]
    /\ node' = "down" /\ view' = NoRecord /\ latched' = FALSE
    /\ rec' = NoSession /\ token' = 0 /\ holder' = NoThread
    /\ kind' = [t \in Threads |-> "none"] /\ pc' = [t \in Threads |-> "idle"]
    /\ gen' = [t \in Threads |-> 0] /\ item' = [t \in Threads |-> {}]
    /\ failed' = [t \in Threads |-> FALSE]
    /\ UNCHANGED <<catalog, disk, dirs, born, promised, failures, accesses>>

-----------------------------------------------------------------------------
Calls(t) ==
    \/ CreateSession(t) \/ CloseSession(t) \/ RetainSession(t)
    \/ WriteSample(t) \/ QueryBuffer(t)

Steps(t) ==
    \/ WriteActive(t) \/ EnterCreateGate(t) \/ OpenStore(t) \/ WriteDeleting(t)
    \/ Rollback(t) \/ ActivateSession(t) \/ AnnounceSession(t) \/ DeclareToken(t)
    \/ BeginCatalogDeletion(t) \/ WithdrawClosed(t) \/ ReleaseSession(t)
    \/ EnterRemoveGate(t) \/ RemoveGeneration(t) \/ FinishCatalogDeletion(t)
    \/ CheckRetainable(t) \/ EnterRetainGate(t) \/ SyncStore(t) \/ CommitRetained(t)
    \/ WithdrawRetained(t) \/ EnterWriteGate(t) \/ ApplyDurableBufferWrite(t)
    \/ ReplyBufferQuery(t) \/ OpenCatalog(t) \/ InitializeCatalog(t) \/ ReconcileCatalog(t)
    \/ WriteOrphaned(t) \/ Latch(t)

Next ==
    \/ \E t \in Threads : Calls(t) \/ Steps(t) \/ Start(t)
    \/ Stop \/ Quiesce \/ LatchElsewhere \/ Crash

Spec == Init /\ [][Next]_vars

\* Running threads keep running, Stop finishes, and a host whose node is down
\* starts it again.  No lock is assumed to be fair.
FairSpec ==
    /\ Spec
    /\ \A t \in Threads : WF_vars(Steps(t))
    /\ WF_vars(Quiesce \/ \E t \in Threads : Start(t))

-----------------------------------------------------------------------------
TypeOK ==
    /\ catalog \in {"absent", "raw", "ready"} /\ disk \in CatalogRecord /\ view \in CatalogRecord
    /\ dirs \subseteq Generation
    /\ store \in [Generation -> SUBSET Items] /\ synced \in [Generation -> SUBSET Items]
    /\ node \in {"down", "starting", "up", "stopping"} /\ latched \in BOOLEAN
    /\ rec \in SessionRecord /\ token \in 0 .. MaxGeneration
    /\ holder \in Threads \union {NoThread}
    /\ kind \in [Threads -> Kind] /\ pc \in [Threads -> PC]
    /\ gen \in [Threads -> 0 .. MaxGeneration] /\ item \in [Threads -> SUBSET Items]
    /\ failed \in [Threads -> BOOLEAN]
    /\ born \in 0 .. MaxGeneration /\ promised \in [Generation -> SUBSET Items]
    /\ crashes \in 0 .. MaxCrashes /\ failures \in 0 .. MaxFailures
    /\ accesses \in 0 .. MaxAccesses

\* The catalog and the disk agree in every state a power loss can leave behind.
\* A generation directory belongs to the generation the sid's record names, and
\* the record does not call it deleted, so none is left that no Start removes.  A
\* record that reconciliation refuses to re-create a store for has its store, and
\* the record decodes with the metadata its state needs, so Start never fails
\* closed on what the node wrote itself.  A catalog that an interrupted first use
\* left without its schema stands beside no record and no store.
CatalogMatchesDisk ==
    /\ TypeOK
    /\ \A g \in dirs : disk.gen = g /\ disk.state # "deleted"
    /\ disk.state \in {"retained", "orphaned"} => disk.gen \in dirs
    /\ Readable(disk)
    /\ catalog # "ready" => disk = NoRecord /\ dirs = {}

\* Entries stored before a successful RetainSession was called outlive every
\* later power loss for as long as the record says retained.
RetainedDataSurvives ==
    disk.state = "retained" => promised[disk.gen] \subseteq store[disk.gen]

\* A durable read, write or Sync runs on an open engine of the generation it
\* was admitted to, and its directory is still there.
NoAccessAfterRelease ==
    \A t \in Threads : pc[t] \in {"syncing", "commit", "writing", "reading"} =>
        rec.gen = gen[t] /\ rec.open /\ gen[t] \in dirs

\* A declared token names the live active session, or a close or retention
\* that committed is about to withdraw it: none outlives the call.
TokenNamesActiveSession ==
    token # 0 =>
        \/ rec.gen = token /\ rec.phase = "Active" /\ rec.lifecycle = "active"
        \/ \E t \in Threads : pc[t] \in {"token", "withdraw"} /\ gen[t] = token

LifecycleStep ==
    {<<"active", "retained">>, <<"active", "orphaned">>, <<"active", "deleting">>,
     <<"retained", "deleting">>, <<"orphaned", "deleting">>,
     <<"deleting", "deleted">>, <<"deleting", "delete_failed">>,
     <<"delete_failed", "deleting">>, <<"delete_failed", "deleted">>}

\* The durable record of a generation only moves along the lifecycle, and a new
\* generation replaces it only after its deletion: a retention never overwrites
\* a deletion and a late closer never touches the next generation's record.  A
\* directory is removed only while its record says it is being deleted and no
\* session record holds its engine.
DurableLifecycle ==
    [][/\ disk' # disk =>
             \/ disk'.gen = disk.gen /\ <<disk.state, disk'.state>> \in LifecycleStep
             \/ /\ disk'.gen > disk.gen /\ disk'.state = "active"
                /\ disk.state \in {"none", "deleted"}
       /\ \A g \in dirs \ dirs' :
             /\ disk.gen = g /\ disk.state \in {"deleting", "delete_failed"}
             /\ ~(rec.gen = g /\ rec.open)]_vars

\* Once the catalog is latched unavailable, nothing durable changes until the
\* next Start or crash.
LatchStopsDurableChange ==
    [][latched /\ latched' => UNCHANGED durable]_vars

\* Every call returns: the waits on catalog_mutex, the gate, liveliness_mutex
\* and admissions never form a cycle.
CallsReturn ==
    \A t \in Threads : kind[t] # "none" ~> kind[t] = "none"

\* A recorded deletion is finished or recorded as failed, across a crash too,
\* unless the catalog latches.
DeletionResolves ==
    disk.state = "deleting" ~> disk.state # "deleting" \/ latched

\* Readiness() never reports ready again in a process that latched the catalog:
\* only a crash, which ends the process, comes between the two.
ReadinessStaysFalse ==
    \A c \in 0 .. MaxCrashes :
        [](latched /\ crashes = c => [](crashes = c => ~(node = "up" /\ ~latched)))
=============================================================================
