---------------------------- MODULE ParamCache ----------------------------
(***************************************************************************)
(* One ParamCache on a liveliness-capable Transport: Attach, Put/PutBatch, *)
(* the subscriber callback, the recovery worker of ADR-0037 and Detach     *)
(* (src/src/param_cache.cpp).                                              *)
(*                                                                         *)
(* The cache is followed at one key, whose value is a member of Values or  *)
(* NoValue (absent); a mutation is the value it puts, NoValue for a        *)
(* Delete.  A State object is a slot of `states`; a slot no pointer refers *)
(* to is free again, as a shared_ptr releases it.  The Fence part of a     *)
(* State (publisher, lane, dispatch registration) is the subject of        *)
(* FencePublisher and FenceReceiver and is left out here.                  *)
(*                                                                         *)
(* The StorageNode side is one Session of the sid at a time: its           *)
(* generation, snapshot value, overlay value and liveliness token.  The    *)
(* Transport is external and has one router: samples and liveliness events *)
(* reach this cache in the order they were published, and a Get is         *)
(* answered with every write published before it.                          *)
(***************************************************************************)
EXTENDS Integers, Sequences, FiniteSets, SequencesExt, FiniteSetsExt

CONSTANTS Values,          \* values of the key
          NoValue,         \* the key is absent
          Callers,         \* threads that call Put
          MaxGenerations,  \* bound: Sessions created under the sid
          MaxWrites,       \* bound: writes published, remote and local
          MaxOutages,      \* bound: times the path to the node is lost
          MaxFailures,     \* bound: declarations, Gets and submissions that fail
          MaxLifecycle,    \* bound: calls of Attach and Detach
          MaxInFlight      \* bound: samples and events on their way to the cache

ASSUME ValuesAssumption == NoValue \notin Values

\* 0 stands for the empty generation string and for a null State pointer.
None == 0
Generations == 1 .. MaxGenerations
Owner == "owner"           \* the thread inside lifecycle_mutex: Attach, Detach
Worker == "worker"         \* RecoveryLoop
Callback == "callback"     \* the Transport thread that runs subscriber callbacks
Slots == 1 .. 3 + Cardinality(Callers)
Mutations == Values \cup {NoValue}

VARIABLES
  gen, base, overlay, token, created,   \* the Session on the node
  down, inbox,                          \* the path to the node; undelivered samples and events
  states, leases, active,               \* State objects, their in_flight, active_state
  recovery, subscribed, published,      \* Recovery, its subscription, Impl::recovery
  pc, plan,                             \* control and locals of Owner and Worker
  callback,                             \* the sample being dispatched and who has yet to see it
  calls,                                \* the Put calls
  budget,                               \* what is left of the bounds
  raced                                 \* history: a write was published between the
                                        \* submission and the local application of a Put

node == <<gen, base, overlay, token, created>>
link == <<down, inbox>>
objects == <<states, leases>>
liveness == <<recovery, subscribed, published>>
control == <<pc, plan>>
vars == <<node, link, objects, active, liveness, control, callback, calls, budget, raced>>

Steps == {"idle", "note", "declare", "snapshot", "overlay", "golive", "built", "cleanup",
          "cleaning", "failed", "arm", "join", "quiesce", "quiescing",
          "clear", "wait", "retry"}

State == [phase : {"Buffering", "Live", "Stopping"}, accepting : BOOLEAN, subscription : BOOLEAN,
          snapshot_baseline : Mutations, effective : Mutations, buffered : Seq(Mutations)]

FreshState == [phase |-> "Buffering", accepting |-> TRUE, subscription |-> TRUE,
               snapshot_baseline |-> NoValue, effective |-> NoValue, buffered |-> <<>>]
NoState == [FreshState EXCEPT !.phase = "Stopping", !.accepting = FALSE, !.subscription = FALSE]

FreshRecovery == [live |-> <<>>, bound |-> None, events |-> 0, armed |-> FALSE,
                  stop |-> FALSE, stale |-> TRUE]
NoPlan == [target |-> None, events |-> 0, state |-> None, snapshot |-> NoValue,
           overlay |-> NoValue, built |-> FALSE]
NoCall == [at |-> "idle", state |-> None, value |-> NoValue]
NoCallback == [todo |-> {}, value |-> NoValue]

TypeOK ==
  /\ gen \in Generations \cup {None} /\ token \in Generations \cup {None}
  /\ created \in 0 .. MaxGenerations
  /\ base \in Mutations /\ overlay \in Mutations /\ down \in BOOLEAN
  /\ inbox \in Seq([kind : {"sample"}, value : Mutations] \cup
                   [kind : {"Put", "Delete"}, generation : Generations])
  /\ states \in [Slots -> State] /\ active \in Slots \cup {None}
  /\ leases \in [Slots -> SUBSET (Callers \cup {Callback})]
  /\ recovery \in [live : Seq(Generations), bound : Generations \cup {None}, events : Nat,
                   armed : BOOLEAN, stop : BOOLEAN, stale : BOOLEAN]
  /\ Cardinality(ToSet(recovery.live)) = Len(recovery.live)
  /\ subscribed \in BOOLEAN /\ published \in BOOLEAN
  /\ pc \in [{Owner, Worker} -> Steps]
  /\ plan \in [{Owner, Worker} -> [target : Generations \cup {None}, events : Nat,
                 state : Slots \cup {None}, snapshot : Mutations, overlay : Mutations,
                 built : BOOLEAN]]
  /\ callback \in [todo : SUBSET Slots, value : Mutations]
  /\ calls \in [Callers -> [at : {"idle", "submit", "apply"},
                            state : Slots \cup {None}, value : Mutations]]
  /\ budget \in [writes : 0 .. MaxWrites, outages : 0 .. MaxOutages,
                 failures : 0 .. MaxFailures, lifecycle : 0 .. MaxLifecycle]
  /\ raced \in BOOLEAN

Init ==
  /\ gen = None /\ base = NoValue /\ overlay = NoValue /\ token = None /\ created = 0
  /\ down = FALSE /\ inbox = <<>>
  /\ states = [n \in Slots |-> NoState] /\ leases = [n \in Slots |-> {}] /\ active = None
  /\ recovery = FreshRecovery /\ subscribed = FALSE /\ published = FALSE
  /\ pc = [p \in {Owner, Worker} |-> "idle"] /\ plan = [p \in {Owner, Worker} |-> NoPlan]
  /\ callback = NoCallback /\ calls = [c \in Callers |-> NoCall]
  /\ budget = [writes |-> MaxWrites, outages |-> MaxOutages,
               failures |-> MaxFailures, lifecycle |-> MaxLifecycle]
  /\ raced = FALSE

-----------------------------------------------------------------------------
\* The node's Session and the Transport.

View == IF overlay = NoValue THEN base ELSE overlay

Room == Len(inbox) < MaxInFlight
Event(kind, g) == [kind |-> kind, generation |-> g]
Reaches(message) == IF down THEN inbox ELSE Append(inbox, message)

CreateSession ==
  /\ gen = None /\ token = None /\ created < MaxGenerations
  /\ created' = created + 1 /\ gen' = created + 1 /\ overlay' = NoValue
  /\ base' \in Mutations
  /\ UNCHANGED <<token, link, objects, active, liveness, control, callback, calls, budget, raced>>

DeclareToken ==
  /\ gen # None /\ token = None /\ Room
  /\ token' = gen /\ inbox' = Reaches(Event("Put", gen))
  /\ UNCHANGED <<gen, base, overlay, created, down, objects, active, liveness, control,
                 callback, calls, budget, raced>>

\* CloseSession, Stop or a crash: reads and writes end, then the token goes.  A Session that
\* ends before AnnounceSession is never announced.
EndSession ==
  /\ gen # None /\ gen' = None
  /\ UNCHANGED <<base, overlay, token, created, link, objects, active, liveness, control,
                 callback, calls, budget, raced>>

WithdrawToken ==
  /\ gen = None /\ token # None /\ Room
  /\ token' = None /\ inbox' = Reaches(Event("Delete", token))
  /\ UNCHANGED <<gen, base, overlay, created, down, objects, active, liveness, control,
                 callback, calls, budget, raced>>

\* The path to the node is lost: its token is reported gone, and neither samples of other
\* writers nor replies come through until it is back.
LosePath ==
  /\ ~down /\ budget.outages > 0 /\ Room
  /\ down' = TRUE /\ budget' = [budget EXCEPT !.outages = @ - 1]
  /\ inbox' = IF token = None THEN inbox ELSE Append(inbox, Event("Delete", token))
  /\ UNCHANGED <<node, objects, active, liveness, control, callback, calls, raced>>

RestorePath ==
  /\ down /\ Room
  /\ down' = FALSE
  /\ inbox' = IF token = None THEN inbox ELSE Append(inbox, Event("Put", token))
  /\ UNCHANGED <<node, objects, active, liveness, control, callback, calls, budget, raced>>

Stored(m) == IF gen = None THEN overlay ELSE m
Racing(c) == raced \/ \E other \in Callers \ {c} : calls[other].at = "apply"

\* Another client puts or deletes the key.
RemoteWrite(m) ==
  /\ Room /\ budget.writes > 0 /\ budget' = [budget EXCEPT !.writes = @ - 1]
  /\ overlay' = Stored(m)
  /\ inbox' = Reaches([kind |-> "sample", value |-> m])
  /\ raced' = Racing(Owner)
  /\ UNCHANGED <<gen, base, token, created, down, objects, active, liveness, control,
                 callback, calls>>

-----------------------------------------------------------------------------
\* State, its gate and its map.

\* ApplyMutation: a Delete restores the snapshot value.
ApplyMutation(s, m) == [s EXCEPT !.effective = IF m = NoValue THEN s.snapshot_baseline ELSE m]
ApplyMutations(s, ms) == FoldLeft(ApplyMutation, s, ms)

\* OnSample inside sequence_mutex.
ApplySample(s, m) ==
  CASE s.phase = "Buffering" -> [s EXCEPT !.buffered = Append(@, m)]
    [] s.phase = "Live"      -> ApplyMutation(s, m)
    [] OTHER                 -> s

\* GoLive of BuildCandidate: baseline, overlay, buffered samples, then live.
GoneLive(s, snapshot, over) ==
  LET read == [s EXCEPT !.snapshot_baseline = snapshot,
                        !.effective = IF over = NoValue THEN snapshot ELSE over]
  IN [ApplyMutations(read, s.buffered) EXCEPT !.buffered = <<>>, !.phase = "Live"]

\* CloseGate, and the subscription dropped.
Closed(s) == [s EXCEPT !.accepting = FALSE, !.subscription = FALSE]
\* The end of CleanupCandidate and of QuiesceState.  The latter leaves the maps to a reader
\* that loaded the pointer earlier; no step reads the maps of a Stopping State.
Stopped(s) == [s EXCEPT !.phase = "Stopping", !.snapshot_baseline = NoValue,
                        !.effective = NoValue, !.buffered = <<>>]

\* Mutant of Drained: nothing is waited for.
DrainedAtOnce(n) == TRUE

\* WaitForCallbacks
Drained(n) == leases[n] = {}

Referenced(n) ==
  \/ n = active
  \/ \E p \in {Owner, Worker} : plan[p].state = n
  \/ \E c \in Callers : calls[c].state = n
  \/ n \in callback.todo

\* make_shared<State>
NewSlot == Min({n \in Slots : ~Referenced(n)})

Lease(n, who) == leases' = [leases EXCEPT ![n] = @ \cup {who}]
Release(n, who) == leases' = [leases EXCEPT ![n] = @ \ {who}]

-----------------------------------------------------------------------------
\* Callbacks.

\* OnLiveliness
AfterLiveliness(r, e) ==
  LET others == SelectSeq(r.live, LAMBDA g : g # e.generation)
      put == e.kind = "Put"
      unbind == put # (r.bound = e.generation)
  IN [r EXCEPT !.events = @ + 1,
               !.live = IF put THEN Append(others, e.generation) ELSE others,
               !.bound = IF unbind THEN None ELSE @,
               !.stale = @ \/ unbind]

DeliverLiveliness ==
  /\ inbox # <<>> /\ callback.todo = {} /\ Head(inbox).kind # "sample"
  /\ inbox' = Tail(inbox)
  /\ recovery' = IF subscribed THEN AfterLiveliness(recovery, Head(inbox)) ELSE recovery
  /\ UNCHANGED <<node, down, objects, active, subscribed, published, control, callback, calls,
                 budget, raced>>

DeliverSample ==
  /\ inbox # <<>> /\ callback.todo = {} /\ Head(inbox).kind = "sample"
  /\ inbox' = Tail(inbox)
  /\ LET todo == {n \in Slots : states[n].subscription}
     IN callback' = IF todo = {} THEN NoCallback
                    ELSE [todo |-> todo, value |-> Head(inbox).value]
  /\ UNCHANGED <<node, down, objects, active, liveness, control, calls, budget, raced>>

\* The subscribers of one sample are called one after the other.
Callee == Min(callback.todo)
Seen == IF callback.todo = {Callee} THEN NoCallback ELSE [callback EXCEPT !.todo = @ \ {Callee}]
Entered == callback.todo # {} /\ Callback \in leases[Callee]

\* OnSample up to the lease: a closed gate drops the sample.
EnterCallback ==
  /\ callback.todo # {} /\ ~Entered
  /\ \/ states[Callee].accepting /\ Lease(Callee, Callback) /\ UNCHANGED callback
     \/ ~states[Callee].accepting /\ callback' = Seen /\ UNCHANGED leases
  /\ UNCHANGED <<node, link, states, active, liveness, control, calls, budget, raced>>

\* OnSample from the sequence lock on.
OnSample ==
  /\ Entered
  /\ states' = [states EXCEPT ![Callee] = ApplySample(@, callback.value)]
  /\ Release(Callee, Callback) /\ callback' = Seen
  /\ UNCHANGED <<node, link, active, liveness, control, calls, budget, raced>>

-----------------------------------------------------------------------------
\* Put and PutBatch.

\* LoadState
Put(c, v) ==
  /\ calls[c].at = "idle" /\ active # None /\ budget.writes > 0
  /\ calls' = [calls EXCEPT ![c] = [at |-> "submit", state |-> active, value |-> v]]
  /\ budget' = [budget EXCEPT !.writes = @ - 1]
  /\ UNCHANGED <<node, link, objects, active, liveness, control, callback, raced>>

\* OperationLease, then SubmitData or Transport::Put: the node stores the value if it is
\* reachable, and this process's own subscribers get it either way.
SubmitPut(c) ==
  /\ calls[c].at = "submit" /\ states[calls[c].state].accepting /\ Room
  /\ Lease(calls[c].state, c)
  /\ overlay' = IF down THEN overlay ELSE Stored(calls[c].value)
  /\ inbox' = Append(inbox, [kind |-> "sample", value |-> calls[c].value])
  /\ calls' = [calls EXCEPT ![c].at = "apply"] /\ raced' = Racing(c)
  /\ UNCHANGED <<gen, base, token, created, down, states, active, liveness, control,
                 callback, budget>>

\* The gate is closed, or the submission fails and the lease is returned.
PutFails(c) ==
  /\ calls[c].at = "submit"
  /\ \/ ~states[calls[c].state].accepting /\ UNCHANGED budget
     \/ /\ states[calls[c].state].accepting /\ budget.failures > 0
        /\ budget' = [budget EXCEPT !.failures = @ - 1]
  /\ calls' = [calls EXCEPT ![c] = NoCall]
  /\ UNCHANGED <<node, link, objects, active, liveness, control, callback, raced>>

ApplyPut(c) ==
  /\ calls[c].at = "apply"
  /\ LET n == calls[c].state
     IN /\ states' = IF states[n].phase # "Live" THEN states
                     ELSE [states EXCEPT ![n] = ApplyMutation(@, calls[c].value)]
        /\ Release(n, c)
  /\ calls' = [calls EXCEPT ![c] = NoCall]
  /\ UNCHANGED <<node, link, active, liveness, control, callback, budget, raced>>

-----------------------------------------------------------------------------
\* BuildCandidate, CleanupCandidate and QuiesceState, run by Attach or by the worker.

Goto(p, step) == pc' = [pc EXCEPT ![p] = step]

Target == IF recovery.live = <<>> THEN None ELSE Last(recovery.live)
Noted == [NoPlan EXCEPT !.target = Target, !.events = recovery.events]
NoEventSince(p) == recovery.events = plan[p].events

\* Only the worker passes a cancel flag.
Cancelled(p) == p = Worker /\ recovery.stop

DeclareCandidate(p) ==
  /\ pc[p] = "declare"
  /\ states' = [states EXCEPT ![NewSlot] = FreshState]
  /\ plan' = [plan EXCEPT ![p].state = NewSlot] /\ Goto(p, "snapshot")
  /\ UNCHANGED <<node, link, leases, active, liveness, callback, calls, budget, raced>>

DeclareFails(p) ==
  /\ pc[p] = "declare" /\ budget.failures > 0
  /\ budget' = [budget EXCEPT !.failures = @ - 1] /\ Goto(p, "failed")
  /\ UNCHANGED <<node, link, objects, active, liveness, plan, callback, calls, raced>>

\* Fetch: an unreachable or absent Session gives no replies.
Reply(value) == IF down \/ gen = None THEN NoValue ELSE value

FetchSnapshot(p) ==
  /\ pc[p] = "snapshot" /\ ~Cancelled(p)
  /\ plan' = [plan EXCEPT ![p].snapshot = Reply(base)] /\ Goto(p, "overlay")
  /\ UNCHANGED <<node, link, objects, active, liveness, callback, calls, budget, raced>>

FetchOverlay(p) ==
  /\ pc[p] = "overlay" /\ ~Cancelled(p)
  /\ plan' = [plan EXCEPT ![p].overlay = Reply(overlay)] /\ Goto(p, "golive")
  /\ UNCHANGED <<node, link, objects, active, liveness, callback, calls, budget, raced>>

FetchFails(p) ==
  /\ pc[p] \in {"snapshot", "overlay"}
  /\ \/ Cancelled(p) /\ UNCHANGED budget
     \/ ~Cancelled(p) /\ budget.failures > 0 /\ budget' = [budget EXCEPT !.failures = @ - 1]
  /\ Goto(p, "cleanup")
  /\ UNCHANGED <<node, link, objects, active, liveness, plan, callback, calls, raced>>

GoLive(p) ==
  /\ pc[p] = "golive"
  /\ states' = [states EXCEPT ![plan[p].state] =
                  GoneLive(@, plan[p].snapshot, plan[p].overlay)]
  /\ plan' = [plan EXCEPT ![p].built = TRUE, ![p].snapshot = NoValue, ![p].overlay = NoValue]
  /\ Goto(p, "built")
  /\ UNCHANGED <<node, link, leases, active, liveness, callback, calls, budget, raced>>

CloseCandidate(p) ==
  /\ pc[p] = "cleanup"
  /\ states' = [states EXCEPT ![plan[p].state] = Closed(@)]
  /\ Goto(p, "cleaning")
  /\ UNCHANGED <<node, link, leases, active, liveness, plan, callback, calls, budget, raced>>

CleanedUp(p) ==
  /\ pc[p] = "cleaning" /\ Drained(plan[p].state)
  /\ states' = [states EXCEPT ![plan[p].state] = Stopped(@)]
  /\ plan' = [plan EXCEPT ![p].state = None]
  /\ Goto(p, IF p = Worker /\ plan[p].built THEN "wait" ELSE "failed")
  /\ UNCHANGED <<node, link, leases, active, liveness, callback, calls, budget, raced>>

CloseReplaced(p) ==
  /\ pc[p] = "quiesce"
  /\ states' = [states EXCEPT ![plan[p].state] = Closed(@)]
  /\ Goto(p, "quiescing")
  /\ UNCHANGED <<node, link, leases, active, liveness, plan, callback, calls, budget, raced>>

Quiesced(p) ==
  /\ pc[p] = "quiescing" /\ Drained(plan[p].state)
  /\ states' = [states EXCEPT ![plan[p].state] = Stopped(@)]
  /\ plan' = [plan EXCEPT ![p] = NoPlan]
  /\ Goto(p, IF p = Worker THEN "wait" ELSE "clear")
  /\ UNCHANGED <<node, link, leases, active, liveness, callback, calls, budget, raced>>

Build(p) ==
  \/ DeclareCandidate(p) \/ DeclareFails(p)
  \/ FetchSnapshot(p) \/ FetchOverlay(p) \/ FetchFails(p)
  \/ GoLive(p)
  \/ CloseCandidate(p) \/ CleanedUp(p)
  \/ CloseReplaced(p) \/ Quiesced(p)

-----------------------------------------------------------------------------
\* RecoveryLoop.

WakeStopped == recovery.stop
WakeRebuild == recovery.armed /\ recovery.bound = None /\ recovery.live # <<>>

\* Mutant of StopWorker: the wait does not test `stop`, only the code after it does.
StopWorkerWhenWoken ==
  /\ pc[Worker] = "wait" /\ WakeStopped /\ WakeRebuild
  /\ Goto(Worker, "idle") /\ plan' = [plan EXCEPT ![Worker] = NoPlan]
  /\ UNCHANGED <<node, link, objects, active, liveness, callback, calls, budget, raced>>

StopWorker ==
  /\ pc[Worker] = "wait" /\ WakeStopped
  /\ Goto(Worker, "idle") /\ plan' = [plan EXCEPT ![Worker] = NoPlan]
  /\ UNCHANGED <<node, link, objects, active, liveness, callback, calls, budget, raced>>

BeginRebuild ==
  /\ pc[Worker] = "wait" /\ ~WakeStopped /\ WakeRebuild
  /\ plan' = [plan EXCEPT ![Worker] = Noted] /\ Goto(Worker, "declare")
  /\ UNCHANGED <<node, link, objects, active, liveness, callback, calls, budget, raced>>

\* Mutant of Current: the event count is not compared.
CurrentWhileRunning == ~recovery.stop

Current == ~recovery.stop /\ NoEventSince(Worker)

\* Mutant of SwapIn: the candidate, not the replaced State, is quiesced.
SwapInClosing ==
  /\ pc[Worker] = "built" /\ Current
  /\ active' = plan[Worker].state
  /\ plan' = [plan EXCEPT ![Worker] = [NoPlan EXCEPT !.state = plan[Worker].state]]
  /\ recovery' = [recovery EXCEPT !.bound = plan[Worker].target, !.stale = FALSE]
  /\ Goto(Worker, "quiesce")
  /\ UNCHANGED <<node, link, objects, subscribed, published, callback, calls, budget, raced>>

\* The check, the swap and the bind under Recovery::mutex.
SwapIn ==
  /\ pc[Worker] = "built" /\ Current
  /\ active' = plan[Worker].state
  /\ plan' = [plan EXCEPT ![Worker] = [NoPlan EXCEPT !.state = active]]
  /\ recovery' = [recovery EXCEPT !.bound = plan[Worker].target, !.stale = FALSE]
  /\ Goto(Worker, "quiesce")
  /\ UNCHANGED <<node, link, objects, subscribed, published, callback, calls, budget, raced>>

DiscardBuilt ==
  /\ pc[Worker] = "built" /\ ~Current
  /\ Goto(Worker, "cleanup")
  /\ UNCHANGED <<node, link, objects, active, liveness, plan, callback, calls, budget, raced>>

RebuildFailed ==
  /\ pc[Worker] = "failed"
  /\ Goto(Worker, IF NoEventSince(Worker) THEN "retry" ELSE "wait")
  /\ UNCHANGED <<node, link, objects, active, liveness, plan, callback, calls, budget, raced>>

\* Mutant of RetryElapsed: no timer, only an event or Detach ends the wait.
RetryOnEvent ==
  /\ pc[Worker] = "retry" /\ (recovery.stop \/ ~NoEventSince(Worker))
  /\ Goto(Worker, "wait")
  /\ UNCHANGED <<node, link, objects, active, liveness, plan, callback, calls, budget, raced>>

\* recovery_retry_interval elapses, or an event or Detach ends the wait.
RetryElapsed ==
  /\ pc[Worker] = "retry"
  /\ Goto(Worker, "wait")
  /\ UNCHANGED <<node, link, objects, active, liveness, plan, callback, calls, budget, raced>>

-----------------------------------------------------------------------------
\* Attach and Detach.

\* The liveliness subscriber is told of the tokens that exist.
Attach ==
  /\ pc[Owner] = "idle" /\ active = None /\ budget.lifecycle > 0 /\ Room
  /\ budget' = [budget EXCEPT !.lifecycle = @ - 1]
  /\ recovery' = FreshRecovery /\ subscribed' = TRUE
  /\ inbox' = IF token = None THEN inbox ELSE Reaches(Event("Put", token))
  /\ Goto(Owner, "note")
  /\ UNCHANGED <<node, down, objects, active, published, plan, callback, calls, raced>>

NoteAnnounced ==
  /\ pc[Owner] = "note"
  /\ plan' = [plan EXCEPT ![Owner] = Noted] /\ Goto(Owner, "declare")
  /\ UNCHANGED <<node, link, objects, active, liveness, callback, calls, budget, raced>>

\* The worker is started, then the State is stored.
StoreAttached ==
  /\ pc[Owner] = "built"
  /\ active' = plan[Owner].state /\ pc' = [pc EXCEPT ![Owner] = "arm", ![Worker] = "wait"]
  /\ plan' = [plan EXCEPT ![Owner].state = None]
  /\ UNCHANGED <<node, link, objects, liveness, callback, calls, budget, raced>>

WorkerStartFails ==
  /\ pc[Owner] = "built" /\ budget.failures > 0
  /\ budget' = [budget EXCEPT !.failures = @ - 1] /\ Goto(Owner, "cleanup")
  /\ UNCHANGED <<node, link, objects, active, liveness, plan, callback, calls, raced>>

AttachFailed ==
  /\ pc[Owner] = "failed"
  /\ subscribed' = FALSE /\ recovery' = FreshRecovery
  /\ Goto(Owner, "idle") /\ plan' = [plan EXCEPT ![Owner] = NoPlan]
  /\ UNCHANGED <<node, link, objects, active, published, callback, calls, budget, raced>>

\* Bind only a generation announced before the first Get, if no event followed.
Arm ==
  /\ pc[Owner] = "arm"
  /\ LET bound == IF NoEventSince(Owner) THEN plan[Owner].target ELSE recovery.bound
     IN recovery' = [recovery EXCEPT !.bound = bound, !.stale = (bound = None), !.armed = TRUE]
  /\ published' = TRUE /\ Goto(Owner, "idle") /\ plan' = [plan EXCEPT ![Owner] = NoPlan]
  /\ UNCHANGED <<node, link, objects, active, subscribed, callback, calls, budget, raced>>

Detach ==
  /\ pc[Owner] = "idle" /\ published /\ budget.lifecycle > 0
  /\ budget' = [budget EXCEPT !.lifecycle = @ - 1]
  /\ published' = FALSE /\ subscribed' = FALSE
  /\ recovery' = [recovery EXCEPT !.stop = TRUE] /\ Goto(Owner, "join")
  /\ UNCHANGED <<node, link, objects, active, plan, callback, calls, raced>>

JoinWorker ==
  /\ pc[Owner] = "join" /\ pc[Worker] = "idle"
  /\ plan' = [plan EXCEPT ![Owner].state = active] /\ Goto(Owner, "quiesce")
  /\ UNCHANGED <<node, link, objects, active, liveness, callback, calls, budget, raced>>

ClearActive ==
  /\ pc[Owner] = "clear"
  /\ active' = None /\ recovery' = FreshRecovery /\ Goto(Owner, "idle")
  /\ UNCHANGED <<node, link, objects, subscribed, published, plan, callback, calls, budget, raced>>

-----------------------------------------------------------------------------
Node == CreateSession \/ DeclareToken \/ EndSession \/ WithdrawToken
Network == LosePath \/ RestorePath \/ \E m \in Mutations : RemoteWrite(m)
Deliver == DeliverLiveliness \/ DeliverSample \/ EnterCallback \/ OnSample
Caller(c) == SubmitPut(c) \/ PutFails(c) \/ ApplyPut(c)
Recover == StopWorker \/ BeginRebuild \/ SwapIn \/ DiscardBuilt \/ RebuildFailed \/ RetryElapsed
Own == NoteAnnounced \/ StoreAttached \/ WorkerStartFails \/ AttachFailed \/ Arm
       \/ JoinWorker \/ ClearActive

Next ==
  \/ Node \/ Network \/ Deliver
  \/ \E c \in Callers : Caller(c) \/ \E v \in Values : Put(c, v)
  \/ Attach \/ Detach \/ Own \/ Build(Owner)
  \/ Recover \/ Build(Worker)

Spec == Init /\ [][Next]_vars

\* The Transport delivers, threads that are inside a call run on, and the worker thread
\* runs.  Nothing obliges the application to call, or the node to change.
Fairness ==
  /\ WF_vars(Deliver)
  /\ \A c \in Callers : WF_vars(Caller(c))
  /\ WF_vars(Own \/ Build(Owner)) /\ WF_vars(Recover \/ Build(Worker))

FairSpec == Spec /\ Fairness

-----------------------------------------------------------------------------
\* When nothing is in flight towards an idle, bound cache and the node is not in the middle
\* of a lifecycle step, the cache is bound to the generation that is live and holds exactly
\* what the node would answer: subscribe-before-Get, the drain of `buffered` and the
\* event-count check of the swap (and of Attach) lose no write and mix no generations.
\* ADR-0023 excludes one case, kept in `raced`: another write published between the
\* submission of a local Put and its local application.
Converged ==
  ( /\ inbox = <<>> /\ callback.todo = {} /\ token = gen
    /\ pc[Owner] = "idle" /\ active # None /\ recovery.bound # None /\ ~raced )
  => recovery.bound = gen /\ ~down /\ states[active].effective = View

\* Once Detach (or a failed Attach) has returned there is no worker, no subscription, no
\* admitted operation and no callback inside any State, so nothing can mutate the cache
\* (docs/02_architecture.md 5.1).
DetachQuiesces ==
  pc[Owner] = "idle" /\ active = None
  => /\ pc[Worker] = "idle" /\ ~subscribed
     /\ \A n \in Slots : leases[n] = {} /\ ~states[n].subscription /\ ~states[n].accepting

\* From the end of Attach to Detach the published State is complete, open and subscribed,
\* whatever the worker is building, discarding or quiescing: readers never see a candidate
\* that is still buffering, and a failed rebuild leaves the last-known values (ADR-0037 D8).
\* Every variable keeps its type meanwhile, and no generation is listed live twice.
ActiveServes ==
  /\ TypeOK
  /\ active # None /\ pc[Owner] \notin {"quiesce", "quiescing", "clear"}
     => LET s == states[active] IN s.phase = "Live" /\ s.accepting /\ s.subscription

\* A generation that stays announced and reachable is eventually bound while the cache stays
\* attached: no event and no failed rebuild leaves the worker asleep.
Recovers ==
  \A g \in Generations :
    <>[](token = g /\ ~down /\ published) => <>(recovery.bound = g /\ ~recovery.stale)

\* Attach and Detach return, although Detach joins a worker that may be in a rebuild and
\* waits for every admitted operation and callback.
LifecycleReturns == pc[Owner] # "idle" ~> pc[Owner] = "idle"
=============================================================================
