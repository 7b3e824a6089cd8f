----------------------------- MODULE AckedWrites -----------------------------
(***************************************************************************)
(* Parameter writes from ParamStore to the StorageNode and back: Put,      *)
(* PutBatch and Delete (param_store.cpp), the acknowledged submission and  *)
(* its polling (ack_client.cpp), the node's application lane               *)
(* (storage_node.cpp) and the registry of results (ack_registry.cpp).      *)
(*                                                                         *)
(* An operation is one call; its name stands for its token, which is a     *)
(* random UUID, so ClaimOutcome::Collision does not occur.  A sample may   *)
(* be lost, delayed past a restart of the node, or delivered twice.        *)
(* Subscriber callbacks run concurrently; `lane` is subscriber_mutex with  *)
(* application_owner.  A section under the registry's mutex is one step.   *)
(* Time is reduced to whether a call's deadline passes.                    *)
(***************************************************************************)
EXTENDS Integers, Sequences, FiniteSets, Functions

CONSTANTS
    Ops,            \* calls, and the tokens of the acknowledged ones
    Workloads,      \* what the calls ask for, together
    Threads,        \* subscriber callbacks of the node
    None,           \* no thread, no operation
    Capacity,       \* of the ring of completed results
    MaxDuplicates,  \* bound: samples the transport delivers twice
    MaxRestarts     \* bound: times the node stops

\* kind, scope, the number of entries, the entry that does not decode or has
\* an invalid key (0: none; for a Put, 1), whether ParamStore built it or a
\* peer that checks nothing, and WriteOptions::ack.  Only a batch has other than
\* one entry.
Request ==
    {r \in [kind: {"put", "batch", "delete"}, scope: {"base", "session", "snap"},
            size: Nat, bad: Nat, checked: BOOLEAN, ack: BOOLEAN] :
        (r.kind # "batch" => r.size = 1) /\ r.bad <= r.size}

ASSUME WorkloadsAssumption == Workloads \subseteq [Ops -> Request]
ASSUME CapacityAssumption == Capacity \in Nat \ {0}
ASSUME NamesAssumption == None \notin Ops \union Threads

VARIABLES
    req, phase, res,        \* the calls: request, progress, returned status
    copies, duplicates,     \* samples on their way; bound
    node, restarts,         \* "up", "stopping" or "down"; bound
    session,                \* the session: "absent", "active", or "lost" overlay
    lane,                   \* the thread that holds the application lane
    entries, ring, busy,    \* registry: results, completion_order_, processing_by_lane_
    pc, op, progress, out,  \* the callbacks: AckApplyProgress and the result at hand
    mutated,                \* the engine call in progress has changed the store
    log,                    \* history: store mutations
    calls,                  \* history: engine calls of an operation's last attempt
    attempts, forgotten     \* history: applications of a token; results dropped

client == <<req, phase, res>>
wire == <<copies, duplicates>>
lifecycle == <<node, restarts, session>>
registry == <<entries, ring, busy>>
callback == <<pc, op, progress, out, mutated>>
history == <<log, calls, attempts, forgotten>>
vars == <<client, wire, lifecycle, lane, registry, callback, history>>

NoIndex == -1
Statuses == {"Ok", "Error", "InvalidArgument", "InvalidKey", "NotFound", "StateLost", "ReadOnly",
             "OutcomeUnknown"}
\* The node's word that nothing was applied.
Definite == Statuses \ {"Ok", "OutcomeUnknown"}

Result(status, applied, failed) == [status |-> status, applied |-> applied, failed |-> failed]
NoResult == Result("none", 0, 0)
Absent == Result("absent", 0, 0)
Processing == Result("processing", 0, 0)
NoProgress == [invoked |-> FALSE, applied |-> 0, index |-> 0]
NoCalls == [made |-> 0, confirmed |-> 0]

Init ==
    /\ req \in Workloads
    /\ phase = [o \in Ops |-> "idle"] /\ res = [o \in Ops |-> "none"]
    /\ copies = [o \in Ops |-> 0] /\ duplicates = 0
    /\ node = "up" /\ restarts = 0 /\ session = "absent"
    /\ lane = None
    /\ entries = [o \in Ops |-> Absent] /\ ring = <<>> /\ busy = None
    /\ pc = [t \in Threads |-> "idle"] /\ op = [t \in Threads |-> None]
    /\ progress = [t \in Threads |-> NoProgress] /\ out = [t \in Threads |-> NoResult]
    /\ mutated = [t \in Threads |-> FALSE]
    /\ log = <<>> /\ calls = [o \in Ops |-> NoCalls]
    /\ attempts = [o \in Ops |-> 0] /\ forgotten = [o \in Ops |-> 0]

-----------------------------------------------------------------------------
(* ParamStore and SubmitAcknowledgedWrite.                                  *)

Return(o, status) ==
    /\ phase' = [phase EXCEPT ![o] = "done"]
    /\ res' = [res EXCEPT ![o] = status]
    /\ UNCHANGED req

\* What ParamStore returns without sending anything, or "none".
LocalStatus(r) ==
    LET readonly == r.scope = "snap"
        invalid == r.bad # 0 \/ (r.kind = "delete" /\ r.scope = "session") IN
    IF ~r.checked THEN "none"
    ELSE IF readonly /\ (r.kind = "batch" \/ r.bad = 0) THEN "ReadOnly"
    ELSE IF invalid THEN "InvalidKey"
    ELSE IF r.size = 0 THEN "Ok" ELSE "none"

\* Put, PutBatch and Delete.  An acknowledged write first waits for a reachable
\* node, for at most its deadline; matched or not, the sample is then put exactly
\* once.  It may never reach the node, and an error of the Put leaves that open.
\* Without an acknowledgement the call is over, else it polls.
Call(o) ==
    /\ phase[o] = "idle"
    /\ \/ LocalStatus(req[o]) # "none" /\ Return(o, LocalStatus(req[o])) /\ UNCHANGED copies
       \/ /\ LocalStatus(req[o]) = "none"
          /\ copies' \in {copies, [copies EXCEPT ![o] = 1]}
          /\ IF req[o].ack
                THEN phase' = [phase EXCEPT ![o] = "poll"] /\ UNCHANGED <<req, res>>
                ELSE Return(o, "Sent")
    /\ UNCHANGED <<duplicates, lifecycle, lane, registry, callback, history>>

\* ValidateAckResult, without which a result is neither encoded nor accepted.
ValidAckResult(kind, r) ==
    LET ok == r.status = "Ok" IN
    IF kind = "batch"
       THEN /\ ok => r.failed = NoIndex
            /\ ~ok /\ r.failed = NoIndex => r.applied = 0
            /\ ~ok /\ r.failed # NoIndex =>
                  r.applied = r.failed \/ (r.applied = 0 /\ r.status # "OutcomeUnknown")
       ELSE IF ok THEN r.applied = 1 /\ r.failed = NoIndex ELSE r.applied = 0 /\ r.failed = 0

\* PollAcknowledgement sees a result: the query reaches a running node that has
\* one for the token and can encode it.  No reply or a failed query is a retry,
\* which changes nothing; MapAcknowledgement keeps the status.  A reply is the
\* node's own: one with another key, encoding or kind does not occur.
Poll(o) ==
    /\ phase[o] = "poll" /\ node = "up"
    /\ entries[o] \notin {Absent, Processing} /\ ValidAckResult(req[o].kind, entries[o])
    /\ Return(o, entries[o].status)
    /\ UNCHANGED <<wire, lifecycle, lane, registry, callback, history>>

\* The deadline has passed at the top of a round or after the query.
Timeout(o) ==
    /\ phase[o] = "poll"
    /\ Return(o, "Timeout")
    /\ UNCHANGED <<wire, lifecycle, lane, registry, callback, history>>

-----------------------------------------------------------------------------
(* The registry.                                                            *)

\* RetainCompletedLocked: the oldest completed result makes room.
Retained(o) == IF Len(ring) < Capacity THEN Append(ring, o) ELSE Append(Tail(ring), o)

\* Mutant: the slot is reused, the entry stays.
EvictedNever == {}

\* The completed token whose slot is reused; its entry is erased.
Evicted == IF Len(ring) < Capacity THEN {} ELSE {Head(ring)}

\* A completed result r of o enters the registry and the ring.
Retain(o, r) ==
    /\ entries' = [x \in Ops |-> IF x = o THEN r
                                ELSE IF x \in Evicted THEN Absent ELSE entries[x]]
    /\ ring' = Retained(o)
    /\ forgotten' = [x \in Ops |-> IF x \in Evicted \ {o} THEN forgotten[x] + 1
                                  ELSE forgotten[x]]

\* ADR-0028: reentrant admission is Error without application.
LaneBusyResult(o) == Result("Error", 0, IF req[o].kind = "batch" THEN NoIndex ELSE 0)

\* Mutant: a completed token is claimed again.
KnownProcessing(o) == entries[o] = Processing

\* ClaimLocked finds the token: DuplicateProcessing or DuplicateCompleted.
Known(o) == entries[o] # Absent

\* Complete: the first result of a Processing token stands and frees the lane.
Complete(o, r) ==
    IF entries[o] = Processing
       THEN Retain(o, r) /\ busy' = IF busy = o THEN None ELSE busy
       ELSE UNCHANGED <<entries, ring, busy, forgotten>>

-----------------------------------------------------------------------------
(* Subscriber callbacks of the node.                                        *)

Goto(t, next) == pc' = [pc EXCEPT ![t] = next]

\* The callback is over; the lane, if held, is released.
Leave(t) ==
    /\ Goto(t, "idle")
    /\ op' = [op EXCEPT ![t] = None]
    /\ progress' = [progress EXCEPT ![t] = NoProgress]
    /\ out' = [out EXCEPT ![t] = NoResult]
    /\ lane' = IF lane = t THEN None ELSE lane

\* OnSample up to the lane: a stopped or stopping node takes no lease.
Deliver(t, o) ==
    /\ copies[o] > 0 /\ pc[t] = "idle"
    /\ copies' = [copies EXCEPT ![o] = copies[o] - 1]
    /\ IF node = "up"
          THEN Goto(t, "lane") /\ op' = [op EXCEPT ![t] = o]
          ELSE UNCHANGED <<pc, op>>
    /\ UNCHANGED <<duplicates, client, lifecycle, lane, registry, progress, out, mutated, history>>

\* ApplyParameterSample before its first engine call: the definite rejection of
\* the sample, the Ok of a batch without entries, or NoResult.
Verdict(o) ==
    LET r == req[o]
        index(i) == IF r.kind = "batch" THEN i ELSE 0 IN
    IF r.scope = "snap" /\ r.kind = "batch" THEN Result("InvalidKey", 0, 0)
    ELSE IF r.kind = "delete" /\ r.ack THEN Result("InvalidArgument", 0, 0)
    ELSE IF r.scope = "snap" THEN Result("ReadOnly", 0, 0)
    ELSE IF r.scope = "session" /\ session = "absent" THEN Result("NotFound", 0, index(NoIndex))
    ELSE IF r.scope = "session" /\ session = "lost" THEN Result("StateLost", 0, index(NoIndex))
    ELSE IF r.bad # 0 /\ (r.kind = "batch" \/ r.ack)
       THEN Result("InvalidArgument", 0, index(r.bad - 1))
    ELSE IF r.size = 0 THEN Result("Ok", 0, NoIndex)
    ELSE NoResult

\* AckCompletionGuard: application threw.
GuardResult(o, p) ==
    LET batch == req[o].kind = "batch" IN
    IF ~p.invoked THEN Result("Error", 0, IF batch THEN NoIndex ELSE 0)
    ELSE Result("OutcomeUnknown", p.applied, IF batch THEN p.index ELSE 0)

\* Mutant: parameter writes are not serialized.
LaneShared == TRUE

\* subscriber_mutex can be taken.
LaneFree == lane = None

\* The lane is taken, the token claimed and the sample validated.  A duplicate
\* goes no further, and a busy lane would be retained as a rejection.
EnterLane(t) ==
    /\ pc[t] = "lane" /\ LaneFree
    /\ LET o == op[t] IN
       IF req[o].ack /\ Known(o)
          THEN Leave(t) /\ UNCHANGED <<registry, forgotten, attempts, calls>>
       ELSE IF req[o].ack /\ busy # None
          THEN /\ Leave(t) /\ Retain(o, LaneBusyResult(o))
               /\ UNCHANGED <<busy, attempts, calls>>
       ELSE /\ lane' = t
            /\ IF req[o].ack
                  THEN /\ entries' = [entries EXCEPT ![o] = Processing]
                       /\ busy' = o
                       /\ attempts' = [attempts EXCEPT ![o] = attempts[o] + 1]
                  ELSE UNCHANGED <<entries, busy, attempts>>
            /\ calls' = [calls EXCEPT ![o] = NoCalls]
            /\ out' = [out EXCEPT ![t] = Verdict(o)]
            /\ Goto(t, IF Verdict(o) = NoResult THEN "apply" ELSE "finish")
            /\ UNCHANGED <<op, progress, ring, forgotten>>
    /\ UNCHANGED <<client, wire, lifecycle, mutated, log>>

\* An exception before the first engine call.
ThrowEarly(t) ==
    /\ pc[t] = "apply" /\ ~progress[t].invoked
    /\ out' = [out EXCEPT ![t] = GuardResult(op[t], progress[t])]
    /\ Goto(t, "finish")
    /\ UNCHANGED <<client, wire, lifecycle, lane, registry, op, progress, mutated, history>>

\* Mutant: the guard is told of the engine call once it has returned.
InvokedLate(p) == p

\* progress->engine_invoked, set before the call.
Invoked(p) == [p EXCEPT !.invoked = TRUE]

\* target.Put or target.Delete for the next entry begins.  It may change the
\* store whatever it reports later.
Invoke(t) ==
    /\ pc[t] = "apply"
    /\ LET o == op[t] IN
       /\ progress' = [progress EXCEPT ![t] = Invoked(@)]
       /\ calls' = [calls EXCEPT ![o].made = @ + 1]
       /\ \E m \in BOOLEAN :
             /\ mutated' = [mutated EXCEPT ![t] = m]
             /\ log' = IF m THEN Append(log, [op |-> o, index |-> progress[t].index]) ELSE log
    /\ Goto(t, "engine")
    /\ UNCHANGED <<client, wire, lifecycle, lane, registry, op, out, attempts, forgotten>>

\* The engine call returns true: the next entry, or Ok.
EngineTrue(t) ==
    /\ pc[t] = "engine" /\ mutated[t]
    /\ LET o == op[t]
           i == progress[t].index
           batch == req[o].kind = "batch" IN
       /\ calls' = [calls EXCEPT ![o].confirmed = @ + 1]
       /\ IF i + 1 < req[o].size
             THEN /\ progress' = [progress EXCEPT ![t].applied = i + 1, ![t].index = i + 1]
                  /\ Goto(t, "apply") /\ UNCHANGED out
             ELSE /\ out' = [out EXCEPT ![t] = Result("Ok", i + 1, NoIndex)]
                  /\ progress' = [progress EXCEPT ![t].applied = IF batch THEN i + 1 ELSE 0]
                  /\ Goto(t, "finish")
    /\ mutated' = [mutated EXCEPT ![t] = FALSE]
    /\ UNCHANGED <<client, wire, lifecycle, lane, registry, op, log, attempts, forgotten>>

\* It returns false or throws: the rest of a batch is not applied, and what
\* happened to this entry is unknown.
EngineFails(t) ==
    /\ pc[t] = "engine"
    /\ LET i == progress[t].index IN
       out' \in {[out EXCEPT ![t] = r] :
                  r \in {Result("OutcomeUnknown", i, i), GuardResult(op[t], progress[t])}}
    /\ mutated' = [mutated EXCEPT ![t] = FALSE]
    /\ Goto(t, "finish")
    /\ UNCHANGED <<client, wire, lifecycle, lane, registry, op, progress, history>>

\* Mutant: the nested callback waits for the lane its own thread holds.
ReentrantSampleWaits(t, o) ==
    /\ pc[t] = "engine" /\ copies[o] > 0
    /\ copies' = [copies EXCEPT ![o] = copies[o] - 1]
    /\ op' = [op EXCEPT ![t] = o]
    /\ Goto(t, "lane")
    /\ UNCHANGED <<duplicates, client, lifecycle, lane, registry, progress, out, mutated, history>>

\* OnSample on the thread that owns the lane, from inside its engine call: an
\* acknowledged sample is recorded as rejected, any other is dropped.
ReentrantSample(t, o) ==
    /\ pc[t] = "engine" /\ copies[o] > 0
    /\ copies' = [copies EXCEPT ![o] = copies[o] - 1]
    /\ IF node = "up" /\ req[o].ack /\ ~Known(o)
          THEN Retain(o, LaneBusyResult(o)) /\ calls' = [calls EXCEPT ![o] = NoCalls]
          ELSE UNCHANGED <<entries, ring, forgotten, calls>>
    /\ UNCHANGED <<duplicates, client, lifecycle, lane, busy, callback, log, attempts>>

\* guard.Finish and the release of the lane.
Finish(t) ==
    /\ pc[t] = "finish"
    /\ IF req[op[t]].ack THEN Complete(op[t], out[t])
       ELSE UNCHANGED <<registry, forgotten>>
    /\ Leave(t)
    /\ UNCHANGED <<client, wire, lifecycle, mutated, log, calls, attempts>>

-----------------------------------------------------------------------------
(* The transport, sessions and the life of the node.                        *)

Duplicate(o) ==
    /\ copies[o] = 1 /\ duplicates < MaxDuplicates
    /\ copies' = [copies EXCEPT ![o] = 2]
    /\ duplicates' = duplicates + 1
    /\ UNCHANGED <<client, lifecycle, lane, registry, callback, history>>

\* CreateSession, RetainSession and CloseSession, in a workload that uses the
\* session; the last two wait for the admissions of the writes to its overlay.
SessionFree == \A t \in Threads :
    pc[t] \in {"apply", "engine"} => req[op[t]].scope # "session"

ChangeSession ==
    /\ node = "up" /\ \E o \in Ops : req[o].scope = "session"
    /\ \/ session = "absent" /\ session' = "active"
       \/ session = "active" /\ SessionFree /\ session' \in {"lost", "absent"}
    /\ UNCHANGED <<client, wire, node, restarts, lane, registry, callback, history>>

\* Stop ends admission, waits for the callbacks and clears the registry; a
\* later Start recovers no result.
Stop ==
    /\ node = "up" /\ restarts < MaxRestarts
    /\ node' = "stopping" /\ restarts' = restarts + 1
    /\ UNCHANGED <<client, wire, session, lane, registry, callback, history>>

Stopped ==
    /\ node = "stopping" /\ \A t \in Threads : pc[t] = "idle"
    /\ node' = "down" /\ session' = "absent"
    /\ entries' = [o \in Ops |-> Absent] /\ ring' = <<>> /\ busy' = None
    /\ forgotten' = [o \in Ops |-> IF Known(o) THEN forgotten[o] + 1 ELSE forgotten[o]]
    /\ UNCHANGED <<client, wire, restarts, lane, callback, log, calls, attempts>>

Start ==
    /\ node = "down" /\ node' = "up"
    /\ UNCHANGED <<client, wire, restarts, session, lane, registry, callback, history>>

-----------------------------------------------------------------------------
Step(t) ==
    \/ EnterLane(t) \/ ThrowEarly(t) \/ Invoke(t) \/ EngineTrue(t) \/ EngineFails(t)
    \/ Finish(t)

Next ==
    \/ \E o \in Ops : Call(o) \/ Poll(o) \/ Timeout(o)
    \/ \E o \in Ops : Duplicate(o)
    \/ \E t \in Threads, o \in Ops : Deliver(t, o) \/ ReentrantSample(t, o)
    \/ \E t \in Threads : Step(t)
    \/ ChangeSession \/ Stop \/ Stopped \/ Start

Spec == Init /\ [][Next]_vars

\* A call keeps running and its deadline passes; a callback keeps running, and
\* an engine call returns.  Nothing is assumed of the transport.
FairSpec ==
    /\ Spec
    /\ \A o \in Ops : WF_vars(Timeout(o))
    /\ \A t \in Threads : WF_vars(Step(t))
    /\ WF_vars(Stopped)

-----------------------------------------------------------------------------
(* Properties.                                                              *)

Completed(o) == entries[o] \notin {Absent, Processing}

TypeOK ==
    /\ req \in [Ops -> Request] /\ phase \in [Ops -> {"idle", "poll", "done"}]
    /\ copies \in [Ops -> 0 .. 2] /\ node \in {"up", "stopping", "down"}
    /\ session \in {"absent", "active", "lost"} /\ lane \in Threads \union {None}
    /\ \A o \in Ops : Completed(o) => entries[o].status \in Statuses
    /\ pc \in [Threads -> {"idle", "lane", "apply", "engine", "finish"}]
    /\ op \in [Threads -> Ops \union {None}]

\* A result in the registry tells what its application did to the store, even
\* if the engine failed or threw (AckCompletionGuard, ApplyBatch): Ok means every
\* entry was applied, OutcomeUnknown names the confirmed prefix and the entry in
\* doubt, anything else means the engine was not called at all.  And it can be
\* encoded: a result that cannot is never replied, and its caller times out.
ResultsAreTrue ==
    \A o \in Ops : Completed(o) =>
        LET r == entries[o]
            c == calls[o] IN
        /\ r.status = "Ok" => c.confirmed = req[o].size /\ r.applied = req[o].size
        /\ r.status = "OutcomeUnknown" =>
              c.made = c.confirmed + 1 /\ r.applied = c.confirmed /\ r.failed = c.confirmed
        /\ r.status \in Definite => c.made = 0
        /\ ValidAckResult(req[o].kind, r)

\* What an acknowledged call returns holds of the store: after Ok all its entries
\* are there, and after a rejection by the node no copy of its sample was or will
\* be applied, as long as the node has kept the result (ApplyAcknowledgedSample,
\* RejectReentrantAcknowledgedSample).
AnswersAreTrue ==
    \A o \in Ops : req[o].ack =>
        /\ res[o] = "Ok" =>
              \A i \in 0 .. req[o].size - 1 : [op |-> o, index |-> i] \in Range(log)
        /\ (res[o] \in Definite /\ forgotten[o] = 0) =>
              \A i \in 1 .. Len(log) : log[i].op # o

\* A token is applied again only after its result was dropped, and results are
\* dropped oldest first: the ring holds each completed token once and nothing
\* else (ClaimLocked, Complete, RecordRejected, RetainCompletedLocked).
AppliedOnce ==
    /\ TypeOK
    /\ \A o \in Ops : attempts[o] <= 1 + forgotten[o]
    /\ Range(ring) = {o \in Ops : Completed(o)} /\ IsInjective(ring) /\ Len(ring) <= Capacity
    /\ \A o \in Ops : entries[o] = Processing <=> busy = o

\* "an ordinary write can never become visible between batch entries": in the
\* store a later entry of a batch directly follows the one before it (OnSample).
BatchesAreContiguous ==
    \A i \in 1 .. Len(log) : log[i].index > 0 =>
        i > 1 /\ log[i - 1] = [log[i] EXCEPT !.index = @ - 1]

\* Every acknowledged call returns, by its deadline if the node never answers;
\* the lane is always released, even to a callback nested in its own engine
\* call; and Stop gets past the callbacks (PollAcknowledgement, OnSample, Stop).
WritesEnd ==
    /\ \A o \in Ops : phase[o] = "poll" ~> phase[o] = "done"
    /\ lane # None ~> lane = None
    /\ node = "stopping" ~> node = "down"
=============================================================================
