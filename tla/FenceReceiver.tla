---------------------------- MODULE FenceReceiver ----------------------------
(***************************************************************************)
(* The StorageNode side of a buffer fence, for one sid and one buffer      *)
(* class.  Transport callbacks (threads) deliver lane data and fence       *)
(* markers in any order, any number of times.  DispatchSample selects the  *)
(* session, reserves the sequence in the publisher's lane and takes a      *)
(* ticket in one admission; the ticket holders then apply one at a time,   *)
(* in ticket order, while CreateSession, CloseSession and Stop move the    *)
(* session underneath them.                                                *)
(*                                                                         *)
(* Data keys carry no session generation, so a data sample is admitted     *)
(* into whatever generation is published when it arrives.                  *)
(***************************************************************************)
EXTENDS FenceLane, FiniteSets

CONSTANTS
    Threads,            \* transport callback threads
    Publishers,         \* publisher UUIDs
    MaxGeneration,      \* bound: sessions ever created under the sid
    DispatchCapacity,   \* FenceDispatchLane capacity (256)
    LaneCapacity,       \* FenceReceiverRegistry capacity (4096)
    ApplyFailure,       \* statuses with which an application or a barrier may fail
    MaxDeliveries       \* bound: samples the transport delivers

ASSUME MaxGenerationAssumption == MaxGeneration \in Nat
ASSUME CapacityAssumption == DispatchCapacity \in Nat /\ LaneCapacity \in Nat
ASSUME ApplyFailureAssumption == ApplyFailure \subseteq Status \ {"Ok"}
ASSUME MaxDeliveriesAssumption == MaxDeliveries \in Nat

VARIABLES
    accepting,      \* State::accepting, the callback gate
    phase,          \* SessionRecord phase; "None" when there is no record
    published,      \* the record is in State::sessions
    generation,     \* generation of the latest record, counting from 1
    erased,         \* CloseSession has reset record->generation_uuid
    resources,      \* record->durable_buffers, snapshot and overlay are held
    registered,     \* the class registration accepts dispatches
    lifecycle,      \* progress of CreateSession, CloseSession or Quiesce
    next_ticket, serving_ticket,
    pc, job, ticket, entry, leased, outcome,   \* one callback per thread
    lanes, lane_keys, poisoned,                \* FenceReceiverRegistry
    acks,           \* AckRegistry entries of the fence tokens
    stored,         \* history: result of the store access for each sequence
    lost,           \* history: lanes with a delivered sample not stored Ok
    deliveries

session == <<phase, published, generation, erased, resources, registered, lifecycle>>
dispatch == <<next_ticket, serving_ticket>>
callbacks == <<pc, job, ticket, entry, leased, outcome>>
receiver == <<lanes, lane_keys, poisoned>>
history == <<stored, lost>>
vars == <<accepting, session, dispatch, callbacks, receiver, acks, history, deliveries>>

-----------------------------------------------------------------------------
Generation == 1 .. MaxGeneration
NoGeneration == 0                       \* the all-zero UUID
LaneKey == (0 .. MaxGeneration) \X Publishers

\* A marker names its generation, publisher and through sequence; its token is
\* fresh, so the marker itself stands for the token.
Marker == [kind: {"marker"}, gen: Generation, pub: Publishers, through: Sequence]
Data == [kind: {"data"}, pub: Publishers, seq: Sequence]
NoJob == [kind |-> "none"]
Job == Marker \union Data \union {NoJob}

AckState == {"none", "processing"} \union Status

InGate == {"entered", "leased", "written", "direct", "claimed", "fallback"}
PC == InGate \union {"idle", "queued", "leaving"}

IsData(t) == job[t].kind = "data"
IsMarker(t) == job[t].kind = "marker"

\* The lane a data callback reserved in: the generation of its dispatch entry.
KeyOf(t) == <<entry[t], job[t].pub>>

\* record->generation_uuid, which CloseSession resets during its cleanup.
RecordGeneration == IF erased THEN NoGeneration ELSE generation

\* Every unique lock of session_mutex waits for the read lock that the
\* closed-dispatch fallback keeps while it retains its result.
SessionMutexFree == \A t \in Threads : pc[t] # "fallback"

GateEmpty == \A t \in Threads : pc[t] \notin InGate

Init ==
    /\ accepting = TRUE
    /\ phase = "None" /\ published = FALSE /\ generation = 0 /\ erased = FALSE
    /\ resources = FALSE /\ registered = FALSE /\ lifecycle = "idle"
    /\ next_ticket = 0 /\ serving_ticket = 0
    /\ pc = [t \in Threads |-> "idle"]
    /\ job = [t \in Threads |-> NoJob]
    /\ ticket = [t \in Threads |-> 0]
    /\ entry = [t \in Threads |-> NoGeneration]
    /\ leased = [t \in Threads |-> FALSE]
    /\ outcome = [t \in Threads |-> "Ok"]
    /\ lanes = [k \in LaneKey |-> NewLane]
    /\ lane_keys = {}
    /\ poisoned = {}
    /\ acks = [m \in Marker |-> "none"]
    /\ stored = [k \in LaneKey |-> [s \in Sequence |-> "none"]]
    /\ lost = {}
    /\ deliveries = 0

-----------------------------------------------------------------------------
(* FenceReceiverRegistry.  A lane that cannot be created poisons its scope. *)

CanRetain(k) == k \in lane_keys \/ Cardinality(lane_keys) # LaneCapacity

\* Replace lane k, creating it when absent; at capacity poison the scope.
RetainLane(k, lane) ==
    IF CanRetain(k)
    THEN /\ lanes' = [lanes EXCEPT ![k] = lane]
         /\ lane_keys' = lane_keys \union {k}
         /\ UNCHANGED poisoned
    ELSE /\ poisoned' = poisoned \union {k[1]}
         /\ UNCHANGED <<lanes, lane_keys>>

AdmitsBufferObservation(k, seq) == CanRetain(k) /\ Admits(lanes[k], seq)
AdmitBufferObservation(k, seq) == RetainLane(k, Admit(lanes[k], seq))
RecordBufferOverflow(k, seq) == RetainLane(k, RecordOverflow(lanes[k], seq))
RecordMalformedBuffer(k, seq) == RetainLane(k, RecordMalformed(lanes[k], seq))
RecordUnsequencedBuffer(k) == RetainLane(k, RecordMalformedUnsequenced(lanes[k]))

CompleteBufferObservation(k, seq, status) ==
    IF k \in lane_keys
    THEN /\ lanes' = [lanes EXCEPT ![k] = Complete(@, seq, status)]
         /\ UNCHANGED <<lane_keys, poisoned>>
    ELSE UNCHANGED receiver

EvaluateBuffer(k, through) ==
    IF k \in lane_keys THEN Evaluate(lanes[k], through)
    ELSE IF through > 0 \/ k[1] \in poisoned THEN "OutcomeUnknown" ELSE "Ok"

EraseSession ==
    /\ lanes' = [k \in LaneKey |-> NewLane]
    /\ lane_keys' = {}
    /\ poisoned' = {}

-----------------------------------------------------------------------------
(* DispatchSample.  One read-side critical section of session_mutex and one *)
(* hold of the coordinator's admission_mutex.                               *)

Deliver(t) ==
    /\ pc[t] = "idle"
    /\ deliveries < MaxDeliveries
    /\ deliveries' = deliveries + 1

\* History only: a delivered sample of lane k does not reach the store.
Lose(k) == lost' = lost \union {k} /\ UNCHANGED stored

HasCapacity == next_ticket - serving_ticket < DispatchCapacity

\* Outcome::Admitted: the ticket and the registration are taken together.
Enqueue(t, j) ==
    /\ pc' = [pc EXCEPT ![t] = "queued"]
    /\ job' = [job EXCEPT ![t] = j]
    /\ ticket' = [ticket EXCEPT ![t] = next_ticket]
    /\ entry' = [entry EXCEPT ![t] = generation]
    /\ next_ticket' = next_ticket + 1
    /\ UNCHANGED <<serving_ticket, leased, outcome>>

\* The callback returns to the transport.
Return(t) ==
    /\ pc' = [pc EXCEPT ![t] = "idle"]
    /\ job' = [job EXCEPT ![t] = NoJob]
    /\ ticket' = [ticket EXCEPT ![t] = 0]
    /\ entry' = [entry EXCEPT ![t] = NoGeneration]
    /\ leased' = [leased EXCEPT ![t] = FALSE]
    /\ outcome' = [outcome EXCEPT ![t] = "Ok"]

\* OnSample returns: the leases are released, and an Entry is left for last.
AfterSample(t) ==
    IF entry[t] = NoGeneration THEN Return(t)
    ELSE /\ pc' = [pc EXCEPT ![t] = "leaving"]
         /\ leased' = [leased EXCEPT ![t] = FALSE]
         /\ UNCHANGED <<job, ticket, entry, outcome>>

DispatchData(t, j) ==
    LET k == <<generation, j.pub>>
    IN  /\ Deliver(t)
        /\ published /\ registered
        /\ \/ /\ ~HasCapacity
              /\ RecordBufferOverflow(k, j.seq)
              /\ Lose(k)
              /\ UNCHANGED <<dispatch, callbacks>>
           \/ /\ HasCapacity
              /\ AdmitBufferObservation(k, j.seq)
              /\ IF AdmitsBufferObservation(k, j.seq)
                 THEN Enqueue(t, j) /\ UNCHANGED history
                 ELSE Lose(k) /\ UNCHANGED <<dispatch, callbacks>>
        /\ UNCHANGED <<accepting, session, acks>>

\* Malformed lane metadata that still names its publisher, with or without a
\* sequence, leaves evidence and is never applied, whatever the capacity.
DispatchMalformed(t, j) ==
    /\ Deliver(t)
    /\ published /\ registered
    /\ \/ RecordMalformedBuffer(<<generation, j.pub>>, j.seq)
       \/ RecordUnsequencedBuffer(<<generation, j.pub>>)
    /\ Lose(<<generation, j.pub>>)
    /\ UNCHANGED <<accepting, session, dispatch, callbacks, acks>>

\* A generation UUID is unknown to the world before its record exists.
DispatchMarker(t, m) ==
    /\ Deliver(t)
    /\ m.gen <= generation
    /\ published /\ registered
    /\ HasCapacity
    /\ Enqueue(t, m)
    /\ UNCHANGED <<accepting, session, receiver, acks, history>>

\* The class is closed under a published record: the marker is answered
\* InvalidArgument under the session read lock, outside the ticket order.
DispatchMarkerClosed(t, m) ==
    /\ Deliver(t)
    /\ m.gen <= generation
    /\ published /\ ~registered
    /\ accepting /\ acks[m] = "none"
    /\ acks' = [acks EXCEPT ![m] = "processing"]
    /\ pc' = [pc EXCEPT ![t] = "fallback"]
    /\ job' = [job EXCEPT ![t] = m]
    /\ UNCHANGED <<accepting, session, dispatch, receiver, history, ticket, entry, leased, outcome>>

FallbackFinish(t) ==
    /\ pc[t] = "fallback"
    /\ acks' = [acks EXCEPT ![job[t]] = IF accepting THEN "InvalidArgument" ELSE "Error"]
    /\ Return(t)
    /\ UNCHANGED <<accepting, session, dispatch, receiver, history, deliveries>>

\* No record under the sid: data is dropped, a marker runs OnSample unticketed.
DispatchMarkerDirect(t, m) ==
    /\ Deliver(t)
    /\ m.gen <= generation
    /\ ~published
    /\ accepting
    /\ pc' = [pc EXCEPT ![t] = "direct"]
    /\ job' = [job EXCEPT ![t] = m]
    /\ UNCHANGED <<accepting, session, dispatch, receiver, acks, history,
                   ticket, entry, leased, outcome>>

\* The catch clause of DispatchSample, for an exception before admission: lane
\* data keeps overflow evidence, whether or not the class still accepts.
DispatchDataThrows(t, j) ==
    /\ Deliver(t)
    /\ published
    /\ RecordBufferOverflow(<<RecordGeneration, j.pub>>, j.seq)
    /\ Lose(<<RecordGeneration, j.pub>>)
    /\ UNCHANGED <<accepting, session, dispatch, callbacks, acks>>

\* The same clause for a buffer sample without lane metadata: nothing can be
\* recorded, so the class is closed for the rest of the session.
DispatchRawThrows(t) ==
    /\ Deliver(t)
    /\ published
    /\ registered' = FALSE
    /\ UNCHANGED <<accepting, phase, published, generation, erased, resources, lifecycle,
                   dispatch, callbacks, receiver, acks, history>>

-----------------------------------------------------------------------------
(* OnSample, in ticket order.                                               *)

\* WaitTurn, then State::Enter; a stopping node lets the callback leave
\* without completing its reservation.
TakeTurn(t) ==
    /\ pc[t] = "queued"
    /\ ticket[t] = serving_ticket
    /\ pc' = [pc EXCEPT ![t] = IF accepting THEN "entered" ELSE "leaving"]
    /\ IF accepting \/ IsMarker(t) THEN UNCHANGED history ELSE Lose(KeyOf(t))
    /\ UNCHANGED <<accepting, session, dispatch, receiver, acks, deliveries,
                   job, ticket, entry, leased, outcome>>

\* AcquireSession inside ApplyParameterSample: the record is looked up again.
AcquireData(t) ==
    /\ pc[t] = "entered" /\ IsData(t)
    /\ published /\ phase = "Active"
    /\ pc' = [pc EXCEPT ![t] = "leased"]
    /\ leased' = [leased EXCEPT ![t] = TRUE]
    /\ UNCHANGED <<accepting, session, dispatch, receiver, acks, history, deliveries,
                   job, ticket, entry, outcome>>

\* The record admits nothing: an admitted observation completes as a failure
\* in the lane of the record found now.
RefuseData(t) ==
    /\ pc[t] = "entered" /\ IsData(t)
    /\ ~(published /\ phase = "Active")
    /\ IF published
       THEN CompleteBufferObservation(<<RecordGeneration, job[t].pub>>, job[t].seq,
                                      "InvalidArgument")
       ELSE UNCHANGED receiver
    /\ Lose(KeyOf(t))
    /\ AfterSample(t)
    /\ UNCHANGED <<accepting, session, dispatch, acks, deliveries>>

\* Capability, encoding, catalog latch and write-once checks and the store
\* access itself, seen as their result; a throwing engine fails as well.
WriteData(t) ==
    /\ pc[t] = "leased" /\ IsData(t)
    /\ \E status \in {"Ok"} \union ApplyFailure :
          /\ outcome' = [outcome EXCEPT ![t] = status]
          /\ stored' = [stored EXCEPT ![<<generation, job[t].pub>>][job[t].seq] = status]
          /\ lost' = IF status = "Ok" THEN lost ELSE lost \union {<<generation, job[t].pub>>}
    /\ pc' = [pc EXCEPT ![t] = "written"]
    /\ UNCHANGED <<accepting, session, dispatch, receiver, acks, deliveries,
                   job, ticket, entry, leased>>

CompleteData(t) ==
    /\ pc[t] = "written"
    /\ CompleteBufferObservation(<<generation, job[t].pub>>, job[t].seq, outcome[t])
    /\ AfterSample(t)
    /\ UNCHANGED <<accepting, session, dispatch, acks, history, deliveries>>

\* AckRegistry::ClaimIndependent admits the token; `status` is the answer of a
\* marker that holds no session lease.
Claim(t, lease, status) ==
    /\ acks' = [acks EXCEPT ![job[t]] = "processing"]
    /\ pc' = [pc EXCEPT ![t] = "claimed"]
    /\ leased' = [leased EXCEPT ![t] = lease]
    /\ outcome' = [outcome EXCEPT ![t] = status]
    /\ UNCHANGED <<job, ticket, entry>>

\* ApplyBufferFenceMarker up to the token claim.  A marker of another
\* generation than the active one is dropped before the claim.
SelectMarker(t) ==
    LET m == job[t]
        active == published /\ phase = "Active"
        stale == active /\ m.gen # generation
        status == IF published THEN "InvalidArgument" ELSE "NotFound"
    IN  /\ pc[t] \in {"entered", "direct"} /\ IsMarker(t)
        /\ IF stale \/ acks[m] # "none"
           THEN AfterSample(t) /\ UNCHANGED acks
           ELSE Claim(t, active, status)
        /\ UNCHANGED <<accepting, session, dispatch, receiver, history, deliveries>>

\* Mutant of SelectInvalidMarker: only a token in flight is a duplicate.
SelectInvalidMarkerAgain(t) ==
    /\ pc[t] \in {"entered", "direct"} /\ IsMarker(t)
    /\ IF acks[job[t]] = "processing"
       THEN AfterSample(t) /\ UNCHANGED acks
       ELSE Claim(t, FALSE, "Error")
    /\ UNCHANGED <<accepting, session, dispatch, receiver, history, deliveries>>

\* A marker whose key or payload is not canonical selects no session.
SelectInvalidMarker(t) ==
    /\ pc[t] \in {"entered", "direct"} /\ IsMarker(t)
    /\ IF acks[job[t]] # "none"
       THEN AfterSample(t) /\ UNCHANGED acks
       ELSE Claim(t, FALSE, "Error")
    /\ UNCHANGED <<accepting, session, dispatch, receiver, history, deliveries>>

\* What a claimed marker with a session lease may be answered: the lane's
\* proof, or a refusal by the catalog latch, the session's capabilities, the
\* durability barrier or an exception.
MarkerStatus(m) == {EvaluateBuffer(<<m.gen, m.pub>>, m.through)} \union ApplyFailure

EvaluateMarker(t) ==
    /\ pc[t] = "claimed"
    /\ \E status \in IF ~accepting THEN {"Error"}
                     ELSE IF leased[t] THEN MarkerStatus(job[t]) ELSE {outcome[t]} :
          acks' = [acks EXCEPT ![job[t]] = status]
    /\ AfterSample(t)
    /\ UNCHANGED <<accepting, session, dispatch, receiver, history, deliveries>>

\* Mutant of Leave: the next ticket is not served.
LeaveUnserved(t) ==
    /\ pc[t] = "leaving"
    /\ Return(t)
    /\ UNCHANGED <<accepting, session, dispatch, receiver, acks, history, deliveries>>

\* Entry::Release: the next ticket is served and the registration is left.
Leave(t) ==
    /\ pc[t] = "leaving"
    /\ serving_ticket' = serving_ticket + 1
    /\ Return(t)
    /\ UNCHANGED <<accepting, session, next_ticket, receiver, acks, history, deliveries>>

-----------------------------------------------------------------------------
(* CreateSession, CloseSession and Stop on the same sid.                    *)

\* Publish the Creating record with a fresh generation and registration.
CreateSession ==
    /\ accepting /\ lifecycle = "idle" /\ ~published
    /\ generation < MaxGeneration
    /\ SessionMutexFree
    /\ phase' = "Creating" /\ published' = TRUE
    /\ generation' = generation + 1 /\ erased' = FALSE
    /\ registered' = TRUE
    /\ lifecycle' = "creating"
    /\ UNCHANGED <<accepting, resources, dispatch, callbacks, receiver, acks, history, deliveries>>

ActivateSession ==
    /\ lifecycle = "creating"
    /\ SessionMutexFree
    /\ phase' = "Active" /\ resources' = TRUE /\ lifecycle' = "idle"
    /\ UNCHANGED <<accepting, published, generation, erased, registered,
                   dispatch, callbacks, receiver, acks, history, deliveries>>

\* SessionRollbackGuard: a failed creation ends like a close.
RollbackSession ==
    /\ lifecycle = "creating"
    /\ lifecycle' = "ending"
    /\ UNCHANGED <<accepting, phase, published, generation, erased, resources, registered,
                   dispatch, callbacks, receiver, acks, history, deliveries>>

BeginClose ==
    /\ accepting /\ lifecycle = "idle"
    /\ published /\ phase = "Active"
    /\ SessionMutexFree
    /\ phase' = "Closing" /\ lifecycle' = "ending"
    /\ UNCHANGED <<accepting, published, generation, erased, resources, registered,
                   dispatch, callbacks, receiver, acks, history, deliveries>>

\* Coordinator::CloseAndWait, first half.
CloseDispatch ==
    /\ lifecycle = "ending"
    /\ registered' = FALSE /\ lifecycle' = "draining"
    /\ UNCHANGED <<accepting, phase, published, generation, erased, resources,
                   dispatch, callbacks, receiver, acks, history, deliveries>>

DispatchDrained == \A t \in Threads : entry[t] # generation
AdmissionDrained == \A t \in Threads : ~leased[t]

\* Mutant of ReleaseSession: the record is cleaned up before the waits.
ReleaseSessionEarly ==
    /\ lifecycle = "draining"
    /\ resources' = FALSE
    /\ erased' = (phase = "Closing")
    /\ phase' = IF phase = "Active" THEN "Closing" ELSE phase
    /\ lifecycle' = "released"
    /\ IF published THEN EraseSession ELSE UNCHANGED receiver
    /\ UNCHANGED <<accepting, published, generation, registered,
                   dispatch, callbacks, acks, history, deliveries>>

\* Its second half, WaitForAdmission, and the cleanup of the record.  A close or
\* a rollback, whose record is still published, erases the sid's receiver lanes;
\* only CloseSession resets the generation.
ReleaseSession ==
    /\ lifecycle = "draining"
    /\ DispatchDrained /\ AdmissionDrained
    /\ resources' = FALSE
    /\ erased' = (phase = "Closing")
    /\ phase' = IF phase = "Active" THEN "Closing" ELSE phase
    /\ lifecycle' = "released"
    /\ IF published THEN EraseSession ELSE UNCHANGED receiver
    /\ UNCHANGED <<accepting, published, generation, registered,
                   dispatch, callbacks, acks, history, deliveries>>

EraseRecord ==
    /\ lifecycle = "released"
    /\ SessionMutexFree
    /\ phase' = "None" /\ published' = FALSE /\ lifecycle' = "idle"
    /\ UNCHANGED <<accepting, generation, erased, resources, registered,
                   dispatch, callbacks, receiver, acks, history, deliveries>>

\* Stop: close the gate, wait for it to empty (the lifecycle operations hold a
\* lease too), then extract the record and end it like a close.
Deactivate ==
    /\ accepting
    /\ accepting' = FALSE
    /\ UNCHANGED <<session, dispatch, callbacks, receiver, acks, history, deliveries>>

QuiesceSession ==
    /\ ~accepting /\ lifecycle = "idle" /\ GateEmpty
    /\ published
    /\ SessionMutexFree
    /\ published' = FALSE /\ lifecycle' = "ending"
    /\ UNCHANGED <<accepting, phase, generation, erased, resources, registered,
                   dispatch, callbacks, receiver, acks, history, deliveries>>

\* The end of Quiesce: token states and receiver lanes are dropped.
ClearRegistries ==
    /\ ~accepting /\ lifecycle = "idle" /\ GateEmpty
    /\ ~published
    /\ acks' = [m \in Marker |-> "none"]
    /\ EraseSession
    /\ UNCHANGED <<accepting, session, dispatch, callbacks, history, deliveries>>

-----------------------------------------------------------------------------
Dispatch(t) ==
    \/ \E j \in Data : DispatchData(t, j) \/ DispatchMalformed(t, j) \/ DispatchDataThrows(t, j)
    \/ \E m \in Marker : \/ DispatchMarker(t, m)
                         \/ DispatchMarkerClosed(t, m)
                         \/ DispatchMarkerDirect(t, m)
    \/ DispatchRawThrows(t)

OnSample(t) ==
    \/ TakeTurn(t) \/ AcquireData(t) \/ RefuseData(t) \/ WriteData(t) \/ CompleteData(t)
    \/ SelectMarker(t) \/ SelectInvalidMarker(t) \/ EvaluateMarker(t) \/ FallbackFinish(t)
    \/ Leave(t)

EndSession == CloseDispatch \/ ReleaseSession \/ EraseRecord \/ QuiesceSession \/ ClearRegistries

Lifecycle == CreateSession \/ ActivateSession \/ RollbackSession \/ BeginClose \/ Deactivate

Next ==
    \/ \E t \in Threads : Dispatch(t) \/ OnSample(t)
    \/ EndSession
    \/ Lifecycle

Spec == Init /\ [][Next]_vars

\* The operating system schedules every callback and lifecycle thread that can
\* run, and engine and log calls return; deliveries and API calls are free.
Fairness ==
    /\ \A t \in Threads : WF_vars(OnSample(t))
    /\ WF_vars(EndSession)

FairSpec == Spec /\ Fairness

-----------------------------------------------------------------------------
SessionType ==
    /\ accepting \in BOOLEAN
    /\ phase \in {"None", "Creating", "Active", "Closing"}
    /\ published \in BOOLEAN /\ erased \in BOOLEAN
    /\ resources \in BOOLEAN /\ registered \in BOOLEAN
    /\ lifecycle \in {"idle", "creating", "ending", "draining", "released"}

CounterType ==
    /\ generation \in 0 .. MaxGeneration
    /\ next_ticket \in Nat /\ serving_ticket \in Nat
    /\ deliveries \in 0 .. MaxDeliveries

CallbackType ==
    /\ pc \in [Threads -> PC]
    /\ job \in [Threads -> Job]
    /\ ticket \in [Threads -> Nat]
    /\ entry \in [Threads -> 0 .. MaxGeneration]
    /\ leased \in [Threads -> BOOLEAN]
    /\ outcome \in [Threads -> Status]

ReceiverType ==
    /\ lanes \in [LaneKey -> LaneState]
    /\ lane_keys \in SUBSET LaneKey
    /\ poisoned \in SUBSET (0 .. MaxGeneration)

HistoryType ==
    /\ acks \in [Marker -> AckState]
    /\ stored \in [LaneKey -> [Sequence -> Status \union {"none"}]]
    /\ lost \in SUBSET LaneKey

\* The values of every variable.
TypeOK == SessionType /\ CounterType /\ CallbackType /\ ReceiverType /\ HistoryType

\* A fence answered Ok covers its whole prefix: every sequence 1..through of
\* that publisher was stored, successfully, in the generation the marker names.
FenceOkIsProof ==
    \A m \in Marker : acks[m] = "Ok" =>
        \A s \in 1 .. m.through : stored[<<m.gen, m.pub>>][s] = "Ok"

\* Ticket order and reservation order agree, so a completion is always the
\* next one of its lane: the mismatch branch of FenceLaneState::Complete, which
\* would poison a healthy lane, is never reached.
CompletionsAreNext ==
    \A t \in Threads : pc[t] \in {"entered", "leased", "written"} /\ IsData(t) =>
        KeyOf(t) \in lane_keys /\ CompletesInOrder(lanes[KeyOf(t)], job[t].seq)

\* A callback that holds a session lease accesses the store of the generation it
\* was admitted in, before CloseSession or Stop releases that store.
NoUseAfterRelease ==
    \A t \in Threads : leased[t] => resources /\ entry[t] = generation

\* The store access of a lane is exactly once and in sequence order: whoever is
\* about to write a sequence finds no access for it or for any later one.
StoreOnceInOrder ==
    \A t \in Threads : pc[t] = "leased" /\ IsData(t) =>
        \A s \in job[t].seq .. MaxSequence : stored[KeyOf(t)][s] = "none"

\* No ticket is lost or shared: each ticket from the one served to the next
\* one issued is held by one callback, so the FIFO lane cannot wedge.
TicketsAreHeld ==
    /\ \A n \in serving_ticket .. next_ticket - 1 :
          \E t \in Threads : entry[t] # NoGeneration /\ ticket[t] = n
    /\ \A t, u \in Threads :
          entry[t] # NoGeneration /\ entry[u] # NoGeneration /\ ticket[t] = ticket[u] => t = u

\* An Ok is exact and lossless: no sample of that publisher which reached this
\* generation was rejected, refused, malformed, dropped by overflow or lane
\* capacity, or failed to store, however the single retained failure was
\* masked by an earlier one; and nothing past the marker reached the store.
OkIsLossless ==
    [][\A m \in Marker : acks[m] # "Ok" /\ acks'[m] = "Ok" =>
          /\ <<m.gen, m.pub>> \notin lost
          /\ \A s \in (m.through + 1) .. MaxSequence : stored[<<m.gen, m.pub>>][s] = "none"]_vars

\* However often a marker is delivered, by whichever of the three routes, its
\* token is answered once; only Stop forgets the answer.
AnswersAreFinal ==
    [][\A m \in Marker : acks[m] \in Status => acks'[m] = acks[m] \/ ~accepting]_vars

\* Every admitted callback gets its turn and returns to the transport, and a
\* close, a rollback or a stop that has begun to end the session finishes,
\* whatever callbacks are queued in the ticket lane: neither waits for ever on
\* the other, and once the deliveries cease all of them are over together.
CallbacksAndEndingsFinish ==
    (lifecycle = "ending" \/ \E t \in Threads : pc[t] = "queued")
        ~> (lifecycle \in {"idle", "creating"} /\ \A t \in Threads : pc[t] = "idle")
=============================================================================
