------------------------- MODULE FenceReceiverProofs --------------------------
(***************************************************************************)
(* What each method of FenceLaneState preserves, for every lane and every  *)
(* width of the sequence counter.  Then the inductive invariant of         *)
(* FenceReceiver, its types, and what a delivery and a callback do to the  *)
(* lanes, for every number of threads, publishers, generations and         *)
(* sequences and for every capacity.                                       *)
(***************************************************************************)
EXTENDS FenceReceiver, TLAPS

\* Completions follow reservations, reservations follow observations, and the
\* retained failure never names a sequence above the highest one observed.
LaneSound(lane) ==
    /\ lane.completed_through <= lane.reserved_through
    /\ lane.reserved_through <= lane.highest_observed
    /\ HasFailure(lane) => \/ lane.first_failure.sequence = NoFailedSequence
                           \/ lane.first_failure.sequence <= lane.highest_observed

\* A method that leaves the counters of reservation and completion alone.
KeepsProgress(lane, after) ==
    /\ after.completed_through = lane.completed_through
    /\ after.reserved_through = lane.reserved_through

\* What a method that records a failure does: the lane stays sound, is failed
\* from now on, and moves neither counter.
Evidence(lane, after) ==
    /\ after \in LaneState
    /\ LaneSound(after)
    /\ KeepsProgress(lane, after)
    /\ HasFailure(after)

\* A new lane is sound and has no failure.
LEMMA NewLaneFacts ==
    /\ NewLane \in LaneState
    /\ LaneSound(NewLane)
    /\ ~HasFailure(NewLane)
    /\ NewLane.completed_through = 0
    /\ NewLane.reserved_through = 0
BY MaxSequenceAssumption, LaterFailureMaxAssumption
   DEF NewLane, LaneState, LaneSound, HasFailure, NoFailure, Failure, Status, Sequence

\* Latch retains the first failure in time order and only counts later ones.
LEMMA LatchFacts ==
    ASSUME NEW lane \in LaneState, NEW status \in Status \ {"Ok"}, NEW seq \in Sequence
    PROVE  /\ Latch(lane, status, seq) \in LaneState
           /\ HasFailure(Latch(lane, status, seq))
           /\ KeepsProgress(lane, Latch(lane, status, seq))
           /\ Latch(lane, status, seq).highest_observed = lane.highest_observed
           /\ Latch(lane, status, seq).first_failure =
                IF HasFailure(lane) THEN lane.first_failure
                ELSE [status |-> status, sequence |-> seq]
BY LaterFailureMaxAssumption
   DEF Latch, LaneState, HasFailure, Failure, KeepsProgress

\* Observing a sequence only raises the highest one.
LEMMA ObserveFacts ==
    ASSUME NEW lane \in LaneState, NEW seq \in Sequence
    PROVE  /\ Observe(lane, seq) \in LaneState
           /\ KeepsProgress(lane, Observe(lane, seq))
           /\ Observe(lane, seq).highest_observed >= seq
           /\ Observe(lane, seq).highest_observed >= lane.highest_observed
           /\ Observe(lane, seq).first_failure = lane.first_failure
BY MaxSequenceAssumption DEF Observe, LaneState, KeepsProgress, Sequence

\* Latching a failure at or below the highest observation keeps a lane sound.
LEMMA LatchEvidence ==
    ASSUME NEW lane \in LaneState, LaneSound(lane),
           NEW status \in Status \ {"Ok"}, NEW seq \in Sequence,
           seq = NoFailedSequence \/ seq <= lane.highest_observed
    PROVE  Evidence(lane, Latch(lane, status, seq))
<1> DEFINE after == Latch(lane, status, seq)
<1>1. /\ after \in LaneState /\ HasFailure(after)
      /\ KeepsProgress(lane, after)
      /\ after.highest_observed = lane.highest_observed
      /\ after.first_failure = IF HasFailure(lane) THEN lane.first_failure
                               ELSE [status |-> status, sequence |-> seq]
  BY LatchFacts
<1> HIDE DEF after
<1>2. LaneSound(after)
  BY <1>1 DEF LaneSound, HasFailure, KeepsProgress
<1> QED
  BY Zenon, <1>1, <1>2 DEF after, Evidence

\* So does observing a sequence.
LEMMA ObserveSound ==
    ASSUME NEW lane \in LaneState, LaneSound(lane), NEW seq \in Sequence
    PROVE  LaneSound(Observe(lane, seq))
<1> DEFINE after == Observe(lane, seq)
<1>1. /\ after \in LaneState
      /\ KeepsProgress(lane, after)
      /\ after.highest_observed >= lane.highest_observed
      /\ after.first_failure = lane.first_failure
  BY Zenon, ObserveFacts
<1> HIDE DEF after
<1>2. /\ lane.reserved_through \in Nat /\ lane.highest_observed \in Nat
      /\ after.highest_observed \in Nat
      /\ lane.first_failure.sequence \in Nat
  BY <1>1, MaxSequenceAssumption DEF LaneState, Sequence, Failure
<1>3. LaneSound(after)
  BY <1>1, <1>2 DEF LaneSound, HasFailure, KeepsProgress
<1> QED
  BY Zenon, <1>3 DEF after

\* Admit reserves exactly the next sequence or leaves a failure behind.
LEMMA AdmitFacts ==
    ASSUME NEW lane \in LaneState, LaneSound(lane), NEW seq \in Sequence
    PROVE  /\ Admit(lane, seq) \in LaneState
           /\ LaneSound(Admit(lane, seq))
           /\ Admit(lane, seq).completed_through = lane.completed_through
           /\ Admits(lane, seq) =>
                 /\ seq = lane.reserved_through + 1
                 /\ Admit(lane, seq).reserved_through = seq
                 /\ HasFailure(Admit(lane, seq)) = HasFailure(lane)
           /\ ~Admits(lane, seq) =>
                 /\ Admit(lane, seq).reserved_through = lane.reserved_through
                 /\ HasFailure(Admit(lane, seq))
<1> DEFINE seen == Observe(lane, seq)
           expected == lane.reserved_through + 1
<1>1. /\ seen \in LaneState /\ LaneSound(seen) /\ KeepsProgress(lane, seen)
      /\ seen.highest_observed >= seq
      /\ seen.first_failure = lane.first_failure
  BY Zenon, ObserveFacts, ObserveSound
<1>2. lane.reserved_through \in Nat /\ seq \in Nat /\ seen.highest_observed \in Nat
  BY <1>1, MaxSequenceAssumption DEF LaneState, Sequence
<1>3. NoFailedSequence \in Sequence /\ {"Error", "OutcomeUnknown"} \subseteq Status \ {"Ok"}
  BY MaxSequenceAssumption DEF NoFailedSequence, Sequence, Status
<1> HIDE DEF seen
<1>4. CASE seq = 0
  <2>1. Admit(lane, seq) = Latch(lane, "Error", NoFailedSequence) /\ ~Admits(lane, seq)
    BY Zenon, <1>4 DEF Admit, Admits
  <2>2. Evidence(lane, Admit(lane, seq))
    BY Zenon, <1>3, <2>1, LatchEvidence
  <2> QED
    BY Zenon, <2>1, <2>2 DEF Evidence, KeepsProgress
<1>5. CASE seq # 0 /\ Stale(lane, seq)
  <2>1. Admit(lane, seq) = Latch(seen, "Error", seq) /\ ~Admits(lane, seq)
    BY Zenon, <1>5 DEF Admit, Admits, seen
  <2>2. Evidence(seen, Admit(lane, seq))
    BY Zenon, <1>1, <1>2, <1>3, <2>1, LatchEvidence
  <2> QED
    BY Zenon, <1>1, <2>1, <2>2 DEF Evidence, KeepsProgress
<1>6. CASE seq # 0 /\ ~Stale(lane, seq) /\ seq > expected
  <2>1. Admit(lane, seq) = Latch(seen, "OutcomeUnknown", expected) /\ ~Admits(lane, seq)
    BY <1>2, <1>6 DEF Admit, Admits, seen
  <2>2. expected \in Sequence /\ expected <= seen.highest_observed
    BY <1>1, <1>2, <1>6, MaxSequenceAssumption DEF Sequence
  <2> HIDE DEF expected
  <2>3. Evidence(seen, Admit(lane, seq))
    BY Zenon, <1>1, <1>3, <2>1, <2>2, LatchEvidence
  <2> QED
    BY Zenon, <1>1, <2>1, <2>3 DEF Evidence, KeepsProgress
<1>7. CASE seq # 0 /\ ~Stale(lane, seq) /\ ~(seq > expected)
  <2>1. seq = expected
    BY <1>2, <1>7 DEF Stale
  <2>2. Admit(lane, seq) = [seen EXCEPT !.reserved_through = seq,
                                        !.reservation_exhausted = (seq = MaxSequence)]
    BY Zenon, <1>2, <1>7 DEF Admit, seen
  <2>3. Admits(lane, seq)
    BY Zenon, <1>7, <2>1 DEF Admits
  <2>4. Admit(lane, seq) \in LaneState
    BY Zenon, <1>1, <2>2 DEF LaneState
  <2>5. /\ Admit(lane, seq).completed_through = seen.completed_through
        /\ Admit(lane, seq).highest_observed = seen.highest_observed
        /\ Admit(lane, seq).first_failure = seen.first_failure
        /\ Admit(lane, seq).reserved_through = seq
    BY Zenon, <1>1, <2>2 DEF LaneState
  <2>6. lane.completed_through <= seq
    BY <1>2, <2>1 DEF LaneSound, LaneState, Sequence
  <2>7. LaneSound(Admit(lane, seq))
    BY Zenon, <1>1, <2>5, <2>6 DEF LaneSound, KeepsProgress, HasFailure
  <2> QED
    BY Zenon, <1>1, <2>1, <2>3, <2>4, <2>5, <2>7 DEF KeepsProgress, HasFailure
<1> QED
  BY Zenon, <1>4, <1>5, <1>6, <1>7

\* A completion in order advances by one; it fails the lane unless it is Ok.
LEMMA CompleteFacts ==
    ASSUME NEW lane \in LaneState, LaneSound(lane), NEW seq \in Sequence,
           NEW status \in Status, CompletesInOrder(lane, seq)
    PROVE  /\ Complete(lane, seq, status) \in LaneState
           /\ LaneSound(Complete(lane, seq, status))
           /\ Complete(lane, seq, status).completed_through = seq
           /\ Complete(lane, seq, status).reserved_through = lane.reserved_through
           /\ HasFailure(Complete(lane, seq, status)) <=> HasFailure(lane) \/ status # "Ok"
<1> DEFINE done == [lane EXCEPT !.completed_through = seq]
<1>1. /\ done \in LaneState
      /\ done.completed_through = seq
      /\ done.reserved_through = lane.reserved_through
      /\ done.highest_observed = lane.highest_observed
      /\ done.first_failure = lane.first_failure
  BY Zenon DEF LaneState
<1>2. seq <= lane.reserved_through /\ seq <= lane.highest_observed
  BY MaxSequenceAssumption DEF CompletesInOrder, LaneSound, LaneState, Sequence
<1>3. Complete(lane, seq, status) = IF status = "Ok" THEN done ELSE Latch(done, status, seq)
  BY Zenon DEF Complete
<1> HIDE DEF done
<1>4. LaneSound(done)
  BY Zenon, <1>1, <1>2 DEF LaneSound, HasFailure
<1>5. CASE status = "Ok"
  BY Zenon, <1>1, <1>3, <1>4, <1>5 DEF HasFailure
<1>6. CASE status # "Ok"
  <2>1. status \in Status \ {"Ok"}
    BY Zenon, <1>6
  <2>2. Evidence(done, Complete(lane, seq, status))
    BY Zenon, <1>1, <1>2, <1>3, <1>4, <1>6, <2>1, LatchEvidence
  <2> QED
    BY Zenon, <1>1, <1>6, <2>2 DEF Evidence, KeepsProgress
<1> QED
  BY Zenon, <1>5, <1>6

\* Overflow evidence fails the lane and moves neither counter.
LEMMA RecordOverflowFacts ==
    ASSUME NEW lane \in LaneState, LaneSound(lane), NEW seq \in Sequence
    PROVE  Evidence(lane, RecordOverflow(lane, seq))
<1> DEFINE seen == Observe(lane, seq)
           at == IF Stale(lane, seq) THEN seq ELSE lane.reserved_through + 1
           status == IF Stale(lane, seq) THEN "Error" ELSE "OutcomeUnknown"
<1>1. /\ seen \in LaneState /\ LaneSound(seen) /\ KeepsProgress(lane, seen)
      /\ seen.highest_observed >= seq
  BY Zenon, ObserveFacts, ObserveSound
<1>2. lane.reserved_through \in Nat /\ seq \in Nat /\ seen.highest_observed \in Nat
  BY <1>1, MaxSequenceAssumption DEF LaneState, Sequence
<1>3. RecordOverflow(lane, seq) = Latch(seen, status, at)
  BY Zenon DEF RecordOverflow
<1> HIDE DEF seen
<1>4. at \in Sequence /\ at <= seen.highest_observed
  BY <1>1, <1>2, MaxSequenceAssumption DEF Stale, Sequence
<1>5. status \in Status \ {"Ok"}
  BY Zenon DEF Status
<1> HIDE DEF at, status
<1>6. Evidence(seen, Latch(seen, status, at))
  BY Zenon, <1>1, <1>4, <1>5, LatchEvidence
<1> QED
  BY Zenon, <1>1, <1>3, <1>6 DEF Evidence, KeepsProgress

\* So does malformed lane metadata, with and without a sequence.
LEMMA RecordMalformedFacts ==
    ASSUME NEW lane \in LaneState, LaneSound(lane), NEW seq \in Sequence,
           NEW after \in {RecordMalformed(lane, seq), RecordMalformedUnsequenced(lane)}
    PROVE  Evidence(lane, after)
<1> DEFINE seen == Observe(lane, seq)
<1>1. /\ seen \in LaneState /\ LaneSound(seen) /\ KeepsProgress(lane, seen)
      /\ seq <= seen.highest_observed
  <2>1. seen \in LaneState /\ LaneSound(seen) /\ KeepsProgress(lane, seen)
        /\ seen.highest_observed >= seq
    BY Zenon, ObserveFacts, ObserveSound
  <2> HIDE DEF seen
  <2> QED
    BY Zenon, <2>1, MaxSequenceAssumption DEF LaneState, Sequence
<1>2. NoFailedSequence \in Sequence /\ "Error" \in Status \ {"Ok"}
  BY MaxSequenceAssumption DEF NoFailedSequence, Sequence, Status
<1>3. CASE after = RecordMalformed(lane, seq)
  <2>1. after = Latch(seen, "Error", seq)
    BY Zenon, <1>3 DEF RecordMalformed
  <2> HIDE DEF seen
  <2>2. Evidence(seen, Latch(seen, "Error", seq))
    BY Zenon, <1>1, <1>2, LatchEvidence
  <2> QED
    BY Zenon, <1>1, <2>1, <2>2 DEF Evidence, KeepsProgress
<1>4. CASE after = RecordMalformedUnsequenced(lane)
  <2>1. after = Latch(lane, "Error", NoFailedSequence)
    BY Zenon, <1>4 DEF RecordMalformedUnsequenced
  <2> QED
    BY Zenon, <1>2, <2>1, LatchEvidence
<1> QED
  BY Zenon, <1>3, <1>4

\* FenceLaneState::Evaluate answers Ok only for a lane that never latched a
\* failure and completed exactly the marker's prefix.  A failure retained
\* beyond the marker does not hide an earlier sequence that failed later,
\* because the observation that caused it is itself beyond the marker.
THEOREM EvaluateOkIsClean ==
    ASSUME NEW lane \in LaneState, LaneSound(lane), NEW through \in Sequence,
           Evaluate(lane, through) = "Ok"
    PROVE  ~HasFailure(lane) /\ lane.completed_through = through
<1>1. /\ lane.highest_observed \in Nat /\ through \in Nat
      /\ lane.first_failure.sequence \in Nat
  BY MaxSequenceAssumption DEF LaneState, Sequence, Failure
<1>2. ASSUME HasFailure(lane) PROVE FALSE
  <2>1. lane.first_failure.sequence \notin {NoFailedSequence} \union (0 .. through)
    BY Zenon, <1>2 DEF Evaluate, HasFailure
  <2>2. lane.highest_observed <= through
    BY Zenon, <2>1 DEF Evaluate
  <2>3. lane.first_failure.sequence <= lane.highest_observed
    BY Zenon, <1>2, <2>1 DEF LaneSound
  <2> QED
    BY <1>1, <2>1, <2>2, <2>3
<1> QED
  BY Zenon, <1>2 DEF Evaluate

-----------------------------------------------------------------------------

\* A record exists and its resources have not been released.
Live == phase # "None" /\ lifecycle # "released"

\* How phase, publication and resources follow the lifecycle operations.
SessionInv ==
    /\ phase = "None" => lifecycle = "idle" /\ ~published
    /\ phase # "None" => generation # NoGeneration
    /\ phase # "None" /\ accepting => published
    /\ phase # "None" /\ lifecycle = "idle" => phase = "Active" /\ published
    /\ lifecycle = "creating" => phase = "Creating" /\ published
    /\ phase = "Active" => resources
    /\ phase = "Active" => lifecycle # "released"
    /\ phase = "Closing" => lifecycle \in {"ending", "draining", "released"}
    /\ phase = "Closing" /\ lifecycle # "released" => resources
    /\ registered => Live /\ lifecycle # "draining"
    /\ erased => ~Live

\* A dispatch entry pins the live record of its generation, and the record
\* stays published while the entry's callback is inside the gate.
EntryInv ==
    \A t \in Threads :
        /\ pc[t] \in {"queued", "entered", "leased", "written", "leaving"} => entry[t] # NoGeneration
        /\ pc[t] \in {"idle", "direct", "fallback"} => entry[t] = NoGeneration
        /\ entry[t] # NoGeneration => Live /\ entry[t] = generation
        /\ entry[t] # NoGeneration /\ pc[t] \in InGate => published

\* What a callback holds and carries at each point.
CallbackInv ==
    \A t \in Threads :
        /\ pc[t] \in {"queued", "entered"} => job[t] \in Data \union Marker
        /\ pc[t] \in {"leased", "written"} => job[t] \in Data /\ leased[t]
        /\ pc[t] \in {"direct", "claimed", "fallback"} => job[t] \in Marker
        /\ pc[t] = "direct" =>
              job[t].gen <= generation /\ (published => job[t].gen < generation)
        /\ leased[t] => /\ pc[t] \in {"leased", "written", "claimed"}
                        /\ entry[t] # NoGeneration
                        /\ phase \in {"Active", "Closing"}
        /\ leased[t] /\ pc[t] = "claimed" => job[t].gen = generation
        /\ ~leased[t] /\ pc[t] = "claimed" => outcome[t] # "Ok"

\* Every ticket between the served and the next one has one holder, and a
\* callback past WaitTurn holds the served one.
TicketInv ==
    /\ serving_ticket <= next_ticket
    /\ \A t \in Threads : entry[t] # NoGeneration =>
          /\ serving_ticket <= ticket[t] /\ ticket[t] < next_ticket
          /\ pc[t] # "queued" => ticket[t] = serving_ticket
    /\ TicketsAreHeld

\* Every retained lane is sound; an absent one is as new.
LaneInv ==
    \A k \in LaneKey :
        /\ LaneSound(lanes[k])
        /\ k \notin lane_keys => lanes[k] = NewLane

\* A scope is poisoned only once the registry is full, and it stays full.
PoisonInv == poisoned # {} => Cardinality(lane_keys) = LaneCapacity

ReceiverInv == ReceiverType /\ LaneInv /\ PoisonInv

\* A data callback whose reservation is not completed yet.
Pending(t) ==
    pc[t] \in {"queued", "entered", "leased", "written"} /\ IsData(t)

\* The pending callbacks of a lane hold its reserved, uncompleted sequences, in
\* ticket order, and while the node accepts callbacks none is missing.
ReservationInv ==
    /\ \A t \in Threads : Pending(t) =>
          /\ KeyOf(t) \in lane_keys
          /\ lanes[KeyOf(t)].completed_through < job[t].seq
          /\ job[t].seq <= lanes[KeyOf(t)].reserved_through
          /\ pc[t] # "queued" => job[t].seq = lanes[KeyOf(t)].completed_through + 1
    /\ \A t, u \in Threads :
          Pending(t) /\ Pending(u) /\ job[t].pub = job[u].pub /\ ticket[t] < ticket[u] =>
              job[t].seq < job[u].seq
    /\ accepting => \A k \in LaneKey : \A s \in Sequence :
          lanes[k].completed_through < s /\ s <= lanes[k].reserved_through =>
              \E t \in Threads : Pending(t) /\ KeyOf(t) = k /\ job[t].seq = s

\* A generation that has not been created has no trace.
FreshInv ==
    \A k \in LaneKey : k[1] > generation =>
        /\ lanes[k] = NewLane /\ k \notin lane_keys /\ k \notin lost
        /\ \A s \in Sequence : stored[k][s] = "none"

\* The live generation's lanes describe its store accesses.
StoredInv ==
    /\ Live => \A k \in LaneKey : k[1] = generation =>
          /\ \A s \in Sequence : stored[k][s] # "none" =>
                \/ s <= lanes[k].completed_through
                \/ \E t \in Threads : pc[t] = "written" /\ KeyOf(t) = k /\ job[t].seq = s
          /\ ~HasFailure(lanes[k]) =>
                \A s \in 1 .. lanes[k].completed_through : stored[k][s] = "Ok"
    /\ \A t \in Threads : pc[t] = "written" => stored[KeyOf(t)][job[t].seq] = outcome[t]

\* A sample that was lost is remembered: by its lane, by the poison of its
\* scope, or by the callback that is about to complete it.
LossInv ==
    Live /\ accepting => \A k \in LaneKey : k[1] = generation /\ k \in lost =>
        \/ HasFailure(lanes[k])
        \/ k \notin lane_keys /\ k[1] \in poisoned
        \/ \E t \in Threads : pc[t] = "written" /\ KeyOf(t) = k /\ outcome[t] # "Ok"

\* A claimed token is processing, and claimed by one callback.
Claiming(t) == pc[t] \in {"claimed", "fallback"}

ClaimInv ==
    /\ \A t \in Threads : Claiming(t) => acks[job[t]] = "processing"
    /\ \A t, u \in Threads : Claiming(t) /\ Claiming(u) /\ job[t] = job[u] => t = u

IInv ==
    /\ TypeOK
    /\ SessionInv
    /\ EntryInv
    /\ CallbackInv
    /\ TicketInv
    /\ ReceiverInv
    /\ ReservationInv
    /\ FreshInv
    /\ StoredInv
    /\ LossInv
    /\ ClaimInv
    /\ FenceOkIsProof

-----------------------------------------------------------------------------
\* The invariant holds initially.
LEMMA InitIInv == Init => IInv
<1> SUFFICES ASSUME Init PROVE IInv
  BY Zenon
<1> USE DEF Init
<1>1. TypeOK
  <2>1. SessionType
    BY Zenon DEF SessionType
  <2>2. CallbackType
    BY MaxGenerationAssumption DEF CallbackType, PC, Job, Status, NoGeneration
  <2>3. ReceiverType
    BY Zenon, NewLaneFacts DEF ReceiverType
  <2>4. HistoryType
    BY Zenon DEF HistoryType, AckState
  <2>5. CounterType
    BY MaxGenerationAssumption, MaxDeliveriesAssumption DEF CounterType
  <2> QED
    BY Zenon, <2>1, <2>2, <2>3, <2>4, <2>5 DEF TypeOK
<1>2. SessionInv /\ EntryInv /\ CallbackInv /\ ClaimInv /\ FenceOkIsProof
  BY Zenon DEF SessionInv, EntryInv, CallbackInv, ClaimInv, Claiming, FenceOkIsProof, Live, InGate
<1>3. TicketInv
  BY DEF TicketInv, TicketsAreHeld, NoGeneration
<1>4. LaneInv /\ PoisonInv /\ FreshInv
  BY Zenon, NewLaneFacts DEF LaneInv, PoisonInv, FreshInv
<1>5. ReservationInv
  BY NewLaneFacts, MaxSequenceAssumption DEF ReservationInv, Pending, Sequence
<1>6. StoredInv /\ LossInv
  BY Zenon DEF StoredInv, LossInv, Live
<1> QED
  BY Zenon, <1>1, <1>2, <1>3, <1>4, <1>5, <1>6 DEF IInv, ReceiverInv, TypeOK

-----------------------------------------------------------------------------
(* What each kind of step leaves alone.                                     *)

\* The callback state of every thread but t.
OthersKeep(t) ==
    \A u \in Threads \ {t} :
        /\ pc'[u] = pc[u] /\ job'[u] = job[u] /\ ticket'[u] = ticket[u]
        /\ entry'[u] = entry[u] /\ leased'[u] = leased[u] /\ outcome'[u] = outcome[u]

\* A delivery moves no session state, except that an exception may close the
\* class registration, and changes one idle callback at most.
LEMMA DispatchFrame ==
    ASSUME CallbackType, NEW t \in Threads, Dispatch(t)
    PROVE  /\ UNCHANGED <<accepting, phase, published, generation, erased, resources, lifecycle,
                          serving_ticket, stored>>
           /\ registered' => registered
           /\ pc[t] = "idle"
           /\ OthersKeep(t)
<1> USE DEF CallbackType, session, dispatch, callbacks, history, OthersKeep, Deliver, Lose
<1>1. ASSUME NEW j \in Data, DispatchData(t, j)
      PROVE  /\ UNCHANGED <<accepting, session, serving_ticket, stored>>
             /\ pc[t] = "idle"
             /\ OthersKeep(t)
  BY Zenon, <1>1 DEF DispatchData, Enqueue
<1>2. ASSUME NEW j \in Data, DispatchMalformed(t, j) \/ DispatchDataThrows(t, j)
      PROVE  /\ UNCHANGED <<accepting, session, serving_ticket, stored>>
             /\ pc[t] = "idle"
             /\ OthersKeep(t)
  BY Zenon, <1>2 DEF DispatchMalformed, DispatchDataThrows
<1>3. ASSUME NEW m \in Marker,
             DispatchMarker(t, m) \/ DispatchMarkerClosed(t, m) \/ DispatchMarkerDirect(t, m)
      PROVE  /\ UNCHANGED <<accepting, session, serving_ticket, stored>>
             /\ pc[t] = "idle"
             /\ OthersKeep(t)
  BY Zenon, <1>3 DEF DispatchMarker, DispatchMarkerClosed, DispatchMarkerDirect, Enqueue
<1>4. ASSUME DispatchRawThrows(t)
      PROVE  /\ UNCHANGED <<accepting, phase, published, generation, erased, resources, lifecycle,
                            serving_ticket, stored>>
             /\ ~registered'
             /\ pc[t] = "idle"
             /\ OthersKeep(t)
  BY Zenon, <1>4 DEF DispatchRawThrows
<1> QED
  BY Zenon, <1>1, <1>2, <1>3, <1>4 DEF Dispatch

\* A callback step moves no session state and no other callback.
LEMMA OnSampleFrame ==
    ASSUME CallbackType, NEW t \in Threads, OnSample(t)
    PROVE  /\ UNCHANGED <<accepting, session, next_ticket, deliveries>>
           /\ OthersKeep(t)
<1> USE DEF CallbackType, session, dispatch, callbacks, history, OthersKeep
<1> DEFINE Frame == UNCHANGED <<accepting, session, next_ticket, deliveries>> /\ OthersKeep(t)
<1>1. TakeTurn(t) => Frame
  BY Zenon DEF TakeTurn
<1>2. AcquireData(t) => Frame
  BY Zenon DEF AcquireData
<1>3. RefuseData(t) => Frame
  BY DEF RefuseData, AfterSample, Return
<1>4. WriteData(t) => Frame
  BY Zenon DEF WriteData
<1>5. CompleteData(t) => Frame
  BY DEF CompleteData, AfterSample, Return
<1>6. SelectMarker(t) => Frame
  BY DEF SelectMarker, Claim, AfterSample, Return
<1>7. SelectInvalidMarker(t) => Frame
  BY DEF SelectInvalidMarker, Claim, AfterSample, Return
<1>8. EvaluateMarker(t) => Frame
  BY Zenon DEF EvaluateMarker, AfterSample, Return
<1>9. FallbackFinish(t) => Frame
  BY Zenon DEF FallbackFinish, Return
<1>10. Leave(t) => Frame
  BY Zenon DEF Leave, Return
<1> QED
  BY Zenon, <1>1, <1>2, <1>3, <1>4, <1>5, <1>6, <1>7, <1>8, <1>9, <1>10 DEF OnSample

\* A session step moves no callback; it may erase lanes and forget answers.
LEMMA SessionFrame ==
    ASSUME EndSession \/ Lifecycle
    PROVE  /\ UNCHANGED <<dispatch, callbacks, history, deliveries>>
           /\ \/ UNCHANGED receiver
              \/ EraseSession /\ (ReleaseSession \/ ClearRegistries)
           /\ UNCHANGED acks \/ ClearRegistries
<1>1. CASE EndSession
  BY Zenon, <1>1 DEF EndSession, CloseDispatch, ReleaseSession, EraseRecord, QuiesceSession,
              ClearRegistries
<1>2. CASE Lifecycle
  BY Zenon, <1>2 DEF Lifecycle, CreateSession, ActivateSession, RollbackSession, BeginClose, Deactivate
<1> QED
  BY Zenon, <1>1, <1>2

-----------------------------------------------------------------------------
(* Types.                                                                   *)

LEMMA SessionTypeStep == SessionType /\ CallbackType /\ [Next]_vars => SessionType'
<1> SUFFICES ASSUME SessionType, CallbackType, [Next]_vars PROVE SessionType'
  BY Zenon
<1> USE DEF SessionType, session
<1>1. CASE UNCHANGED vars
  BY Zenon, <1>1 DEF vars
<1>2. ASSUME NEW t \in Threads, Dispatch(t) PROVE SessionType'
  <2>1. registered' \in {registered, FALSE}
    BY Zenon, <1>2 DEF Dispatch, DispatchData, DispatchMalformed, DispatchDataThrows, DispatchMarker,
                DispatchMarkerClosed, DispatchMarkerDirect, DispatchRawThrows
  <2> QED
    BY ZenonT(60), <1>2, <2>1, DispatchFrame
<1>3. ASSUME NEW t \in Threads, OnSample(t) PROVE SessionType'
  BY Zenon, <1>3, OnSampleFrame
<1>4. CASE EndSession
  BY Zenon, <1>4 DEF EndSession, CloseDispatch, ReleaseSession, EraseRecord, QuiesceSession,
              ClearRegistries
<1>5. CASE Lifecycle
  BY Zenon, <1>5 DEF Lifecycle, CreateSession, ActivateSession, RollbackSession, BeginClose, Deactivate
<1> QED
  BY Zenon, <1>1, <1>2, <1>3, <1>4, <1>5 DEF Next

LEMMA CounterTypeStep == CounterType /\ CallbackType /\ [Next]_vars => CounterType'
<1> SUFFICES ASSUME CounterType, CallbackType, [Next]_vars PROVE CounterType'
  BY Zenon
<1> USE MaxGenerationAssumption, MaxDeliveriesAssumption DEF CounterType, session
<1>1. CASE UNCHANGED vars
  BY Zenon, <1>1 DEF vars, dispatch
<1>2. ASSUME NEW t \in Threads, Dispatch(t) PROVE CounterType'
  <2>1. /\ next_ticket' \in {next_ticket, next_ticket + 1}
        /\ deliveries < MaxDeliveries /\ deliveries' = deliveries + 1
    BY Zenon, <1>2 DEF Dispatch, DispatchData, DispatchMalformed, DispatchDataThrows, DispatchMarker,
                DispatchMarkerClosed, DispatchMarkerDirect, DispatchRawThrows, Deliver, Enqueue,
                dispatch
  <2> QED
    BY SMTT(40), <1>2, <2>1, DispatchFrame
<1>3. ASSUME NEW t \in Threads, OnSample(t) PROVE CounterType'
  <2>1. serving_ticket' \in {serving_ticket, serving_ticket + 1}
    BY ZenonT(60), <1>3 DEF OnSample, TakeTurn, AcquireData, RefuseData, WriteData, CompleteData,
                SelectMarker, SelectInvalidMarker, EvaluateMarker, FallbackFinish, Leave, dispatch
  <2> QED
    BY <1>3, <2>1, OnSampleFrame
<1>4. CASE EndSession
  BY Zenon, <1>4, SessionFrame DEF dispatch, EndSession, CloseDispatch, ReleaseSession, EraseRecord,
                            QuiesceSession, ClearRegistries
<1>5. CASE Lifecycle
  BY <1>5, SessionFrame DEF dispatch, Lifecycle, CreateSession, ActivateSession, RollbackSession,
                            BeginClose, Deactivate
<1> QED
  BY Zenon, <1>1, <1>2, <1>3, <1>4, <1>5 DEF Next

LEMMA CallbackTypeStep ==
    SessionType /\ CounterType /\ CallbackType /\ [Next]_vars => CallbackType'
<1> SUFFICES ASSUME SessionType, CounterType, CallbackType, [Next]_vars PROVE CallbackType'
  BY Zenon
<1> USE DEF CallbackType, callbacks
<1>a. /\ {"idle", "queued", "entered", "leased", "written", "direct", "claimed", "fallback",
           "leaving"} \subseteq PC
      /\ Data \subseteq Job /\ Marker \subseteq Job /\ NoJob \in Job
      /\ {"Ok", "Error", "InvalidArgument", "NotFound"} \subseteq Status
      /\ ApplyFailure \subseteq Status
      /\ NoGeneration \in 0 .. MaxGeneration
  BY ApplyFailureAssumption, MaxGenerationAssumption DEF PC, InGate, Job, Status, NoGeneration
<1>b. generation \in 0 .. MaxGeneration /\ next_ticket \in Nat
  BY Zenon DEF CounterType
<1>c. ASSUME NEW t \in Threads, Return(t) \/ AfterSample(t) PROVE CallbackType'
  <2>1. CASE Return(t)
    BY Zenon, <1>a, <2>1 DEF Return
  <2>2. CASE AfterSample(t) /\ ~Return(t)
    BY Zenon, <1>a, <2>2 DEF AfterSample
  <2> QED
    BY Zenon, <1>c, <2>1, <2>2
<1>1. CASE UNCHANGED vars
  BY Zenon, <1>1 DEF vars
<1>2. ASSUME NEW t \in Threads, Dispatch(t) PROVE CallbackType'
  <2>1. ASSUME NEW j \in Data \union Marker, Enqueue(t, j) PROVE CallbackType'
    BY Zenon, <1>a, <1>b, <2>1 DEF Enqueue
  <2>2. ASSUME NEW j \in Data,
               DispatchData(t, j) \/ DispatchMalformed(t, j) \/ DispatchDataThrows(t, j)
        PROVE  CallbackType'
    BY Zenon, <2>1, <2>2 DEF DispatchData, DispatchMalformed, DispatchDataThrows
  <2>3. ASSUME NEW m \in Marker, DispatchMarker(t, m) PROVE CallbackType'
    BY Zenon, <2>1, <2>3 DEF DispatchMarker
  <2>4. ASSUME NEW m \in Marker, DispatchMarkerClosed(t, m) \/ DispatchMarkerDirect(t, m)
        PROVE  CallbackType'
    BY <1>a, <2>4 DEF DispatchMarkerClosed, DispatchMarkerDirect
  <2>5. CASE DispatchRawThrows(t)
    BY Zenon, <2>5 DEF DispatchRawThrows
  <2> QED
    BY Zenon, <1>2, <2>2, <2>3, <2>4, <2>5 DEF Dispatch
<1>3. ASSUME NEW t \in Threads, OnSample(t) PROVE CallbackType'
  <2>1. CASE TakeTurn(t) \/ AcquireData(t)
    BY ZenonT(60), <1>a, <2>1 DEF TakeTurn, AcquireData
  <2>2. CASE WriteData(t)
    BY <1>a, <2>2 DEF WriteData
  <2>3. ASSUME NEW lease \in BOOLEAN, NEW status \in Status, Claim(t, lease, status)
        PROVE  CallbackType'
    BY Zenon, <1>a, <2>3 DEF Claim
  <2>4. CASE SelectMarker(t) \/ SelectInvalidMarker(t)
    BY Zenon, <1>a, <1>c, <2>3, <2>4 DEF SelectMarker, SelectInvalidMarker, SessionType
  <2>5. CASE RefuseData(t) \/ CompleteData(t) \/ EvaluateMarker(t) \/ FallbackFinish(t) \/ Leave(t)
    BY Zenon, <1>c, <2>5 DEF RefuseData, CompleteData, EvaluateMarker, FallbackFinish, Leave
  <2> QED
    BY Zenon, <1>3, <2>1, <2>2, <2>4, <2>5 DEF OnSample
<1>4. CASE EndSession \/ Lifecycle
  BY Zenon, <1>4, SessionFrame
<1> QED
  BY Zenon, <1>1, <1>2, <1>3, <1>4 DEF Next

-----------------------------------------------------------------------------
(* What a step may do to the receiver lanes.                                *)

\* Only lane k changes, no lane is dropped, and only its scope is poisoned.
OnlyLane(k) ==
    /\ \A q \in LaneKey \ {k} : lanes'[q] = lanes[q] /\ (q \in lane_keys' <=> q \in lane_keys)
    /\ lane_keys \subseteq lane_keys'
    /\ poisoned \subseteq poisoned'

\* A sample of lane k is not admitted: the counters stay, and the lane or, when
\* it cannot be created, the scope remembers it.
RejectedAt(k) ==
    /\ OnlyLane(k)
    /\ lanes'[k].completed_through = lanes[k].completed_through
    /\ lanes'[k].reserved_through = lanes[k].reserved_through
    /\ HasFailure(lanes[k]) => HasFailure(lanes'[k])
    /\ HasFailure(lanes'[k]) \/ (k \notin lane_keys' /\ k[1] \in poisoned')

\* Sequence s is reserved in lane k.
AdmittedAt(k, s) ==
    /\ OnlyLane(k)
    /\ k \in lane_keys'
    /\ k \in lane_keys \/ poisoned = {}
    /\ UNCHANGED poisoned
    /\ s = lanes[k].reserved_through + 1
    /\ lanes'[k].reserved_through = s
    /\ lanes'[k].completed_through = lanes[k].completed_through
    /\ HasFailure(lanes'[k]) <=> HasFailure(lanes[k])

\* Sequence s of lane k completes in order.
CompletedAt(k, s, status) ==
    /\ OnlyLane(k)
    /\ UNCHANGED <<lane_keys, poisoned>>
    /\ lanes'[k].completed_through = s
    /\ lanes'[k].reserved_through = lanes[k].reserved_through
    /\ HasFailure(lanes'[k]) <=> HasFailure(lanes[k]) \/ status # "Ok"

\* Retaining a sound lane keeps the registry sound.
LEMMA RetainFacts ==
    ASSUME ReceiverInv, NEW k \in LaneKey, NEW lane \in LaneState, LaneSound(lane),
           RetainLane(k, lane)
    PROVE  /\ ReceiverInv'
           /\ OnlyLane(k)
           /\ CanRetain(k) => lanes'[k] = lane /\ k \in lane_keys' /\ UNCHANGED poisoned
           /\ ~CanRetain(k) => /\ lanes'[k] = lanes[k] /\ k \notin lane_keys'
                               /\ k[1] \in poisoned'
<1> USE DEF ReceiverInv, ReceiverType, LaneInv, PoisonInv, OnlyLane
<1>1. CASE CanRetain(k)
  <2>1. /\ lanes' = [lanes EXCEPT ![k] = lane]
        /\ lane_keys' = lane_keys \union {k}
        /\ poisoned' = poisoned
    BY Zenon, <1>1 DEF RetainLane
  <2>2. ReceiverType' /\ LaneInv'
    BY Zenon, <2>1
  <2>3. poisoned # {} => k \in lane_keys
    BY Zenon, <1>1 DEF CanRetain
  <2>4. PoisonInv'
    <3> SUFFICES ASSUME poisoned # {} PROVE lane_keys' = lane_keys
      BY Zenon, <2>1
    <3> QED
      BY Zenon, <2>1, <2>3
  <2> QED
    BY Zenon, <1>1, <2>1, <2>2, <2>4
<1>2. CASE ~CanRetain(k)
  <2>1. /\ lanes' = lanes /\ lane_keys' = lane_keys
        /\ poisoned' = poisoned \union {k[1]}
    BY Zenon, <1>2 DEF RetainLane
  <2>2. k \notin lane_keys /\ Cardinality(lane_keys) = LaneCapacity
    BY Zenon, <1>2 DEF CanRetain
  <2>3. k[1] \in 0 .. MaxGeneration
    BY Zenon DEF LaneKey
  <2> QED
    BY ZenonT(60), <1>2, <2>1, <2>2, <2>3
<1> QED
  BY Zenon, <1>1, <1>2

\* An update that leaves evidence in lane k rejects a sample there.
LEMMA RejectFacts ==
    ASSUME ReceiverInv, NEW k \in LaneKey, NEW after, Evidence(lanes[k], after),
           RetainLane(k, after)
    PROVE  ReceiverInv' /\ RejectedAt(k)
<1>1. after \in LaneState /\ LaneSound(after) /\ KeepsProgress(lanes[k], after) /\ HasFailure(after)
  BY Zenon DEF Evidence
<1>2. /\ ReceiverInv'
      /\ OnlyLane(k)
      /\ CanRetain(k) => lanes'[k] = after /\ k \in lane_keys' /\ UNCHANGED poisoned
      /\ ~CanRetain(k) => /\ lanes'[k] = lanes[k] /\ k \notin lane_keys'
                          /\ k[1] \in poisoned'
  BY Zenon, <1>1, RetainFacts
<1> QED
  BY Zenon, <1>1, <1>2 DEF RejectedAt, KeepsProgress

\* AdmitBufferObservation reserves the sequence or rejects the sample.
LEMMA AdmitBufferFacts ==
    ASSUME ReceiverInv, NEW k \in LaneKey, NEW s \in Sequence, AdmitBufferObservation(k, s)
    PROVE  /\ ReceiverInv'
           /\ AdmitsBufferObservation(k, s) => AdmittedAt(k, s)
           /\ ~AdmitsBufferObservation(k, s) => RejectedAt(k)
<1> DEFINE after == Admit(lanes[k], s)
<1>1. lanes[k] \in LaneState /\ LaneSound(lanes[k])
  BY Zenon DEF ReceiverInv, ReceiverType, LaneInv
<1>2. /\ after \in LaneState
      /\ LaneSound(after)
      /\ after.completed_through = lanes[k].completed_through
      /\ Admits(lanes[k], s) =>
            /\ s = lanes[k].reserved_through + 1
            /\ after.reserved_through = s
            /\ HasFailure(after) = HasFailure(lanes[k])
      /\ ~Admits(lanes[k], s) =>
            /\ after.reserved_through = lanes[k].reserved_through
            /\ HasFailure(after)
  BY Zenon, <1>1, AdmitFacts
<1>3. RetainLane(k, after)
  BY Zenon DEF AdmitBufferObservation
<1> HIDE DEF after
<1>4. /\ ReceiverInv'
      /\ OnlyLane(k)
      /\ CanRetain(k) => lanes'[k] = after /\ k \in lane_keys' /\ UNCHANGED poisoned
      /\ ~CanRetain(k) => /\ lanes'[k] = lanes[k] /\ k \notin lane_keys'
                          /\ k[1] \in poisoned'
  BY Zenon, <1>2, <1>3, RetainFacts
<1>5. CanRetain(k) => k \in lane_keys \/ poisoned = {}
  BY Zenon DEF CanRetain, ReceiverInv, PoisonInv
<1> QED
  BY Zenon, <1>2, <1>4, <1>5 DEF AdmitsBufferObservation, AdmittedAt, RejectedAt

\* A completion of an existing lane, in order.
LEMMA CompleteBufferFacts ==
    ASSUME ReceiverInv, NEW k \in lane_keys, NEW s \in Sequence, NEW status \in Status,
           CompletesInOrder(lanes[k], s), CompleteBufferObservation(k, s, status)
    PROVE  ReceiverInv' /\ CompletedAt(k, s, status)
<1> DEFINE after == Complete(lanes[k], s, status)
<1>1. k \in LaneKey /\ lanes[k] \in LaneState /\ LaneSound(lanes[k])
  BY Zenon DEF ReceiverInv, ReceiverType, LaneInv
<1>2. /\ after \in LaneState
      /\ LaneSound(after)
      /\ after.completed_through = s
      /\ after.reserved_through = lanes[k].reserved_through
      /\ HasFailure(after) <=> HasFailure(lanes[k]) \/ status # "Ok"
  BY Zenon, <1>1, CompleteFacts
<1>3. lanes' = [lanes EXCEPT ![k] = after] /\ UNCHANGED <<lane_keys, poisoned>>
  BY Zenon DEF CompleteBufferObservation, ReceiverInv, ReceiverType
<1> HIDE DEF after
<1> QED
  BY Zenon, <1>1, <1>2, <1>3 DEF ReceiverInv, ReceiverType, LaneInv, PoisonInv, OnlyLane, CompletedAt

-----------------------------------------------------------------------------
(* What a delivery and a callback step do, lane by lane.                    *)

\* A data sample is admitted: reservation and ticket together.
DataAdmitted(t, j) ==
    /\ published /\ registered
    /\ AdmittedAt(<<generation, j.pub>>, j.seq)
    /\ Enqueue(t, j)
    /\ UNCHANGED <<registered, acks, history>>

\* A data sample is not admitted.
DataRejected(pub) ==
    /\ published
    /\ RejectedAt(<<RecordGeneration, pub>>)
    /\ Lose(<<RecordGeneration, pub>>)
    /\ UNCHANGED <<registered, dispatch, callbacks, acks>>

MarkerDelivered(t, m) ==
    DispatchMarker(t, m) \/ DispatchMarkerClosed(t, m) \/ DispatchMarkerDirect(t, m)

LEMMA DispatchEffect ==
    ASSUME SessionInv, CounterType, ReceiverInv, NEW t \in Threads, Dispatch(t)
    PROVE  /\ ReceiverInv'
           /\ \/ \E j \in Data : DataAdmitted(t, j)
              \/ \E p \in Publishers : DataRejected(p)
              \/ \E m \in Marker : MarkerDelivered(t, m)
              \/ DispatchRawThrows(t)
<1> DEFINE Effect == \/ \E j \in Data : DataAdmitted(t, j)
                     \/ \E p \in Publishers : DataRejected(p)
                     \/ \E m \in Marker : MarkerDelivered(t, m)
                     \/ DispatchRawThrows(t)
<1>a. \A j \in Data : j.pub \in Publishers /\ j.seq \in Sequence
  BY Zenon DEF Data
<1>b. \A p \in Publishers : <<generation, p>> \in LaneKey /\ <<RecordGeneration, p>> \in LaneKey
  BY MaxGenerationAssumption DEF CounterType, LaneKey, RecordGeneration, NoGeneration
<1>c. registered => RecordGeneration = generation
  BY Zenon DEF SessionInv, RecordGeneration
<1>d. \A k \in LaneKey : lanes[k] \in LaneState /\ LaneSound(lanes[k])
  BY Zenon DEF ReceiverInv, ReceiverType, LaneInv
<1>e. UNCHANGED receiver => ReceiverInv'
  BY Zenon DEF receiver, ReceiverInv, ReceiverType, LaneInv, PoisonInv
<1>1. ASSUME NEW j \in Data, DispatchData(t, j) PROVE ReceiverInv' /\ Effect
  <2> DEFINE k == <<generation, j.pub>>
  <2>0. k \in LaneKey /\ j.seq \in Sequence /\ j.pub \in Publishers
    BY Zenon, <1>a, <1>b
  <2> HIDE DEF k
  <2>1. published /\ registered /\ UNCHANGED <<registered, acks>> /\ k = <<RecordGeneration, j.pub>>
    BY Zenon, <1>1, <1>c DEF DispatchData, session, k
  <2>2. CASE ~HasCapacity
    <3>1. /\ RecordBufferOverflow(k, j.seq) /\ Lose(k)
          /\ UNCHANGED <<dispatch, callbacks>>
      BY Zenon, <1>1, <2>2 DEF DispatchData, k
    <3>2. Evidence(lanes[k], RecordOverflow(lanes[k], j.seq))
      BY Zenon, <1>d, <2>0, RecordOverflowFacts
    <3>3. ReceiverInv' /\ RejectedAt(k)
      BY Zenon, <2>0, <3>1, <3>2, RejectFacts DEF RecordBufferOverflow
    <3>4. DataRejected(j.pub)
      BY Zenon, <2>1, <3>1, <3>3 DEF DataRejected
    <3> QED
      BY Zenon, <2>0, <3>3, <3>4
  <2>3. CASE HasCapacity
    <3>1. /\ AdmitBufferObservation(k, j.seq)
          /\ IF AdmitsBufferObservation(k, j.seq)
             THEN Enqueue(t, j) /\ UNCHANGED history
             ELSE Lose(k) /\ UNCHANGED <<dispatch, callbacks>>
      BY Zenon, <1>1, <2>3 DEF DispatchData, k
    <3>2. /\ ReceiverInv'
          /\ AdmitsBufferObservation(k, j.seq) => AdmittedAt(k, j.seq)
          /\ ~AdmitsBufferObservation(k, j.seq) => RejectedAt(k)
      BY Zenon, <2>0, <3>1, AdmitBufferFacts
    <3>3. CASE AdmitsBufferObservation(k, j.seq)
      <4>1. DataAdmitted(t, j)
        BY Zenon, <2>1, <3>1, <3>2, <3>3 DEF DataAdmitted, k
      <4> QED
        BY Zenon, <3>2, <4>1
    <3>4. CASE ~AdmitsBufferObservation(k, j.seq)
      <4>1. DataRejected(j.pub)
        BY Zenon, <2>1, <3>1, <3>2, <3>4 DEF DataRejected
      <4> QED
        BY Zenon, <2>0, <3>2, <4>1
    <3> QED
      BY Zenon, <3>3, <3>4
  <2> QED
    BY Zenon, <2>2, <2>3
<1>2. ASSUME NEW j \in Data, DispatchMalformed(t, j) PROVE ReceiverInv' /\ Effect
  <2> DEFINE k == <<generation, j.pub>>
  <2>0. k \in LaneKey /\ j.seq \in Sequence /\ j.pub \in Publishers
    BY Zenon, <1>a, <1>b
  <2> HIDE DEF k
  <2>1. /\ published /\ registered /\ k = <<RecordGeneration, j.pub>> /\ Lose(k)
        /\ UNCHANGED <<registered, dispatch, callbacks, acks>>
        /\ RecordMalformedBuffer(k, j.seq) \/ RecordUnsequencedBuffer(k)
    BY Zenon, <1>2, <1>c DEF DispatchMalformed, session, k
  <2>2. PICK after \in {RecordMalformed(lanes[k], j.seq), RecordMalformedUnsequenced(lanes[k])} :
            RetainLane(k, after)
    BY Zenon, <2>1 DEF RecordMalformedBuffer, RecordUnsequencedBuffer
  <2>3. Evidence(lanes[k], after)
    BY Zenon, <1>d, <2>0, RecordMalformedFacts
  <2>4. ReceiverInv' /\ RejectedAt(k)
    BY Zenon, <2>0, <2>2, <2>3, RejectFacts
  <2>5. DataRejected(j.pub)
    BY Zenon, <2>1, <2>4 DEF DataRejected
  <2> QED
    BY Zenon, <2>0, <2>4, <2>5
<1>3. ASSUME NEW j \in Data, DispatchDataThrows(t, j) PROVE ReceiverInv' /\ Effect
  <2> DEFINE k == <<RecordGeneration, j.pub>>
  <2>0. k \in LaneKey /\ j.seq \in Sequence /\ j.pub \in Publishers
    BY Zenon, <1>a, <1>b
  <2>1. /\ published /\ Lose(k) /\ RecordBufferOverflow(k, j.seq)
        /\ UNCHANGED <<registered, dispatch, callbacks, acks>>
    BY Zenon, <1>3 DEF DispatchDataThrows, session
  <2>2. Evidence(lanes[k], RecordOverflow(lanes[k], j.seq))
    <3> HIDE DEF k
    <3> QED
      BY Zenon, <1>d, <2>0, RecordOverflowFacts
  <2>3. ReceiverInv' /\ RejectedAt(k)
    <3> HIDE DEF k
    <3> QED
      BY Zenon, <2>0, <2>1, <2>2, RejectFacts DEF RecordBufferOverflow
  <2>4. DataRejected(j.pub)
    BY Zenon, <2>1, <2>3 DEF DataRejected
  <2> QED
    BY Zenon, <2>0, <2>3, <2>4
<1>4. ASSUME NEW m \in Marker, MarkerDelivered(t, m) PROVE ReceiverInv' /\ Effect
  BY Zenon, <1>4, <1>e DEF MarkerDelivered, DispatchMarker, DispatchMarkerClosed, DispatchMarkerDirect
<1>5. CASE DispatchRawThrows(t)
  BY Zenon, <1>5, <1>e DEF DispatchRawThrows
<1> QED
  BY Zenon, <1>1, <1>2, <1>3, <1>4, <1>5 DEF Dispatch, MarkerDelivered

\* A pending callback past WaitTurn completes the next sequence of its lane.
LEMMA NextCompletion ==
    ASSUME CallbackType, CallbackInv, ReceiverInv, ReservationInv,
           NEW t \in Threads, pc[t] \in {"entered", "leased", "written"}, IsData(t)
    PROVE  /\ job[t] \in Data
           /\ KeyOf(t) \in lane_keys /\ KeyOf(t) \in LaneKey
           /\ CompletesInOrder(lanes[KeyOf(t)], job[t].seq)
<1>1. job[t] \in Data
  BY Zenon DEF CallbackInv, IsData, Marker
<1>2. /\ KeyOf(t) \in lane_keys
      /\ job[t].seq <= lanes[KeyOf(t)].reserved_through
      /\ job[t].seq = lanes[KeyOf(t)].completed_through + 1
  BY Zenon DEF ReservationInv, Pending
<1>3. KeyOf(t) \in LaneKey /\ lanes[KeyOf(t)] \in LaneState
  BY Zenon, <1>2 DEF ReceiverInv, ReceiverType
<1>4. /\ lanes[KeyOf(t)].completed_through \in 0 .. MaxSequence
      /\ lanes[KeyOf(t)].reserved_through \in 0 .. MaxSequence
  BY Zenon, <1>3 DEF LaneState, Sequence
<1>5. CompletesInOrder(lanes[KeyOf(t)], job[t].seq)
  BY <1>2, <1>4, MaxSequenceAssumption DEF CompletesInOrder, Increment
<1> QED
  BY Zenon, <1>1, <1>2, <1>3, <1>5

\* A callback completes its reservation in order, or leaves the lanes alone.
DataCompleted(t, status) ==
    /\ \/ RefuseData(t) /\ status = "InvalidArgument"
       \/ CompleteData(t) /\ status = outcome[t]
    /\ CompletedAt(KeyOf(t), job[t].seq, status)

LEMMA OnSampleEffect ==
    ASSUME SessionInv, EntryInv, CallbackType, CallbackInv, ReceiverInv, ReservationInv,
           NEW t \in Threads, OnSample(t)
    PROVE  /\ ReceiverInv'
           /\ \/ UNCHANGED receiver /\ ~RefuseData(t) /\ ~CompleteData(t)
              \/ \E status \in Status : DataCompleted(t, status)
<1>e. UNCHANGED receiver => ReceiverInv'
  BY Zenon DEF receiver, ReceiverInv, ReceiverType, LaneInv, PoisonInv
<1>1. ASSUME RefuseData(t) \/ CompleteData(t)
      PROVE  ReceiverInv' /\ \E status \in Status : DataCompleted(t, status)
  <2>1. PICK status \in Status :
           \/ RefuseData(t) /\ status = "InvalidArgument"
           \/ CompleteData(t) /\ status = outcome[t]
    <3>1. "InvalidArgument" \in Status /\ outcome[t] \in Status
      BY Zenon DEF CallbackType, Status
    <3> QED
      BY Zenon, <1>1, <3>1
  <2>2. pc[t] \in {"entered", "written"} /\ IsData(t)
    BY Zenon, <1>1 DEF RefuseData, CompleteData, CallbackInv, IsData, Data
  <2>3. /\ job[t] \in Data
        /\ KeyOf(t) \in lane_keys /\ KeyOf(t) \in LaneKey
        /\ CompletesInOrder(lanes[KeyOf(t)], job[t].seq)
    BY Zenon, <2>2, NextCompletion
  <2>4. published /\ entry[t] = generation /\ RecordGeneration = generation
    BY Zenon, <2>2 DEF EntryInv, SessionInv, RecordGeneration, InGate
  <2>5. CompleteBufferObservation(KeyOf(t), job[t].seq, status)
    BY ZenonT(60), <2>1, <2>4 DEF RefuseData, CompleteData, KeyOf
  <2>6. job[t].seq \in Sequence
    BY Zenon, <2>3 DEF Data
  <2>7. ReceiverInv' /\ CompletedAt(KeyOf(t), job[t].seq, status)
    BY Zenon, <2>3, <2>5, <2>6, CompleteBufferFacts
  <2> QED
    BY Zenon, <2>1, <2>7 DEF DataCompleted
<1>2. CASE ~RefuseData(t) /\ ~CompleteData(t)
  <2>1. UNCHANGED receiver
    BY Zenon, <1>2 DEF OnSample, TakeTurn, AcquireData, WriteData, SelectMarker, SelectInvalidMarker,
                EvaluateMarker, FallbackFinish, Leave
  <2> QED
    BY Zenon, <1>2, <1>e, <2>1
<1> QED
  BY Zenon, <1>1, <1>2

-----------------------------------------------------------------------------
(* The receiver registry.                                                   *)

LEMMA ReceiverStep ==
    ASSUME SessionInv, EntryInv, CounterType, CallbackType, CallbackInv, ReceiverInv,
           ReservationInv, [Next]_vars
    PROVE  ReceiverInv'
<1>e. UNCHANGED receiver => ReceiverInv'
  BY Zenon DEF receiver, ReceiverInv, ReceiverType, LaneInv, PoisonInv
<1>1. CASE UNCHANGED vars
  BY Zenon, <1>1, <1>e DEF vars
<1>2. ASSUME NEW t \in Threads, Dispatch(t) PROVE ReceiverInv'
  BY Zenon, <1>2, DispatchEffect
<1>3. ASSUME NEW t \in Threads, OnSample(t) PROVE ReceiverInv'
  BY Zenon, <1>3, OnSampleEffect
<1>4. CASE EndSession \/ Lifecycle
  <2>1. EraseSession => ReceiverInv'
    BY Zenon, NewLaneFacts DEF EraseSession, ReceiverInv, ReceiverType, LaneInv, PoisonInv
  <2> QED
    BY Zenon, <1>4, <1>e, <2>1, SessionFrame
<1> QED
  BY Zenon, <1>1, <1>2, <1>3, <1>4 DEF Next

-----------------------------------------------------------------------------
(* Acknowledgements and history.                                            *)

LEMMA EvaluateStatus ==
    ASSUME ReceiverType, NEW k \in LaneKey, NEW through \in Sequence
    PROVE  EvaluateBuffer(k, through) \in Status
<1>1. lanes[k].first_failure.status \in Status
  BY Zenon DEF ReceiverType, LaneState, Failure
<1>2. Evaluate(lanes[k], through) \in Status
  BY Zenon, <1>1 DEF Evaluate, Status
<1> QED
  BY Zenon, <1>2 DEF EvaluateBuffer, Status

\* The tokens a callback step may move, and to what.
LEMMA AckStep ==
    ASSUME SessionType, CallbackType, CallbackInv, ReceiverType, NEW t \in Threads,
           OnSample(t), ~UNCHANGED acks
    PROVE  /\ job[t] \in Marker
           /\ \E a \in AckState : acks' = [acks EXCEPT ![job[t]] = a]
           /\ UNCHANGED history
<1>a. {"Error", "InvalidArgument", "processing"} \subseteq AckState /\ Status \subseteq AckState
  BY Zenon DEF AckState, Status
<1>1. CASE SelectMarker(t) \/ SelectInvalidMarker(t)
  <2>1. acks' = [acks EXCEPT ![job[t]] = "processing"] /\ UNCHANGED history
    BY Zenon, <1>1 DEF SelectMarker, SelectInvalidMarker, Claim
  <2>2. job[t] \in Marker
    BY Zenon, <1>1 DEF SelectMarker, SelectInvalidMarker, IsMarker, CallbackInv, Data
  <2> QED
    BY Zenon, <1>a, <2>1, <2>2
<1>2. CASE EvaluateMarker(t)
  <2>1. job[t] \in Marker
    BY Zenon, <1>2 DEF EvaluateMarker, CallbackInv
  <2>2. <<job[t].gen, job[t].pub>> \in LaneKey /\ job[t].through \in Sequence
    BY <2>1, MaxGenerationAssumption DEF Marker, LaneKey, Generation
  <2>3. MarkerStatus(job[t]) \subseteq Status
    BY Zenon, <2>2, EvaluateStatus, ApplyFailureAssumption DEF MarkerStatus
  <2>4. outcome[t] \in Status /\ "Error" \in Status
    BY Zenon DEF CallbackType, Status
  <2>5. PICK status \in Status : acks' = [acks EXCEPT ![job[t]] = status]
    BY Zenon, <1>2, <2>3, <2>4 DEF EvaluateMarker
  <2> QED
    BY Zenon, <1>2, <1>a, <2>1, <2>5 DEF EvaluateMarker
<1>3. CASE FallbackFinish(t)
  BY Zenon, <1>3, <1>a DEF FallbackFinish, CallbackInv
<1> QED
  BY Zenon, <1>1, <1>2, <1>3 DEF OnSample, TakeTurn, AcquireData, RefuseData, WriteData, CompleteData, Leave

LEMMA HistoryTypeStep ==
    ASSUME SessionInv, EntryInv, SessionType, CounterType, CallbackType, CallbackInv, ReceiverInv,
           ReservationInv, HistoryType, [Next]_vars
    PROVE  HistoryType'
<1> USE DEF HistoryType, history
<1>a. \A k \in LaneKey : lost \union {k} \in SUBSET LaneKey
  BY Zenon
<1>b. {"none", "processing"} \subseteq AckState
  BY Zenon DEF AckState
<1>1. CASE UNCHANGED vars
  BY Zenon, <1>1 DEF vars
<1>2. ASSUME NEW t \in Threads, Dispatch(t) PROVE HistoryType'
  <2>1. ASSUME NEW j \in Data, DataAdmitted(t, j) PROVE HistoryType'
    BY Zenon, <2>1 DEF DataAdmitted
  <2>2. ASSUME NEW p \in Publishers, DataRejected(p) PROVE HistoryType'
    <3>1. <<RecordGeneration, p>> \in LaneKey
      BY SMTT(40), MaxGenerationAssumption DEF CounterType, LaneKey, RecordGeneration, NoGeneration
    <3> QED
      BY Zenon, <2>2, <1>a, <3>1 DEF DataRejected, Lose
  <2>3. ASSUME NEW m \in Marker, MarkerDelivered(t, m) PROVE HistoryType'
    BY Zenon, <2>3, <1>b DEF MarkerDelivered, DispatchMarker, DispatchMarkerClosed, DispatchMarkerDirect
  <2>4. CASE DispatchRawThrows(t)
    BY Zenon, <2>4 DEF DispatchRawThrows
  <2> QED
    BY Zenon, <1>2, <2>1, <2>2, <2>3, <2>4, DispatchEffect
<1>3. ASSUME NEW t \in Threads, OnSample(t) PROVE HistoryType'
  <2>1. CASE ~UNCHANGED acks
    <3>1. \E a \in AckState : acks' = [acks EXCEPT ![job[t]] = a]
      BY Zenon, <1>3, <2>1, AckStep DEF ReceiverInv
    <3>2. UNCHANGED history
      BY Zenon, <1>3, <2>1, AckStep DEF ReceiverInv
    <3> QED
      BY ZenonT(60), <3>1, <3>2
  <2>2. CASE UNCHANGED acks
    <3>1. CASE TakeTurn(t)
      <4>1. ~IsMarker(t) => KeyOf(t) \in LaneKey
        BY ZenonT(60), <3>1 DEF TakeTurn, KeyOf, LaneKey, CallbackType, CallbackInv, Data, Marker, IsMarker
      <4> QED
        BY Zenon, <2>2, <3>1, <4>1, <1>a DEF TakeTurn, Lose
    <3>2. CASE RefuseData(t)
      <4>1. KeyOf(t) \in LaneKey
        BY Zenon, <3>2 DEF RefuseData, KeyOf, LaneKey, CallbackType, CallbackInv, Data, Marker, IsData
      <4> QED
        BY ZenonT(60), <2>2, <3>2, <4>1, <1>a DEF RefuseData, Lose
    <3>3. CASE WriteData(t)
      <4>1. <<generation, job[t].pub>> \in LaneKey /\ job[t].seq \in Sequence
        BY Zenon, <3>3 DEF WriteData, LaneKey, CounterType, CallbackInv, Data
      <4>2. {"Ok"} \union ApplyFailure \subseteq Status \union {"none"}
        BY Zenon, ApplyFailureAssumption DEF Status
      <4>3. PICK status \in {"Ok"} \union ApplyFailure :
              /\ stored' = [stored EXCEPT ![<<generation, job[t].pub>>][job[t].seq] = status]
              /\ lost' = IF status = "Ok" THEN lost ELSE lost \union {<<generation, job[t].pub>>}
        BY Zenon, <3>3 DEF WriteData
      <4>4. lost' \in SUBSET LaneKey
        BY Zenon, <1>a, <4>1, <4>3
      <4>5. stored' \in [LaneKey -> [Sequence -> Status \union {"none"}]]
        BY Zenon, <4>1, <4>2, <4>3
      <4> QED
        BY Zenon, <2>2, <4>4, <4>5
    <3>4. CASE ~TakeTurn(t) /\ ~RefuseData(t) /\ ~WriteData(t)
      BY Zenon, <1>3, <2>2, <3>4 DEF OnSample, AcquireData, CompleteData, SelectMarker,
                              SelectInvalidMarker, EvaluateMarker, FallbackFinish, Leave
    <3> QED
      BY Zenon, <3>1, <3>2, <3>3, <3>4
  <2> QED
    BY Zenon, <2>1, <2>2
<1>4. CASE EndSession \/ Lifecycle
  <2>1. UNCHANGED <<stored, lost>> /\ (UNCHANGED acks \/ ClearRegistries)
    BY Zenon, <1>4, SessionFrame
  <2> QED
    BY Zenon, <1>b, <2>1 DEF ClearRegistries
<1> QED
  BY Zenon, <1>1, <1>2, <1>3, <1>4 DEF Next

LEMMA TypeStep == IInv /\ [Next]_vars => TypeOK' /\ ReceiverInv'
<1> SUFFICES ASSUME IInv, [Next]_vars PROVE TypeOK' /\ ReceiverInv'
  BY Zenon
<1> USE DEF IInv, TypeOK
<1>1. SessionType' /\ CounterType' /\ CallbackType'
  BY Zenon, SessionTypeStep, CounterTypeStep, CallbackTypeStep
<1>2. ReceiverInv'
  BY Zenon, ReceiverStep
<1>3. HistoryType'
  BY Zenon, HistoryTypeStep
<1> QED
  BY Zenon, <1>1, <1>2, <1>3 DEF ReceiverInv
=============================================================================
