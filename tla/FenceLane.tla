------------------------------ MODULE FenceLane ------------------------------
(***************************************************************************)
(* The O(1) proof a receiver keeps for one publisher lane                  *)
(* (fence_internal::FenceLaneState): which sequences were reserved and     *)
(* completed, the highest one ever seen, and the first failure in time     *)
(* order.  Every method of the class is an operator from lane to lane.     *)
(***************************************************************************)
EXTENDS Naturals

CONSTANTS
    MaxSequence,      \* UINT64_MAX
    LaterFailureMax   \* kFenceLaneLaterFailureCountMax

ASSUME MaxSequenceAssumption == MaxSequence \in Nat \ {0}
ASSUME LaterFailureMaxAssumption == LaterFailureMax \in Nat

Sequence == 0 .. MaxSequence

\* kAckNoFailedSequence: the failure names no sequence.  It shares its value
\* with the last sequence of the counter, as in ack.hpp.
NoFailedSequence == MaxSequence

Status == {"Ok", "Error", "InvalidArgument", "OutcomeUnknown", "NotFound", "CatalogUnavailable"}

Failure == [status: Status, sequence: Sequence]

\* std::nullopt of first_failure_; a latched failure never has status Ok.
NoFailure == [status |-> "Ok", sequence |-> 0]

LaneState == [completed_through: Sequence, highest_observed: Sequence,
              reserved_through: Sequence, reservation_exhausted: BOOLEAN,
              first_failure: Failure, later_failure_count: 0 .. LaterFailureMax]

NewLane == [completed_through |-> 0, highest_observed |-> 0, reserved_through |-> 0,
            reservation_exhausted |-> FALSE, first_failure |-> NoFailure,
            later_failure_count |-> 0]

HasFailure(lane) == lane.first_failure.status # "Ok"

\* ++ on std::uint64_t.
Increment(n) == IF n = MaxSequence THEN 0 ELSE n + 1

-----------------------------------------------------------------------------
Latch(lane, status, sequence) ==
    IF ~HasFailure(lane)
    THEN [lane EXCEPT !.first_failure = [status |-> status, sequence |-> sequence]]
    ELSE [lane EXCEPT !.later_failure_count = IF @ < LaterFailureMax THEN @ + 1 ELSE @]

Observe(lane, sequence) ==
    [lane EXCEPT !.highest_observed = IF sequence > @ THEN sequence ELSE @]

Stale(lane, sequence) == lane.reservation_exhausted \/ sequence <= lane.reserved_through

\* Mutant of Admits: a gap is tolerated.
AdmitsGap(lane, sequence) == sequence # 0 /\ ~Stale(lane, sequence)

\* The result of FenceLaneState::Admit: exactly the next sequence is reserved.
Admits(lane, sequence) ==
    sequence # 0 /\ ~Stale(lane, sequence) /\ sequence = lane.reserved_through + 1

\* The lane FenceLaneState::Admit leaves behind.
Admit(lane, sequence) ==
    LET seen == Observe(lane, sequence)
    IN  CASE sequence = 0 -> Latch(lane, "Error", NoFailedSequence)
          [] sequence # 0 /\ Stale(lane, sequence) -> Latch(seen, "Error", sequence)
          [] sequence # 0 /\ ~Stale(lane, sequence) /\ sequence > lane.reserved_through + 1 ->
               Latch(seen, "OutcomeUnknown", lane.reserved_through + 1)
          [] OTHER -> [seen EXCEPT !.reserved_through = sequence,
                                   !.reservation_exhausted = (sequence = MaxSequence)]

\* A completion that is not the next reserved one is itself a failure.
CompletesInOrder(lane, sequence) ==
    sequence = Increment(lane.completed_through) /\ sequence <= lane.reserved_through

Complete(lane, sequence, failure) ==
    IF ~CompletesInOrder(lane, sequence)
    THEN Latch(lane, "Error", IF sequence = 0 THEN NoFailedSequence ELSE sequence)
    ELSE LET done == [lane EXCEPT !.completed_through = sequence]
         IN  IF failure = "Ok" THEN done ELSE Latch(done, failure, sequence)

\* Mutant of RecordOverflow: the dropped sequence is not observed.
RecordOverflowUnobserved(lane, sequence) ==
    IF Stale(lane, sequence)
    THEN Latch(lane, "Error", sequence)
    ELSE Latch(lane, "OutcomeUnknown", lane.reserved_through + 1)

RecordOverflow(lane, sequence) ==
    LET seen == Observe(lane, sequence)
    IN  IF Stale(lane, sequence)
        THEN Latch(seen, "Error", sequence)
        ELSE Latch(seen, "OutcomeUnknown", lane.reserved_through + 1)

\* A malformed attachment that still names its sequence, and one that does not.
RecordMalformed(lane, sequence) == Latch(Observe(lane, sequence), "Error", sequence)
RecordMalformedUnsequenced(lane) == Latch(lane, "Error", NoFailedSequence)

\* Mutant of Evaluate: a failure above the completed prefix is all that counts.
EvaluateProgress(lane, through) ==
    IF lane.completed_through = through /\ lane.highest_observed <= through
    THEN "Ok" ELSE "OutcomeUnknown"

\* The status of FenceLaneState::Evaluate for a marker through `through`.
Evaluate(lane, through) ==
    CASE HasFailure(lane) /\ lane.first_failure.sequence \in {NoFailedSequence} \union (0 .. through)
           -> lane.first_failure.status
      [] OTHER -> IF /\ lane.completed_through = through
                     /\ lane.highest_observed <= through
                  THEN "Ok" ELSE "OutcomeUnknown"
=============================================================================
