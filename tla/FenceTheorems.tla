---------------------------- MODULE FenceTheorems -----------------------------
(***************************************************************************)
(* What FenceReceiver has stored and lost, against what its lanes          *)
(* remember; its answers; and the theorems that follow from its inductive  *)
(* invariant.                                                              *)
(***************************************************************************)
EXTENDS FenceCallbackProofs

-----------------------------------------------------------------------------
(* Store accesses.                                                          *)

\* At most one callback is past WaitTurn with a dispatch entry.
LEMMA OneServed ==
    ASSUME IInv, NEW t \in Threads, NEW u \in Threads,
           entry[t] # NoGeneration, entry[u] # NoGeneration, pc[t] # "queued", pc[u] # "queued"
    PROVE  t = u
<1>1. ticket[t] = serving_ticket /\ ticket[u] = serving_ticket
  BY Zenon DEF IInv, TicketInv
<1> QED
  BY Zenon, <1>1 DEF IInv, TicketInv, TicketsAreHeld

\* A callback about to write finds no access at or above its sequence.
LEMMA NothingLater ==
    ASSUME IInv, NEW t \in Threads, Pending(t), pc[t] \in {"entered", "leased"},
           NEW s \in Sequence, job[t].seq <= s
    PROVE  stored[KeyOf(t)][s] = "none"
<1> DEFINE k == KeyOf(t)
<1>1. /\ Live /\ k \in LaneKey /\ k[1] = generation /\ job[t].seq \in Sequence
      /\ entry[t] # NoGeneration
  BY PendingFacts
<1>2. job[t].seq = lanes[k].completed_through + 1 /\ lanes[k].completed_through \in Sequence
  BY Zenon, <1>1, LaneCounters DEF IInv, ReservationInv
<1> HIDE DEF k
<1>3. ~(s <= lanes[k].completed_through)
  BY <1>1, <1>2, MaxSequenceAssumption DEF Sequence
<1>4. ASSUME NEW u \in Threads, pc[u] = "written" PROVE FALSE
  <2>1. entry[u] # NoGeneration
    BY Zenon, <1>4 DEF IInv, EntryInv
  <2>2. u = t
    BY Zenon, <1>1, <1>4, <2>1, OneServed
  <2> QED
    BY Zenon, <1>4, <2>2
<1>5. stored[k][s] = "none"
  BY <1>1, <1>3, <1>4 DEF IInv, StoredInv
<1> QED
  BY Zenon, <1>5 DEF k

WrittenIn(k, s) == \E t \in Threads : pc[t] = "written" /\ KeyOf(t) = k /\ job[t].seq = s

\* What StoredInv says of one lane of the live generation.
StoredAt(k) ==
    k[1] = generation =>
        /\ \A s \in Sequence : stored[k][s] # "none" =>
              s <= lanes[k].completed_through \/ WrittenIn(k, s)
        /\ ~HasFailure(lanes[k]) => \A s \in 1 .. lanes[k].completed_through : stored[k][s] = "Ok"

LEMMA StoredStep == IInv /\ [Next]_vars => StoredInv'
<1> SUFFICES ASSUME IInv, [Next]_vars
             PROVE  /\ Live' => \A k \in LaneKey : StoredAt(k)'
                    /\ \A t \in Threads : pc'[t] = "written" =>
                          stored'[KeyOf(t)'][job'[t].seq] = outcome'[t]
  BY Zenon DEF StoredInv, StoredAt, WrittenIn
<1> DEFINE Recorded(t) == pc[t] = "written" => stored[KeyOf(t)][job[t].seq] = outcome[t]
<1>a. /\ SessionInv /\ CallbackType /\ CounterType /\ CallbackInv /\ EntryInv /\ ReceiverInv
      /\ ReservationInv /\ HistoryType
  BY Zenon DEF IInv, TypeOK
<1>b. (Live => \A k \in LaneKey : StoredAt(k)) /\ \A t \in Threads : Recorded(t)
  BY Zenon DEF IInv, StoredInv, StoredAt, WrittenIn
<1>c. ASSUME UNCHANGED <<generation, stored>>, Live' => Live,
             \A k \in LaneKey : /\ lanes'[k].completed_through = lanes[k].completed_through
                                /\ HasFailure(lanes[k]) => HasFailure(lanes'[k]),
             \A u \in Threads : /\ pc'[u] = "written" <=> pc[u] = "written"
                                /\ pc[u] = "written" => /\ KeyOf(u)' = KeyOf(u)
                                                        /\ job'[u] = job[u]
                                                        /\ outcome'[u] = outcome[u]
      PROVE  /\ Live' => \A k \in LaneKey : StoredAt(k)'
             /\ \A t \in Threads : Recorded(t)'
  <2>1. \A k \in LaneKey, s \in Sequence : WrittenIn(k, s) => WrittenIn(k, s)'
    BY Zenon, <1>c DEF WrittenIn
  <2>2. \A t \in Threads : Recorded(t)'
    BY Zenon, <1>b, <1>c
  <2>3. ASSUME Live', NEW k \in LaneKey PROVE StoredAt(k)'
    BY Zenon, <1>b, <1>c, <2>1, <2>3 DEF StoredAt
  <2> QED
    BY Zenon, <2>2, <2>3
<1>d. UNCHANGED receiver =>
         \A k \in LaneKey : /\ lanes'[k].completed_through = lanes[k].completed_through
                            /\ HasFailure(lanes[k]) => HasFailure(lanes'[k])
  BY Zenon DEF receiver
<1>e. ASSUME NEW t \in Threads, OthersKeep(t), pc[t] # "written", pc'[t] # "written"
      PROVE  \A u \in Threads : /\ pc'[u] = "written" <=> pc[u] = "written"
                                /\ pc[u] = "written" => /\ KeyOf(u)' = KeyOf(u)
                                                        /\ job'[u] = job[u]
                                                        /\ outcome'[u] = outcome[u]
  BY Zenon, <1>e DEF OthersKeep, KeyOf
<1>f. UNCHANGED callbacks =>
         \A u \in Threads : /\ pc'[u] = "written" <=> pc[u] = "written"
                            /\ pc[u] = "written" => /\ KeyOf(u)' = KeyOf(u)
                                                    /\ job'[u] = job[u]
                                                    /\ outcome'[u] = outcome[u]
  BY Zenon DEF callbacks, KeyOf
<1>g. UNCHANGED <<phase, lifecycle>> => (Live' => Live)
  BY Zenon DEF Live
<1> DEFINE Goal == /\ Live' => \A k \in LaneKey : StoredAt(k)'
                   /\ \A t \in Threads : Recorded(t)'
<1> SUFFICES Goal
  BY Zenon
<1>1. CASE UNCHANGED vars
  BY Zenon, <1>1, <1>c, <1>d, <1>f, <1>g DEF vars, session, history
<1>2. ASSUME NEW t \in Threads, Dispatch(t) PROVE Goal
  <2>0. /\ UNCHANGED <<generation, stored, phase, lifecycle>>
        /\ pc[t] = "idle" /\ OthersKeep(t)
    BY Zenon, <1>2, <1>a, DispatchFrame
  <2>1. \A k \in LaneKey : /\ lanes'[k].completed_through = lanes[k].completed_through
                           /\ HasFailure(lanes[k]) => HasFailure(lanes'[k])
    <3>1. ASSUME NEW j \in Data, DataAdmitted(t, j), NEW k \in LaneKey
          PROVE  /\ lanes'[k].completed_through = lanes[k].completed_through
                 /\ HasFailure(lanes[k]) => HasFailure(lanes'[k])
      BY Zenon, <3>1 DEF DataAdmitted, AdmittedAt, OnlyLane
    <3>2. ASSUME NEW p \in Publishers, DataRejected(p), NEW k \in LaneKey
          PROVE  /\ lanes'[k].completed_through = lanes[k].completed_through
                 /\ HasFailure(lanes[k]) => HasFailure(lanes'[k])
      BY Zenon, <3>2 DEF DataRejected, RejectedAt, OnlyLane
    <3>3. ASSUME NEW m \in Marker, MarkerDelivered(t, m) PROVE UNCHANGED receiver
      BY Zenon, <3>3 DEF MarkerDelivered, DispatchMarker, DispatchMarkerClosed, DispatchMarkerDirect
    <3>4. DispatchRawThrows(t) => UNCHANGED receiver
      BY Zenon DEF DispatchRawThrows
    <3> QED
      BY Zenon, <1>2, <1>a, <1>d, <3>1, <3>2, <3>3, <3>4, DispatchEffect
  <2>2. pc'[t] # "written"
    <3>1. \A j : Enqueue(t, j) => pc'[t] # "written"
      BY Zenon, <1>a DEF Enqueue, CallbackType
    <3>2. ASSUME NEW j \in Data, DataAdmitted(t, j) \/ DataRejected(j.pub) PROVE pc'[t] # "written"
      BY Zenon, <2>0, <3>1, <3>2 DEF DataAdmitted, DataRejected, callbacks
    <3>3. ASSUME NEW m \in Marker, MarkerDelivered(t, m) PROVE pc'[t] # "written"
      BY Zenon, <1>a, <3>1, <3>3 DEF MarkerDelivered, DispatchMarker, DispatchMarkerClosed,
                              DispatchMarkerDirect, CallbackType
    <3>4. ASSUME UNCHANGED callbacks PROVE pc'[t] # "written"
      BY Zenon, <2>0, <3>4 DEF callbacks
    <3> QED
      BY Zenon, <1>2, <1>a, <3>2, <3>3, <3>4, DispatchEffect DEF DispatchRawThrows, DataRejected
  <2> QED
    BY Zenon, <1>c, <1>e, <1>g, <2>0, <2>1, <2>2
<1>3. ASSUME NEW t \in Threads, OnSample(t) PROVE Goal
  <2>0. UNCHANGED <<generation, phase, lifecycle>> /\ OthersKeep(t) /\ (Live' => Live)
    BY Zenon, <1>3, <1>a, <1>g, OnSampleFrame DEF session
  <2>1. CASE WriteData(t)
    <3>1. Pending(t) /\ pc[t] = "leased"
      BY Zenon, <2>1 DEF WriteData, Pending
    <3>q. PICK q \in LaneKey, n \in Sequence : q = KeyOf(t) /\ n = job[t].seq
      BY Zenon, <3>1, PendingFacts
    <3>2. q = <<generation, job[t].pub>> /\ entry[t] # NoGeneration
      BY Zenon, <3>1, <3>q, PendingFacts
    <3>3. stored[q][n] = "none"
      BY SMTT(40), <3>1, <3>q, NothingLater, MaxSequenceAssumption DEF Sequence
    <3>4. n = lanes[q].completed_through + 1 /\ lanes[q].completed_through \in Sequence
      BY Zenon, <1>a, <3>1, <3>q, LaneCounters DEF ReservationInv
    <3>5. PICK status : /\ outcome' = [outcome EXCEPT ![t] = status]
                        /\ stored' = [stored EXCEPT ![q][n] = status]
      BY Zenon, <2>1, <3>2, <3>q DEF WriteData
    <3>6. /\ pc'[t] = "written" /\ job' = job /\ entry' = entry /\ UNCHANGED receiver
          /\ outcome'[t] = status
      BY Zenon, <1>a, <2>1, <3>5 DEF WriteData, CallbackType
    <3>7. KeyOf(t)' = q
      BY Zenon, <3>6, <3>q DEF KeyOf
    <3>8. \A u \in Threads : pc[u] # "written"
      <4> SUFFICES ASSUME NEW u \in Threads, pc[u] = "written" PROVE FALSE
        BY Zenon
      <4>1. entry[u] # NoGeneration
        BY Zenon, <1>a DEF EntryInv
      <4>2. u = t
        BY Zenon, <3>1, <3>2, <4>1, OneServed
      <4> QED
        BY Zenon, <3>1, <4>2
    <3>9. /\ stored'[q][n] = status
          /\ \A k \in LaneKey, s \in Sequence : ~(k = q /\ s = n) => stored'[k][s] = stored[k][s]
      BY Zenon, <1>a, <3>2, <3>5 DEF HistoryType
    <3>10. \A u \in Threads : Recorded(u)'
      <4>1. \A u \in Threads : pc'[u] = "written" => u = t
        BY Zenon, <2>0, <3>8 DEF OthersKeep
      <4> QED
        BY Zenon, <3>6, <3>7, <3>9, <3>q, <4>1
    <3>11. ASSUME Live', NEW k \in LaneKey PROVE StoredAt(k)'
      <4>1. StoredAt(k)
        BY Zenon, <1>b, <2>0, <3>11
      <4>2. ~\E s : WrittenIn(k, s)
        BY Zenon, <3>8 DEF WrittenIn
      <4>3. WrittenIn(q, n)'
        BY Zenon, <3>6, <3>7, <3>q DEF WrittenIn
      <4>4. UNCHANGED <<lanes, generation>>
        BY Zenon, <2>0, <3>6 DEF receiver
      <4>5. ASSUME k[1] = generation, NEW s \in Sequence, stored'[k][s] # "none"
            PROVE  s <= lanes[k].completed_through \/ WrittenIn(k, s)'
        BY Zenon, <3>9, <4>1, <4>2, <4>3, <4>5 DEF StoredAt
      <4>6. ASSUME k[1] = generation, ~HasFailure(lanes[k]),
                   NEW s \in 1 .. lanes[k].completed_through
            PROVE  stored'[k][s] = "Ok"
        <5>1. lanes[k].completed_through \in Sequence
          BY Zenon, <1>a, LaneCounters
        <5>2. s \in Sequence /\ ~(k = q /\ s = n)
          BY <3>4, <5>1, MaxSequenceAssumption DEF Sequence
        <5> QED
          BY Zenon, <3>9, <4>1, <4>6, <5>2 DEF StoredAt
      <4> QED
        BY Zenon, <4>4, <4>5, <4>6 DEF StoredAt
    <3> QED
      BY Zenon, <3>10, <3>11
  <2>2. ASSUME NEW status \in Status, DataCompleted(t, status) PROVE Goal
    <3> DEFINE q == KeyOf(t)
               n == job[t].seq
    <3>1. Pending(t) /\ pc[t] \in {"entered", "written"}
      BY ZenonT(60), <1>3, <1>a, <2>2, PendingMoves DEF DataCompleted, RefuseData, CompleteData
    <3>2. q \in LaneKey /\ n \in Sequence
      BY Zenon, <3>1, PendingFacts
    <3>3. n = lanes[q].completed_through + 1 /\ lanes[q].completed_through \in Sequence
      BY Zenon, <1>a, <3>1, <3>2, LaneCounters DEF ReservationInv
    <3>4. CompletedAt(q, n, status) /\ UNCHANGED stored
      BY Zenon, <2>2 DEF DataCompleted, RefuseData, CompleteData, Lose, history
    <3>5. pc'[t] # "written"
      BY Zenon, <1>a, <2>2 DEF DataCompleted, RefuseData, CompleteData, AfterSample, Return, CallbackType
    <3>6. status = "Ok" => stored[q][n] = "Ok"
      <4> SUFFICES ASSUME status = "Ok" PROVE stored[q][n] = "Ok"
        BY Zenon
      <4>1. CompleteData(t) /\ outcome[t] = "Ok"
        BY Zenon, <2>2 DEF DataCompleted
      <4>2. pc[t] = "written"
        BY Zenon, <4>1 DEF CompleteData
      <4> QED
        BY Zenon, <1>b, <4>1, <4>2
    <3>7. \A k \in LaneKey, s \in Sequence :
             WrittenIn(k, s) => WrittenIn(k, s)' \/ (k = q /\ s = n)
      <4> SUFFICES ASSUME NEW k \in LaneKey, NEW s \in Sequence, WrittenIn(k, s),
                          ~(k = q /\ s = n)
                   PROVE  WrittenIn(k, s)'
        BY Zenon
      <4>1. PICK u \in Threads : pc[u] = "written" /\ KeyOf(u) = k /\ job[u].seq = s
        BY Zenon DEF WrittenIn
      <4>2. u # t
        BY Zenon, <4>1
      <4>3. pc'[u] = "written" /\ KeyOf(u)' = k /\ job'[u].seq = s
        BY Zenon, <2>0, <4>1, <4>2 DEF OthersKeep, KeyOf
      <4> QED
        BY Zenon, <4>3 DEF WrittenIn
    <3>8. ASSUME NEW u \in Threads PROVE Recorded(u)'
      <4>1. CASE u = t
        BY Zenon, <3>5, <4>1
      <4>2. CASE u # t
        <5>1. /\ pc'[u] = pc[u] /\ job'[u] = job[u] /\ KeyOf(u)' = KeyOf(u)
              /\ outcome'[u] = outcome[u]
          BY Zenon, <2>0, <4>2 DEF OthersKeep, KeyOf
        <5> QED
          BY Zenon, <1>b, <3>4, <5>1
      <4> QED
        BY Zenon, <4>1, <4>2
    <3> HIDE DEF q, n
    <3>9. /\ lanes'[q].completed_through = n
          /\ HasFailure(lanes'[q]) <=> HasFailure(lanes[q]) \/ status # "Ok"
          /\ \A k \in LaneKey \ {q} : lanes'[k] = lanes[k]
      BY Zenon, <3>4 DEF CompletedAt, OnlyLane
    <3>10. ASSUME Live', NEW k \in LaneKey PROVE StoredAt(k)'
      <4>1. StoredAt(k)
        BY Zenon, <1>b, <2>0, <3>10
      <4>2. CASE k # q
        <5>1. lanes'[k] = lanes[k] /\ \A s \in Sequence : WrittenIn(k, s) => WrittenIn(k, s)'
          BY Zenon, <3>7, <3>9, <4>2
        <5> QED
          BY Zenon, <2>0, <3>4, <4>1, <5>1 DEF StoredAt
      <4>3. CASE k = q
        <5>1. ASSUME k[1] = generation, NEW s \in Sequence, stored[k][s] # "none"
              PROVE  s <= n \/ WrittenIn(k, s)'
          <6>1. s <= lanes[q].completed_through => s <= n
            BY <3>2, <3>3, MaxSequenceAssumption DEF Sequence
          <6>2. s = n => s <= n
            BY SMTT(40), <3>2, MaxSequenceAssumption DEF Sequence
          <6> QED
            BY Zenon, <3>7, <4>1, <4>3, <5>1, <6>1, <6>2 DEF StoredAt
        <5>2. ASSUME k[1] = generation, ~HasFailure(lanes'[k]), NEW s \in 1 .. n
              PROVE  stored[k][s] = "Ok"
          <6>1. ~HasFailure(lanes[k]) /\ status = "Ok"
            BY Zenon, <3>9, <4>3, <5>2
          <6>2. s = n \/ s \in 1 .. lanes[q].completed_through
            BY SMTT(40), <3>2, <3>3, MaxSequenceAssumption DEF Sequence
          <6> QED
            BY Zenon, <3>6, <4>1, <4>3, <5>2, <6>1, <6>2 DEF StoredAt, q, n
        <5> QED
          BY Zenon, <2>0, <3>4, <3>9, <4>3, <5>1, <5>2 DEF StoredAt
      <4> QED
        BY Zenon, <4>2, <4>3
    <3> QED
      BY Zenon, <3>8, <3>10
  <2>3. CASE ~RefuseData(t) /\ ~CompleteData(t) /\ ~WriteData(t)
    <3>1. UNCHANGED <<receiver, stored>>
      BY ZenonT(60), <1>3, <2>3 DEF OnSample, TakeTurn, AcquireData, SelectMarker, SelectInvalidMarker,
                        EvaluateMarker, FallbackFinish, Leave, Lose, history
    <3>2. pc[t] # "written"
      BY ZenonT(60), <1>3, <2>3 DEF OnSample, TakeTurn, AcquireData, SelectMarker, SelectInvalidMarker,
                        EvaluateMarker, FallbackFinish, Leave
    <3>3. AfterSample(t) \/ Return(t) \/ (\E lease, status : Claim(t, lease, status))
             => pc'[t] # "written"
      BY Zenon, <1>a DEF AfterSample, Return, Claim, CallbackType
    <3>4. CASE TakeTurn(t) \/ AcquireData(t)
      <4>1. pc'[t] # "written"
        BY Zenon, <1>a, <3>4 DEF TakeTurn, AcquireData, CallbackType
      <4> QED
        BY ZenonT(60), <1>c, <1>d, <1>e, <2>0, <3>1, <3>2, <4>1
    <3>5. CASE ~TakeTurn(t) /\ ~AcquireData(t)
      <4>1. pc'[t] # "written"
        BY Zenon, <1>3, <2>3, <3>3, <3>5 DEF OnSample, SelectMarker, SelectInvalidMarker,
                                      EvaluateMarker, FallbackFinish, Leave
      <4> QED
        BY Zenon, <1>c, <1>d, <1>e, <2>0, <3>1, <3>2, <4>1
    <3> QED
      BY Zenon, <3>4, <3>5
  <2>4. RefuseData(t) \/ CompleteData(t) => \E status \in Status : DataCompleted(t, status)
    BY Zenon, <1>3, <1>a, OnSampleEffect
  <2> QED
    BY Zenon, <2>1, <2>2, <2>3, <2>4
<1>4. CASE EndSession \/ Lifecycle
  <2>0. UNCHANGED <<callbacks, stored>>
    BY Zenon, <1>4, SessionFrame DEF history
  <2>a. \A t \in Threads : Recorded(t)'
    BY Zenon, <1>b, <1>f, <2>0
  <2>1. CASE CreateSession
    <3>1. generation' = generation + 1 /\ UNCHANGED receiver
      BY Zenon, <2>1 DEF CreateSession
    <3>2. ASSUME NEW k \in LaneKey, k[1] = generation + 1 PROVE StoredAt(k)'
      <4>1. k[1] > generation
        BY SMTT(40), <1>a, <3>2 DEF CounterType
      <4>2. lanes[k] = NewLane /\ \A s \in Sequence : stored[k][s] = "none"
        BY Zenon, <4>1 DEF IInv, FreshInv
      <4>3. lanes'[k] = NewLane /\ NewLane.completed_through = 0
        BY Zenon, <3>1, <4>2, NewLaneFacts DEF receiver
      <4> QED
        BY <2>0, <4>2, <4>3 DEF StoredAt
    <3>3. \A k \in LaneKey : StoredAt(k)'
      BY Zenon, <3>1, <3>2 DEF StoredAt
    <3> QED
      BY Zenon, <2>a, <3>3
  <2>2. CASE ~CreateSession
    <3>1. UNCHANGED generation /\ (Live' => Live /\ UNCHANGED receiver)
      BY ZenonT(60), <1>4, <1>a, <2>2
         DEF EndSession, CloseDispatch, ReleaseSession, EraseRecord, QuiesceSession,
             ClearRegistries, Lifecycle, ActivateSession, RollbackSession, BeginClose, Deactivate,
             session, SessionInv, Live
    <3>2. CASE Live'
      BY Zenon, <1>c, <1>d, <1>f, <2>0, <3>1, <3>2
    <3> QED
      BY Zenon, <2>a, <3>2
  <2> QED
    BY Zenon, <2>1, <2>2
<1> QED
  BY Zenon, <1>1, <1>2, <1>3, <1>4 DEF Next

-----------------------------------------------------------------------------
(* Lost samples.                                                            *)

Failing(k) == \E t \in Threads : pc[t] = "written" /\ KeyOf(t) = k /\ outcome[t] # "Ok"

\* What LossInv says of one lane.
Remembered(k) ==
    \/ HasFailure(lanes[k])
    \/ k \notin lane_keys /\ k[1] \in poisoned
    \/ Failing(k)

LEMMA LossStep == IInv /\ [Next]_vars => LossInv'
<1> SUFFICES ASSUME IInv, [Next]_vars, Live', accepting',
                    NEW k \in LaneKey, k[1] = generation', k \in lost'
             PROVE  Remembered(k)'
  BY Zenon DEF LossInv, Remembered, Failing
<1>a. /\ SessionInv /\ CallbackType /\ CounterType /\ CallbackInv /\ EntryInv /\ ReceiverInv
      /\ ReservationInv /\ HistoryType
  BY Zenon DEF IInv, TypeOK
<1>b. Live /\ accepting /\ k[1] = generation /\ k \in lost => Remembered(k)
  BY Zenon DEF IInv, LossInv, Remembered, Failing
<1>c. ASSUME NEW t \in Threads, OthersKeep(t), pc[t] # "written", Failing(k) PROVE Failing(k)'
  <2>1. PICK u \in Threads : pc[u] = "written" /\ KeyOf(u) = k /\ outcome[u] # "Ok"
    BY Zenon, <1>c DEF Failing
  <2>2. pc'[u] = "written" /\ KeyOf(u)' = k /\ outcome'[u] # "Ok"
    BY Zenon, <1>c, <2>1 DEF OthersKeep, KeyOf
  <2> QED
    BY Zenon, <2>2 DEF Failing
<1>d. UNCHANGED callbacks /\ Failing(k) => Failing(k)'
  BY Zenon DEF callbacks, Failing, KeyOf
<1>1. CASE UNCHANGED vars
  BY Zenon, <1>1, <1>b, <1>d DEF vars, session, history, receiver, Remembered, Live
<1>2. ASSUME NEW t \in Threads, Dispatch(t) PROVE Remembered(k)'
  <2>0. UNCHANGED <<accepting, generation, phase, lifecycle>> /\ pc[t] = "idle" /\ OthersKeep(t)
    BY Zenon, <1>2, <1>a, DispatchFrame
  <2>1. k \in lost => Remembered(k)
    BY Zenon, <1>b, <2>0 DEF Live
  <2>2. Failing(k) => Failing(k)'
    BY Zenon, <1>c, <2>0
  <2>3. ASSUME NEW j \in Data, DataAdmitted(t, j) PROVE Remembered(k)'
    <3>1. Remembered(k)
      BY Zenon, <2>1, <2>3 DEF DataAdmitted, history
    <3>2. PICK q : q = <<generation, j.pub>>
      BY ZenonT(60)
    <3>3. AdmittedAt(q, j.seq)
      BY Zenon, <2>3, <3>2 DEF DataAdmitted
    <3>4. CASE k = q
      BY Zenon, <2>2, <3>1, <3>3, <3>4 DEF AdmittedAt, Remembered
    <3>5. CASE k # q
      BY Zenon, <2>2, <3>1, <3>3, <3>5 DEF AdmittedAt, OnlyLane, Remembered
    <3> QED
      BY Zenon, <3>4, <3>5
  <2>4. ASSUME NEW p \in Publishers, DataRejected(p) PROVE Remembered(k)'
    <3>2. PICK q : q = <<RecordGeneration, p>>
      BY ZenonT(60)
    <3>3. RejectedAt(q) /\ lost' = lost \union {q}
      BY Zenon, <2>4, <3>2 DEF DataRejected, Lose
    <3>4. CASE k = q
      BY Zenon, <3>3, <3>4 DEF RejectedAt, Remembered
    <3>5. CASE k # q
      <4>1. Remembered(k)
        BY Zenon, <2>1, <3>3, <3>5
      <4> QED
        BY Zenon, <2>2, <3>3, <3>5, <4>1 DEF RejectedAt, OnlyLane, Remembered
    <3> QED
      BY Zenon, <3>4, <3>5
  <2>5. ASSUME UNCHANGED <<receiver, history>> PROVE Remembered(k)'
    BY Zenon, <2>1, <2>2, <2>5 DEF Remembered, receiver, history
  <2>6. ASSUME NEW m \in Marker, MarkerDelivered(t, m) PROVE Remembered(k)'
    BY ZenonT(60), <2>5, <2>6 DEF MarkerDelivered, DispatchMarker, DispatchMarkerClosed, DispatchMarkerDirect
  <2>7. CASE DispatchRawThrows(t)
    BY Zenon, <2>5, <2>7 DEF DispatchRawThrows
  <2> QED
    BY Zenon, <1>2, <1>a, <2>3, <2>4, <2>6, <2>7, DispatchEffect
<1>3. ASSUME NEW t \in Threads, OnSample(t) PROVE Remembered(k)'
  <2>0. UNCHANGED <<accepting, generation, phase, lifecycle>> /\ OthersKeep(t)
    BY ZenonT(60), <1>3, <1>a, OnSampleFrame DEF session
  <2>1. k \in lost => Remembered(k)
    BY Zenon, <1>b, <2>0 DEF Live
  <2>2. CASE WriteData(t)
    <3>1. Pending(t) /\ pc[t] = "leased"
      BY Zenon, <2>2 DEF WriteData, Pending
    <3>2. PICK q \in LaneKey : q = KeyOf(t) /\ q = <<generation, job[t].pub>>
      BY Zenon, <3>1, PendingFacts
    <3>3. PICK status : /\ outcome' = [outcome EXCEPT ![t] = status]
                        /\ lost' = IF status = "Ok" THEN lost ELSE lost \union {q}
      BY Zenon, <2>2, <3>2 DEF WriteData
    <3>4. /\ pc'[t] = "written" /\ KeyOf(t)' = q /\ UNCHANGED receiver /\ outcome'[t] = status
      BY ZenonT(60), <1>a, <2>2, <3>2, <3>3 DEF WriteData, CallbackType, KeyOf
    <3>5. CASE k = q /\ status # "Ok"
      BY ZenonT(60), <3>4, <3>5 DEF Remembered, Failing
    <3>6. CASE k \in lost
      BY ZenonT(60), <1>c, <2>0, <2>1, <3>1, <3>4, <3>6 DEF Remembered, receiver
    <3> QED
      BY Zenon, <3>3, <3>5, <3>6
  <2>3. ASSUME NEW status \in Status, DataCompleted(t, status) PROVE Remembered(k)'
    <3>1. Pending(t)
      BY ZenonT(60), <1>3, <1>a, <2>3, PendingMoves DEF DataCompleted
    <3>2. PICK q \in LaneKey : q = KeyOf(t)
      BY ZenonT(60), <3>1, PendingFacts
    <3>3. CompletedAt(q, job[t].seq, status)
      BY Zenon, <2>3, <3>2 DEF DataCompleted
    <3>4. CASE k = q /\ status # "Ok"
      BY Zenon, <3>3, <3>4 DEF CompletedAt, Remembered
    <3>5. CASE ~(k = q /\ status # "Ok")
      <4>1. k \in lost
        BY ZenonT(60), <2>3, <3>2, <3>5 DEF DataCompleted, RefuseData, CompleteData, Lose, history
      <4>2. Failing(k) => Failing(k)'
        <5> SUFFICES ASSUME Failing(k) PROVE Failing(k)'
          BY Zenon
        <5>1. PICK u \in Threads : pc[u] = "written" /\ KeyOf(u) = k /\ outcome[u] # "Ok"
          BY Zenon DEF Failing
        <5>2. u # t
          BY ZenonT(60), <2>3, <3>2, <3>5, <5>1 DEF DataCompleted, RefuseData
        <5>3. pc'[u] = "written" /\ KeyOf(u)' = k /\ outcome'[u] # "Ok"
          BY ZenonT(60), <2>0, <5>1, <5>2 DEF OthersKeep, KeyOf
        <5> QED
          BY ZenonT(60), <5>3 DEF Failing
      <4>3. HasFailure(lanes[k]) => HasFailure(lanes'[k])
        BY ZenonT(60), <3>3 DEF CompletedAt, OnlyLane
      <4>4. UNCHANGED <<lane_keys, poisoned>>
        BY Zenon, <3>3 DEF CompletedAt
      <4> QED
        BY ZenonT(60), <2>1, <4>1, <4>2, <4>3, <4>4 DEF Remembered
    <3> QED
      BY Zenon, <3>4, <3>5
  <2>4. CASE ~RefuseData(t) /\ ~CompleteData(t) /\ ~WriteData(t)
    <3>1. UNCHANGED receiver
      BY ZenonT(60), <1>3, <2>4 DEF OnSample, TakeTurn, AcquireData, SelectMarker, SelectInvalidMarker,
                        EvaluateMarker, FallbackFinish, Leave
    <3>2. UNCHANGED lost
      <4>1. CASE TakeTurn(t)
        BY SMTT(40), <2>0, <4>1 DEF TakeTurn, history
      <4>2. CASE ~TakeTurn(t)
        BY ZenonT(60), <1>3, <2>4, <4>2 DEF OnSample, AcquireData, SelectMarker, SelectInvalidMarker,
                                EvaluateMarker, FallbackFinish, Leave, history
      <4> QED
        BY Zenon, <4>1, <4>2
    <3>3. pc[t] # "written"
      BY ZenonT(60), <1>3, <2>4 DEF OnSample, TakeTurn, AcquireData, SelectMarker, SelectInvalidMarker,
                        EvaluateMarker, FallbackFinish, Leave
    <3> QED
      BY ZenonT(60), <1>c, <2>0, <2>1, <3>1, <3>2, <3>3 DEF Remembered, receiver
  <2>5. RefuseData(t) \/ CompleteData(t) => \E status \in Status : DataCompleted(t, status)
    BY Zenon, <1>3, <1>a, OnSampleEffect
  <2> QED
    BY Zenon, <2>2, <2>3, <2>4, <2>5
<1>4. CASE EndSession \/ Lifecycle
  <2>0. UNCHANGED <<callbacks, lost>>
    BY Zenon, <1>4, SessionFrame DEF history
  <2>1. CASE CreateSession
    <3>1. k[1] > generation
      BY SMTT(40), <1>a, <2>1 DEF CreateSession, CounterType
    <3> QED
      BY Zenon, <2>0, <3>1 DEF IInv, FreshInv
  <2>2. CASE ~CreateSession
    <3>1. UNCHANGED generation /\ Live /\ accepting /\ UNCHANGED receiver
      BY ZenonT(60), <1>4, <1>a, <2>2
         DEF EndSession, CloseDispatch, ReleaseSession, EraseRecord, QuiesceSession,
             ClearRegistries, Lifecycle, ActivateSession, RollbackSession, BeginClose, Deactivate,
             session, SessionInv, Live
    <3> QED
      BY ZenonT(60), <1>b, <1>d, <2>0, <3>1 DEF Remembered, receiver
  <2> QED
    BY Zenon, <2>1, <2>2
<1> QED
  BY Zenon, <1>1, <1>2, <1>3, <1>4 DEF Next

-----------------------------------------------------------------------------
(* Tokens and answers.                                                      *)

\* A callback claims a free token, answers the token it has claimed, or leaves
\* the tokens alone; a delivery may claim a free one.
LEMMA TokenMoves ==
    ASSUME IInv, NEW t \in Threads, Dispatch(t) \/ OnSample(t)
    PROVE  \/ UNCHANGED acks /\ (Claiming(t)' => Claiming(t) /\ job'[t] = job[t])
           \/ /\ ~Claiming(t) /\ acks[job'[t]] = "none" /\ job'[t] \in Marker
              /\ acks' = [acks EXCEPT ![job'[t]] = "processing"]
           \/ /\ Claiming(t) /\ ~Claiming(t)' /\ job[t] \in Marker /\ OnSample(t)
              /\ \E status \in Status : /\ acks' = [acks EXCEPT ![job[t]] = status]
                                        /\ status = "Ok" => EvaluateMarker(t)
<1> USE DEF Claiming
<1>a. CallbackType /\ CallbackInv /\ ReceiverType
  BY Zenon DEF IInv, TypeOK
<1>0. AfterSample(t) \/ Return(t) => ~Claiming(t)'
  BY Zenon, <1>a DEF AfterSample, Return, CallbackType
<1>1. CASE Dispatch(t)
  <2>0. pc[t] = "idle"
    BY Zenon, <1>1, <1>a, DispatchFrame
  <2>1. ASSUME NEW m \in Marker, DispatchMarkerClosed(t, m)
        PROVE  /\ acks[m] = "none" /\ acks' = [acks EXCEPT ![m] = "processing"]
               /\ job'[t] = m
    BY Zenon, <1>a, <2>1 DEF DispatchMarkerClosed, CallbackType
  <2>2. \A j : Enqueue(t, j) => ~Claiming(t)'
    BY Zenon, <1>a DEF Enqueue, CallbackType
  <2>3. UNCHANGED callbacks => ~Claiming(t)'
    BY Zenon, <2>0 DEF callbacks
  <2>4. ASSUME NEW j \in Data, DispatchData(t, j) \/ DispatchMalformed(t, j) \/ DispatchDataThrows(t, j)
        PROVE  UNCHANGED acks /\ ~Claiming(t)'
    BY Zenon, <2>2, <2>3, <2>4 DEF DispatchData, DispatchMalformed, DispatchDataThrows
  <2>5. ASSUME NEW m \in Marker, DispatchMarker(t, m) PROVE UNCHANGED acks /\ ~Claiming(t)'
    BY Zenon, <2>2, <2>5 DEF DispatchMarker
  <2>6. ASSUME NEW m \in Marker, DispatchMarkerDirect(t, m) PROVE UNCHANGED acks /\ ~Claiming(t)'
    BY Zenon, <1>a, <2>6 DEF DispatchMarkerDirect, CallbackType
  <2>7. DispatchRawThrows(t) => UNCHANGED acks /\ ~Claiming(t)'
    BY Zenon, <2>3 DEF DispatchRawThrows
  <2> QED
    BY Zenon, <1>1, <2>0, <2>1, <2>4, <2>5, <2>6, <2>7 DEF Dispatch
<1>2. CASE SelectMarker(t) \/ SelectInvalidMarker(t)
  <2>1. pc[t] \in {"entered", "direct"} /\ IsMarker(t)
    BY Zenon, <1>2 DEF SelectMarker, SelectInvalidMarker
  <2>2. job[t] \in Marker
    BY Zenon, <1>a, <2>1 DEF IsMarker, CallbackInv, Data
  <2>3. CASE AfterSample(t) /\ UNCHANGED acks
    BY Zenon, <1>0, <2>3
  <2>4. ASSUME NEW lease, NEW status, Claim(t, lease, status), acks[job[t]] = "none"
        PROVE  /\ acks[job'[t]] = "none" /\ job'[t] \in Marker
               /\ acks' = [acks EXCEPT ![job'[t]] = "processing"]
    BY Zenon, <2>2, <2>4 DEF Claim
  <2> QED
    BY Zenon, <1>2, <2>1, <2>3, <2>4 DEF SelectMarker, SelectInvalidMarker
<1>3. CASE EvaluateMarker(t)
  <2>1. Claiming(t) /\ ~Claiming(t)'
    BY Zenon, <1>0, <1>3 DEF EvaluateMarker
  <2>2. job[t] \in Marker
    BY Zenon, <1>3, <1>a DEF EvaluateMarker, CallbackInv
  <2>3. <<job[t].gen, job[t].pub>> \in LaneKey /\ job[t].through \in Sequence
    BY <2>2, MaxGenerationAssumption DEF Marker, LaneKey, Generation
  <2>4. MarkerStatus(job[t]) \subseteq Status
    BY Zenon, <1>a, <2>3, EvaluateStatus, ApplyFailureAssumption DEF MarkerStatus
  <2>5. outcome[t] \in Status /\ "Error" \in Status
    BY Zenon, <1>a DEF CallbackType, Status
  <2>6. \E status \in Status : acks' = [acks EXCEPT ![job[t]] = status]
    BY Zenon, <1>3, <2>4, <2>5 DEF EvaluateMarker
  <2> QED
    BY Zenon, <1>3, <2>1, <2>2, <2>6 DEF OnSample
<1>4. CASE FallbackFinish(t)
  <2>1. Claiming(t) /\ ~Claiming(t)' /\ job[t] \in Marker
    BY Zenon, <1>0, <1>4, <1>a DEF FallbackFinish, CallbackInv
  <2>2. \E status \in Status \ {"Ok"} : acks' = [acks EXCEPT ![job[t]] = status]
    <3>1. {"InvalidArgument", "Error"} \subseteq Status \ {"Ok"}
      BY Zenon DEF Status
    <3>2. acks' = [acks EXCEPT ![job[t]] = IF accepting THEN "InvalidArgument" ELSE "Error"]
      BY Zenon, <1>4 DEF FallbackFinish
    <3> QED
      BY ZenonT(60), <3>1, <3>2
  <2> QED
    BY Zenon, <1>4, <2>1, <2>2 DEF OnSample
<1>5. CASE RefuseData(t) \/ CompleteData(t) \/ Leave(t)
  <2>1. UNCHANGED acks /\ ~Claiming(t)'
    BY Zenon, <1>0, <1>5 DEF RefuseData, CompleteData, Leave
  <2> QED
    BY Zenon, <2>1
<1>6. CASE TakeTurn(t) \/ AcquireData(t) \/ WriteData(t)
  <2>1. UNCHANGED acks /\ ~Claiming(t)'
    BY Zenon, <1>6, <1>a DEF TakeTurn, AcquireData, WriteData, CallbackType
  <2> QED
    BY Zenon, <2>1
<1> QED
  BY Zenon, <1>1, <1>2, <1>3, <1>4, <1>5, <1>6 DEF OnSample

LEMMA ClaimStep == IInv /\ [Next]_vars => ClaimInv'
<1> SUFFICES ASSUME IInv, [Next]_vars PROVE ClaimInv'
  BY Zenon
<1>a. CallbackType /\ CallbackInv /\ ClaimInv /\ HistoryType
  BY Zenon DEF IInv, TypeOK
<1>1. CASE UNCHANGED vars
  <2>1. UNCHANGED <<pc, job, acks>>
    BY Zenon, <1>1 DEF vars, callbacks
  <2> QED
    BY Zenon, <1>a, <2>1 DEF ClaimInv, Claiming
<1>2. ASSUME NEW t \in Threads, Dispatch(t) \/ OnSample(t) PROVE ClaimInv'
  <2>0. OthersKeep(t)
    BY Zenon, <1>2, <1>a, DispatchFrame, OnSampleFrame
  <2>1. \A u \in Threads \ {t} : (Claiming(u)' <=> Claiming(u)) /\ job'[u] = job[u]
    BY Zenon, <2>0 DEF OthersKeep, Claiming
  <2>2. \A u \in Threads : Claiming(u) => job[u] \in Marker
    BY Zenon, <1>a DEF Claiming, CallbackInv
  <2>3. CASE UNCHANGED acks /\ (Claiming(t)' => Claiming(t) /\ job'[t] = job[t])
    BY Zenon, <1>a, <2>1, <2>3 DEF ClaimInv
  <2>4. CASE /\ ~Claiming(t) /\ acks[job'[t]] = "none" /\ job'[t] \in Marker
             /\ acks' = [acks EXCEPT ![job'[t]] = "processing"]
    <3>1. \A u \in Threads \ {t} : Claiming(u) => job[u] # job'[t]
      BY Zenon, <1>a, <2>4 DEF ClaimInv
    <3>2. acks'[job'[t]] = "processing" /\ \A m \in Marker : m # job'[t] => acks'[m] = acks[m]
      BY Zenon, <1>a, <2>4 DEF HistoryType
    <3> QED
      BY Zenon, <1>a, <2>1, <2>2, <3>1, <3>2 DEF ClaimInv
  <2>5. CASE /\ Claiming(t) /\ ~Claiming(t)' /\ job[t] \in Marker
             /\ \E status \in Status : acks' = [acks EXCEPT ![job[t]] = status]
    <3>1. \A m \in Marker : m # job[t] => acks'[m] = acks[m]
      BY Zenon, <1>a, <2>5 DEF HistoryType
    <3>2. \A u \in Threads \ {t} : Claiming(u) => job[u] # job[t]
      BY Zenon, <1>a, <2>5 DEF ClaimInv
    <3> QED
      BY Zenon, <1>a, <2>1, <2>2, <2>5, <3>1, <3>2 DEF ClaimInv
  <2> QED
    BY Zenon, <1>2, <2>3, <2>4, <2>5, TokenMoves
<1>3. CASE EndSession \/ Lifecycle
  <2>0. UNCHANGED callbacks /\ (UNCHANGED acks \/ ClearRegistries)
    BY Zenon, <1>3, SessionFrame
  <2>1. CASE UNCHANGED acks
    BY Zenon, <1>a, <2>0, <2>1 DEF callbacks, ClaimInv, Claiming
  <2>2. CASE ClearRegistries
    <3>1. \A u \in Threads : ~Claiming(u)'
      BY Zenon, <2>0, <2>2 DEF ClearRegistries, GateEmpty, InGate, Claiming, callbacks
    <3> QED
      BY Zenon, <3>1 DEF ClaimInv
  <2> QED
    BY Zenon, <2>0, <2>1, <2>2
<1> QED
  BY Zenon, <1>1, <1>2, <1>3 DEF Next

\* An answer Ok comes from an evaluation of the lane of the live generation,
\* which is clean and complete through exactly the marker's sequence.
LEMMA OkEvidence ==
    ASSUME IInv, NEW t \in Threads, EvaluateMarker(t), acks' = [acks EXCEPT ![job[t]] = "Ok"]
    PROVE  /\ accepting /\ Live /\ job[t] \in Marker /\ job[t].gen = generation
           /\ entry[t] # NoGeneration
           /\ <<job[t].gen, job[t].pub>> \in LaneKey /\ job[t].through \in Sequence
           /\ ~HasFailure(lanes[<<job[t].gen, job[t].pub>>])
           /\ lanes[<<job[t].gen, job[t].pub>>].completed_through = job[t].through
           /\ <<job[t].gen, job[t].pub>> \in lane_keys \/ job[t].gen \notin poisoned
<1>a. CallbackType /\ CallbackInv /\ ReceiverInv /\ EntryInv /\ HistoryType
  BY Zenon DEF IInv, TypeOK
<1>1. pc[t] = "claimed" /\ job[t] \in Marker
  BY Zenon, <1>a DEF EvaluateMarker, CallbackInv
<1>2. <<job[t].gen, job[t].pub>> \in LaneKey /\ job[t].through \in Sequence
  BY <1>1, MaxGenerationAssumption DEF Marker, LaneKey, Generation
<1>3. acks'[job[t]] = "Ok"
  BY Zenon, <1>a, <1>1 DEF HistoryType
<1>4. PICK status \in IF ~accepting THEN {"Error"}
                      ELSE IF leased[t] THEN MarkerStatus(job[t]) ELSE {outcome[t]} :
         acks' = [acks EXCEPT ![job[t]] = status]
  BY ZenonT(60) DEF EvaluateMarker
<1>5. status = "Ok"
  BY Zenon, <1>a, <1>1, <1>3, <1>4 DEF HistoryType
<1>6. accepting /\ leased[t]
  BY Zenon, <1>a, <1>1, <1>4, <1>5 DEF CallbackInv
<1>7. EvaluateBuffer(<<job[t].gen, job[t].pub>>, job[t].through) = "Ok"
  BY Zenon, <1>4, <1>5, <1>6, ApplyFailureAssumption DEF MarkerStatus
<1>8. job[t].gen = generation /\ entry[t] # NoGeneration /\ Live
  BY Zenon, <1>a, <1>1, <1>6 DEF CallbackInv, EntryInv
<1>9. PICK k \in LaneKey : k = <<job[t].gen, job[t].pub>>
  BY Zenon, <1>2
<1>10. k[1] = job[t].gen
  BY Zenon, <1>9
<1>11. lanes[k] \in LaneState /\ LaneSound(lanes[k]) /\ (k \notin lane_keys => lanes[k] = NewLane)
  BY Zenon, <1>a DEF ReceiverInv, ReceiverType, LaneInv
<1>12. /\ ~HasFailure(lanes[k]) /\ lanes[k].completed_through = job[t].through
       /\ k \in lane_keys \/ job[t].gen \notin poisoned
  <2>1. CASE k \in lane_keys
    <3>1. Evaluate(lanes[k], job[t].through) = "Ok"
      BY Zenon, <1>7, <1>9, <2>1 DEF EvaluateBuffer
    <3> QED
      BY Zenon, <1>2, <1>11, <2>1, <3>1, EvaluateOkIsClean
  <2>2. CASE k \notin lane_keys
    <3>1. ~(job[t].through > 0) /\ k[1] \notin poisoned
      BY Zenon, <1>7, <1>9, <2>2 DEF EvaluateBuffer
    <3>2. job[t].through = 0
      BY SMTT(40), <1>2, <3>1, MaxSequenceAssumption DEF Sequence
    <3> QED
      BY Zenon, <1>10, <1>11, <2>2, <3>1, <3>2, NewLaneFacts
  <2> QED
    BY Zenon, <2>1, <2>2
<1> QED
  BY Zenon, <1>1, <1>2, <1>6, <1>8, <1>9, <1>12

LEMMA OkStep == IInv /\ [Next]_vars => FenceOkIsProof'
<1> SUFFICES ASSUME IInv, [Next]_vars, NEW m \in Marker, acks'[m] = "Ok", NEW s \in 1 .. m.through
             PROVE  stored'[<<m.gen, m.pub>>][s] = "Ok"
  BY Zenon DEF FenceOkIsProof
<1>a. CallbackType /\ HistoryType
  BY Zenon DEF IInv, TypeOK
<1>b. acks[m] = "Ok" => stored[<<m.gen, m.pub>>][s] = "Ok"
  BY Zenon DEF IInv, FenceOkIsProof
<1>c. PICK k \in LaneKey : k = <<m.gen, m.pub>>
  <2>1. <<m.gen, m.pub>> \in LaneKey
    BY MaxGenerationAssumption DEF Marker, LaneKey, Generation
  <2> QED
    BY Zenon, <2>1
<1>d. s \in Sequence /\ m.through \in Sequence
  <2>1. m.through \in Sequence
    BY Zenon DEF Marker
  <2> QED
    BY <2>1, MaxSequenceAssumption DEF Sequence
<1>1. CASE UNCHANGED <<acks, stored>>
  BY Zenon, <1>1, <1>b
<1>2. ASSUME NEW t \in Threads, Dispatch(t) \/ OnSample(t), ~UNCHANGED acks
      PROVE  stored'[<<m.gen, m.pub>>][s] = "Ok"
  <2>0. UNCHANGED stored
    <3>1. Dispatch(t) => UNCHANGED stored
      BY Zenon, <1>a, DispatchFrame
    <3>2. OnSample(t) => UNCHANGED history
      BY Zenon, <1>2, AckStep DEF IInv, TypeOK
    <3> QED
      BY Zenon, <1>2, <3>1, <3>2 DEF history
  <2>1. CASE acks[m] = "Ok"
    BY Zenon, <1>b, <2>0, <2>1
  <2>2. CASE acks[m] # "Ok"
    <3>1. job[t] = m /\ acks' = [acks EXCEPT ![m] = "Ok"] /\ EvaluateMarker(t)
      BY Zenon, <1>2, <1>a, <2>2, TokenMoves DEF HistoryType
    <3>2. /\ Live /\ m.gen = generation
          /\ ~HasFailure(lanes[k]) /\ lanes[k].completed_through = m.through
      BY ZenonT(60), <1>c, <3>1, OkEvidence
    <3>3. k[1] = generation
      BY Zenon, <1>c, <3>2
    <3>4. stored[k][s] = "Ok"
      BY <3>2, <3>3 DEF IInv, StoredInv
    <3> QED
      BY Zenon, <1>c, <2>0, <3>4
  <2> QED
    BY Zenon, <2>1, <2>2
<1>3. ASSUME NEW t \in Threads, WriteData(t) PROVE stored'[<<m.gen, m.pub>>][s] = "Ok"
  <2>1. UNCHANGED acks
    BY Zenon, <1>3 DEF WriteData
  <2>2. Pending(t) /\ pc[t] = "leased"
    BY Zenon, <1>3 DEF WriteData, Pending
  <2>3. PICK q \in LaneKey, n \in Sequence :
            q = KeyOf(t) /\ n = job[t].seq /\ q = <<generation, job[t].pub>>
    BY Zenon, <2>2, PendingFacts
  <2>4. stored[q][n] = "none"
    <3>1. job[t].seq <= n
      BY SMTT(40), <2>3, MaxSequenceAssumption DEF Sequence
    <3>2. stored[KeyOf(t)][n] = "none"
      BY Zenon, <2>2, <3>1, NothingLater
    <3> QED
      BY Zenon, <2>3, <3>2
  <2>5. \E status : stored' = [stored EXCEPT ![q][n] = status]
    BY ZenonT(60), <1>3, <2>3 DEF WriteData
  <2>6. stored[k][s] = "Ok"
    BY Zenon, <1>b, <1>c, <2>1
  <2>7. stored'[k][s] = stored[k][s]
    BY <1>a, <1>d, <2>4, <2>5, <2>6 DEF HistoryType
  <2> QED
    BY Zenon, <1>c, <2>6, <2>7
<1>4. ASSUME NEW t \in Threads, Dispatch(t) \/ OnSample(t), ~WriteData(t) PROVE UNCHANGED stored
  <2>1. CASE Dispatch(t)
    BY Zenon, <1>a, <2>1, DispatchFrame
  <2>2. CASE OnSample(t)
    BY ZenonT(60), <1>4, <2>2 DEF OnSample, TakeTurn, AcquireData, RefuseData, CompleteData, SelectMarker,
                      SelectInvalidMarker, EvaluateMarker, FallbackFinish, Leave, Lose, history
  <2> QED
    BY Zenon, <1>4, <2>1, <2>2
<1>5. CASE EndSession \/ Lifecycle
  <2>1. UNCHANGED stored /\ (UNCHANGED acks \/ ClearRegistries)
    BY Zenon, <1>5, SessionFrame DEF history
  <2>2. ~ClearRegistries
    BY Zenon DEF ClearRegistries
  <2> QED
    BY Zenon, <1>1, <2>1, <2>2
<1> QED
  BY Zenon, <1>1, <1>2, <1>3, <1>4, <1>5 DEF Next, vars, history

-----------------------------------------------------------------------------
\* The invariant is inductive.
LEMMA IInvStep == IInv /\ [Next]_vars => IInv'
BY ZenonT(60), TypeStep, SessionStep, EntryStep, CallbackStep, TicketStep, ReservationStep, FreshStep,
   StoredStep, LossStep, ClaimStep, OkStep
   DEF IInv

LEMMA Inductive == Spec => []IInv
BY InitIInv, IInvStep, PTL DEF Spec

\* Every variable keeps its type.
THEOREM TypeCorrect == Spec => []TypeOK
<1>1. IInv => TypeOK
  BY Zenon DEF IInv
<1> QED
  BY <1>1, Inductive, PTL

\* An Ok is a proof: whatever callbacks, closes, stops, capacities and
\* failures interleave, the whole prefix was stored in the named generation.
THEOREM FenceSafety == Spec => []FenceOkIsProof
<1>1. IInv => FenceOkIsProof
  BY Zenon DEF IInv
<1> QED
  BY <1>1, Inductive, PTL

\* The completion-mismatch branch of FenceLaneState::Complete is dead.
THEOREM CompletionOrder == Spec => []CompletionsAreNext
<1>1. IInv => CompletionsAreNext
  <2> SUFFICES ASSUME IInv, NEW t \in Threads, pc[t] \in {"entered", "leased", "written"}, IsData(t)
               PROVE  KeyOf(t) \in lane_keys /\ CompletesInOrder(lanes[KeyOf(t)], job[t].seq)
    BY Zenon DEF CompletionsAreNext
  <2> QED
    BY Zenon, NextCompletion DEF IInv, TypeOK
<1> QED
  BY <1>1, Inductive, PTL

\* Session resources outlive every lease on them.
THEOREM LeaseSafety == Spec => []NoUseAfterRelease
<1>1. IInv => NoUseAfterRelease
  <2> SUFFICES ASSUME IInv, NEW t \in Threads, leased[t] PROVE resources /\ entry[t] = generation
    BY Zenon DEF NoUseAfterRelease
  <2>1. entry[t] # NoGeneration /\ phase \in {"Active", "Closing"}
    BY Zenon DEF IInv, CallbackInv
  <2>2. Live /\ entry[t] = generation
    BY Zenon, <2>1 DEF IInv, EntryInv
  <2> QED
    BY Zenon, <2>1, <2>2 DEF IInv, SessionInv, Live
<1> QED
  BY <1>1, Inductive, PTL

\* Every sequence of a lane reaches the store at most once and in order.
THEOREM StoreOrder == Spec => []StoreOnceInOrder
<1>1. IInv => StoreOnceInOrder
  <2> SUFFICES ASSUME IInv, NEW t \in Threads, pc[t] = "leased", IsData(t),
                      NEW s \in job[t].seq .. MaxSequence
               PROVE  stored[KeyOf(t)][s] = "none"
    BY Zenon DEF StoreOnceInOrder
  <2>1. Pending(t)
    BY Zenon DEF Pending
  <2>2. job[t].seq \in Sequence
    BY Zenon, <2>1, PendingFacts
  <2>3. s \in Sequence /\ job[t].seq <= s
    BY SMTT(40), <2>2, MaxSequenceAssumption DEF Sequence
  <2> QED
    BY Zenon, <2>1, <2>3, NothingLater
<1> QED
  BY <1>1, Inductive, PTL

\* The ticket lane never has a ticket without a holder.
THEOREM TicketSafety == Spec => []TicketsAreHeld
<1>1. IInv => TicketsAreHeld
  BY Zenon DEF IInv, TicketInv
<1> QED
  BY <1>1, Inductive, PTL

\* An Ok leaves no sample of its lane behind, whatever it masked.
THEOREM FenceLossless == Spec => OkIsLossless
<1> DEFINE Exact(m) ==
        acks[m] # "Ok" /\ acks'[m] = "Ok" =>
            /\ <<m.gen, m.pub>> \notin lost
            /\ \A s \in (m.through + 1) .. MaxSequence : stored[<<m.gen, m.pub>>][s] = "none"
<1>1. ASSUME IInv, [Next]_vars, NEW m \in Marker PROVE Exact(m)
  <2> SUFFICES ASSUME acks[m] # "Ok", acks'[m] = "Ok"
               PROVE  /\ <<m.gen, m.pub>> \notin lost
                      /\ \A s \in (m.through + 1) .. MaxSequence :
                            stored[<<m.gen, m.pub>>][s] = "none"
    BY Zenon
  <2>1. ~(EndSession \/ Lifecycle) /\ ~UNCHANGED vars
    BY Zenon, SessionFrame DEF ClearRegistries, vars
  <2>2. PICK t \in Threads : Dispatch(t) \/ OnSample(t)
    BY Zenon, <1>1, <2>1 DEF Next
  <2>3. job[t] = m /\ acks' = [acks EXCEPT ![m] = "Ok"] /\ EvaluateMarker(t)
    BY Zenon, <1>1, <2>2, TokenMoves DEF IInv, TypeOK, HistoryType
  <2>4. PICK k : k = <<m.gen, m.pub>>
    BY ZenonT(60)
  <2>5. /\ accepting /\ Live /\ m.gen = generation /\ entry[t] # NoGeneration
        /\ k \in LaneKey /\ m.through \in Sequence
        /\ ~HasFailure(lanes[k]) /\ lanes[k].completed_through = m.through
        /\ k \in lane_keys \/ m.gen \notin poisoned
    BY Zenon, <1>1, <2>3, <2>4, OkEvidence
  <2>6. k[1] = generation
    BY Zenon, <2>4, <2>5
  <2>7. \A u \in Threads : pc[u] # "written"
    <3> SUFFICES ASSUME NEW u \in Threads, pc[u] = "written" PROVE FALSE
      BY Zenon
    <3>1. entry[u] # NoGeneration
      BY Zenon, <1>1 DEF IInv, EntryInv
    <3>2. pc[t] = "claimed"
      BY ZenonT(60), <2>3 DEF EvaluateMarker
    <3>3. u = t
      BY ZenonT(60), <1>1, <2>5, <3>1, <3>2, OneServed
    <3> QED
      BY Zenon, <3>2, <3>3
  <2>8. k \notin lost
    BY Zenon, <1>1, <2>4, <2>5, <2>6, <2>7 DEF IInv, LossInv
  <2>9. ASSUME NEW s \in (m.through + 1) .. MaxSequence PROVE stored[k][s] = "none"
    <3>1. s \in Sequence /\ ~(s <= lanes[k].completed_through)
      BY SMTT(40), <2>5, MaxSequenceAssumption DEF Sequence
    <3> QED
      BY SMTT(40), <1>1, <2>5, <2>6, <2>7, <3>1 DEF IInv, StoredInv
  <2> QED
    BY Zenon, <2>4, <2>8, <2>9
<1>2. IInv /\ [Next]_vars => [\A m \in Marker : Exact(m)]_vars
  BY Zenon, <1>1
<1> QED
  BY <1>2, Inductive, PTL DEF Spec, OkIsLossless

\* A token is answered once.
THEOREM AnswerFinality == Spec => AnswersAreFinal
<1> DEFINE Final(m) == acks[m] \in Status => acks'[m] = acks[m] \/ ~accepting
<1>1. ASSUME IInv, [Next]_vars, NEW m \in Marker PROVE Final(m)
  <2> SUFFICES ASSUME acks[m] \in Status, acks'[m] # acks[m] PROVE ~accepting
    BY Zenon
  <2>1. CASE EndSession \/ Lifecycle
    BY Zenon, <2>1, SessionFrame DEF ClearRegistries
  <2>2. ~UNCHANGED vars
    BY Zenon DEF vars
  <2>3. ASSUME NEW t \in Threads, Dispatch(t) \/ OnSample(t) PROVE FALSE
    <3>1. \/ acks[m] = "none"
          \/ Claiming(t) /\ job[t] = m
      BY ZenonT(60), <1>1, <2>3, TokenMoves DEF IInv, TypeOK, HistoryType
    <3>2. acks[m] \in {"none", "processing"}
      BY ZenonT(60), <1>1, <3>1 DEF IInv, ClaimInv
    <3> QED
      BY Zenon, <3>2 DEF Status
  <2> QED
    BY Zenon, <1>1, <2>1, <2>2, <2>3 DEF Next
<1>2. IInv /\ [Next]_vars => [\A m \in Marker : Final(m)]_vars
  BY Zenon, <1>1
<1> QED
  BY <1>2, Inductive, PTL DEF Spec, AnswersAreFinal
=============================================================================
