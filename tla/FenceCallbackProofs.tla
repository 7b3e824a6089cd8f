------------------------- MODULE FenceCallbackProofs --------------------------
(***************************************************************************)
(* The session record, the callbacks it admits and the dispatch tickets of *)
(* FenceReceiver, which every step keeps whatever the lanes hold, and its  *)
(* reservations: each pending callback holds a sequence of its lane, in    *)
(* ticket order, and a future generation has no lane.                      *)
(***************************************************************************)
EXTENDS FenceReceiverProofs

-----------------------------------------------------------------------------
(* The session record and the callbacks it admits.                          *)

LEMMA SessionStep == IInv /\ [Next]_vars => SessionInv'
<1> SUFFICES ASSUME IInv, [Next]_vars PROVE SessionInv'
  BY Zenon
<1> USE DEF SessionInv, Live
<1>a. SessionInv /\ CallbackType
  BY Zenon DEF IInv, TypeOK
<1>1. CASE UNCHANGED vars
  BY Zenon, <1>1, <1>a DEF vars, session
<1>2. ASSUME NEW t \in Threads, Dispatch(t) PROVE SessionInv'
  BY Zenon, <1>2, <1>a, DispatchFrame
<1>3. ASSUME NEW t \in Threads, OnSample(t) PROVE SessionInv'
  BY Zenon, <1>3, <1>a, OnSampleFrame DEF session
<1>4. CASE EndSession
  BY SMTT(40), <1>4, <1>a DEF EndSession, CloseDispatch, ReleaseSession, EraseRecord, QuiesceSession,
                    ClearRegistries, session
<1>5. CASE Lifecycle
  <2>1. CASE CreateSession
    <3>1. generation' # NoGeneration
      BY SMTT(40), <2>1 DEF CreateSession, IInv, TypeOK, CounterType, NoGeneration
    <3> QED
      BY Zenon, <2>1, <3>1 DEF CreateSession
  <2>2. CASE ActivateSession \/ RollbackSession \/ BeginClose \/ Deactivate
    BY SMTT(40), <2>2, <1>a DEF ActivateSession, RollbackSession, BeginClose, Deactivate, session
  <2> QED
    BY Zenon, <1>5, <2>1, <2>2 DEF Lifecycle
<1> QED
  BY Zenon, <1>1, <1>2, <1>3, <1>4, <1>5 DEF Next

\* What EntryInv says of one callback.
EntryOf(t) ==
    /\ pc[t] \in {"queued", "entered", "leased", "written", "leaving"} => entry[t] # NoGeneration
    /\ pc[t] \in {"idle", "direct", "fallback"} => entry[t] = NoGeneration
    /\ entry[t] # NoGeneration => Live /\ entry[t] = generation
    /\ entry[t] # NoGeneration /\ pc[t] \in InGate => published

LEMMA EntryStep == IInv /\ [Next]_vars => EntryInv'
<1> SUFFICES ASSUME IInv, [Next]_vars PROVE EntryInv'
  BY Zenon
<1>a. SessionInv /\ CallbackType /\ \A u \in Threads : EntryOf(u)
  BY Zenon DEF IInv, TypeOK, EntryInv, EntryOf
<1> SUFFICES ASSUME NEW u \in Threads PROVE EntryOf(u)'
  BY ZenonT(60) DEF EntryInv, EntryOf
<1> USE DEF EntryOf, Live
<1>b. UNCHANGED <<phase, lifecycle, generation, published>> /\ UNCHANGED callbacks => EntryOf(u)'
  BY SMTT(90), <1>a DEF callbacks
<1>c. ASSUME NEW t \in Threads, OthersKeep(t), u # t,
             UNCHANGED <<phase, lifecycle, generation, published>>
      PROVE  EntryOf(u)'
  BY Zenon, <1>a, <1>c DEF OthersKeep
<1>1. CASE UNCHANGED vars
  BY Zenon, <1>1, <1>b DEF vars, session
<1>2. ASSUME NEW t \in Threads, Dispatch(t) PROVE EntryOf(u)'
  <2>1. CASE u # t
    BY ZenonT(60), <1>2, <1>a, <1>c, <2>1, DispatchFrame
  <2>2. ASSUME u = t, NEW j, Enqueue(t, j), published, registered PROVE EntryOf(u)'
    <3>1. UNCHANGED <<phase, lifecycle, generation, published>>
      BY Zenon, <1>2, <1>a, DispatchFrame
    <3>2. pc'[t] = "queued" /\ entry'[t] = generation
      BY Zenon, <1>a, <2>2 DEF Enqueue, CallbackType
    <3>3. Live /\ generation # NoGeneration
      BY Zenon, <1>a, <2>2 DEF SessionInv
    <3> QED
      BY ZenonT(60), <2>2, <3>1, <3>2, <3>3 DEF InGate
  <2>3. ASSUME u = t, NEW m \in Marker, DispatchMarkerClosed(t, m) \/ DispatchMarkerDirect(t, m)
        PROVE  EntryOf(u)'
    <3>1. pc[t] = "idle" /\ entry' = entry
      BY ZenonT(60), <2>3 DEF DispatchMarkerClosed, DispatchMarkerDirect, Deliver
    <3>2. pc'[t] \in {"fallback", "direct"}
      BY Zenon, <1>a, <2>3 DEF DispatchMarkerClosed, DispatchMarkerDirect, CallbackType
    <3> QED
      BY Zenon, <1>a, <2>3, <3>1, <3>2
  <2>4. CASE UNCHANGED callbacks
    BY Zenon, <1>2, <1>a, <1>b, <2>4, DispatchFrame
  <2> QED
    BY ZenonT(60), <1>2, <2>1, <2>2, <2>3, <2>4
       DEF Dispatch, DispatchData, DispatchMalformed, DispatchDataThrows, DispatchMarker,
           DispatchRawThrows
<1>3. ASSUME NEW t \in Threads, OnSample(t) PROVE EntryOf(u)'
  <2>0. UNCHANGED <<phase, lifecycle, generation, published, accepting>> /\ OthersKeep(t)
    BY ZenonT(60), <1>3, <1>a, OnSampleFrame DEF session
  <2>1. CASE u # t
    BY Zenon, <1>c, <2>0, <2>1
  <2>2. CASE u = t /\ TakeTurn(t)
    <3>1. entry[t] # NoGeneration /\ entry' = entry
      BY Zenon, <1>a, <2>2 DEF TakeTurn
    <3>2. pc'[t] = IF accepting THEN "entered" ELSE "leaving"
      BY Zenon, <1>a, <2>2 DEF TakeTurn, CallbackType
    <3>3. accepting => published
      BY Zenon, <1>a, <3>1 DEF SessionInv
    <3> QED
      BY Zenon, <1>a, <2>0, <2>2, <3>1, <3>2, <3>3 DEF InGate
  <2>3. CASE u = t /\ (Return(t) \/ AfterSample(t))
    <3>1. CASE Return(t)
      BY Zenon, <1>a, <2>3, <3>1 DEF Return, CallbackType
    <3>2. CASE AfterSample(t) /\ ~Return(t)
      <4>1. pc'[t] = "leaving" /\ entry'[t] = entry[t] /\ entry[t] # NoGeneration
        BY Zenon, <1>a, <3>2 DEF AfterSample, CallbackType
      <4> QED
        BY Zenon, <1>a, <2>0, <2>3, <4>1 DEF InGate
    <3> QED
      BY ZenonT(60), <2>3, <3>1, <3>2
  <2>4. ASSUME u = t, NEW lease, NEW status, Claim(t, lease, status),
               pc[t] \in {"entered", "direct"}
        PROVE  EntryOf(u)'
    <3>1. pc'[t] = "claimed" /\ entry'[t] = entry[t]
      BY Zenon, <1>a, <2>4 DEF Claim, CallbackType
    <3> QED
      BY Zenon, <1>a, <2>0, <2>4, <3>1 DEF InGate
  <2>5. CASE u = t /\ (AcquireData(t) \/ WriteData(t))
    <3>1. pc[t] \in {"entered", "leased"} /\ pc'[t] \in {"leased", "written"} /\ entry' = entry
      BY Zenon, <1>a, <2>5 DEF AcquireData, WriteData, CallbackType
    <3> QED
      BY Zenon, <1>a, <2>0, <2>5, <3>1 DEF InGate
  <2>6. CASE u = t /\ ~TakeTurn(t) /\ ~AcquireData(t) /\ ~WriteData(t)
    BY ZenonT(60), <1>3, <2>3, <2>4, <2>6 DEF OnSample, RefuseData, CompleteData, SelectMarker,
                                  SelectInvalidMarker, EvaluateMarker, FallbackFinish, Leave
  <2> QED
    BY ZenonT(60), <2>1, <2>2, <2>5, <2>6
<1>4. CASE EndSession \/ Lifecycle
  <2>0. UNCHANGED <<pc, entry>>
    BY Zenon, <1>4, SessionFrame DEF callbacks
  <2>1. CASE CreateSession \/ EraseRecord
    <3>1. ~Live
      BY Zenon, <1>a, <2>1 DEF CreateSession, EraseRecord, SessionInv
    <3> QED
      BY Zenon, <1>a, <2>0, <3>1
  <2>2. CASE ReleaseSession
    BY Zenon, <1>a, <2>0, <2>2 DEF ReleaseSession, DispatchDrained
  <2>3. CASE QuiesceSession
    BY ZenonT(60), <1>a, <2>0, <2>3 DEF QuiesceSession, GateEmpty
  <2>4. CASE CloseDispatch \/ ClearRegistries \/ ActivateSession \/ RollbackSession \/ BeginClose
             \/ Deactivate
    BY ZenonT(60), <1>a, <2>0, <2>4 DEF CloseDispatch, ClearRegistries, ActivateSession, RollbackSession,
                            BeginClose, Deactivate, SessionInv, session
  <2> QED
    BY Zenon, <1>4, <2>1, <2>2, <2>3, <2>4 DEF EndSession, Lifecycle
<1> QED
  BY Zenon, <1>1, <1>2, <1>3, <1>4 DEF Next

\* What CallbackInv says of one callback.
CallbackOf(t) ==
    /\ pc[t] \in {"queued", "entered"} => job[t] \in Data \union Marker
    /\ pc[t] \in {"leased", "written"} => job[t] \in Data /\ leased[t]
    /\ pc[t] \in {"direct", "claimed", "fallback"} => job[t] \in Marker
    /\ pc[t] = "direct" =>
          job[t].gen <= generation /\ (published => job[t].gen < generation)
    /\ leased[t] => /\ pc[t] \in {"leased", "written", "claimed"}
                    /\ entry[t] # NoGeneration
                    /\ phase \in {"Active", "Closing"}
    /\ leased[t] /\ pc[t] = "claimed" => job[t].gen = generation
    /\ ~leased[t] /\ pc[t] = "claimed" => outcome[t] # "Ok"

LEMMA CallbackStep == IInv /\ [Next]_vars => CallbackInv'
<1> SUFFICES ASSUME IInv, [Next]_vars PROVE CallbackInv'
  BY Zenon
<1>a. /\ SessionInv /\ CallbackType /\ CounterType
      /\ \A u \in Threads : EntryOf(u) /\ CallbackOf(u)
  BY ZenonT(60) DEF IInv, TypeOK, EntryInv, EntryOf, CallbackInv, CallbackOf
<1> SUFFICES ASSUME NEW u \in Threads PROVE CallbackOf(u)'
  BY Zenon DEF CallbackInv, CallbackOf
<1> USE DEF CallbackOf
<1>b. UNCHANGED <<phase, generation, published>> /\ UNCHANGED callbacks => CallbackOf(u)'
  BY SMTT(40), <1>a DEF callbacks
<1>c. ASSUME NEW t \in Threads, OthersKeep(t), u # t, UNCHANGED <<phase, generation, published>>
      PROVE  CallbackOf(u)'
  BY SMTT(40), <1>a, <1>c DEF OthersKeep
<1>1. CASE UNCHANGED vars
  BY Zenon, <1>1, <1>b DEF vars, session
<1>2. ASSUME NEW t \in Threads, Dispatch(t) PROVE CallbackOf(u)'
  <2>0. UNCHANGED <<phase, generation, published>> /\ pc[t] = "idle"
    BY ZenonT(60), <1>2, <1>a, DispatchFrame
  <2>1. CASE u # t
    BY ZenonT(60), <1>2, <1>a, <1>c, <2>1, DispatchFrame
  <2>2. ASSUME u = t, NEW j \in Data \union Marker, Enqueue(t, j) PROVE CallbackOf(u)'
    <3>1. pc'[t] = "queued" /\ job'[t] = j /\ leased'[t] = leased[t]
      BY Zenon, <1>a, <2>2 DEF Enqueue, CallbackType
    <3> QED
      BY ZenonT(60), <1>a, <2>0, <2>2, <3>1
  <2>3. ASSUME u = t, NEW m \in Marker, DispatchMarkerClosed(t, m) PROVE CallbackOf(u)'
    <3>1. pc'[t] = "fallback" /\ job'[t] = m /\ leased'[t] = leased[t]
      BY Zenon, <1>a, <2>3 DEF DispatchMarkerClosed, CallbackType
    <3> QED
      BY ZenonT(60), <1>a, <2>0, <2>3, <3>1
  <2>4. ASSUME u = t, NEW m \in Marker, DispatchMarkerDirect(t, m) PROVE CallbackOf(u)'
    <3>1. /\ pc'[t] = "direct" /\ job'[t] = m /\ leased'[t] = leased[t]
          /\ m.gen <= generation /\ ~published
      BY Zenon, <1>a, <2>4 DEF DispatchMarkerDirect, CallbackType
    <3> QED
      BY ZenonT(60), <1>a, <2>0, <2>4, <3>1
  <2>5. CASE UNCHANGED callbacks
    BY Zenon, <1>b, <2>0, <2>5
  <2> QED
    BY ZenonT(60), <1>2, <2>1, <2>2, <2>3, <2>4, <2>5
       DEF Dispatch, DispatchData, DispatchMalformed, DispatchDataThrows, DispatchMarker,
           DispatchRawThrows
<1>3. ASSUME NEW t \in Threads, OnSample(t) PROVE CallbackOf(u)'
  <2>0. UNCHANGED <<phase, generation, published, accepting>> /\ OthersKeep(t)
    BY ZenonT(60), <1>3, <1>a, OnSampleFrame DEF session
  <2>1. CASE u # t
    BY Zenon, <1>c, <2>0, <2>1
  <2>2. CASE u = t /\ TakeTurn(t)
    <3>1. /\ pc[t] = "queued" /\ pc'[t] \in {"entered", "leaving"}
          /\ job' = job /\ leased' = leased
      BY Zenon, <1>a, <2>2 DEF TakeTurn, CallbackType
    <3> QED
      BY ZenonT(60), <1>a, <2>0, <2>2, <3>1
  <2>3. CASE u = t /\ (Return(t) \/ AfterSample(t))
    <3>1. pc'[t] \in {"idle", "leaving"} /\ ~leased'[t]
      BY SMTT(40), <1>a, <2>3 DEF Return, AfterSample, CallbackType
    <3> QED
      BY Zenon, <2>3, <3>1
  <2>4. CASE u = t /\ AcquireData(t)
    <3>1. /\ pc[t] = "entered" /\ pc'[t] = "leased" /\ leased'[t]
          /\ job' = job /\ entry' = entry /\ IsData(t) /\ phase = "Active"
      BY Zenon, <1>a, <2>4 DEF AcquireData, CallbackType
    <3>2. job[t] \in Data
      BY ZenonT(60), <1>a, <3>1 DEF IsData, Marker
    <3>3. entry[t] # NoGeneration
      BY Zenon, <1>a, <3>1 DEF EntryOf
    <3> QED
      BY ZenonT(60), <1>a, <2>0, <2>4, <3>1, <3>2, <3>3
  <2>5. CASE u = t /\ WriteData(t)
    <3>1. /\ pc[t] = "leased" /\ pc'[t] = "written"
          /\ job' = job /\ entry' = entry /\ leased' = leased
      BY Zenon, <1>a, <2>5 DEF WriteData, CallbackType
    <3> QED
      BY ZenonT(60), <1>a, <2>0, <2>5, <3>1
  <2>6. ASSUME u = t, SelectMarker(t) \/ SelectInvalidMarker(t), ~AfterSample(t)
        PROVE  CallbackOf(u)'
    <3>1. PICK lease \in BOOLEAN, status \in {"InvalidArgument", "NotFound", "Error"} :
             /\ Claim(t, lease, status)
             /\ pc[t] \in {"entered", "direct"} /\ IsMarker(t)
             /\ lease => published /\ phase = "Active" /\ job[t].gen = generation
      <4>1. CASE SelectMarker(t)
        BY ZenonT(60), <1>a, <2>6, <4>1 DEF SelectMarker
      <4>2. CASE SelectInvalidMarker(t)
        BY Zenon, <2>6, <4>2 DEF SelectInvalidMarker
      <4> QED
        BY Zenon, <2>6, <4>1, <4>2
    <3>2. /\ pc'[t] = "claimed" /\ job'[t] = job[t] /\ entry'[t] = entry[t] /\ leased'[t] = lease
          /\ outcome'[t] = status
      BY Zenon, <1>a, <3>1 DEF Claim, CallbackType
    <3>3. job[t] \in Marker
      BY Zenon, <1>a, <3>1 DEF IsMarker, Data
    <3>4. lease => pc[t] = "entered"
      <4>1. job[t].gen \in Nat /\ generation \in Nat
        BY SMTT(90), <1>a, <3>3, MaxGenerationAssumption DEF Marker, Generation, CounterType
      <4>2. pc[t] = "direct" /\ lease => job[t].gen < generation /\ job[t].gen = generation
        BY Zenon, <1>a, <3>1
      <4> QED
        BY SMTT(40), <3>1, <4>1, <4>2
    <3>5. lease => entry[t] # NoGeneration
      BY Zenon, <1>a, <3>4 DEF EntryOf
    <3> QED
      BY ZenonT(60), <2>0, <2>6, <3>1, <3>2, <3>3, <3>5
  <2>7. CASE u = t /\ ~TakeTurn(t) /\ ~AcquireData(t) /\ ~WriteData(t)
    BY ZenonT(60), <1>3, <2>3, <2>6, <2>7 DEF OnSample, RefuseData, CompleteData, EvaluateMarker,
                                  FallbackFinish, Leave
  <2> QED
    BY ZenonT(60), <2>1, <2>2, <2>4, <2>5, <2>7
<1>4. CASE EndSession \/ Lifecycle
  <2>0. UNCHANGED <<pc, entry, job, leased, outcome>>
    BY Zenon, <1>4, SessionFrame DEF callbacks
  <2>1. CASE CreateSession
    <3>1. ~Live /\ generation' = generation + 1 /\ published'
      BY Zenon, <1>a, <2>1 DEF CreateSession, SessionInv, Live
    <3>2. ~leased[u]
      BY Zenon, <1>a, <3>1 DEF EntryOf
    <3>3. pc[u] = "direct" => job[u].gen <= generation + 1 /\ job[u].gen < generation + 1
      <4>1. pc[u] = "direct" => job[u] \in Marker /\ job[u].gen <= generation
        BY ZenonT(60), <1>a
      <4>2. pc[u] = "direct" => job[u].gen \in Nat
        BY SMTT(40), <4>1 DEF Marker, Generation
      <4>3. generation \in Nat
        BY SMTT(90), <1>a DEF CounterType
      <4> QED
        BY SMTT(40), <4>1, <4>2, <4>3
    <3> QED
      BY ZenonT(60), <1>a, <2>0, <3>1, <3>2, <3>3
  <2>2. CASE EraseRecord
    <3>1. ~leased[u] /\ ~published' /\ generation' = generation
      BY Zenon, <1>a, <2>2 DEF EraseRecord, EntryOf, Live
    <3> QED
      BY Zenon, <1>a, <2>0, <3>1
  <2>3. CASE ReleaseSession
    BY ZenonT(60), <1>a, <2>0, <2>3 DEF ReleaseSession, AdmissionDrained
  <2>4. CASE QuiesceSession
    BY Zenon, <1>a, <2>0, <2>4 DEF QuiesceSession
  <2>5. CASE CloseDispatch \/ ClearRegistries \/ ActivateSession \/ RollbackSession \/ BeginClose
             \/ Deactivate
    BY SMTT(90), <1>a, <2>0, <2>5 DEF CloseDispatch, ClearRegistries, ActivateSession, RollbackSession,
                            BeginClose, Deactivate, SessionInv, session
  <2> QED
    BY Zenon, <1>4, <2>1, <2>2, <2>3, <2>4, <2>5 DEF EndSession, Lifecycle
<1> QED
  BY ZenonT(60), <1>1, <1>2, <1>3, <1>4 DEF Next

-----------------------------------------------------------------------------
(* The ticket lane.                                                         *)

\* A callback step keeps the caller's ticket, unless it is Leave; it passes
\* WaitTurn only with the served ticket.
LEMMA TicketKept ==
    ASSUME CallbackType, EntryInv, NEW t \in Threads, OnSample(t), ~Leave(t)
    PROVE  /\ UNCHANGED serving_ticket
           /\ \/ entry[t] = NoGeneration /\ entry'[t] = NoGeneration
              \/ /\ ticket'[t] = ticket[t] /\ entry'[t] = entry[t] /\ pc'[t] # "queued"
                 /\ pc[t] = "queued" => ticket[t] = serving_ticket
<1> USE DEF CallbackType
<1>1. UNCHANGED serving_ticket
  BY ZenonT(60) DEF OnSample, TakeTurn, AcquireData, RefuseData, WriteData, CompleteData,
         SelectMarker, SelectInvalidMarker, EvaluateMarker, FallbackFinish, Leave, dispatch
<1>2. CASE TakeTurn(t)
  BY Zenon, <1>1, <1>2 DEF TakeTurn
<1>3. CASE AcquireData(t) \/ WriteData(t)
  BY Zenon, <1>1, <1>3 DEF AcquireData, WriteData
<1>4. ASSUME pc[t] # "queued", AfterSample(t) \/ (Return(t) /\ entry[t] = NoGeneration)
      PROVE  \/ entry[t] = NoGeneration /\ entry'[t] = NoGeneration
             \/ ticket'[t] = ticket[t] /\ entry'[t] = entry[t] /\ pc'[t] # "queued"
  BY Zenon, <1>4 DEF AfterSample, Return
<1>5. CASE RefuseData(t) \/ CompleteData(t) \/ EvaluateMarker(t)
  BY ZenonT(60), <1>1, <1>4, <1>5 DEF RefuseData, CompleteData, EvaluateMarker
<1>6. CASE FallbackFinish(t)
  BY ZenonT(60), <1>1, <1>4, <1>6 DEF FallbackFinish, EntryInv
<1>7. CASE SelectMarker(t) \/ SelectInvalidMarker(t)
  <2>1. ASSUME NEW lease, NEW status, Claim(t, lease, status)
        PROVE  ticket'[t] = ticket[t] /\ entry'[t] = entry[t] /\ pc'[t] # "queued"
    BY Zenon, <2>1 DEF Claim
  <2>2. pc[t] # "queued"
    BY ZenonT(60), <1>7 DEF SelectMarker, SelectInvalidMarker
  <2> QED
    BY ZenonT(60), <1>1, <1>4, <1>7, <2>1, <2>2 DEF SelectMarker, SelectInvalidMarker
<1> QED
  BY Zenon, <1>2, <1>3, <1>5, <1>6, <1>7 DEF OnSample

LEMMA TicketStep == IInv /\ [Next]_vars => TicketInv'
<1> SUFFICES ASSUME IInv, [Next]_vars PROVE TicketInv'
  BY Zenon
<1> DEFINE Holds(u) == entry[u] # NoGeneration
<1>a. CallbackType /\ CounterType /\ EntryInv /\ SessionInv
  BY Zenon DEF IInv, TypeOK
<1>b. next_ticket \in Nat /\ serving_ticket \in Nat /\ \A u \in Threads : ticket[u] \in Nat
  BY Zenon, <1>a DEF CallbackType, CounterType
<1>c. /\ serving_ticket <= next_ticket
      /\ \A u \in Threads : Holds(u) =>
            /\ serving_ticket <= ticket[u] /\ ticket[u] < next_ticket
            /\ pc[u] # "queued" => ticket[u] = serving_ticket
      /\ \A n \in serving_ticket .. next_ticket - 1 : \E u \in Threads : Holds(u) /\ ticket[u] = n
      /\ \A u, v \in Threads : Holds(u) /\ Holds(v) /\ ticket[u] = ticket[v] => u = v
  BY Zenon DEF IInv, TicketInv, TicketsAreHeld
<1>d. ASSUME UNCHANGED <<serving_ticket, next_ticket>>,
             \A u \in Threads :
                /\ entry'[u] # NoGeneration <=> Holds(u)
                /\ Holds(u) => /\ ticket'[u] = ticket[u]
                               /\ pc[u] # pc'[u] => ticket[u] = serving_ticket
      PROVE  TicketInv'
  <2> HIDE DEF Holds
  <2>1. /\ (serving_ticket <= next_ticket)'
        /\ \A u \in Threads : entry'[u] # NoGeneration =>
            /\ serving_ticket' <= ticket'[u] /\ ticket'[u] < next_ticket'
            /\ pc'[u] # "queued" => ticket'[u] = serving_ticket'
    BY Zenon, <1>c, <1>d
  <2>2. \A n \in serving_ticket' .. next_ticket' - 1 :
            \E u \in Threads : entry'[u] # NoGeneration /\ ticket'[u] = n
    BY Zenon, <1>c, <1>d
  <2>3. \A u, v \in Threads :
            entry'[u] # NoGeneration /\ entry'[v] # NoGeneration /\ ticket'[u] = ticket'[v] => u = v
    BY Zenon, <1>c, <1>d
  <2> QED
    BY Zenon, <2>1, <2>2, <2>3 DEF TicketInv, TicketsAreHeld
<1>1. CASE UNCHANGED vars \/ EndSession \/ Lifecycle
  <2>1. UNCHANGED <<dispatch, callbacks>>
    BY Zenon, <1>1, SessionFrame DEF vars
  <2> QED
    BY Zenon, <1>d, <2>1 DEF dispatch, callbacks
<1>2. ASSUME NEW t \in Threads, Dispatch(t) PROVE TicketInv'
  <2>0. UNCHANGED serving_ticket /\ pc[t] = "idle" /\ OthersKeep(t) /\ ~Holds(t)
    BY ZenonT(60), <1>2, <1>a, DispatchFrame DEF EntryInv
  <2>1. CASE next_ticket' = next_ticket /\ entry'[t] = entry[t]
    BY Zenon, <1>d, <2>0, <2>1 DEF OthersKeep
  <2>2. ASSUME NEW j, Enqueue(t, j), published, registered PROVE TicketInv'
    <3>1. /\ pc'[t] = "queued" /\ ticket'[t] = next_ticket /\ next_ticket' = next_ticket + 1
          /\ entry'[t] = generation
      BY Zenon, <1>a, <2>2 DEF Enqueue, CallbackType
    <3>2. generation # NoGeneration
      BY Zenon, <1>a, <2>2 DEF SessionInv, Live
    <3>3. \A u \in Threads \ {t} : /\ entry'[u] = entry[u] /\ ticket'[u] = ticket[u]
                                   /\ pc'[u] = pc[u]
      BY Zenon, <2>0 DEF OthersKeep
    <3>4. /\ (serving_ticket <= next_ticket)'
          /\ \A u \in Threads : entry'[u] # NoGeneration =>
              /\ serving_ticket' <= ticket'[u] /\ ticket'[u] < next_ticket'
              /\ pc'[u] # "queued" => ticket'[u] = serving_ticket'
      BY SMTT(40), <1>b, <1>c, <2>0, <3>1, <3>3
    <3>5. \A n \in serving_ticket' .. next_ticket' - 1 :
              \E u \in Threads : entry'[u] # NoGeneration /\ ticket'[u] = n
      <4> SUFFICES ASSUME NEW n \in serving_ticket .. next_ticket
                   PROVE  \E u \in Threads : entry'[u] # NoGeneration /\ ticket'[u] = n
        BY SMTT(40), <1>b, <2>0, <3>1
      <4>1. CASE n = next_ticket
        BY Zenon, <3>1, <3>2, <4>1
      <4>2. CASE n # next_ticket
        <5>1. n \in serving_ticket .. next_ticket - 1
          BY SMTT(40), <1>b, <4>2
        <5>2. PICK u \in Threads : Holds(u) /\ ticket[u] = n
          BY Zenon, <1>c, <5>1
        <5> QED
          BY Zenon, <2>0, <3>3, <5>2
      <4> QED
        BY Zenon, <4>1, <4>2
    <3>6. \A u, v \in Threads :
              entry'[u] # NoGeneration /\ entry'[v] # NoGeneration /\ ticket'[u] = ticket'[v]
                  => u = v
      BY SMTT(40), <1>b, <1>c, <3>1, <3>3
    <3> QED
      BY Zenon, <3>4, <3>5, <3>6 DEF TicketInv, TicketsAreHeld
  <2>3. ASSUME NEW j \in Data, DispatchData(t, j) PROVE TicketInv'
    BY Zenon, <2>1, <2>2, <2>3 DEF DispatchData, dispatch, callbacks
  <2>4. ASSUME NEW j \in Data, DispatchMalformed(t, j) \/ DispatchDataThrows(t, j) PROVE TicketInv'
    BY Zenon, <2>1, <2>4 DEF DispatchMalformed, DispatchDataThrows, dispatch, callbacks
  <2>5. ASSUME NEW m \in Marker, DispatchMarker(t, m) PROVE TicketInv'
    BY Zenon, <2>2, <2>5 DEF DispatchMarker
  <2>6. ASSUME NEW m \in Marker, DispatchMarkerClosed(t, m) \/ DispatchMarkerDirect(t, m)
        PROVE  TicketInv'
    BY Zenon, <2>1, <2>6 DEF DispatchMarkerClosed, DispatchMarkerDirect, dispatch
  <2>7. CASE DispatchRawThrows(t)
    BY Zenon, <2>1, <2>7 DEF DispatchRawThrows, dispatch, callbacks
  <2> QED
    BY Zenon, <1>2, <2>3, <2>4, <2>5, <2>6, <2>7 DEF Dispatch
<1>3. ASSUME NEW t \in Threads, OnSample(t) PROVE TicketInv'
  <2>0. UNCHANGED next_ticket /\ OthersKeep(t)
    BY Zenon, <1>3, <1>a, OnSampleFrame
  <2>1. CASE ~Leave(t)
    <3>1. /\ UNCHANGED serving_ticket
          /\ \/ entry[t] = NoGeneration /\ entry'[t] = NoGeneration
             \/ /\ ticket'[t] = ticket[t] /\ entry'[t] = entry[t] /\ pc'[t] # "queued"
                /\ pc[t] = "queued" => ticket[t] = serving_ticket
      BY ZenonT(60), <1>3, <1>a, <2>1, TicketKept
    <3>2. Holds(t) => ticket'[t] = ticket[t] /\ (pc[t] # pc'[t] => ticket[t] = serving_ticket)
      BY Zenon, <1>c, <3>1
    <3>3. \A u \in Threads \ {t} : /\ entry'[u] = entry[u] /\ ticket'[u] = ticket[u]
                                   /\ pc'[u] = pc[u]
      BY Zenon, <2>0 DEF OthersKeep
    <3> QED
      BY ZenonT(60), <1>d, <2>0, <3>1, <3>2, <3>3
  <2>2. CASE Leave(t)
    <3>1. Holds(t) /\ ticket[t] = serving_ticket /\ serving_ticket < next_ticket
      BY Zenon, <1>a, <1>c, <2>2 DEF Leave, EntryInv
    <3>2. entry'[t] = NoGeneration /\ serving_ticket' = serving_ticket + 1
      BY Zenon, <1>a, <2>2 DEF Leave, Return, CallbackType
    <3>3. \A u \in Threads \ {t} : /\ entry'[u] = entry[u] /\ ticket'[u] = ticket[u]
                                   /\ pc'[u] = pc[u]
      BY Zenon, <2>0 DEF OthersKeep
    <3>4. \A u \in Threads \ {t} : Holds(u) => ticket[u] # serving_ticket
      BY Zenon, <1>c, <3>1
    <3>5. /\ (serving_ticket <= next_ticket)'
          /\ \A u \in Threads : entry'[u] # NoGeneration =>
              /\ serving_ticket' <= ticket'[u] /\ ticket'[u] < next_ticket'
              /\ pc'[u] # "queued" => ticket'[u] = serving_ticket'
      BY SMTT(40), <1>b, <1>c, <2>0, <3>1, <3>2, <3>3, <3>4
    <3>6. \A n \in serving_ticket' .. next_ticket' - 1 :
              \E u \in Threads : entry'[u] # NoGeneration /\ ticket'[u] = n
      <4> SUFFICES ASSUME NEW n \in (serving_ticket + 1) .. next_ticket - 1
                   PROVE  \E u \in Threads : entry'[u] # NoGeneration /\ ticket'[u] = n
        BY Zenon, <2>0, <3>2
      <4>1. n \in serving_ticket .. next_ticket - 1 /\ n # serving_ticket
        BY SMTT(40), <1>b
      <4>2. PICK u \in Threads : Holds(u) /\ ticket[u] = n
        BY Zenon, <1>c, <4>1
      <4> QED
        BY Zenon, <3>1, <3>3, <4>1, <4>2
    <3>7. \A u, v \in Threads :
              entry'[u] # NoGeneration /\ entry'[v] # NoGeneration /\ ticket'[u] = ticket'[v]
                  => u = v
      BY SMTT(40), <1>c, <3>2, <3>3
    <3> QED
      BY Zenon, <3>5, <3>6, <3>7 DEF TicketInv, TicketsAreHeld
  <2> QED
    BY Zenon, <2>1, <2>2
<1> QED
  BY Zenon, <1>1, <1>2, <1>3 DEF Next

-----------------------------------------------------------------------------
(* Reservations.                                                            *)

\* A pending callback belongs to the live generation and carries lane data.
LEMMA PendingFacts ==
    ASSUME IInv, NEW u \in Threads, Pending(u)
    PROVE  /\ entry[u] # NoGeneration /\ Live
           /\ KeyOf(u) = <<generation, job[u].pub>> /\ KeyOf(u) \in LaneKey
           /\ job[u] \in Data /\ job[u].seq \in Sequence /\ job[u].pub \in Publishers
           /\ serving_ticket <= ticket[u] /\ ticket[u] < next_ticket /\ ticket[u] \in Nat
           /\ pc[u] # "queued" => ticket[u] = serving_ticket
<1>1. job[u] \in Data
  BY Zenon DEF IInv, CallbackInv, Pending, IsData, Marker
<1>2. job[u].seq \in Sequence /\ job[u].pub \in Publishers
  BY Zenon, <1>1 DEF Data
<1>3. entry[u] # NoGeneration /\ Live /\ entry[u] = generation
  BY Zenon DEF IInv, EntryInv, Pending
<1>4. KeyOf(u) = <<generation, job[u].pub>> /\ KeyOf(u) \in LaneKey
  BY Zenon, <1>2, <1>3 DEF KeyOf, LaneKey, IInv, TypeOK, CounterType
<1>5. /\ serving_ticket <= ticket[u] /\ ticket[u] < next_ticket /\ ticket[u] \in Nat
      /\ pc[u] # "queued" => ticket[u] = serving_ticket
  BY Zenon, <1>3 DEF IInv, TicketInv, TypeOK, CallbackType
<1> QED
  BY Zenon, <1>1, <1>2, <1>3, <1>4, <1>5

\* The counters of every lane are sequences, and no lane completes more than
\* it reserved.
LEMMA LaneCounters ==
    ASSUME ReceiverInv, NEW k \in LaneKey
    PROVE  /\ lanes[k].completed_through \in Sequence /\ lanes[k].reserved_through \in Sequence
           /\ lanes[k].completed_through <= lanes[k].reserved_through
<1>1. lanes[k] \in LaneState /\ LaneSound(lanes[k])
  BY Zenon DEF ReceiverInv, ReceiverType, LaneInv
<1> QED
  BY Zenon, <1>1 DEF LaneState, LaneSound

\* Two pending callbacks of one lane hold their sequences in ticket order.
LEMMA PendingOrder ==
    ASSUME IInv, NEW t \in Threads, NEW u \in Threads, Pending(t), Pending(u), t # u,
           job[t].pub = job[u].pub, ticket[t] = serving_ticket
    PROVE  job[t].seq < job[u].seq /\ pc[u] = "queued"
<1>1. /\ entry[t] # NoGeneration /\ entry[u] # NoGeneration
      /\ serving_ticket <= ticket[u] /\ ticket[u] \in Nat
      /\ pc[u] # "queued" => ticket[u] = serving_ticket
  BY ZenonT(60), PendingFacts
<1>2. ticket[t] # ticket[u]
  BY Zenon, <1>1 DEF IInv, TicketInv, TicketsAreHeld
<1>3. ticket[t] < ticket[u]
  BY SMTT(40), <1>1, <1>2 DEF IInv, TypeOK, CounterType
<1> QED
  BY ZenonT(60), <1>1, <1>2, <1>3 DEF IInv, ReservationInv

\* What ReservationInv says of one callback.
ReservedBy(u) ==
    Pending(u) =>
        /\ KeyOf(u) \in lane_keys
        /\ lanes[KeyOf(u)].completed_through < job[u].seq
        /\ job[u].seq <= lanes[KeyOf(u)].reserved_through
        /\ pc[u] # "queued" => job[u].seq = lanes[KeyOf(u)].completed_through + 1

\* Sequence s of lane k is held by a pending callback.
HeldIn(k, s) == \E t \in Threads : Pending(t) /\ KeyOf(t) = k /\ job[t].seq = s

\* A callback whose state does not change stays as pending as it was.
LEMMA PendingKept ==
    ASSUME NEW u \in Threads, pc'[u] = pc[u], job'[u] = job[u], entry'[u] = entry[u]
    PROVE  (Pending(u)' <=> Pending(u)) /\ KeyOf(u)' = KeyOf(u)
BY Zenon DEF Pending, IsData, KeyOf

\* Steps that neither start nor end a pending callback and keep the counters.
LEMMA ReservationKept ==
    ASSUME ReservationInv, ReceiverInv,
           \A u \in Threads :
              /\ Pending(u)' <=> Pending(u)
              /\ Pending(u) => /\ KeyOf(u)' = KeyOf(u) /\ KeyOf(u) \in LaneKey
                               /\ job'[u] = job[u] /\ ticket'[u] = ticket[u]
                               /\ pc'[u] # "queued" =>
                                     job[u].seq = lanes[KeyOf(u)].completed_through + 1,
           \A k \in LaneKey : /\ lanes'[k].completed_through = lanes[k].completed_through
                              /\ lanes'[k].reserved_through = lanes[k].reserved_through,
           lane_keys \subseteq lane_keys',
           accepting' => accepting
    PROVE  ReservationInv'
<1>1. \A u \in Threads : ReservedBy(u)'
  BY SMTT(90) DEF ReservationInv, ReservedBy
<1>2. \A u, v \in Threads :
         Pending(u)' /\ Pending(v)' /\ job'[u].pub = job'[v].pub /\ ticket'[u] < ticket'[v]
             => job'[u].seq < job'[v].seq
  BY Zenon DEF ReservationInv
<1>3. accepting' => \A k \in LaneKey : \A s \in Sequence :
         lanes'[k].completed_through < s /\ s <= lanes'[k].reserved_through => HeldIn(k, s)'
  BY SMTT(90) DEF ReservationInv, HeldIn
<1> QED
  BY ZenonT(60), <1>1, <1>2, <1>3 DEF ReservationInv, ReservedBy, HeldIn

\* Which callback steps keep, end or do not concern a pending reservation.
LEMMA PendingMoves ==
    ASSUME CallbackType, CallbackInv, NEW t \in Threads, OnSample(t)
    PROVE  /\ AcquireData(t) \/ WriteData(t) \/ (TakeTurn(t) /\ accepting) =>
                 (Pending(t)' <=> Pending(t)) /\ UNCHANGED <<job, ticket, entry>>
           /\ RefuseData(t) \/ CompleteData(t) => Pending(t) /\ ~Pending(t)'
           /\ TakeTurn(t) /\ ~accepting => ~Pending(t)'
           /\ ~AcquireData(t) /\ ~WriteData(t) /\ ~TakeTurn(t) /\ ~RefuseData(t) /\ ~CompleteData(t)
                 => ~Pending(t) /\ ~Pending(t)'
<1> USE DEF CallbackType, Pending
<1>1. AcquireData(t) \/ WriteData(t) =>
         (Pending(t)' <=> Pending(t)) /\ UNCHANGED <<job, ticket, entry>>
  BY Zenon DEF AcquireData, WriteData, IsData
<1>2. TakeTurn(t) => /\ accepting => (Pending(t)' <=> Pending(t)) /\ UNCHANGED <<job, ticket, entry>>
                     /\ ~accepting => ~Pending(t)'
  BY Zenon DEF TakeTurn, IsData
<1>3. AfterSample(t) \/ Return(t) => ~Pending(t)'
  BY Zenon DEF AfterSample, Return
<1>4. CASE RefuseData(t) \/ CompleteData(t)
  <2>1. Pending(t)
    BY ZenonT(60), <1>4 DEF RefuseData, CompleteData, CallbackInv, IsData, Data
  <2>2. ~AcquireData(t) /\ ~WriteData(t) /\ ~TakeTurn(t)
    BY Zenon, <1>4 DEF RefuseData, CompleteData, AcquireData, WriteData, TakeTurn
  <2>3. ~Pending(t)'
    BY Zenon, <1>3, <1>4 DEF RefuseData, CompleteData
  <2> QED
    BY Zenon, <1>4, <2>1, <2>2, <2>3
<1>5. CASE SelectMarker(t) \/ SelectInvalidMarker(t)
  <2>1. \A lease, status : Claim(t, lease, status) => ~Pending(t)'
    BY Zenon DEF Claim
  <2>2. ~Pending(t)'
    BY ZenonT(60), <1>3, <1>5, <2>1 DEF SelectMarker, SelectInvalidMarker
  <2>3. ~Pending(t)
    BY Zenon, <1>5 DEF SelectMarker, SelectInvalidMarker, IsMarker, IsData
  <2>4. ~AcquireData(t) /\ ~WriteData(t) /\ ~TakeTurn(t) /\ ~RefuseData(t) /\ ~CompleteData(t)
    BY ZenonT(60), <1>5 DEF SelectMarker, SelectInvalidMarker, IsMarker, IsData, RefuseData, CompleteData,
                AcquireData, WriteData, TakeTurn
  <2> QED
    BY Zenon, <2>2, <2>3, <2>4
<1>6. CASE EvaluateMarker(t) \/ FallbackFinish(t) \/ Leave(t)
  <2>1. pc[t] \in {"claimed", "fallback", "leaving"} /\ ~Pending(t)'
    BY Zenon, <1>3, <1>6 DEF EvaluateMarker, FallbackFinish, Leave
  <2>2. ~AcquireData(t) /\ ~WriteData(t) /\ ~TakeTurn(t) /\ ~RefuseData(t) /\ ~CompleteData(t)
    BY Zenon, <2>1 DEF RefuseData, CompleteData, AcquireData, WriteData, TakeTurn
  <2> QED
    BY Zenon, <2>1, <2>2
<1>7. TakeTurn(t) => ~AcquireData(t) /\ ~WriteData(t) /\ ~RefuseData(t) /\ ~CompleteData(t)
  BY Zenon DEF RefuseData, CompleteData, AcquireData, WriteData, TakeTurn
<1>8. AcquireData(t) \/ WriteData(t) => ~TakeTurn(t) /\ ~RefuseData(t) /\ ~CompleteData(t)
  BY Zenon DEF RefuseData, CompleteData, AcquireData, WriteData, TakeTurn
<1>9. CASE AcquireData(t) \/ WriteData(t) \/ TakeTurn(t)
  <2> HIDE DEF Pending
  <2> QED
    BY Zenon, <1>1, <1>2, <1>7, <1>8, <1>9
<1> QED
  BY Zenon, <1>4, <1>5, <1>6, <1>9 DEF OnSample

LEMMA ReservationStep == IInv /\ [Next]_vars => ReservationInv'
<1> SUFFICES ASSUME IInv, [Next]_vars PROVE ReservationInv'
  BY Zenon
<1>a. /\ SessionInv /\ CallbackType /\ CounterType /\ CallbackInv /\ EntryInv /\ ReceiverInv
      /\ ReservationInv
  BY Zenon DEF IInv, TypeOK
<1>b. \A u \in Threads : Pending(u) =>
         /\ KeyOf(u) \in LaneKey /\ Live
         /\ pc[u] # "queued" => job[u].seq = lanes[KeyOf(u)].completed_through + 1
  BY ZenonT(60), <1>a, PendingFacts DEF ReservationInv
<1>c. ASSUME UNCHANGED callbacks,
             \A k \in LaneKey : /\ lanes'[k].completed_through = lanes[k].completed_through
                                /\ lanes'[k].reserved_through = lanes[k].reserved_through,
             lane_keys \subseteq lane_keys', accepting' => accepting
      PROVE  ReservationInv'
  <2>1. \A u \in Threads :
              /\ Pending(u)' <=> Pending(u)
              /\ Pending(u) => /\ KeyOf(u)' = KeyOf(u) /\ KeyOf(u) \in LaneKey
                               /\ job'[u] = job[u] /\ ticket'[u] = ticket[u]
                               /\ pc'[u] # "queued" =>
                                     job[u].seq = lanes[KeyOf(u)].completed_through + 1
    BY ZenonT(60), <1>b, <1>c, PendingKept DEF callbacks
  <2> QED
    BY ZenonT(60), <1>a, <1>c, <2>1, ReservationKept
<1>d. ASSUME NEW t \in Threads, OthersKeep(t), UNCHANGED receiver, accepting' => accepting,
             Pending(t)' <=> Pending(t),
             Pending(t) => /\ UNCHANGED <<job, ticket, entry>>
                           /\ pc'[t] # "queued" =>
                                 job[t].seq = lanes[KeyOf(t)].completed_through + 1
      PROVE  ReservationInv'
  <2>1. \A u \in Threads :
              /\ Pending(u)' <=> Pending(u)
              /\ Pending(u) => /\ KeyOf(u)' = KeyOf(u) /\ KeyOf(u) \in LaneKey
                               /\ job'[u] = job[u] /\ ticket'[u] = ticket[u]
                               /\ pc'[u] # "queued" =>
                                     job[u].seq = lanes[KeyOf(u)].completed_through + 1
    <3> SUFFICES ASSUME NEW u \in Threads
                 PROVE  /\ Pending(u)' <=> Pending(u)
                        /\ Pending(u) =>
                              /\ KeyOf(u)' = KeyOf(u) /\ KeyOf(u) \in LaneKey
                              /\ job'[u] = job[u] /\ ticket'[u] = ticket[u]
                              /\ pc'[u] # "queued" =>
                                    job[u].seq = lanes[KeyOf(u)].completed_through + 1
      BY ZenonT(60)
    <3>1. CASE u = t
      BY ZenonT(60), <1>b, <1>d, <3>1 DEF KeyOf
    <3>2. CASE u # t
      BY ZenonT(60), <1>b, <1>d, <3>2, PendingKept DEF OthersKeep
    <3> QED
      BY ZenonT(60), <3>1, <3>2
  <2>2. /\ \A k \in LaneKey : /\ lanes'[k].completed_through = lanes[k].completed_through
                              /\ lanes'[k].reserved_through = lanes[k].reserved_through
        /\ lane_keys \subseteq lane_keys'
    BY Zenon, <1>d DEF receiver
  <2> QED
    BY ZenonT(60), <1>a, <1>d, <2>1, <2>2, ReservationKept
<1>1. CASE UNCHANGED vars
  BY Zenon, <1>1, <1>c DEF vars, receiver
<1>2. ASSUME NEW t \in Threads, Dispatch(t) PROVE ReservationInv'
  <2>0. UNCHANGED <<accepting, generation>> /\ pc[t] = "idle" /\ OthersKeep(t) /\ ~Pending(t)
    BY Zenon, <1>2, <1>a, DispatchFrame DEF Pending
  <2>1. ASSUME NEW j \in Data, DataAdmitted(t, j) PROVE ReservationInv'
    <3> DEFINE k == <<generation, j.pub>>
    <3>0. k \in LaneKey /\ j.seq \in Sequence /\ j.pub \in Publishers /\ j.kind = "data"
      BY Zenon, <1>a DEF Data, LaneKey, CounterType
    <3>1. /\ pc'[t] = "queued" /\ job'[t] = j /\ ticket'[t] = next_ticket /\ entry'[t] = generation
      BY Zenon, <1>a, <2>1 DEF DataAdmitted, Enqueue, CallbackType
    <3>2. Pending(t)' /\ KeyOf(t)' = k
      BY Zenon, <3>0, <3>1 DEF Pending, IsData, KeyOf
    <3>3. AdmittedAt(k, j.seq)
      BY Zenon, <2>1 DEF DataAdmitted
    <3> HIDE DEF k
    <3>4. /\ k \in lane_keys' /\ lane_keys \subseteq lane_keys'
          /\ j.seq = lanes[k].reserved_through + 1
          /\ lanes'[k].reserved_through = j.seq
          /\ lanes'[k].completed_through = lanes[k].completed_through
          /\ \A q \in LaneKey \ {k} : lanes'[q] = lanes[q]
      BY Zenon, <3>3 DEF AdmittedAt, OnlyLane
    <3>5. \A u \in Threads \ {t} : /\ Pending(u)' <=> Pending(u)
                                   /\ KeyOf(u)' = KeyOf(u)
                                   /\ pc'[u] = pc[u] /\ job'[u] = job[u] /\ ticket'[u] = ticket[u]
      BY ZenonT(60), <2>0, PendingKept DEF OthersKeep
    <3>6. /\ lanes[k].completed_through \in Nat /\ lanes[k].reserved_through \in Nat
          /\ lanes[k].completed_through <= lanes[k].reserved_through
      BY SMTT(40), <1>a, <3>0, LaneCounters, MaxSequenceAssumption DEF Sequence
    <3>7. \A u \in Threads \ {t} : Pending(u) =>
             /\ KeyOf(u) \in LaneKey /\ KeyOf(u) = <<generation, job[u].pub>>
             /\ ticket[u] < next_ticket /\ job[u].seq \in Nat /\ ticket[u] \in Nat
             /\ job[u].seq <= lanes[KeyOf(u)].reserved_through
      BY SMTT(90), <1>a, PendingFacts, MaxSequenceAssumption DEF ReservationInv, Sequence
    <3>8. \A u \in Threads : ReservedBy(u)'
      <4>1. ReservedBy(t)'
        BY SMTT(90), <3>1, <3>2, <3>4, <3>6 DEF ReservedBy
      <4>2. ASSUME NEW u \in Threads \ {t} PROVE ReservedBy(u)'
        <5>1. ReservedBy(u)
          BY ZenonT(60), <1>a DEF ReservationInv, ReservedBy
        <5>2. CASE KeyOf(u) = k
          BY SMTT(90), <3>4, <3>5, <3>6, <3>7, <5>1, <5>2 DEF ReservedBy
        <5>3. CASE KeyOf(u) # k
          BY ZenonT(60), <3>4, <3>5, <3>7, <5>1, <5>3 DEF ReservedBy
        <5> QED
          BY Zenon, <5>2, <5>3
      <4> QED
        BY Zenon, <4>1, <4>2
    <3>9. ASSUME NEW u \in Threads, NEW v \in Threads, Pending(u)', Pending(v)',
                 job'[u].pub = job'[v].pub, ticket'[u] < ticket'[v]
          PROVE  job'[u].seq < job'[v].seq
      <4>1. CASE u # t /\ v # t
        BY ZenonT(60), <1>a, <3>5, <3>9, <4>1 DEF ReservationInv
      <4>2. CASE v = t /\ u # t
        <5>1. KeyOf(u) = k
          BY Zenon, <3>1, <3>5, <3>7, <3>9, <4>2 DEF k
        <5> QED
          BY SMTT(90), <3>1, <3>4, <3>5, <3>6, <3>7, <3>9, <4>2, <5>1
      <4>3. CASE u = t
        <5>1. v # t
          BY SMTT(90), <1>a, <3>1, <3>9, <4>3 DEF CounterType
        <5>2. ticket[v] < next_ticket /\ ticket[v] \in Nat /\ next_ticket < ticket[v]
          BY ZenonT(60), <3>1, <3>5, <3>7, <3>9, <4>3, <5>1
        <5> QED
          BY <1>a, <5>2 DEF CounterType
      <4> QED
        BY Zenon, <4>1, <4>2, <4>3
    <3>10. ASSUME accepting', NEW q \in LaneKey, NEW s \in Sequence,
                  lanes'[q].completed_through < s, s <= lanes'[q].reserved_through
           PROVE  HeldIn(q, s)'
      <4>1. CASE q = k /\ s = j.seq
        BY ZenonT(60), <3>1, <3>2, <4>1 DEF HeldIn
      <4>2. CASE ~(q = k /\ s = j.seq)
        <5>1. lanes[q].completed_through < s /\ s <= lanes[q].reserved_through
          BY SMTT(40), <3>4, <3>6, <3>10, <4>2, MaxSequenceAssumption DEF Sequence
        <5>2. PICK u \in Threads : Pending(u) /\ KeyOf(u) = q /\ job[u].seq = s
          BY ZenonT(60), <1>a, <2>0, <3>10, <5>1 DEF ReservationInv
        <5> QED
          BY ZenonT(60), <2>0, <3>5, <5>2 DEF HeldIn
      <4> QED
        BY Zenon, <4>1, <4>2
    <3> QED
      BY Zenon, <3>8, <3>9, <3>10 DEF ReservationInv, ReservedBy, HeldIn
  <2>2. ASSUME NEW p \in Publishers, DataRejected(p) PROVE ReservationInv'
    <3> DEFINE k == <<RecordGeneration, p>>
    <3>1. RejectedAt(k) /\ UNCHANGED callbacks
      BY Zenon, <2>2 DEF DataRejected
    <3> HIDE DEF k
    <3>2. /\ \A q \in LaneKey : /\ lanes'[q].completed_through = lanes[q].completed_through
                                /\ lanes'[q].reserved_through = lanes[q].reserved_through
          /\ lane_keys \subseteq lane_keys'
      BY ZenonT(60), <3>1 DEF RejectedAt, OnlyLane
    <3> QED
      BY Zenon, <1>c, <2>0, <3>1, <3>2
  <2>3. ASSUME NEW m \in Marker, MarkerDelivered(t, m) PROVE ReservationInv'
    <3>1. UNCHANGED receiver
      BY Zenon, <2>3 DEF MarkerDelivered, DispatchMarker, DispatchMarkerClosed, DispatchMarkerDirect
    <3>2. job'[t] = m
      BY Zenon, <1>a, <2>3 DEF MarkerDelivered, DispatchMarker, DispatchMarkerClosed,
                        DispatchMarkerDirect, Enqueue, CallbackType
    <3>3. ~Pending(t)'
      BY Zenon, <3>2 DEF Pending, IsData, Marker
    <3> QED
      BY Zenon, <1>d, <2>0, <3>1, <3>3
  <2>4. CASE DispatchRawThrows(t)
    BY SMTT(40), <1>c, <2>0, <2>4 DEF DispatchRawThrows, receiver
  <2> QED
    BY Zenon, <1>2, <1>a, <2>1, <2>2, <2>3, <2>4, DispatchEffect
<1>3. ASSUME NEW t \in Threads, OnSample(t) PROVE ReservationInv'
  <2>0. UNCHANGED <<accepting, generation>> /\ OthersKeep(t)
    BY Zenon, <1>3, <1>a, OnSampleFrame DEF session
  <2>1. /\ AcquireData(t) \/ WriteData(t) \/ (TakeTurn(t) /\ accepting) =>
              (Pending(t)' <=> Pending(t)) /\ UNCHANGED <<job, ticket, entry>>
        /\ RefuseData(t) \/ CompleteData(t) => Pending(t) /\ ~Pending(t)'
        /\ TakeTurn(t) /\ ~accepting => ~Pending(t)'
        /\ ~AcquireData(t) /\ ~WriteData(t) /\ ~TakeTurn(t) /\ ~RefuseData(t) /\ ~CompleteData(t)
              => ~Pending(t) /\ ~Pending(t)'
    BY Zenon, <1>3, <1>a, PendingMoves
  <2>2. \A u \in Threads \ {t} : /\ Pending(u)' <=> Pending(u)
                                 /\ KeyOf(u)' = KeyOf(u)
                                 /\ pc'[u] = pc[u] /\ job'[u] = job[u] /\ ticket'[u] = ticket[u]
    BY ZenonT(60), <2>0, PendingKept DEF OthersKeep
  <2>3. CASE TakeTurn(t) /\ accepting
    <3>1. UNCHANGED receiver /\ ticket[t] = serving_ticket
      BY Zenon, <2>3 DEF TakeTurn
    <3>2. Pending(t) => job[t].seq = lanes[KeyOf(t)].completed_through + 1
      <4> SUFFICES ASSUME Pending(t), job[t].seq # lanes[KeyOf(t)].completed_through + 1
                   PROVE  FALSE
        BY Zenon
      <4> DEFINE k == KeyOf(t)
                 s == lanes[k].completed_through + 1
      <4>1. k \in LaneKey /\ job[t].seq \in Sequence /\ k = <<generation, job[t].pub>>
        BY Zenon, PendingFacts
      <4>2. /\ lanes[k].completed_through < job[t].seq
            /\ job[t].seq <= lanes[k].reserved_through
        BY ZenonT(60), <1>a DEF ReservationInv
      <4>3. lanes[k].completed_through \in Sequence /\ lanes[k].reserved_through \in Sequence
        BY Zenon, <1>a, <4>1, LaneCounters
      <4> HIDE DEF k
      <4>4. /\ s \in Sequence /\ lanes[k].completed_through < s /\ s <= lanes[k].reserved_through
            /\ s < job[t].seq
        BY SMTT(40), <4>1, <4>2, <4>3, MaxSequenceAssumption DEF Sequence, k
      <4> HIDE DEF s
      <4>5. PICK u \in Threads : Pending(u) /\ KeyOf(u) = k /\ job[u].seq = s
        BY ZenonT(60), <1>a, <2>3, <4>1, <4>4 DEF ReservationInv
      <4>6. job[u].pub = job[t].pub
        BY Zenon, <4>5 DEF k, KeyOf
      <4>7. u # t
        BY SMTT(40), <4>1, <4>4, <4>5, MaxSequenceAssumption DEF Sequence
      <4>8. job[t].seq < job[u].seq
        BY Zenon, <3>1, <4>5, <4>6, <4>7, PendingOrder
      <4> QED
        BY SMTT(90), <4>1, <4>4, <4>5, <4>8, MaxSequenceAssumption DEF Sequence
    <3> QED
      BY ZenonT(60), <1>d, <2>0, <2>1, <2>3, <3>1, <3>2
  <2>4. CASE TakeTurn(t) /\ ~accepting
    <3>1. UNCHANGED receiver
      BY Zenon, <2>4 DEF TakeTurn
    <3>2. \A u \in Threads : Pending(u)' => u # t
      BY Zenon, <2>1, <2>4
    <3>3. \A u \in Threads : ReservedBy(u)'
      BY ZenonT(60), <1>a, <2>2, <3>1, <3>2 DEF ReservationInv, ReservedBy, receiver
    <3>4. \A u, v \in Threads :
             Pending(u)' /\ Pending(v)' /\ job'[u].pub = job'[v].pub /\ ticket'[u] < ticket'[v]
                 => job'[u].seq < job'[v].seq
      BY Zenon, <1>a, <2>2, <3>2 DEF ReservationInv
    <3> QED
      BY ZenonT(60), <2>0, <2>4, <3>3, <3>4 DEF ReservationInv, ReservedBy
  <2>5. CASE AcquireData(t) \/ WriteData(t)
    <3>1. UNCHANGED receiver /\ pc[t] # "queued"
      BY Zenon, <2>5 DEF AcquireData, WriteData
    <3>2. Pending(t) => job[t].seq = lanes[KeyOf(t)].completed_through + 1
      BY Zenon, <1>b, <3>1
    <3> QED
      BY ZenonT(60), <1>d, <2>0, <2>1, <2>5, <3>1, <3>2
  <2>6. ASSUME NEW status \in Status, DataCompleted(t, status) PROVE ReservationInv'
    <3>1. RefuseData(t) \/ CompleteData(t)
      BY Zenon, <2>6 DEF DataCompleted
    <3>2. Pending(t) /\ ~Pending(t)' /\ pc[t] # "queued"
      BY ZenonT(60), <2>1, <3>1 DEF RefuseData, CompleteData
    <3> DEFINE k == KeyOf(t)
               s == job[t].seq
    <3>3. k \in LaneKey /\ s \in Sequence /\ ticket[t] = serving_ticket
      BY ZenonT(60), <3>2, PendingFacts
    <3>4. s = lanes[k].completed_through + 1
      BY Zenon, <1>b, <3>2
    <3>5. CompletedAt(k, s, status)
      BY Zenon, <2>6 DEF DataCompleted
    <3>6. ASSUME NEW u \in Threads \ {t}, Pending(u), KeyOf(u) = k
          PROVE  s < job[u].seq /\ pc[u] = "queued"
      <4>1. job[t].pub = job[u].pub
        BY ZenonT(60), <3>6 DEF KeyOf
      <4> QED
        BY ZenonT(60), <3>2, <3>3, <3>6, <4>1, PendingOrder
    <3> HIDE DEF k, s
    <3>7. /\ lane_keys' = lane_keys
          /\ lanes'[k].completed_through = s
          /\ lanes'[k].reserved_through = lanes[k].reserved_through
          /\ \A q \in LaneKey \ {k} : lanes'[q] = lanes[q]
      BY Zenon, <3>5 DEF CompletedAt, OnlyLane
    <3>8. \A u \in Threads : Pending(u)' => u # t
      BY Zenon, <3>2
    <3>9. \A u \in Threads : ReservedBy(u)'
      <4> SUFFICES ASSUME NEW u \in Threads, Pending(u)' PROVE ReservedBy(u)'
        BY ZenonT(60) DEF ReservedBy
      <4>1. u # t /\ Pending(u) /\ ReservedBy(u) /\ KeyOf(u) \in LaneKey
        BY ZenonT(60), <1>a, <1>b, <2>2, <3>8 DEF ReservationInv, ReservedBy
      <4>2. CASE KeyOf(u) = k
        BY ZenonT(60), <2>2, <3>6, <3>7, <4>1, <4>2 DEF ReservedBy
      <4>3. CASE KeyOf(u) # k
        BY ZenonT(60), <2>2, <3>7, <4>1, <4>3 DEF ReservedBy
      <4> QED
        BY Zenon, <4>2, <4>3
    <3>10. \A u, v \in Threads :
             Pending(u)' /\ Pending(v)' /\ job'[u].pub = job'[v].pub /\ ticket'[u] < ticket'[v]
                 => job'[u].seq < job'[v].seq
      BY ZenonT(60), <1>a, <2>2, <3>8 DEF ReservationInv
    <3>11. ASSUME accepting', NEW q \in LaneKey, NEW n \in Sequence,
                  lanes'[q].completed_through < n, n <= lanes'[q].reserved_through
           PROVE  HeldIn(q, n)'
      <4>1. lanes[q].completed_through < n /\ n <= lanes[q].reserved_through /\ (q = k => n # s)
        <5>1. CASE q = k
          <6>1. lanes[k].completed_through \in Nat /\ n \in Nat /\ s \in Nat
            BY SMTT(40), <1>a, <3>3, LaneCounters, MaxSequenceAssumption DEF Sequence
          <6> QED
            BY SMTT(90), <3>4, <3>7, <3>11, <5>1, <6>1
        <5>2. CASE q # k
          BY Zenon, <3>7, <3>11, <5>2
        <5> QED
          BY Zenon, <5>1, <5>2
      <4>2. PICK u \in Threads : Pending(u) /\ KeyOf(u) = q /\ job[u].seq = n
        BY ZenonT(60), <1>a, <2>0, <3>11, <4>1 DEF ReservationInv
      <4>3. u # t
        BY ZenonT(60), <4>1, <4>2 DEF k, s
      <4> QED
        BY ZenonT(60), <2>2, <4>2, <4>3 DEF HeldIn
    <3> QED
      BY ZenonT(60), <3>9, <3>10, <3>11 DEF ReservationInv, ReservedBy, HeldIn
  <2>7. CASE ~AcquireData(t) /\ ~WriteData(t) /\ ~TakeTurn(t) /\ ~RefuseData(t) /\ ~CompleteData(t)
    <3>1. UNCHANGED receiver
      BY Zenon, <1>3, <1>a, <2>7, OnSampleEffect DEF DataCompleted
    <3> QED
      BY ZenonT(60), <1>d, <2>0, <2>1, <2>7, <3>1
  <2>8. RefuseData(t) \/ CompleteData(t) => \E status \in Status : DataCompleted(t, status)
    BY Zenon, <1>3, <1>a, OnSampleEffect
  <2> QED
    BY Zenon, <2>3, <2>4, <2>5, <2>6, <2>7, <2>8
<1>4. CASE EndSession \/ Lifecycle
  <2>0. UNCHANGED callbacks /\ (accepting' => accepting)
    <3>1. UNCHANGED callbacks
      BY Zenon, <1>4, SessionFrame
    <3>2. CASE EndSession
      BY SMTT(40), <3>1, <3>2 DEF EndSession, CloseDispatch, ReleaseSession, EraseRecord,
           QuiesceSession, ClearRegistries
    <3>3. CASE Lifecycle
      BY SMTT(40), <3>1, <3>3 DEF Lifecycle, CreateSession, ActivateSession, RollbackSession,
           BeginClose, Deactivate
    <3> QED
      BY Zenon, <1>4, <3>2, <3>3
  <2>1. CASE UNCHANGED receiver
    BY Zenon, <1>c, <2>0, <2>1 DEF receiver
  <2>2. CASE EraseSession /\ (ReleaseSession \/ ClearRegistries)
    <3>1. \A u \in Threads : entry[u] = NoGeneration
      BY Zenon, <1>a, <2>2 DEF ReleaseSession, ClearRegistries, DispatchDrained, EntryInv, SessionInv, Live
    <3>2. \A u \in Threads : ~Pending(u)'
      BY Zenon, <1>a, <2>0, <3>1 DEF Pending, callbacks, EntryInv
    <3>3. \A k \in LaneKey : lanes'[k].completed_through = 0 /\ lanes'[k].reserved_through = 0
      BY Zenon, <2>2, NewLaneFacts DEF EraseSession
    <3>4. \A k \in LaneKey : \A s \in Sequence :
             ~(lanes'[k].completed_through < s /\ s <= lanes'[k].reserved_through)
      BY <3>3, MaxSequenceAssumption DEF Sequence
    <3> QED
      BY ZenonT(60), <3>2, <3>4 DEF ReservationInv
  <2> QED
    BY Zenon, <1>4, <2>1, <2>2, SessionFrame
<1> QED
  BY Zenon, <1>1, <1>2, <1>3, <1>4 DEF Next

-----------------------------------------------------------------------------
(* Generations that do not exist yet.                                       *)

FreshAt(k) ==
    k[1] > generation =>
        /\ lanes[k] = NewLane /\ k \notin lane_keys /\ k \notin lost
        /\ \A s \in Sequence : stored[k][s] = "none"

LEMMA FreshStep == IInv /\ [Next]_vars => FreshInv'
<1> SUFFICES ASSUME IInv, [Next]_vars, NEW k \in LaneKey PROVE FreshAt(k)'
  BY Zenon DEF FreshInv, FreshAt
<1>a. /\ SessionInv /\ CallbackType /\ CounterType /\ CallbackInv /\ EntryInv /\ ReceiverInv
      /\ ReservationInv /\ HistoryType
  BY Zenon DEF IInv, TypeOK
<1>b. FreshAt(k) /\ k[1] \in Nat /\ generation \in Nat
  BY DEF IInv, FreshInv, FreshAt, TypeOK, CounterType, LaneKey
<1>c. UNCHANGED <<generation, receiver, history>> => FreshAt(k)'
  BY Zenon, <1>b DEF FreshAt, receiver, history
<1>d. ASSUME NEW q \in LaneKey, q[1] <= generation, OnlyLane(q), lost' \subseteq lost \union {q},
             UNCHANGED <<generation, stored>>
      PROVE  FreshAt(k)'
  <2>1. k[1] > generation => k # q
    BY <1>b, <1>d
  <2> QED
    BY Zenon, <1>b, <1>d, <2>1 DEF FreshAt, OnlyLane
<1>1. CASE UNCHANGED vars
  BY Zenon, <1>1, <1>c DEF vars, session
<1>2. ASSUME NEW t \in Threads, Dispatch(t) PROVE FreshAt(k)'
  <2>0. UNCHANGED <<generation, stored>>
    BY Zenon, <1>2, <1>a, DispatchFrame
  <2>1. ASSUME NEW j \in Data, DataAdmitted(t, j) PROVE FreshAt(k)'
    <3> DEFINE q == <<generation, j.pub>>
    <3>1. q \in LaneKey /\ q[1] <= generation
      BY <1>a, <1>b DEF Data, LaneKey, CounterType
    <3>2. OnlyLane(q) /\ lost' \subseteq lost \union {q}
      BY Zenon, <2>1 DEF DataAdmitted, AdmittedAt, history
    <3> HIDE DEF q
    <3> QED
      BY Zenon, <1>d, <2>0, <3>1, <3>2
  <2>2. ASSUME NEW p \in Publishers, DataRejected(p) PROVE FreshAt(k)'
    <3> DEFINE q == <<RecordGeneration, p>>
    <3>1. q \in LaneKey /\ q[1] <= generation
      BY <1>a, <1>b, MaxGenerationAssumption
         DEF LaneKey, CounterType, RecordGeneration, NoGeneration
    <3>2. OnlyLane(q) /\ lost' \subseteq lost \union {q}
      BY Zenon, <2>2 DEF DataRejected, RejectedAt, Lose
    <3> HIDE DEF q
    <3> QED
      BY Zenon, <1>d, <2>0, <3>1, <3>2
  <2>3. ASSUME NEW m \in Marker, MarkerDelivered(t, m) PROVE FreshAt(k)'
    BY Zenon, <1>c, <2>0, <2>3 DEF MarkerDelivered, DispatchMarker, DispatchMarkerClosed,
                            DispatchMarkerDirect
  <2>4. CASE DispatchRawThrows(t)
    BY Zenon, <1>c, <2>0, <2>4 DEF DispatchRawThrows
  <2> QED
    BY Zenon, <1>2, <1>a, <2>1, <2>2, <2>3, <2>4, DispatchEffect
<1>3. ASSUME NEW t \in Threads, OnSample(t) PROVE FreshAt(k)'
  <2>0. UNCHANGED generation
    BY Zenon, <1>3, <1>a, OnSampleFrame DEF session
  <2>a. Pending(t) => KeyOf(t) = <<generation, job[t].pub>> /\ KeyOf(t) \in LaneKey
    BY Zenon, PendingFacts
  <2>1. ASSUME NEW status \in Status, DataCompleted(t, status) PROVE FreshAt(k)'
    <3>1. Pending(t)
      BY Zenon, <1>3, <1>a, <2>1, PendingMoves DEF DataCompleted
    <3>2. KeyOf(t) \in LaneKey /\ KeyOf(t)[1] <= generation
      BY <1>b, <2>a, <3>1
    <3>3. /\ OnlyLane(KeyOf(t)) /\ lost' \subseteq lost \union {KeyOf(t)}
          /\ UNCHANGED stored
      BY Zenon, <2>1 DEF DataCompleted, CompletedAt, RefuseData, CompleteData, Lose, history
    <3> QED
      BY Zenon, <1>d, <2>0, <3>2, <3>3
  <2>2. CASE TakeTurn(t)
    <3>1. CASE UNCHANGED history
      BY Zenon, <1>c, <2>0, <2>2, <3>1 DEF TakeTurn
    <3>2. CASE ~UNCHANGED history
      <4>1. ~IsMarker(t) /\ Lose(KeyOf(t)) /\ pc[t] = "queued" /\ UNCHANGED receiver
        BY Zenon, <2>2, <3>2 DEF TakeTurn
      <4>2. Pending(t)
        BY Zenon, <1>a, <4>1 DEF Pending, CallbackInv, IsData, IsMarker, Data, Marker
      <4>3. KeyOf(t) \in LaneKey /\ KeyOf(t)[1] <= generation
        BY <1>b, <2>a, <4>2
      <4>4. OnlyLane(KeyOf(t)) /\ lost' \subseteq lost \union {KeyOf(t)} /\ UNCHANGED stored
        BY Zenon, <4>1 DEF Lose, OnlyLane, receiver
      <4> QED
        BY Zenon, <1>d, <2>0, <4>3, <4>4
    <3> QED
      BY Zenon, <3>1, <3>2
  <2>3. CASE WriteData(t)
    <3> DEFINE q == <<generation, job[t].pub>>
    <3>1. /\ UNCHANGED receiver /\ lost' \subseteq lost \union {q}
          /\ \E status : stored' = [stored EXCEPT ![q][job[t].seq] = status]
      BY Zenon, <2>3 DEF WriteData
    <3>2. k[1] > generation => k # q
      BY <1>b
    <3> HIDE DEF q
    <3>3. k[1] > generation => stored'[k] = stored[k]
      BY Zenon, <1>a, <3>1, <3>2 DEF HistoryType
    <3> QED
      BY Zenon, <1>b, <2>0, <3>1, <3>2, <3>3 DEF FreshAt, receiver
  <2>4. CASE ~RefuseData(t) /\ ~CompleteData(t) /\ ~TakeTurn(t) /\ ~WriteData(t)
    <3>1. UNCHANGED <<receiver, history>>
      BY Zenon, <1>3, <2>4 DEF OnSample, AcquireData, SelectMarker, SelectInvalidMarker, EvaluateMarker,
                        FallbackFinish, Leave
    <3> QED
      BY Zenon, <1>c, <2>0, <3>1
  <2>5. RefuseData(t) \/ CompleteData(t) => \E status \in Status : DataCompleted(t, status)
    BY Zenon, <1>3, <1>a, OnSampleEffect
  <2> QED
    BY Zenon, <2>1, <2>2, <2>3, <2>4, <2>5
<1>4. CASE EndSession \/ Lifecycle
  <2>1. UNCHANGED history /\ (UNCHANGED receiver \/ EraseSession)
    BY Zenon, <1>4, SessionFrame
  <2>2. generation' \in {generation, generation + 1}
    BY Zenon, <1>4 DEF EndSession, CloseDispatch, ReleaseSession, EraseRecord, QuiesceSession,
                ClearRegistries, Lifecycle, CreateSession, ActivateSession, RollbackSession,
                BeginClose, Deactivate, session
  <2>3. k[1] > generation' => k[1] > generation
    BY <1>b, <2>2
  <2> QED
    BY Zenon, <1>b, <2>1, <2>3 DEF FreshAt, history, receiver, EraseSession
<1> QED
  BY Zenon, <1>1, <1>2, <1>3, <1>4 DEF Next
=============================================================================
