------------------------- MODULE SubscriptionTheorems -------------------------
(***************************************************************************)
(* A subscription implements SerialDelivery, and a closed Python           *)
(* subscription is quiet, for every number of transport threads and of     *)
(* threads that close it.                                                  *)
(***************************************************************************)
EXTENDS ParamSubscription, TLAPS

AllClosers == Closers \union {Dispatcher}

\* Where the threads of each role can be.
DrainPlaces == {"drain", "deliver", "called"}
InFlightPlaces == {"push", "wait", "leave"} \union DrainPlaces
StartPlaces == {"idle", "declared", "failing"}
ClosePlaces == {"mutex", "close", "await", "reset", "quiesce", "channel"}
Places == {"enter", "failed", "subscribed", "loop", "pop", "got", "running", "finally", "dead",
           "join", "done"} \union InFlightPlaces \union StartPlaces \union ClosePlaces

TypeInv ==
    /\ binding \in {"cpp", "python"}
    /\ pc \in [Threads -> Places]
    /\ queue \in Seq(Nat \ {0}) /\ pushed \in Nat /\ current \in Nat
    /\ native_in_flight \subseteq Natives
    /\ drainer \in Drainers \union {None}
    /\ returned \subseteq AllClosers
    /\ after \in {"running", "dead"}

PlaceInv ==
    /\ pc[Subscriber] \in StartPlaces \union {"failed", "subscribed"} \union DrainPlaces
    /\ \A t \in Natives : pc[t] \in {"idle", "enter"} \union InFlightPlaces
    /\ \A t \in Closers : pc[t] \in {"idle", "join", "done"} \union ClosePlaces
    /\ pc[Dispatcher] \in {"idle", "loop", "pop", "got", "running", "finally", "dead"}
                          \union ClosePlaces

\* Subscribe: samples are staged until it activates the subscription or fails,
\* and nobody closes it before it has returned.
SubscribeInv ==
    /\ staging <=> pc[Subscriber] \in StartPlaces
    /\ staging => drainer = None
    /\ pc[Subscriber] \in {"failing", "failed"} => ~accepting
    /\ pc[Subscriber] = "failed" => native_in_flight = {}
    /\ close_started => pc[Subscriber] = "subscribed"
    /\ \A t \in AllClosers : pc[t] # "idle" => pc[Subscriber] = "subscribed"

\* The callbacks that are counted are those that were admitted and have not left.
NativeInv == \A t \in Natives : t \in native_in_flight <=> pc[t] \in InFlightPlaces

\* There is one drainer, and an item is current while it delivers.
DrainInv ==
    /\ \A t \in Drainers : drainer = t <=> pc[t] \in DrainPlaces
    /\ \A t \in Drainers : drainer = t => (current # 0 <=> pc[t] # "drain")
    /\ drainer = None => current = 0

\* A close gets past its wait only when everything admitted is over.
CloseInv ==
    /\ close_started => ~accepting
    /\ close_finished => /\ close_started /\ native_in_flight = {}
                         /\ queue = <<>> /\ drainer = None
    /\ \A t \in AllClosers :
          /\ pc[t] \in {"reset", "quiesce"} => close_started
          /\ pc[t] \in {"channel", "join", "done", "dead"} => close_finished
    /\ returned # {} => close_finished

\* The dispatcher thread: it has ended when a close by another thread has
\* returned, and knows that the subscription is closed when its own has.
PythonInv ==
    /\ binding = "cpp" => pc[Dispatcher] = "idle"
    /\ binding = "python" /\ returned \intersect Closers # {} => pc[Dispatcher] = "dead"
    /\ Dispatcher \in returned \/ pc[Dispatcher] \in ClosePlaces => closed

IInv ==
    /\ TypeInv /\ PlaceInv /\ SubscribeInv /\ NativeInv /\ DrainInv /\ CloseInv /\ PythonInv

-----------------------------------------------------------------------------
(* The invariant.                                                           *)

\* The threads of the different roles are different threads.
LEMMA Roles ==
    /\ Subscriber \in Drainers /\ Dispatcher \in AllClosers
    /\ Natives \subseteq Drainers /\ Closers \subseteq AllClosers
    /\ Threads = Drainers \union AllClosers
    /\ None \notin Threads
    /\ Subscriber \notin Natives /\ Dispatcher \notin Closers
    /\ \A t \in Drainers : t \notin AllClosers
BY Zenon, ThreadsAssumption DEF Drainers, AllClosers, Threads

\* A thread moves, and no other one does.
Moves(t, next) ==
    /\ pc'[t] = next
    /\ \A u \in Threads \ {t} : pc'[u] = pc[u]
    /\ pc' \in [Threads -> Places]

LEMMA GotoMoves ==
    ASSUME TypeInv, NEW t \in Threads, NEW next \in Places, Goto(t, next)
    PROVE  Moves(t, next)
BY Zenon DEF TypeInv, Goto, Moves

\* A closer leaves the channel for where AfterChannel says.
LEMMA ChannelMoves ==
    ASSUME IInv, NEW t \in AllClosers, CloseChannel(t)
    PROVE  Moves(t, AfterChannel(t))
<1>1. TypeInv /\ t \in Threads /\ Goto(t, AfterChannel(t))
  BY Zenon, Roles DEF IInv, CloseChannel
<1>2. AfterChannel(t) \in Places
  BY Zenon, <1>1 DEF AfterChannel, TypeInv, Places
<1> QED
  BY Zenon, <1>1, <1>2, GotoMoves

\* A subscription with a drainer has not finished its close.
LEMMA DrainerIsOpen ==
    ASSUME IInv, NEW t \in Drainers, pc[t] \in DrainPlaces
    PROVE  ~close_finished
BY Zenon, Roles DEF IInv, DrainInv, CloseInv

\* A drainer that moves between the places of its role keeps every thread in place.
LEMMA DrainerMoves ==
    ASSUME PlaceInv, NEW t \in Drainers, NEW next \in {"drain", "deliver", "called"}, Moves(t, next)
    PROVE  PlaceInv'
<1>1. next \in DrainPlaces /\ t # Dispatcher /\ t \notin Closers /\ Drainers \subseteq Threads
  BY Zenon, Roles DEF DrainPlaces
<1>2. /\ pc'[Dispatcher] = pc[Dispatcher] /\ \A u \in Closers : pc'[u] = pc[u]
      /\ \A u \in Drainers : pc'[u] = next \/ pc'[u] = pc[u]
  BY Zenon, <1>1, Roles DEF Moves
<1>3. \A u \in Natives : pc'[u] \in {"idle", "enter"} \union InFlightPlaces
  BY Zenon, <1>1, <1>2, Roles DEF PlaceInv, InFlightPlaces
<1>4. pc'[Subscriber] \in StartPlaces \union {"failed", "subscribed"} \union DrainPlaces
  BY Zenon, <1>1, <1>2, Roles DEF PlaceInv
<1> QED
  BY Zenon, <1>2, <1>3, <1>4 DEF PlaceInv

LEMMA InitIInv == Init => IInv
<1> SUFFICES ASSUME Init PROVE IInv
  BY Zenon
<1>1. TypeInv
  BY BindingsAssumption DEF Init, TypeInv, Places, StartPlaces
<1>2. \A t \in Threads : pc[t] = "idle"
  BY Zenon DEF Init
<1>3. PlaceInv
  BY Zenon, <1>2, Roles DEF PlaceInv, StartPlaces
<1>4. SubscribeInv
  BY Zenon, <1>2, Roles DEF Init, SubscribeInv, StartPlaces
<1>5. NativeInv
  BY Zenon, <1>2, Roles DEF Init, NativeInv, InFlightPlaces, DrainPlaces
<1>6. DrainInv
  BY Zenon, <1>2, Roles DEF Init, DrainInv, DrainPlaces
<1>7. CloseInv
  BY Zenon, <1>2, Roles DEF Init, CloseInv
<1>8. PythonInv
  BY Zenon, <1>2, Roles DEF Init, PythonInv, ClosePlaces
<1> QED
  BY Zenon, <1>1, <1>3, <1>4, <1>5, <1>6, <1>7, <1>8 DEF IInv

\* Subscribe keeps the invariant.
LEMMA SubscriberStep == ASSUME IInv, Declare \/ SubscribeStep PROVE IInv'
<1> USE DEF IInv, TypeInv, PlaceInv, SubscribeInv, NativeInv, DrainInv, CloseInv, PythonInv,
            Places, StartPlaces, DrainPlaces, InFlightPlaces, ClosePlaces, Moves
<1>1. CASE Declare
  <2>1. Moves(Subscriber, "declared")
    BY Zenon, <1>1, GotoMoves, Roles DEF Declare
  <2> QED
    BY <1>1, <2>1, Roles DEF Declare, native, admission, work, python
<1>2. CASE DeclareFails
  <2>1. Moves(Subscriber, "failing")
    BY Zenon, <1>2, GotoMoves, Roles DEF DeclareFails
  <2> QED
    BY <1>2, <2>1, Roles DEF DeclareFails, native, admission, work, python
<1>3. CASE FailStaging
  <2>1. Moves(Subscriber, "failed")
    BY Zenon, <1>3, GotoMoves, Roles DEF FailStaging, NativesGone
  <2> QED
    BY <1>3, <2>1, Roles DEF FailStaging, native, admission, work, python, NativesGone
<1>4. CASE Activate
  <2>1. CASE queue # <<>>
    <3>1. Moves(Subscriber, "drain")
      BY Zenon, <1>4, <2>1, GotoMoves, Roles DEF Activate
    <3> QED
      BY <1>4, <2>1, <3>1, Roles DEF Activate, native, admission, work, python
  <2>2. CASE queue = <<>>
    <3>1. Moves(Subscriber, "subscribed")
      BY Zenon, <1>4, <2>2, GotoMoves, Roles DEF Activate
    <3> QED
      BY <1>4, <2>2, <3>1, Roles DEF Activate, native, admission, work, python
  <2> QED
    BY Zenon, <1>4, <2>1, <2>2 DEF Activate
<1> QED
  BY Zenon, <1>1, <1>2, <1>3, <1>4 DEF SubscribeStep

\* So does a transport thread that brings a sample.
LEMMA NativeStep ==
    ASSUME IInv, NEW t \in Natives, Arrive(t) \/ SampleStep(t)
    PROVE  IInv'
<1> USE DEF IInv, TypeInv, PlaceInv, SubscribeInv, NativeInv, DrainInv, CloseInv, PythonInv,
            Places, StartPlaces, DrainPlaces, InFlightPlaces, ClosePlaces, Moves
<1>1. CASE Arrive(t)
  <2>1. Moves(t, "enter")
    BY Zenon, <1>1, GotoMoves, Roles DEF Arrive
  <2> QED
    BY <1>1, <2>1, Roles DEF Arrive, native, admission, work, python
<1>2. CASE Admit(t)
  <2>1. CASE accepting
    <3>1. Moves(t, "push")
      BY Zenon, <1>2, <2>1, GotoMoves, Roles DEF Admit
    <3> QED
      BY <1>2, <2>1, <3>1, Roles DEF Admit, native, admission, work, python
  <2>2. CASE ~accepting
    <3>1. Moves(t, "idle")
      BY Zenon, <1>2, <2>2, GotoMoves, Roles DEF Admit
    <3> QED
      BY <1>2, <2>2, <3>1, Roles DEF Admit, native, admission, work, python
  <2> QED
    BY Zenon, <1>2, <2>1, <2>2 DEF Admit
<1>3. CASE Push(t)
  <2>0. /\ pc[t] = "push" /\ queue' \in Seq(Nat \ {0}) /\ pushed' \in Nat
        /\ UNCHANGED <<binding, admission, current, native_in_flight, closed, after, returned>>
    BY <1>3 DEF Push, python
  <2>4. ~close_finished
    BY Zenon, <2>0
  <2>1. CASE staging
    <3>1. Goto(t, "leave") /\ drainer' = drainer
      BY Zenon, <1>3, <2>1 DEF Push
    <3>2. Moves(t, "leave")
      BY Zenon, <3>1, GotoMoves, Roles
    <3>3. TypeInv'
      BY Zenon, <2>0, <2>1, <2>4, <3>1, <3>2, Roles DEF admission
    <3>4. PlaceInv'
      BY <2>0, <2>1, <2>4, <3>1, <3>2, Roles DEF admission
    <3>5. SubscribeInv'
      BY <2>0, <2>1, <2>4, <3>1, <3>2, Roles DEF admission
    <3>6. NativeInv'
      BY <2>0, <2>1, <2>4, <3>1, <3>2, Roles DEF admission
    <3>7. DrainInv'
      BY <2>0, <2>1, <2>4, <3>1, <3>2, Roles DEF admission
    <3>8. CloseInv'
      BY <2>0, <2>1, <2>4, <3>1, <3>2, Roles DEF admission
    <3>9. PythonInv'
      BY Zenon, <2>0, <2>1, <2>4, <3>1, <3>2, Roles DEF admission
    <3> QED
      BY Zenon, <3>3, <3>4, <3>5, <3>6, <3>7, <3>8, <3>9
  <2>2. CASE ~staging /\ drainer = None
    <3>1. Goto(t, "drain") /\ drainer' = t
      BY Zenon, <1>3, <2>2 DEF Push
    <3>2. Moves(t, "drain")
      BY Zenon, <3>1, GotoMoves, Roles
    <3>3. TypeInv'
      BY Zenon, <2>0, <2>2, <2>4, <3>1, <3>2, Roles DEF admission
    <3>4. PlaceInv'
      <4>1. t \in Drainers
        BY Zenon, Roles
      <4> QED
        BY Zenon, <3>2, <4>1, DrainerMoves
    <3>5. SubscribeInv'
      BY <2>0, <2>2, <2>4, <3>1, <3>2, Roles DEF admission
    <3>6. NativeInv'
      BY <2>0, <2>2, <2>4, <3>1, <3>2, Roles DEF admission
    <3>7. DrainInv'
      BY <2>0, <2>2, <2>4, <3>1, <3>2, Roles DEF admission
    <3>8. CloseInv'
      BY <2>0, <2>2, <2>4, <3>1, <3>2, Roles DEF admission
    <3>9. PythonInv'
      BY Zenon, <2>0, <2>2, <2>4, <3>1, <3>2, Roles DEF admission
    <3> QED
      BY Zenon, <3>3, <3>4, <3>5, <3>6, <3>7, <3>8, <3>9
  <2>3. CASE ~staging /\ drainer # None
    <3>1. Goto(t, "wait") /\ drainer' = drainer
      BY Zenon, <1>3, <2>3 DEF Push
    <3>2. Moves(t, "wait")
      BY Zenon, <3>1, GotoMoves, Roles
    <3> QED
      BY <2>0, <2>3, <2>4, <3>1, <3>2, Roles DEF admission
  <2> QED
    BY Zenon, <1>3, <2>1, <2>2, <2>3 DEF Push
<1>4. CASE Wait(t)
  <2>1. Moves(t, "leave")
    BY Zenon, <1>4, GotoMoves, Roles DEF Wait
  <2> QED
    BY <1>4, <2>1, Roles DEF Wait, native, admission, work, python
<1>5. CASE CompleteNative(t)
  <2>1. Moves(t, "idle")
    BY Zenon, <1>5, GotoMoves, Roles DEF CompleteNative
  <2> QED
    BY <1>5, <2>1, Roles DEF CompleteNative, native, admission, work, python
<1> QED
  BY Zenon, <1>1, <1>2, <1>3, <1>4, <1>5 DEF SampleStep

\* So does the drainer.
LEMMA DrainerStep ==
    ASSUME IInv, NEW t \in Drainers, DrainStep(t) \/ Reenter(t)
    PROVE  IInv'
<1> USE DEF IInv, TypeInv, PlaceInv, SubscribeInv, NativeInv, DrainInv, CloseInv, PythonInv,
            Places, StartPlaces, DrainPlaces, InFlightPlaces, ClosePlaces, Moves
<1>1. CASE Drain(t)
  <2>1. CASE queue = <<>> /\ t = Subscriber
    <3>1. Moves(t, "subscribed")
      BY <1>1, <2>1, GotoMoves, Roles DEF Drain
    <3> QED
      BY <1>1, <2>1, <3>1, Roles DEF Drain, native, admission, work, python
  <2>2. CASE queue = <<>> /\ t # Subscriber
    <3>1. Moves(t, "leave")
      BY Zenon, <1>1, <2>2, GotoMoves, Roles DEF Drain
    <3> QED
      BY <1>1, <2>2, <3>1, Roles DEF Drain, native, admission, work, python
  <2>3. CASE queue # <<>>
    <3>1. Moves(t, "deliver")
      BY Zenon, <1>1, <2>3, GotoMoves, Roles DEF Drain
    <3>2. /\ pc[t] = "drain"
          /\ current' = Head(queue) /\ queue' = Tail(queue)
          /\ UNCHANGED <<binding, admission, drainer, pushed, native_in_flight, closed, after,
                         returned>>
      BY Zenon, <1>1, <2>3 DEF Drain, python
    <3>3. queue' \in Seq(Nat \ {0}) /\ current' \in Nat \ {0}
      BY <2>3, <3>2
    <3>4. ~close_finished
      BY Zenon, <3>2, DrainerIsOpen
    <3>5. TypeInv'
      BY Zenon, <3>1, <3>2, <3>3, <3>4, Roles DEF admission
    <3>6. PlaceInv'
      BY Zenon, <3>1, DrainerMoves
    <3>7. NativeInv'
      BY <3>1, <3>2, <3>3, <3>4, Roles DEF admission
    <3>8. DrainInv'
      BY <3>1, <3>2, <3>3, <3>4, Roles DEF admission
    <3>9. SubscribeInv'
      BY <3>1, <3>2, <3>3, <3>4, Roles DEF admission
    <3>10. CloseInv'
      BY <3>1, <3>2, <3>3, <3>4, Roles DEF admission
    <3>11. PythonInv'
      BY Zenon, <3>1, <3>2, <3>3, <3>4, Roles DEF admission
    <3> QED
      BY Zenon, <3>5, <3>6, <3>7, <3>8, <3>9, <3>10, <3>11
  <2> QED
    BY Zenon, <1>1, <2>1, <2>2, <2>3 DEF Drain
<1>2. CASE Skip(t)
  <2>1. Moves(t, "drain")
    BY Zenon, <1>2, GotoMoves, Roles DEF Skip
  <2> QED
    BY <1>2, <2>1, Roles DEF Skip, native, admission, work, python
<1>3. CASE Callback(t)
  <2>1. Moves(t, "called")
    BY Zenon, <1>3, GotoMoves, Roles DEF Callback
  <2> QED
    BY <1>3, <2>1, Roles DEF Callback, native, admission, work, python
<1>4. CASE EndCallback(t)
  <2>1. Moves(t, "drain")
    BY Zenon, <1>4, GotoMoves, Roles DEF EndCallback
  <2> QED
    BY <1>4, <2>1, Roles DEF EndCallback, native, admission, work, python
<1>5. CASE Reenter(t)
  BY <1>5, Roles DEF Reenter, native, admission, work, python
<1> QED
  BY Zenon, <1>1, <1>2, <1>3, <1>4, <1>5 DEF DrainStep

\* So does a thread that closes the subscription.
LEMMA CloserStep ==
    ASSUME IInv, NEW t \in AllClosers,
           (t \in Closers /\ (Close(t) \/ PyClose(t))) \/ CloseStep(t)
    PROVE  IInv'
<1> USE DEF IInv, TypeInv, PlaceInv, SubscribeInv, NativeInv, DrainInv, CloseInv, PythonInv,
            Places, StartPlaces, DrainPlaces, InFlightPlaces, ClosePlaces, Moves
<1>1. CASE t \in Closers /\ Close(t)
  <2>1. Moves(t, "close")
    BY Zenon, <1>1, GotoMoves, Roles DEF Close
  <2> QED
    BY <1>1, <2>1, Roles DEF Close, native, admission, work, python
<1>2. CASE t \in Closers /\ PyClose(t)
  <2>1. Moves(t, "mutex")
    BY Zenon, <1>2, GotoMoves, Roles DEF PyClose
  <2> QED
    BY <1>2, <2>1, Roles DEF PyClose, native, admission, work, python
<1>3. CASE CloseState(t)
  <2>1. CASE close_finished /\ binding = "cpp"
    <3>1. Moves(t, "done")
      BY Zenon, <1>3, <2>1, GotoMoves, Roles DEF CloseState, EndClose, SecondClose
    <3> QED
      BY <1>3, <2>1, <3>1, Roles DEF CloseState, native, admission, work, python, EndClose, SecondClose
  <2>2. CASE close_finished /\ binding # "cpp"
    <3>1. Moves(t, "channel")
      BY Zenon, <1>3, <2>2, GotoMoves, Roles DEF CloseState, EndClose, SecondClose
    <3> QED
      BY <1>3, <2>2, <3>1, Roles DEF CloseState, native, admission, work, python, EndClose, SecondClose
  <2>3. CASE close_started /\ ~close_finished
    <3>1. Moves(t, "await")
      BY Zenon, <1>3, <2>3, GotoMoves, Roles DEF CloseState, EndClose, SecondClose
    <3>2. UNCHANGED <<binding, admission, queue, pushed, drainer, current, native_in_flight,
                      closed, after, returned>>
      BY Zenon, <1>3, <2>3 DEF CloseState, SecondClose, work, python
    <3>3. pc[t] = "close"
      BY Zenon, <1>3 DEF CloseState
    <3> QED
      BY <2>3, <3>1, <3>2, <3>3, Roles DEF admission
  <2>4. CASE ~close_started
    <3>1. Moves(t, "reset")
      BY Zenon, <1>3, <2>4, GotoMoves, Roles DEF CloseState, EndClose, SecondClose
    <3> QED
      BY <1>3, <2>4, <3>1, Roles DEF CloseState, native, admission, work, python, EndClose, SecondClose
  <2> QED
    BY Zenon, <1>3, <2>1, <2>2, <2>3, <2>4 DEF CloseState, EndClose, SecondClose
<1>4. CASE CloseAwait(t)
  <2>1. CASE binding = "cpp"
    <3>1. Moves(t, "done")
      BY Zenon, <1>4, <2>1, GotoMoves, Roles DEF CloseAwait, EndClose
    <3> QED
      BY <1>4, <2>1, <3>1, Roles DEF CloseAwait, native, admission, work, python, EndClose
  <2>2. CASE binding # "cpp"
    <3>1. Moves(t, "channel")
      BY Zenon, <1>4, <2>2, GotoMoves, Roles DEF CloseAwait, EndClose
    <3> QED
      BY <1>4, <2>2, <3>1, Roles DEF CloseAwait, native, admission, work, python, EndClose
  <2> QED
    BY Zenon, <1>4, <2>1, <2>2 DEF CloseAwait, EndClose
<1>5. CASE CloseReset(t)
  <2>1. Moves(t, "quiesce")
    BY Zenon, <1>5, GotoMoves, Roles DEF CloseReset
  <2> QED
    BY <1>5, <2>1, Roles DEF CloseReset, native, admission, work, python
<1>6. CASE CloseQuiesce(t)
  <2>1. CASE binding = "cpp"
    <3>1. Moves(t, "done")
      BY Zenon, <1>6, <2>1, GotoMoves, Roles DEF CloseQuiesce, EndClose, NativesGone
    <3> QED
      BY <1>6, <2>1, <3>1, Roles DEF CloseQuiesce, native, admission, work, python, EndClose, NativesGone
  <2>2. CASE binding # "cpp"
    <3>1. Moves(t, "channel")
      BY Zenon, <1>6, <2>2, GotoMoves, Roles DEF CloseQuiesce, EndClose, NativesGone
    <3> QED
      BY <1>6, <2>2, <3>1, Roles DEF CloseQuiesce, native, admission, work, python, EndClose, NativesGone
  <2> QED
    BY Zenon, <1>6, <2>1, <2>2 DEF CloseQuiesce, EndClose, NativesGone
<1>7. CASE TakeMutex(t)
  <2>1. Moves(t, "close")
    BY Zenon, <1>7, GotoMoves, Roles DEF TakeMutex
  <2> QED
    BY <1>7, <2>1, Roles DEF TakeMutex, native, admission, work, python
<1>8. CASE CloseChannel(t)
  <2>1. CASE t # Dispatcher
    <3>1. Moves(t, "join")
      BY Zenon, <1>8, <2>1, ChannelMoves DEF AfterChannel
    <3> QED
      BY <1>8, <2>1, <3>1, Roles DEF CloseChannel, native, admission, work, python, AfterChannel
  <2>2. CASE t = Dispatcher /\ after = "running"
    <3>1. Moves(t, "running")
      BY Zenon, <1>8, <2>2, ChannelMoves DEF AfterChannel
    <3> QED
      BY <1>8, <2>2, <3>1, Roles DEF CloseChannel, native, admission, work, python, AfterChannel
  <2>3. CASE t = Dispatcher /\ after = "dead"
    <3>1. Moves(t, "dead")
      BY Zenon, <1>8, <2>3, ChannelMoves DEF AfterChannel
    <3> QED
      BY <1>8, <2>3, <3>1, Roles DEF CloseChannel, native, admission, work, python, AfterChannel
  <2> QED
    BY Zenon, <1>8, <2>1, <2>2, <2>3 DEF CloseChannel, AfterChannel
<1>9. CASE Join(t)
  <2>1. Moves(t, "done")
    BY Zenon, <1>9, GotoMoves, Roles DEF Join, DispatcherGone
  <2> QED
    BY <1>9, <2>1, Roles DEF Join, native, admission, work, python, DispatcherGone
<1> QED
  BY Zenon, <1>1, <1>2, <1>3, <1>4, <1>5, <1>6, <1>7, <1>8, <1>9 DEF CloseStep

\* So does the dispatcher thread.
LEMMA DispatcherStep == ASSUME IInv, DispatchStep \/ SelfClose PROVE IInv'
<1> USE DEF IInv, TypeInv, PlaceInv, SubscribeInv, NativeInv, DrainInv, CloseInv, PythonInv,
            Places, StartPlaces, DrainPlaces, InFlightPlaces, ClosePlaces, Moves
<1>1. CASE StartDispatcher
  <2>1. Moves(Dispatcher, "loop")
    BY Zenon, <1>1, GotoMoves, Roles DEF StartDispatcher
  <2> QED
    BY <1>1, <2>1, Roles DEF StartDispatcher, native, admission, work, python
<1>2. CASE Loop
  <2>1. CASE closed
    <3>1. Moves(Dispatcher, "finally")
      BY Zenon, <1>2, <2>1, GotoMoves, Roles DEF Loop
    <3> QED
      BY <1>2, <2>1, <3>1, Roles DEF Loop, native, admission, work, python
  <2>2. CASE ~closed
    <3>1. Moves(Dispatcher, "pop")
      BY Zenon, <1>2, <2>2, GotoMoves, Roles DEF Loop
    <3> QED
      BY <1>2, <2>2, <3>1, Roles DEF Loop, native, admission, work, python
  <2> QED
    BY Zenon, <1>2, <2>1, <2>2 DEF Loop
<1>3. CASE Pop
  <2>1. CASE channel_closed
    <3>1. Moves(Dispatcher, "finally")
      BY Zenon, <1>3, <2>1, GotoMoves, Roles DEF Pop
    <3> QED
      BY <1>3, <2>1, <3>1, Roles DEF Pop, native, admission, work, python
  <2>2. CASE ~channel_closed
    <3>1. Moves(Dispatcher, "got")
      BY Zenon, <1>3, <2>2, GotoMoves, Roles DEF Pop
    <3> QED
      BY <1>3, <2>2, <3>1, Roles DEF Pop, native, admission, work, python
  <2> QED
    BY Zenon, <1>3, <2>1, <2>2 DEF Pop
<1>4. CASE CallPython
  <2>1. CASE closed
    <3>1. Moves(Dispatcher, "finally")
      BY Zenon, <1>4, <2>1, GotoMoves, Roles DEF CallPython
    <3> QED
      BY <1>4, <2>1, <3>1, Roles DEF CallPython, native, admission, work, python
  <2>2. CASE ~closed
    <3>1. Moves(Dispatcher, "running")
      BY Zenon, <1>4, <2>2, GotoMoves, Roles DEF CallPython
    <3> QED
      BY <1>4, <2>2, <3>1, Roles DEF CallPython, native, admission, work, python
  <2> QED
    BY Zenon, <1>4, <2>1, <2>2 DEF CallPython
<1>5. CASE PythonReturns
  <2>1. Moves(Dispatcher, "loop")
    BY Zenon, <1>5, GotoMoves, Roles DEF PythonReturns
  <2> QED
    BY <1>5, <2>1, Roles DEF PythonReturns, native, admission, work, python
<1>6. CASE SelfClose
  <2>1. Moves(Dispatcher, "mutex")
    BY Zenon, <1>6, GotoMoves, Roles DEF SelfClose
  <2> QED
    BY <1>6, <2>1, Roles DEF SelfClose, native, admission, work, python
<1>7. CASE Finally
  <2>1. Moves(Dispatcher, "mutex")
    BY Zenon, <1>7, GotoMoves, Roles DEF Finally
  <2> QED
    BY <1>7, <2>1, Roles DEF Finally, native, admission, work, python
<1> QED
  BY Zenon, <1>1, <1>2, <1>3, <1>4, <1>5, <1>6, <1>7 DEF DispatchStep

LEMMA StutterIInv == ASSUME IInv, UNCHANGED vars PROVE IInv'
<1> USE DEF vars, native, admission, work, python
<1>1. TypeInv'
  BY Zenon DEF IInv, TypeInv
<1>2. PlaceInv'
  BY Zenon DEF IInv, PlaceInv
<1>3. SubscribeInv'
  BY Zenon DEF IInv, SubscribeInv
<1>4. NativeInv' /\ DrainInv'
  BY Zenon DEF IInv, NativeInv, DrainInv
<1>5. CloseInv'
  BY Zenon DEF IInv, CloseInv
<1>6. PythonInv'
  BY Zenon DEF IInv, PythonInv
<1> QED
  BY Zenon, <1>1, <1>2, <1>3, <1>4, <1>5, <1>6 DEF IInv

LEMMA IInvStep == IInv /\ [Next]_vars => IInv'
<1> SUFFICES ASSUME IInv, [Next]_vars PROVE IInv'
  BY Zenon
<1>1. CASE \E t \in Closers : Close(t) \/ PyClose(t)
  BY Zenon, <1>1, Roles, CloserStep
<1>2. CASE \E t \in Closers \union {Dispatcher} : CloseStep(t)
  BY Zenon, <1>2, CloserStep DEF AllClosers
<1> QED
  BY Zenon, <1>1, <1>2, SubscriberStep, NativeStep, DrainerStep, DispatcherStep, StutterIInv DEF Next

\* The invariant holds in every state of every behaviour.
THEOREM Inductive == Spec => []IInv
BY InitIInv, IInvStep, PTL DEF Spec

-----------------------------------------------------------------------------
(* The subscription implements SerialDelivery.                              *)

LEMMA StateFacts ==
    ASSUME IInv
    PROVE  /\ pc[Subscriber] = "failed" <=> DeliveryState = "failed"
           /\ close_finished <=> DeliveryState = "closed"
           /\ staging <=> DeliveryState = "staging"
           /\ DeliveryState \in {"failed", "closed", "staging", "open"}
<1>1. /\ returned # {} => close_finished
      /\ close_finished => pc[Subscriber] = "subscribed" /\ ~staging
      /\ staging => pc[Subscriber] # "failed"
  BY Zenon DEF IInv, CloseInv, SubscribeInv, StartPlaces
<1> QED
  BY Zenon, <1>1 DEF DeliveryState

LEMMA StateFactsNext ==
    ASSUME IInv'
    PROVE  /\ pc'[Subscriber] = "failed" <=> DeliveryState' = "failed"
           /\ close_finished' <=> DeliveryState' = "closed"
           /\ staging' <=> DeliveryState' = "staging"
           /\ DeliveryState' \in {"failed", "closed", "staging", "open"}
<1>1. /\ returned' # {} => close_finished'
      /\ close_finished' => pc'[Subscriber] = "subscribed" /\ ~staging'
      /\ staging' => pc'[Subscriber] # "failed"
  BY Zenon DEF IInv, CloseInv, SubscribeInv, StartPlaces
<1> QED
  BY Zenon, <1>1 DEF DeliveryState

\* A step that neither moves an item nor opens, fails or closes the
\* subscription is invisible.
Quiet ==
    /\ UNCHANGED <<queue, pushed, current, staging, close_finished>>
    /\ pc'[Subscriber] = "failed" <=> pc[Subscriber] = "failed"

LEMMA QuietStutters == ASSUME IInv, IInv', Quiet PROVE UNCHANGED Delivery!vars
<1>1. DeliveryState' = DeliveryState
  BY Zenon, StateFacts, StateFactsNext DEF Quiet
<1> QED
  BY Zenon, <1>1 DEF Quiet, Delivery!vars

LEMMA SubscriberRefines ==
    ASSUME IInv, IInv', Declare \/ SubscribeStep
    PROVE  Delivery!Next \/ UNCHANGED Delivery!vars
<1>0. Subscriber \in Threads /\ pc \in [Threads -> Places] /\ (drainer = None => current = 0)
  BY Zenon, Roles DEF IInv, TypeInv, DrainInv
<1>1. CASE Declare \/ DeclareFails
  <2>1. Quiet
    BY Zenon, <1>0, <1>1 DEF Quiet, Declare, DeclareFails, Goto, admission, work
  <2> QED
    BY Zenon, <2>1, QuietStutters
<1>2. CASE FailStaging
  <2>1. staging /\ ~close_finished /\ pc'[Subscriber] = "failed" /\ queue' = <<>>
        /\ UNCHANGED <<pushed, current>>
    BY Zenon, <1>0, <1>2 DEF FailStaging, Goto, IInv, SubscribeInv, CloseInv, StartPlaces
  <2>2. DeliveryState = "staging" /\ DeliveryState' = "failed"
    BY Zenon, <2>1, StateFacts, StateFactsNext
  <2> QED
    BY Zenon, <2>1, <2>2 DEF Delivery!Next, Delivery!Fail
<1>3. CASE Activate
  <2>1. staging /\ ~staging' /\ ~close_finished' /\ UNCHANGED <<queue, pushed, current>>
        /\ pc'[Subscriber] # "failed"
    BY Zenon, <1>0, <1>3 DEF Activate, Goto, IInv, SubscribeInv, CloseInv, StartPlaces
  <2>2. DeliveryState = "staging" /\ DeliveryState' = "open"
    BY Zenon, <2>1, StateFacts, StateFactsNext
  <2> QED
    BY Zenon, <2>1, <2>2 DEF Delivery!Next, Delivery!Open
<1> QED
  BY Zenon, <1>1, <1>2, <1>3 DEF SubscribeStep

LEMMA NativeRefines ==
    ASSUME IInv, IInv', NEW t \in Natives, Arrive(t) \/ SampleStep(t)
    PROVE  Delivery!Next \/ UNCHANGED Delivery!vars
<1>0. t \in Threads /\ pc \in [Threads -> Places] /\ t # Subscriber /\ Subscriber \in Threads
  BY Zenon, Roles DEF IInv, TypeInv
<1>1. CASE Arrive(t) \/ Admit(t) \/ Wait(t) \/ CompleteNative(t)
  <2>1. Quiet
    BY Zenon, <1>0, <1>1 DEF Quiet, Arrive, Admit, Wait, CompleteNative, Goto, admission, work
  <2> QED
    BY Zenon, <2>1, QuietStutters
<1>2. CASE Push(t)
  <2>1. /\ queue' = Append(queue, pushed + 1) /\ pushed' = pushed + 1
        /\ UNCHANGED <<current, staging, close_finished>>
    BY Zenon, <1>2 DEF Push, admission
  <2>2. pc'[Subscriber] = pc[Subscriber]
    BY Zenon, <1>0, <1>2 DEF Push, Goto
  <2>3. ~close_finished /\ pc[Subscriber] # "failed"
    BY Zenon, <1>2 DEF Push, IInv, NativeInv, CloseInv, SubscribeInv, InFlightPlaces
  <2>4. DeliveryState \in {"staging", "open"} /\ DeliveryState' = DeliveryState
    BY Zenon, <2>1, <2>2, <2>3, StateFacts, StateFactsNext
  <2> QED
    BY Zenon, <2>1, <2>4 DEF Delivery!Next, Delivery!Take
<1> QED
  BY Zenon, <1>1, <1>2 DEF SampleStep

LEMMA DrainerRefines ==
    ASSUME IInv, IInv', NEW t \in Drainers, DrainStep(t) \/ Reenter(t)
    PROVE  Delivery!Next \/ UNCHANGED Delivery!vars
<1>0. t \in Threads /\ pc \in [Threads -> Places] /\ Subscriber \in Threads
  BY Zenon, Roles DEF IInv, TypeInv
<1>1. pc[t] \in DrainPlaces
  BY Zenon DEF DrainStep, Drain, Skip, Callback, EndCallback, Reenter, DrainPlaces
<1>2. /\ drainer = t /\ t # None /\ ~staging /\ ~close_finished /\ pc[Subscriber] # "failed"
      /\ current # 0 <=> pc[t] # "drain"
  <2>1. drainer = t /\ t # None
    BY Zenon, <1>1, Roles DEF IInv, DrainInv
  <2>2. pc[t] = "drain" \/ pc[t] = "deliver" \/ pc[t] = "called"
    BY Zenon, <1>1 DEF DrainPlaces
  <2>3. ~staging /\ ~close_finished
    BY Zenon, <2>1 DEF IInv, SubscribeInv, CloseInv
  <2>4. pc[Subscriber] # "failed"
    <3>1. CASE t = Subscriber
      BY Zenon, <2>2, <3>1
    <3>2. CASE t \in Natives
      BY Zenon, <2>2, <3>2 DEF IInv, NativeInv, SubscribeInv, InFlightPlaces, DrainPlaces
    <3> QED
      BY Zenon, <3>1, <3>2 DEF Drainers
  <2>5. current # 0 <=> pc[t] # "drain"
    BY Zenon, <2>1 DEF IInv, DrainInv
  <2> QED
    BY Zenon, <2>1, <2>3, <2>4, <2>5
<1>3. UNCHANGED <<staging, close_finished>> /\ pc'[Subscriber] # "failed"
  BY Zenon, <1>0, <1>2 DEF DrainStep, Drain, Skip, Callback, EndCallback, Reenter, Goto, admission
<1>4. DeliveryState = "open" /\ DeliveryState' = "open"
  BY Zenon, <1>2, <1>3, StateFacts, StateFactsNext
<1>5. CASE Drain(t)
  <2>1. CASE queue = <<>>
    BY Zenon, <1>4, <1>5, <2>1 DEF Drain, Delivery!vars
  <2>2. CASE queue # <<>>
    <3>1. /\ current = 0 /\ current' = Head(queue) /\ queue' = Tail(queue)
          /\ UNCHANGED pushed
      BY Zenon, <1>2, <1>5, <2>2 DEF Drain
    <3> QED
      BY Zenon, <1>4, <2>2, <3>1 DEF Delivery!Next, Delivery!Begin
  <2> QED
    BY Zenon, <2>1, <2>2
<1>6. CASE Skip(t) \/ EndCallback(t)
  <2>1. current # 0 /\ current' = 0 /\ UNCHANGED <<queue, pushed>>
    BY Zenon, <1>2, <1>6 DEF Skip, EndCallback
  <2> QED
    BY Zenon, <1>4, <2>1 DEF Delivery!Next, Delivery!End
<1>7. CASE Callback(t)
  BY Zenon, <1>4, <1>7 DEF Callback, work, Delivery!vars
<1>8. CASE Reenter(t)
  BY Zenon, <1>4, <1>8 DEF Reenter, Delivery!Next, Delivery!Take
<1> QED
  BY Zenon, <1>5, <1>6, <1>7, <1>8 DEF DrainStep

LEMMA CloserRefines ==
    ASSUME IInv, IInv', NEW t \in AllClosers,
           (t \in Closers /\ (Close(t) \/ PyClose(t))) \/ CloseStep(t)
    PROVE  Delivery!Next \/ UNCHANGED Delivery!vars
<1>0. /\ t \in Threads /\ pc \in [Threads -> Places] /\ Subscriber \in Threads
      /\ t # Subscriber /\ (drainer = None => current = 0)
  BY Zenon, Roles DEF IInv, TypeInv, DrainInv
<1>1. pc'[Subscriber] = pc[Subscriber]
  BY Zenon, <1>0 DEF Close, PyClose, CloseStep, CloseState, CloseAwait, CloseReset, CloseQuiesce,
              TakeMutex, CloseChannel, Join, EndClose, SecondClose, Goto
<1>2. CASE Close(t) \/ PyClose(t) \/ CloseAwait(t) \/ CloseReset(t) \/ TakeMutex(t)
           \/ CloseChannel(t) \/ Join(t)
  <2>1. Quiet
    BY Zenon, <1>1, <1>2 DEF Quiet, Close, PyClose, CloseAwait, CloseReset, TakeMutex, CloseChannel,
                      Join, admission, work
  <2> QED
    BY Zenon, <2>1, QuietStutters
<1>3. CASE CloseState(t)
  <2>1. pc[t] = "close"
    BY Zenon, <1>3 DEF CloseState
  <2>2. pc[Subscriber] = "subscribed"
    BY Zenon, <2>1 DEF IInv, SubscribeInv
  <2>3. ~staging /\ ~staging'
    BY Zenon, <1>1, <2>2 DEF IInv, SubscribeInv, StartPlaces
  <2>4. UNCHANGED <<queue, pushed, current, close_finished>>
    BY Zenon, <1>3 DEF CloseState, admission, work
  <2>5. DeliveryState' = DeliveryState
    BY <1>1, <2>3, <2>4, StateFacts, StateFactsNext
  <2> QED
    BY Zenon, <2>4, <2>5 DEF Delivery!vars
<1>4. CASE CloseQuiesce(t)
  <2>1. /\ queue = <<>> /\ current = 0 /\ close_finished'
        /\ UNCHANGED <<queue, pushed, current, staging>>
    BY Zenon, <1>0, <1>4 DEF CloseQuiesce, work
  <2>2. CASE close_finished
    <3>1. Quiet
      BY Zenon, <1>1, <2>1, <2>2 DEF Quiet
    <3> QED
      BY Zenon, <3>1, QuietStutters
  <2>3. CASE ~close_finished
    <3>1. pc[t] = "quiesce"
      BY Zenon, <1>4 DEF CloseQuiesce
    <3>2. pc[Subscriber] = "subscribed"
      BY Zenon, <3>1 DEF IInv, SubscribeInv
    <3>3. ~staging
      BY Zenon, <3>2 DEF IInv, SubscribeInv, StartPlaces
    <3>4. DeliveryState = "open" /\ DeliveryState' = "closed"
      BY Zenon, <2>1, <2>3, <3>2, <3>3, StateFacts, StateFactsNext
    <3> QED
      BY Zenon, <2>1, <3>4 DEF Delivery!Next, Delivery!Close
  <2> QED
    BY Zenon, <2>2, <2>3
<1> QED
  BY Zenon, <1>2, <1>3, <1>4 DEF CloseStep

LEMMA DispatcherRefines ==
    ASSUME IInv, IInv', DispatchStep \/ SelfClose
    PROVE  UNCHANGED Delivery!vars
<1>1. /\ Dispatcher \in Threads /\ Subscriber \in Threads /\ Dispatcher # Subscriber
      /\ pc \in [Threads -> Places]
  BY Zenon, Roles DEF IInv, TypeInv
<1>2. pc'[Subscriber] = pc[Subscriber]
  BY Zenon, <1>1 DEF DispatchStep, SelfClose, StartDispatcher, Loop, Pop, CallPython, PythonReturns,
              Finally, Goto
<1>3. UNCHANGED <<queue, pushed, current, staging, close_finished>>
  BY Zenon DEF DispatchStep, SelfClose, StartDispatcher, Loop, Pop, CallPython, PythonReturns, Finally,
         admission, work
<1> QED
  BY Zenon, <1>2, <1>3, QuietStutters DEF Quiet

LEMMA RefinesStep == IInv /\ IInv' /\ [Next]_vars => [Delivery!Next]_Delivery!vars
<1> SUFFICES ASSUME IInv, IInv', [Next]_vars
             PROVE  Delivery!Next \/ UNCHANGED Delivery!vars
  BY Zenon
<1>1. CASE \E t \in Closers : Close(t) \/ PyClose(t)
  BY Zenon, <1>1, Roles, CloserRefines
<1>2. CASE \E t \in Closers \union {Dispatcher} : CloseStep(t)
  BY Zenon, <1>2, CloserRefines DEF AllClosers
<1>3. CASE UNCHANGED vars
  <2>1. Quiet
    BY Zenon, <1>3 DEF Quiet, vars, admission, work
  <2> QED
    BY Zenon, <2>1, QuietStutters
<1> QED
  BY Zenon, <1>1, <1>2, <1>3, SubscriberRefines, NativeRefines, DrainerRefines, DispatcherRefines
     DEF Next

\* The subscription delivers one change at a time, each at most once, in the
\* order it took them in, drops staged ones only if the declaration failed, and
\* neither delivers nor holds anything once a close has returned.  It implements
\* SerialDelivery (OnSample, Drain, FailStaging, CloseState).
THEOREM SubscriptionDelivers == Spec => DeliversSerially
<1>1. Init => Delivery!Init
  BY Zenon DEF Init, Delivery!Init, DeliveryState, Threads, Drainers
<1> QED
  BY <1>1, Inductive, RefinesStep, PTL DEF Spec, DeliversSerially, Delivery!Spec

-----------------------------------------------------------------------------
(* The Python callback.                                                     *)

\* The dispatcher stays where it is, or it is neither dead nor still to be
\* started by a C++ caller and enters a callback only if nobody has closed the
\* subscription.
DispatcherMoves ==
    \/ pc'[Dispatcher] = pc[Dispatcher] /\ after' = after
    \/ /\ pc[Dispatcher] # "dead"
       /\ pc[Dispatcher] = "idle" => binding = "python"
       /\ InCallback' => InCallback \/ ~closed

LEMMA OthersLeaveDispatcher ==
    ASSUME IInv, Next
    PROVE  DispatcherMoves \/ CloseStep(Dispatcher) \/ DispatchStep \/ SelfClose
<1>0. /\ Subscriber \in Threads /\ Dispatcher \in Threads /\ Subscriber # Dispatcher
      /\ Dispatcher \notin Natives /\ Dispatcher \notin Drainers /\ Dispatcher \notin Closers
      /\ Natives \subseteq Threads /\ Drainers \subseteq Threads /\ Closers \subseteq Threads
      /\ pc \in [Threads -> Places]
  BY Zenon, Roles DEF IInv, TypeInv
<1>1. ASSUME NEW t \in Threads \ {Dispatcher}, NEW next, Goto(t, next)
      PROVE  pc'[Dispatcher] = pc[Dispatcher]
  BY Zenon, <1>0, <1>1 DEF Goto
<1>2. Declare \/ SubscribeStep => pc'[Dispatcher] = pc[Dispatcher] /\ after' = after
  BY Zenon, <1>0, <1>1 DEF Declare, SubscribeStep, DeclareFails, FailStaging, Activate, python
<1>3. ASSUME NEW t \in Natives, Arrive(t) \/ SampleStep(t)
      PROVE  pc'[Dispatcher] = pc[Dispatcher] /\ after' = after
  BY Zenon, <1>0, <1>1, <1>3 DEF Arrive, SampleStep, Admit, Push, Wait, CompleteNative, python
<1>4. ASSUME NEW t \in Drainers, DrainStep(t) \/ Reenter(t)
      PROVE  pc'[Dispatcher] = pc[Dispatcher] /\ after' = after
  BY Zenon, <1>0, <1>1, <1>4 DEF DrainStep, Drain, Skip, Callback, EndCallback, Reenter, python
<1>5. ASSUME NEW t \in Closers, Close(t) \/ PyClose(t) \/ CloseStep(t)
      PROVE  pc'[Dispatcher] = pc[Dispatcher] /\ after' = after
  BY Zenon, <1>0, <1>1, <1>5 DEF Close, PyClose, CloseStep, CloseState, CloseAwait, CloseReset,
                          CloseQuiesce, TakeMutex, CloseChannel, Join, EndClose, SecondClose, python
<1> QED
  BY Zenon, <1>2, <1>3, <1>4, <1>5 DEF Next, DispatcherMoves

LEMMA DispatcherStays == IInv /\ [Next]_vars => DispatcherMoves
<1> SUFFICES ASSUME IInv, [Next]_vars PROVE DispatcherMoves
  BY Zenon
<1>0. Dispatcher \in Threads /\ pc \in [Threads -> Places]
  BY Zenon, Roles DEF IInv, TypeInv
<1>1. ASSUME NEW next, Goto(Dispatcher, next) PROVE pc'[Dispatcher] = next
  BY Zenon, <1>0, <1>1 DEF Goto
<1>2. CASE CloseStep(Dispatcher)
  <2>1. pc[Dispatcher] \in ClosePlaces /\ after' = after
    BY Zenon, <1>2 DEF CloseStep, CloseState, CloseAwait, CloseReset, CloseQuiesce, TakeMutex,
                CloseChannel, Join, python, ClosePlaces, IInv, PlaceInv
  <2>2. InCallback' => after = "running"
    <3>1. CASE CloseChannel(Dispatcher)
      BY Zenon, <1>1, <2>1, <3>1 DEF CloseChannel, AfterChannel, InCallback
    <3>2. CASE ~CloseChannel(Dispatcher)
      BY Zenon, <1>1, <1>2, <2>1, <3>2 DEF CloseStep, CloseState, CloseAwait, CloseReset, CloseQuiesce,
                TakeMutex, Join, EndClose, SecondClose, InCallback
    <3> QED
      BY Zenon, <3>1, <3>2
  <2> QED
    BY Zenon, <2>1, <2>2 DEF DispatcherMoves, InCallback, ClosePlaces
<1>3. CASE StartDispatcher \/ Loop \/ Pop \/ PythonReturns
  <2>1. /\ pc[Dispatcher] # "dead" /\ (pc[Dispatcher] = "idle" => binding = "python")
        /\ pc'[Dispatcher] \in {"loop", "pop", "got", "finally"}
    BY Zenon, <1>1, <1>3 DEF StartDispatcher, Loop, Pop, PythonReturns
  <2> QED
    BY Zenon, <2>1 DEF DispatcherMoves, InCallback
<1>4. CASE CallPython
  BY Zenon, <1>1, <1>4 DEF CallPython, DispatcherMoves, InCallback
<1>5. CASE Finally
  BY Zenon, <1>1, <1>5 DEF Finally, DispatcherMoves, InCallback
<1>6. CASE SelfClose
  BY Zenon, <1>6 DEF SelfClose, DispatcherMoves, InCallback
<1>7. CASE UNCHANGED vars
  BY Zenon, <1>7 DEF vars, python, DispatcherMoves
<1> QED
  BY Zenon, <1>2, <1>3, <1>4, <1>5, <1>6, <1>7, OthersLeaveDispatcher DEF DispatchStep

\* Once a close by another thread has returned no Python callback is running or
\* starts, and once one from the callback has returned no other callback starts,
\* however many threads close the subscription (Subscription.close, _dispatch).
THEOREM PythonCallbackStops == Spec => PythonIsQuiet
<1>1. ASSUME IInv, [Next]_vars, returned \intersect Closers # {} PROVE ~InCallback'
  <2>1. pc[Dispatcher] = "dead" \/ (binding = "cpp" /\ pc[Dispatcher] = "idle")
    BY Zenon, <1>1 DEF IInv, TypeInv, PythonInv
  <2> QED
    BY Zenon, <1>1, <2>1, DispatcherStays DEF DispatcherMoves, InCallback
<1>2. ASSUME IInv, [Next]_vars, Dispatcher \in returned, InCallback' PROVE InCallback
  <2>1. closed
    BY Zenon, <1>2 DEF IInv, PythonInv
  <2> QED
    BY Zenon, <1>2, <2>1, DispatcherStays DEF DispatcherMoves, InCallback
<1>3. IInv /\ [Next]_vars =>
        [/\ returned \intersect Closers # {} => ~InCallback'
         /\ (Dispatcher \in returned /\ InCallback') => InCallback]_vars
  BY Zenon, <1>1, <1>2
<1> QED
  BY <1>3, Inductive, PTL DEF Spec, PythonIsQuiet
=============================================================================
