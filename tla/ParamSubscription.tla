-------------------------- MODULE ParamSubscription --------------------------
(***************************************************************************)
(* One ParamStore subscription (param_subscription.cpp) over the Zenoh     *)
(* subscriber it declares (zenoh_transport.cpp), used from C++ or through  *)
(* the Python channel and dispatcher thread (callback_dispatcher.cpp,      *)
(* subscription.py).                                                       *)
(*                                                                         *)
(* Samples arrive on the transport's own threads, several at a time.  A    *)
(* sample stands for its position in the queue.  Undeclaring the           *)
(* subscriber does not wait for a callback that has begun.  A section      *)
(* under the state's mutex, the channel's mutex or an item's mutex is one  *)
(* step.                                                                   *)
(***************************************************************************)
EXTENDS Naturals, Sequences

CONSTANTS
    Natives,     \* transport threads that run subscriber callbacks
    Closers,     \* threads that close the subscription
    Subscriber,  \* the thread inside Subscribe
    Dispatcher,  \* the Python dispatcher thread
    None,        \* no thread
    Bindings,    \* subset of {"cpp", "python"}: who owns the subscription
    MaxSamples   \* bound: samples that reach the subscriber

Drainers == Natives \union {Subscriber}
Threads == Drainers \union Closers \union {Dispatcher}

ASSUME ThreadsAssumption ==
    /\ Natives \intersect Closers = {}
    /\ {Subscriber, Dispatcher, None} \intersect (Natives \union Closers) = {}
    /\ Subscriber # Dispatcher /\ None \notin {Subscriber, Dispatcher}
ASSUME BindingsAssumption == Bindings \subseteq {"cpp", "python"}

VARIABLES
    binding,                 \* who uses the subscription
    arrived, active,         \* samples so far; SubscriberState::active
    accepting, staging, close_started, close_finished,
    drainer,                 \* drainer and drainer_id
    native_in_flight,        \* the natives it counts
    queue, pushed,           \* queue of items; items pushed so far
    current, complete,       \* the item being delivered; items completed
    item,                    \* the item a native waits for
    pc,
    close_mutex,             \* PySubscriptionChannel::close_mutex_
    pending, channel_closed, \* CallbackChannel
    closed, after,           \* Subscription._closed; where the dispatcher goes on
    returned                 \* history: threads whose close has returned

native == <<arrived, active>>
admission == <<accepting, staging, close_started, close_finished>>
work == <<drainer, queue, pushed, current, complete>>
python == <<close_mutex, pending, channel_closed, closed, after>>
vars == <<binding, native, admission, work, native_in_flight, item, pc, python, returned>>

Init ==
    /\ binding \in Bindings
    /\ arrived = 0 /\ active = FALSE
    /\ accepting = TRUE /\ staging = TRUE /\ close_started = FALSE /\ close_finished = FALSE
    /\ drainer = None /\ native_in_flight = {}
    /\ queue = <<>> /\ pushed = 0 /\ current = 0 /\ complete = {}
    /\ item = [t \in Natives |-> 0]
    /\ pc = [t \in Threads |-> "idle"]
    /\ close_mutex = None /\ pending = <<>> /\ channel_closed = FALSE
    /\ closed = FALSE /\ after = "running"
    /\ returned = {}

Goto(t, next) == pc' = [pc EXCEPT ![t] = next]

-----------------------------------------------------------------------------
(* Subscribe.                                                               *)

\* DeclareSubscriber: samples may arrive before it returns.
Declare ==
    /\ pc[Subscriber] = "idle"
    /\ active' = TRUE
    /\ Goto(Subscriber, "declared")
    /\ UNCHANGED <<binding, arrived, admission, work, native_in_flight, item, python, returned>>

\* It fails: the transport resets the handle and FailStaging stops admission.
DeclareFails ==
    /\ pc[Subscriber] = "declared"
    /\ active' = FALSE /\ accepting' = FALSE
    /\ Goto(Subscriber, "failing")
    /\ UNCHANGED <<binding, arrived, staging, close_started, close_finished, work,
                   native_in_flight, item, python, returned>>

\* Mutant: staged samples are dropped while one may still be pushed.
NativesGoneNever == TRUE

\* No subscriber callback is inside the subscription.
NativesGone == native_in_flight = {}

\* FailStaging: what was staged is dropped once no callback is left.
FailStaging ==
    /\ pc[Subscriber] = "failing" /\ NativesGone
    /\ queue' = <<>> /\ staging' = FALSE
    /\ Goto(Subscriber, "failed")
    /\ UNCHANGED <<binding, native, accepting, close_started, close_finished, drainer, pushed,
                   current, complete, native_in_flight, item, python, returned>>

\* ActivateAndDrain: the subscribing thread delivers what was staged.
Activate ==
    /\ pc[Subscriber] = "declared"
    /\ staging' = FALSE
    /\ IF queue # <<>>
          THEN drainer' = Subscriber /\ Goto(Subscriber, "drain")
          ELSE UNCHANGED drainer /\ Goto(Subscriber, "subscribed")
    /\ UNCHANGED <<binding, native, accepting, close_started, close_finished, queue, pushed,
                   current, complete, native_in_flight, item, python, returned>>

-----------------------------------------------------------------------------
(* Samples.                                                                 *)

\* OnSubscriberSample: the sample reaches an active subscriber.
Arrive(t) ==
    /\ pc[t] = "idle" /\ active /\ arrived < MaxSamples
    /\ arrived' = arrived + 1
    /\ Goto(t, "enter")
    /\ UNCHANGED <<binding, active, admission, work, native_in_flight, item, python, returned>>

\* OnSample: admission.
Admit(t) ==
    /\ pc[t] = "enter"
    /\ IF accepting
          THEN native_in_flight' = native_in_flight \union {t} /\ Goto(t, "push")
          ELSE UNCHANGED native_in_flight /\ Goto(t, "idle")
    /\ UNCHANGED <<binding, native, admission, work, item, python, returned>>

\* The item is queued.  While staging it stays there; the first thread to find
\* no drainer becomes it, any other waits for its own item.
Push(t) ==
    /\ pc[t] = "push"
    /\ queue' = Append(queue, pushed + 1) /\ pushed' = pushed + 1
    /\ IF staging THEN Goto(t, "leave") /\ UNCHANGED <<drainer, item>>
       ELSE IF drainer = None THEN drainer' = t /\ Goto(t, "drain") /\ UNCHANGED item
       ELSE item' = [item EXCEPT ![t] = pushed + 1] /\ Goto(t, "wait") /\ UNCHANGED drainer
    /\ UNCHANGED <<binding, native, admission, current, complete, native_in_flight, python,
                   returned>>

Wait(t) ==
    /\ pc[t] = "wait" /\ item[t] \in complete
    /\ item' = [item EXCEPT ![t] = 0]
    /\ Goto(t, "leave")
    /\ UNCHANGED <<binding, native, admission, work, native_in_flight, python, returned>>

\* CompleteNative
CompleteNative(t) ==
    /\ pc[t] = "leave"
    /\ native_in_flight' = native_in_flight \ {t}
    /\ Goto(t, "idle")
    /\ UNCHANGED <<binding, native, admission, work, item, python, returned>>

\* Drain takes the next item, or gives up its role in the section in which it found nothing.
Drain(t) ==
    /\ pc[t] = "drain"
    /\ IF queue = <<>>
          THEN /\ drainer' = None
               /\ Goto(t, IF t = Subscriber THEN "subscribed" ELSE "leave")
               /\ UNCHANGED <<queue, current>>
          ELSE /\ current' = Head(queue) /\ queue' = Tail(queue)
               /\ Goto(t, "deliver") /\ UNCHANGED drainer
    /\ UNCHANGED <<binding, native, admission, pushed, complete, native_in_flight, item, python,
                   returned>>

\* Deliver: a sample outside the scope or the prefix, or malformed, has no
\* change; CompletionGuard completes the item in any case.
Skip(t) ==
    /\ pc[t] = "deliver"
    /\ complete' = complete \union {current} /\ current' = 0
    /\ Goto(t, "drain")
    /\ UNCHANGED <<binding, native, admission, drainer, queue, pushed, native_in_flight, item,
                   python, returned>>

\* CallbackChannel::Push
ChannelPush(change) == IF channel_closed THEN pending ELSE Append(pending, change)

\* Deliver: the callback is called with the change and returns, or throws, which
\* is contained.  The callback of the Python channel is CallbackChannel::Push.
Callback(t) ==
    /\ pc[t] = "deliver"
    /\ pending' = IF binding = "python" THEN ChannelPush(current) ELSE pending
    /\ Goto(t, "called")
    /\ UNCHANGED <<binding, native, admission, work, native_in_flight, item, close_mutex,
                   channel_closed, closed, after, returned>>

EndCallback(t) ==
    /\ pc[t] = "called"
    /\ complete' = complete \union {current} /\ current' = 0
    /\ Goto(t, "drain")
    /\ UNCHANGED <<binding, native, admission, drainer, queue, pushed, native_in_flight, item,
                   python, returned>>

\* OnSample on the drainer's own thread, from inside the callback: the item is
\* queued and the nested call returns.  It is counted in and out in one step,
\* as its thread is the drainer throughout.
Reenter(t) ==
    /\ pc[t] = "called" /\ binding = "cpp"
    /\ active /\ accepting /\ arrived < MaxSamples
    /\ arrived' = arrived + 1
    /\ queue' = Append(queue, pushed + 1) /\ pushed' = pushed + 1
    /\ UNCHANGED <<binding, active, admission, drainer, current, complete, native_in_flight, item,
                   pc, python, returned>>

-----------------------------------------------------------------------------
(* ParamSubscription::Close, called from C++ or under close_mutex_.         *)

Close(t) ==
    /\ pc[t] = "idle" /\ binding = "cpp" /\ pc[Subscriber] = "subscribed"
    /\ Goto(t, "close")
    /\ UNCHANGED <<binding, native, admission, work, native_in_flight, item, python, returned>>

\* Where CloseState returns to: the caller, or the closing of the channel.
EndClose(t) ==
    IF binding = "cpp" THEN Goto(t, "done") /\ returned' = returned \union {t}
    ELSE Goto(t, "channel") /\ UNCHANGED returned

\* A second Close waits for the first.
SecondClose(t) == Goto(t, "await") /\ UNCHANGED returned

\* CloseState: the first call stops admission.
CloseState(t) ==
    /\ pc[t] = "close"
    /\ \/ close_finished /\ EndClose(t) /\ UNCHANGED admission
       \/ close_started /\ ~close_finished /\ SecondClose(t) /\ UNCHANGED admission
       \/ /\ ~close_started
          /\ close_started' = TRUE /\ accepting' = FALSE /\ staging' = FALSE
          /\ Goto(t, "reset")
          /\ UNCHANGED <<close_finished, returned>>
    /\ UNCHANGED <<binding, native, work, native_in_flight, item, python>>

CloseAwait(t) ==
    /\ pc[t] = "await" /\ close_finished
    /\ EndClose(t)
    /\ UNCHANGED <<binding, native, admission, work, native_in_flight, item, python>>

\* Subscription::Reset
CloseReset(t) ==
    /\ pc[t] = "reset"
    /\ active' = FALSE
    /\ Goto(t, "quiesce")
    /\ UNCHANGED <<binding, arrived, admission, work, native_in_flight, item, python, returned>>

\* Everything admitted has been delivered.
CloseQuiesce(t) ==
    /\ pc[t] = "quiesce"
    /\ NativesGone /\ queue = <<>> /\ drainer = None
    /\ close_finished' = TRUE
    /\ EndClose(t)
    /\ UNCHANGED <<binding, native, accepting, staging, close_started, work, native_in_flight,
                   item, python>>

-----------------------------------------------------------------------------
(* Subscription.close and the dispatcher thread.                            *)

\* Subscription.close of another thread.
PyClose(t) ==
    /\ pc[t] = "idle" /\ pc[Dispatcher] # "idle"
    /\ closed' = TRUE
    /\ Goto(t, "mutex")
    /\ UNCHANGED <<binding, native, admission, work, native_in_flight, item, close_mutex, pending,
                   channel_closed, after, returned>>

\* CloseReleased takes close_mutex_.
TakeMutex(t) ==
    /\ pc[t] = "mutex" /\ close_mutex = None
    /\ close_mutex' = t
    /\ Goto(t, "close")
    /\ UNCHANGED <<binding, native, admission, work, native_in_flight, item, pending,
                   channel_closed, closed, after, returned>>

\* Mutant: close joins the dispatcher even from its own callback.
AfterChannelJoin(t) == "join"

\* The dispatcher never joins itself.
AfterChannel(t) == IF t = Dispatcher THEN after ELSE "join"

\* CallbackChannel::Close; a close from the callback has then returned.
CloseChannel(t) ==
    /\ pc[t] = "channel"
    /\ channel_closed' = TRUE /\ pending' = <<>>
    /\ close_mutex' = None
    /\ Goto(t, AfterChannel(t))
    /\ returned' = IF AfterChannel(t) = "running" THEN returned \union {t} ELSE returned
    /\ UNCHANGED <<binding, native, admission, work, native_in_flight, item, closed, after>>

\* Mutant: the thread is not joined.
DispatcherGoneNever == TRUE

\* The dispatcher thread has ended.
DispatcherGone == pc[Dispatcher] = "dead"

Join(t) ==
    /\ pc[t] = "join" /\ DispatcherGone
    /\ Goto(t, "done")
    /\ returned' = returned \union {t}
    /\ UNCHANGED <<binding, native, admission, work, native_in_flight, item, python>>

\* Subscription._start
StartDispatcher ==
    /\ pc[Dispatcher] = "idle" /\ binding = "python" /\ pc[Subscriber] = "subscribed"
    /\ Goto(Dispatcher, "loop")
    /\ UNCHANGED <<binding, native, admission, work, native_in_flight, item, python, returned>>

\* _dispatch: the loop condition.
Loop ==
    /\ pc[Dispatcher] = "loop"
    /\ Goto(Dispatcher, IF closed THEN "finally" ELSE "pop")
    /\ UNCHANGED <<binding, native, admission, work, native_in_flight, item, python, returned>>

\* CallbackChannel::Pop: a closed channel yields None.
Pop ==
    /\ pc[Dispatcher] = "pop" /\ (channel_closed \/ pending # <<>>)
    /\ IF channel_closed THEN Goto(Dispatcher, "finally") /\ UNCHANGED pending
       ELSE Goto(Dispatcher, "got") /\ pending' = Tail(pending)
    /\ UNCHANGED <<binding, native, admission, work, native_in_flight, item, close_mutex,
                   channel_closed, closed, after, returned>>

\* The change is dropped if the subscription was closed since.
CallPython ==
    /\ pc[Dispatcher] = "got"
    /\ Goto(Dispatcher, IF closed THEN "finally" ELSE "running")
    /\ UNCHANGED <<binding, native, admission, work, native_in_flight, item, python, returned>>

\* The callback returns or raises; either way dispatch continues.
PythonReturns ==
    /\ pc[Dispatcher] = "running"
    /\ Goto(Dispatcher, "loop")
    /\ UNCHANGED <<binding, native, admission, work, native_in_flight, item, python, returned>>

\* Subscription.close from the subscription's own callback.
SelfClose ==
    /\ pc[Dispatcher] = "running" /\ Dispatcher \notin returned
    /\ closed' = TRUE /\ after' = "running"
    /\ Goto(Dispatcher, "mutex")
    /\ UNCHANGED <<binding, native, admission, work, native_in_flight, item, close_mutex, pending,
                   channel_closed, returned>>

\* The dispatcher closes the channel before it ends.
Finally ==
    /\ pc[Dispatcher] = "finally"
    /\ closed' = TRUE /\ after' = "dead"
    /\ Goto(Dispatcher, "mutex")
    /\ UNCHANGED <<binding, native, admission, work, native_in_flight, item, close_mutex, pending,
                   channel_closed, returned>>

-----------------------------------------------------------------------------
SampleStep(t) == Admit(t) \/ Push(t) \/ Wait(t) \/ CompleteNative(t)
DrainStep(t) == Drain(t) \/ Skip(t) \/ Callback(t) \/ EndCallback(t)
CloseStep(t) ==
    \/ CloseState(t) \/ CloseAwait(t) \/ CloseReset(t) \/ CloseQuiesce(t)
    \/ TakeMutex(t) \/ CloseChannel(t) \/ Join(t)
SubscribeStep == DeclareFails \/ FailStaging \/ Activate
DispatchStep == StartDispatcher \/ Loop \/ Pop \/ CallPython \/ PythonReturns \/ Finally

Next ==
    \/ Declare \/ SubscribeStep
    \/ \E t \in Natives : Arrive(t) \/ SampleStep(t)
    \/ \E t \in Drainers : DrainStep(t) \/ Reenter(t)
    \/ \E t \in Closers : Close(t) \/ PyClose(t)
    \/ \E t \in Closers \union {Dispatcher} : CloseStep(t)
    \/ DispatchStep \/ SelfClose

Spec == Init /\ [][Next]_vars

\* A thread inside a call keeps running, and callbacks return.  Nothing is
\* assumed of the arrival of samples or of calls to close.
FairSpec ==
    /\ Spec
    /\ WF_vars(SubscribeStep) /\ WF_vars(DispatchStep)
    /\ \A t \in Natives : WF_vars(SampleStep(t))
    /\ \A t \in Drainers : WF_vars(DrainStep(t))
    /\ \A t \in Closers \union {Dispatcher} : WF_vars(CloseStep(t))

-----------------------------------------------------------------------------
(* Properties.                                                              *)

\* Where the subscription is in the life that SerialDelivery describes.
DeliveryState ==
    IF pc[Subscriber] = "failed" THEN "failed"
    ELSE IF close_finished \/ returned \intersect Closers # {} THEN "closed"
    ELSE IF staging THEN "staging" ELSE "open"

Delivery == INSTANCE SerialDelivery WITH
    taken <- pushed, delivering <- current, state <- DeliveryState

\* The subscription delivers serially, in order and without loss, drops what was
\* staged only if the declaration failed, and is quiet once a Close, the first or
\* another, has returned (OnSample, Drain, FailStaging, CloseState).
DeliversSerially == Delivery!Spec

\* The Python callback is running, possibly inside its own close.
InCallback ==
    \/ pc[Dispatcher] = "running"
    \/ after = "running" /\ pc[Dispatcher] \in {"mutex", "close", "await", "reset", "quiesce",
                                                "channel"}

\* Once a close by another thread has returned no Python callback is running or
\* starts; once a close from the callback itself has returned no other one starts
\* ("no callback starts after this returns", Subscription.close).
PythonIsQuiet ==
    [][/\ returned \intersect Closers # {} => ~InCallback'
       /\ (Dispatcher \in returned /\ InCallback') => InCallback]_vars

\* Every thread gets out again: native callbacks, Subscribe, every close, and the
\* dispatcher once the subscription is closed (OnSample, CloseState, close).
SubscriptionCallsReturn ==
    /\ \A t \in Natives : pc[t] # "idle" ~> pc[t] = "idle"
    /\ pc[Subscriber] # "idle" ~> pc[Subscriber] \in {"failed", "subscribed"}
    /\ \A t \in Closers : pc[t] # "idle" ~> pc[t] = "done"
    /\ closed ~> pc[Dispatcher] = "dead"
=============================================================================
