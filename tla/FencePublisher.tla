---------------------------- MODULE FencePublisher ----------------------------
(***************************************************************************)
(* The sending side of a fence: one FencePublisher used by several threads, *)
(* with the two calls that drive it, ParamCache::WaitForLocalDelivery       *)
(* (target = "Cache") and BufferPublisher::Fence (target = "Buffer").       *)
(* Callers submit data, run a fence (BeginFence, then Wait on its handle)   *)
(* or close the publisher.  Callback threads bring the answers of a Cache   *)
(* target to Complete; the Wait of a Buffer target polls for them.          *)
(*                                                                          *)
(* lane_mutex_ is the variable lane.  A section under waiter_mutex_, a      *)
(* waiter's mutex or wait_lifecycle_mutex_ is a single step.  Time is       *)
(* reduced to whether a handle's deadline has passed.  The receiver is      *)
(* abstract: it takes what was put in order, may miss samples, and answers  *)
(* Ok only if it has stored everything the marker covers, which is what     *)
(* FenceReceiver guarantees.                                                *)
(***************************************************************************)
EXTENDS Naturals, Sequences, FiniteSets

CONSTANTS
    Callers,       \* application threads
    Callbacks,     \* receiver threads that run Complete
    NoThread,      \* lane_mutex_ is free
    Targets,       \* values of FencePublisherTarget: "Cache", "Buffer"
    MaxSequence,   \* scaled UINT64_MAX
    MaxFences      \* bound: fences begun

ASSUME TargetsAssumption == Targets \subseteq {"Cache", "Buffer"}
ASSUME BoundsAssumption == MaxSequence \in Nat \ {0} /\ MaxFences \in Nat
ASSUME ThreadsAssumption == Callers \intersect Callbacks = {} /\ NoThread \notin Callers

Threads == Callers \union Callbacks
Handle == 1 .. MaxFences
Answer == {"none", "Ok", "Failed"}
Verdict == Answer \union {"Disconnected", "Timeout"}

VARIABLES
    target,                        \* the FencePublisherTarget it was made for
    replaced,                      \* the transport's FenceGeneration has changed
    accepting, active, quiescing,  \* wait_lifecycle_mutex_: active is a set
    mismatch, disconnected,        \* generation_mismatch_, disconnected_
    lane, last,                    \* lane_mutex_ and last_sequence_
    pending,                       \* pending_, 0 when empty
    waiter, through,               \* the handles' waiters and covered prefixes
    expired, begun,                \* their deadlines; how many there are
    pc, hd,                        \* the threads and their handles
    got, mm,                       \* a completion's result and sampled mismatch
    ret, victim,                   \* after a disconnect; the waiter it cancels
    wire, seen, stored, answer,    \* what was put; the receiver
    overdue,                       \* history: answers given after the replacement
    verdict, closed                \* history: what callers were told

lifecycle == <<accepting, active, quiescing>>
connection == <<replaced, mismatch, disconnected>>
handles == <<waiter, through, expired, begun>>
receiver == <<seen, stored, answer, overdue>>
result == <<got, mm>>
locals == <<hd, ret, victim, result>>
outcome == <<verdict, closed>>
vars == <<target, lifecycle, connection, lane, last, pending, handles, pc, locals, wire, receiver,
          outcome>>

-----------------------------------------------------------------------------
\* FenceWaiterState: at tells whether completed_at is unset, before the
\* handle's deadline or not.
Waiter == [terminal: BOOLEAN, reserved: BOOLEAN, bound: BOOLEAN,
           result: {"none", "Ok", "Failed", "Disconnected"}, at: {"none", "before", "late"}]
NewWaiter == [terminal |-> FALSE, reserved |-> FALSE, bound |-> FALSE,
              result |-> "none", at |-> "none"]

\* exhausted_ is set when the last sequence has been drawn.
exhausted == last = MaxSequence

Now(h) == IF expired[h] THEN "late" ELSE "before"

TerminalResultBefore(h) == waiter[h].terminal /\ waiter[h].at = "before"

\* What Wait returns: a result that carries an instant before the deadline.
Settled(w) == IF w.at = "before" THEN w.result ELSE "Timeout"

\* A terminal DisconnectedResult for handle h.
Cancelled(h) ==
    [waiter[h] EXCEPT !.terminal = TRUE, !.bound = FALSE, !.result = "Disconnected",
                      !.at = Now(h)]

PC == {"idle", "submit", "put", "recheck", "begin", "marker", "fenced", "cancel", "cancelled",
       "quiesce", "quiescing", "handle", "wait", "admit", "check", "waiting", "observed",
       "release", "sample", "reserve", "validate", "publish", "published", "mark",
       "close", "drain"}

Init ==
    /\ target \in Targets
    /\ replaced = FALSE /\ mismatch = FALSE /\ disconnected = FALSE
    /\ accepting = TRUE /\ active = {} /\ quiescing = FALSE
    /\ lane = NoThread /\ last = 0 /\ pending = 0
    /\ waiter = [h \in Handle |-> NewWaiter] /\ through = [h \in Handle |-> 0]
    /\ expired = [h \in Handle |-> FALSE] /\ begun = 0
    /\ pc = [t \in Threads |-> "idle"] /\ hd = [t \in Threads |-> 0]
    /\ got = [t \in Threads |-> "none"] /\ mm = [t \in Threads |-> FALSE]
    /\ ret = [t \in Threads |-> "idle"] /\ victim = [t \in Threads |-> 0]
    /\ wire = <<>> /\ seen = 0 /\ stored = {}
    /\ answer = [h \in Handle |-> "none"] /\ overdue = {}
    /\ verdict = [h \in Handle |-> "none"] /\ closed = FALSE

Goto(t, next) == pc' = [pc EXCEPT ![t] = next]

\* Mutant: the lane is not locked.
LaneShared == TRUE

\* lane_mutex_ can be taken.
LaneFree == lane = NoThread

\* pending_ after the waiter of h is removed from it.
Removed(h) == IF pending = h THEN 0 ELSE pending

\* AdmitOperation
AdmitOperation(t) == accepting /\ active' = active \union {t}

\* The call ends: ActiveOperationGuard counts it out.
Leave(t) == Goto(t, "idle") /\ active' = active \ {t}

\* CheckGeneration succeeds.
GenerationCurrent == ~disconnected /\ ~mismatch /\ ~replaced

\* The generation sample of a wait or a completion.
Mismatched == mismatch \/ replaced

\* CheckGeneration failed: Disconnect, unless done before, then quiesce the
\* peers with the lane released and go to next.
Disconnect(t, next) ==
    /\ disconnected' = TRUE
    /\ accepting' = IF disconnected THEN accepting ELSE FALSE
    /\ lane' = IF disconnected THEN NoThread ELSE t
    /\ Goto(t, IF disconnected THEN "quiesce" ELSE "cancel")
    /\ ret' = [ret EXCEPT ![t] = next]
    /\ UNCHANGED <<replaced, mismatch, active, quiescing, hd, victim, result>>

-----------------------------------------------------------------------------
(* CancelPendingWaiter and QuiescePeerOperations.                           *)

TakePending(t) ==
    /\ pc[t] = "cancel"
    /\ victim' = [victim EXCEPT ![t] = pending]
    /\ pending' = 0
    /\ Goto(t, "cancelled")
    /\ UNCHANGED <<lifecycle, connection, lane, last, handles, hd, ret, result, wire, receiver,
                   outcome>>

\* The waiter gets a terminal Disconnected unless it was decided before.
CancelWaiter(t) ==
    /\ pc[t] = "cancelled"
    /\ LET h == victim[t] IN
       waiter' = IF h = 0 \/ waiter[h].terminal THEN waiter
                 ELSE [waiter EXCEPT ![h] = Cancelled(h)]
    /\ lane' = IF lane = t THEN NoThread ELSE lane
    /\ victim' = [victim EXCEPT ![t] = 0]
    /\ Goto(t, IF ret[t] = "drain" THEN "drain" ELSE "quiesce")
    /\ UNCHANGED <<lifecycle, connection, last, pending, through, expired, begun, hd, ret, result,
                   wire, receiver, outcome>>

\* Continue where the quiescing operation was called.
Resume(t) ==
    /\ ret' = [ret EXCEPT ![t] = "idle"]
    /\ \/ ret[t] = "leave" /\ Leave(t)
       \/ ret[t] # "leave" /\ Goto(t, ret[t]) /\ UNCHANGED active

\* One operation at a time waits for its peers.
BeginQuiesce(t) ==
    /\ pc[t] = "quiesce"
    /\ IF quiescing
          THEN Resume(t) /\ UNCHANGED quiescing
          ELSE quiescing' = TRUE /\ Goto(t, "quiescing") /\ UNCHANGED <<active, ret>>
    /\ UNCHANGED <<accepting, connection, lane, last, pending, handles, hd, victim, result, wire,
                   receiver, outcome>>

\* Mutant: the waiting operation waits for itself too.
PeersAndSelfGone == active = {}

\* The operation that waits is itself active.
PeersGone == Cardinality(active) <= 1

EndQuiesce(t) ==
    /\ pc[t] = "quiescing"
    /\ PeersGone
    /\ quiescing' = FALSE
    /\ Resume(t)
    /\ UNCHANGED <<accepting, connection, lane, last, pending, handles, hd, victim, result, wire,
                   receiver, outcome>>

-----------------------------------------------------------------------------
(* SubmitData.                                                              *)

SubmitData(t) ==
    /\ pc[t] = "idle"
    /\ AdmitOperation(t)
    /\ Goto(t, "submit")
    /\ UNCHANGED <<accepting, quiescing, connection, lane, last, pending, handles, locals, wire,
                   receiver, outcome>>

\* Under lane_mutex: check the generation and draw the next sequence.
DrawSequence(t) ==
    /\ pc[t] = "submit" /\ LaneFree
    /\ \/ /\ ~GenerationCurrent
          /\ Disconnect(t, "leave")
          /\ UNCHANGED last
       \/ /\ GenerationCurrent
          /\ IF exhausted
                THEN Leave(t) /\ UNCHANGED <<lane, last>>
                ELSE lane' = t /\ last' = last + 1 /\ Goto(t, "put") /\ UNCHANGED active
          /\ UNCHANGED <<accepting, quiescing, connection, locals>>
    /\ UNCHANGED <<pending, handles, wire, receiver, outcome>>

\* Transport::Put: an error leaves it open whether the sample was sent; one that was
\* not is one the receiver misses.
Put(m) == wire' = Append(wire, m)

PutData(t) ==
    /\ pc[t] = "put"
    /\ Put([kind |-> "data", seq |-> last, handle |-> 0])
    /\ Goto(t, "recheck")
    /\ UNCHANGED <<lifecycle, connection, lane, last, pending, handles, locals, receiver, outcome>>

RecheckData(t) ==
    /\ pc[t] = "recheck"
    /\ \/ /\ ~GenerationCurrent
          /\ Disconnect(t, "leave")
       \/ /\ GenerationCurrent
          /\ lane' = NoThread
          /\ Leave(t)
          /\ UNCHANGED <<accepting, quiescing, connection, locals>>
    /\ UNCHANGED <<last, pending, handles, wire, receiver, outcome>>

-----------------------------------------------------------------------------
(* BeginFence.                                                              *)

BeginFence(t) ==
    /\ pc[t] = "idle"
    /\ begun + Cardinality({u \in Callers : pc[u] = "begin"}) < MaxFences
    /\ AdmitOperation(t)
    /\ Goto(t, "begin")
    /\ UNCHANGED <<accepting, quiescing, connection, lane, last, pending, handles, locals, wire,
                   receiver, outcome>>

\* Under lane_mutex: refuse a second pending fence, else publish the waiter and
\* its covered prefix before the marker is put.
PublishWaiter(t) ==
    /\ pc[t] = "begin" /\ LaneFree
    /\ \/ /\ ~GenerationCurrent
          /\ Disconnect(t, "leave")
          /\ UNCHANGED <<pending, through, begun>>
       \/ /\ GenerationCurrent
          /\ IF pending # 0
                THEN Leave(t) /\ UNCHANGED <<lane, pending, through, begun, hd>>
                ELSE /\ lane' = t
                     /\ begun' = begun + 1
                     /\ pending' = begun + 1
                     /\ hd' = [hd EXCEPT ![t] = begun + 1]
                     /\ through' = [through EXCEPT ![begun + 1] = last]
                     /\ Goto(t, "marker")
                     /\ UNCHANGED active
          /\ UNCHANGED <<accepting, quiescing, connection, ret, victim, result>>
    /\ UNCHANGED <<last, waiter, expired, wire, receiver, outcome>>

PutMarker(t) ==
    /\ pc[t] = "marker"
    /\ Put([kind |-> "marker", seq |-> through[hd[t]], handle |-> hd[t]])
    /\ Goto(t, "fenced")
    /\ UNCHANGED <<lifecycle, connection, lane, last, pending, handles, locals, receiver, outcome>>

RecheckMarker(t) ==
    /\ pc[t] = "fenced"
    /\ \/ /\ ~GenerationCurrent
          /\ Disconnect(t, "handle")
       \/ /\ GenerationCurrent
          /\ lane' = NoThread
          /\ Goto(t, "wait") /\ active' = active \ {t}
          /\ UNCHANGED <<accepting, quiescing, connection, locals>>
    /\ UNCHANGED <<last, pending, handles, wire, receiver, outcome>>

\* A result published on the bound generation before the replacement stands.
ReturnHandle(t) ==
    /\ pc[t] = "handle"
    /\ LET kept == TerminalResultBefore(hd[t]) /\ waiter[hd[t]].bound IN
       /\ Goto(t, IF kept THEN "wait" ELSE "idle")
       /\ verdict' = IF kept THEN verdict ELSE [verdict EXCEPT ![hd[t]] = "Disconnected"]
       /\ hd' = IF kept THEN hd ELSE [hd EXCEPT ![t] = 0]
    /\ active' = active \ {t}
    /\ UNCHANGED <<accepting, quiescing, connection, lane, last, pending, handles, ret, victim,
                   result, wire, receiver, closed>>

-----------------------------------------------------------------------------
(* Wait.                                                                    *)

\* The call is over: what it returned is recorded for handle h.
Tell(h, v) == verdict' = [verdict EXCEPT ![h] = v]

\* BufferPublisher::Fence closes the publisher after any failure of its wait.
EndFence(t, v) ==
    LET failed == target = "Buffer" /\ v # "Ok" IN
    /\ accepting' = (accepting /\ ~failed)
    /\ Goto(t, IF failed THEN "close" ELSE "idle")

\* A result published before the deadline is returned at once.
ReturnEarly(t) ==
    /\ pc[t] = "wait"
    /\ IF TerminalResultBefore(hd[t])
          THEN /\ Tell(hd[t], waiter[hd[t]].result)
               /\ hd' = [hd EXCEPT ![t] = 0]
               /\ EndFence(t, waiter[hd[t]].result)
          ELSE Goto(t, "admit") /\ UNCHANGED <<verdict, hd, accepting>>
    /\ UNCHANGED <<active, quiescing, connection, lane, last, pending, handles, ret, victim, result,
                   wire, receiver, closed>>

AdmitWait(t) ==
    /\ pc[t] = "admit"
    /\ AdmitOperation(t)
    /\ Goto(t, "check")
    /\ UNCHANGED <<accepting, quiescing, connection, lane, last, pending, handles, locals, wire,
                   receiver, outcome>>

\* Admission is closed: the wait ends as Disconnected, or Timeout when late.
RefuseWait(t) ==
    /\ pc[t] = "admit" /\ ~accepting
    /\ LET h == hd[t]
           ended == CASE waiter[h].terminal -> waiter[h]
                      [] ~waiter[h].terminal /\ expired[h] ->
                            [waiter[h] EXCEPT !.terminal = TRUE]
                      [] OTHER -> [Cancelled(h) EXCEPT !.bound = waiter[h].bound]
       IN /\ waiter' = [waiter EXCEPT ![h] = ended]
          /\ Tell(h, Settled(ended))
    /\ Goto(t, "release")
    /\ UNCHANGED <<lifecycle, connection, lane, last, pending, through, expired, begun, locals,
                   wire, receiver, closed>>

\* Admitted on a replaced generation: MarkGenerationMismatch, then cancel and
\* quiesce before waiting for the cancelled result.
CheckWait(t) ==
    /\ pc[t] = "check"
    /\ IF Mismatched
          THEN /\ mismatch' = TRUE
               /\ accepting' = FALSE
               /\ ret' = [ret EXCEPT ![t] = "waiting"]
               /\ Goto(t, "cancel")
          ELSE Goto(t, "waiting") /\ UNCHANGED <<mismatch, accepting, ret>>
    /\ UNCHANGED <<replaced, disconnected, active, quiescing, lane, last, pending, handles, hd,
                   victim, result, wire, receiver, outcome>>

\* Cache: wait_until(deadline, terminal); the timeout takes the terminal state,
\* and only a result with an instant before the deadline counts.
EndWait(t) ==
    /\ target = "Cache" /\ pc[t] = "waiting"
    /\ LET h == hd[t] IN
       /\ waiter[h].terminal \/ expired[h]
       /\ waiter' = [waiter EXCEPT ![h].terminal = TRUE]
       /\ Tell(h, Settled(waiter[h]))
    /\ Goto(t, "release")
    /\ UNCHANGED <<lifecycle, connection, lane, last, pending, through, expired, begun, locals,
                   wire, receiver, closed>>

\* Buffer: one round of PollAcknowledgement.  A cancelled or late poll ends;
\* an answer is published before it is returned; no answer is a retry.
Poll(t) ==
    /\ target = "Buffer" /\ pc[t] = "waiting"
    /\ LET h == hd[t] IN
       \/ /\ TerminalResultBefore(h) \/ expired[h]
          /\ Tell(h, IF TerminalResultBefore(h) THEN waiter[h].result ELSE "Timeout")
          /\ Goto(t, "release")
          /\ UNCHANGED got
       \/ /\ ~TerminalResultBefore(h) /\ ~expired[h] /\ answer[h] # "none"
          /\ got' = [got EXCEPT ![t] = answer[h]]
          /\ Goto(t, "sample")
          /\ UNCHANGED verdict
    /\ UNCHANGED <<lifecycle, connection, lane, last, pending, handles, hd, ret, victim, mm, wire,
                   receiver, closed>>

\* Buffer: the poll returned an answer, and the waiter decides.
SettlePoll(t) ==
    /\ pc[t] = "observed"
    /\ LET h == hd[t]
           ended == IF waiter[h].terminal \/ expired[h] THEN waiter[h]
                    ELSE [waiter[h] EXCEPT !.terminal = TRUE, !.result = got[t], !.at = "before"]
       IN /\ waiter' = [waiter EXCEPT ![h] = ended]
          /\ Tell(h, Settled(ended))
    /\ got' = [got EXCEPT ![t] = "none"]
    /\ Goto(t, "release")
    /\ UNCHANGED <<lifecycle, connection, lane, last, pending, through, expired, begun, hd, ret,
                   victim, mm, wire, receiver, closed>>

\* Every path but the early return removes its own waiter from pending_.
Release(t) ==
    /\ pc[t] = "release"
    /\ pending' = Removed(hd[t])
    /\ hd' = [hd EXCEPT ![t] = 0]
    /\ active' = active \ {t}
    /\ EndFence(t, verdict[hd[t]])
    /\ UNCHANGED <<quiescing, connection, lane, last, handles, ret, victim, result, wire, receiver,
                   outcome>>

-----------------------------------------------------------------------------
(* PublishWaiterResult, run by Complete and by the poll of a Buffer target. *)

\* Mutant: the token is not compared.
ClaimedAny(h) == pending

\* The waiter a token names: pending_ if it has that token, or none.
Claimed(h) == IF pending = h THEN h ELSE 0

\* Complete, run by the answer subscriber of a cache: only the answer to the
\* pending token is taken.
Complete(t, h) ==
    /\ target = "Cache" /\ pc[t] = "idle"
    /\ answer[h] # "none" /\ Claimed(h) # 0
    /\ hd' = [hd EXCEPT ![t] = Claimed(h)]
    /\ got' = [got EXCEPT ![t] = answer[h]]
    /\ Goto(t, "sample")
    /\ UNCHANGED <<lifecycle, connection, lane, last, pending, handles, ret, victim, mm, wire,
                   receiver, outcome>>

\* The generation is sampled outside the waiter's mutex.
Sample(t) ==
    /\ pc[t] = "sample"
    /\ mm' = [mm EXCEPT ![t] = Mismatched]
    /\ Goto(t, "reserve")
    /\ UNCHANGED <<lifecycle, connection, lane, last, pending, handles, hd, ret, victim, got, wire,
                   receiver, outcome>>

\* Where a publication that did not take place, or is over, returns to.
EndPublish(t) ==
    /\ Goto(t, IF t \in Callbacks THEN "idle" ELSE "observed")
    /\ hd' = IF t \in Callbacks THEN [hd EXCEPT ![t] = 0] ELSE hd
    /\ got' = IF t \in Callbacks THEN [got EXCEPT ![t] = "none"] ELSE got
    /\ mm' = [mm EXCEPT ![t] = FALSE]

\* Reserve the waiter with a provisional result that carries no instant.
Reserve(t) ==
    /\ pc[t] = "reserve"
    /\ LET h == hd[t] IN
       IF waiter[h].terminal \/ waiter[h].reserved
          THEN EndPublish(t) /\ UNCHANGED waiter
          ELSE /\ waiter' = [waiter EXCEPT
                     ![h].reserved = TRUE, ![h].bound = ~mm[t],
                     ![h].result = IF mm[t] THEN "Disconnected" ELSE got[t]]
               /\ Goto(t, "validate")
               /\ UNCHANGED <<hd, result>>
    /\ UNCHANGED <<lifecycle, connection, lane, last, pending, through, expired, begun, ret, victim,
                   wire, receiver, outcome>>

\* The final generation sample.
Validate(t) ==
    /\ pc[t] = "validate"
    /\ mm' = [mm EXCEPT ![t] = mm[t] \/ Mismatched]
    /\ Goto(t, "publish")
    /\ UNCHANGED <<lifecycle, connection, lane, last, pending, handles, hd, ret, victim, got, wire,
                   receiver, outcome>>

\* A cancellation or timeout has decided the waiter.
Decided(w) == w.terminal

\* Publish the terminal result, unless a cancellation or timeout came first.
Publish(t) ==
    /\ pc[t] = "publish"
    /\ LET h == hd[t]
           w == [waiter[h] EXCEPT !.reserved = FALSE] IN
       IF Decided(w)
          THEN waiter' = [waiter EXCEPT ![h] = w] /\ EndPublish(t)
          ELSE /\ waiter' = [waiter EXCEPT ![h] =
                     [w EXCEPT !.terminal = TRUE, !.at = Now(h), !.bound = w.bound /\ ~mm[t],
                               !.result = IF mm[t] THEN "Disconnected" ELSE w.result]]
               /\ Goto(t, IF t \in Callbacks THEN "published" ELSE "mark")
               /\ UNCHANGED <<hd, result>>
    /\ UNCHANGED <<lifecycle, connection, lane, last, pending, through, expired, begun, ret, victim,
                   wire, receiver, outcome>>

\* Complete removes the waiter it has published.
RemovePublished(t) ==
    /\ pc[t] = "published"
    /\ pending' = Removed(hd[t])
    /\ Goto(t, "mark")
    /\ UNCHANGED <<lifecycle, connection, lane, last, handles, locals, wire, receiver, outcome>>

\* MarkGenerationMismatch after a publication that saw a replacement.
Mark(t) ==
    /\ pc[t] = "mark"
    /\ mismatch' = (mismatch \/ mm[t])
    /\ accepting' = (accepting /\ ~mm[t])
    /\ EndPublish(t)
    /\ UNCHANGED <<active, quiescing, replaced, disconnected, lane, last, pending, handles, ret,
                   victim, wire, receiver, outcome>>

-----------------------------------------------------------------------------
(* Close, the environment and the abstract receiver.                        *)

Close(t) ==
    /\ pc[t] = "idle" /\ ~closed
    /\ accepting' = FALSE
    /\ Goto(t, "close")
    /\ UNCHANGED <<active, quiescing, connection, lane, last, pending, handles, locals, wire,
                   receiver, outcome>>

\* Disconnect under lane_mutex_.
CloseLane(t) ==
    /\ pc[t] = "close" /\ LaneFree
    /\ lane' = t
    /\ disconnected' = TRUE
    /\ ret' = [ret EXCEPT ![t] = "drain"]
    /\ Goto(t, "cancel")
    /\ UNCHANGED <<lifecycle, replaced, mismatch, last, pending, handles, hd, victim, result, wire,
                   receiver, outcome>>

\* Mutant: Close does not wait.
DrainedAtOnce == TRUE

\* Close returns when no admitted operation is left.
Drained == active = {}

EndClose(t) ==
    /\ pc[t] = "drain" /\ Drained
    /\ closed' = TRUE
    /\ ret' = [ret EXCEPT ![t] = "idle"]
    /\ Goto(t, "idle")
    /\ UNCHANGED <<lifecycle, connection, lane, last, pending, handles, hd, victim, result, wire,
                   receiver, verdict>>

\* The transport reconnects and announces another FenceGeneration.
Replace ==
    /\ ~replaced
    /\ replaced' = TRUE
    /\ UNCHANGED <<lifecycle, mismatch, disconnected, lane, last, pending, handles, pc, locals,
                   wire, receiver, outcome>>

\* The deadline, which starts immediately before the marker is put, passes while
\* somebody may still look at it.
Expire(h) ==
    /\ ~expired[h]
    /\ pending = h \/ \E t \in Threads : h \in {hd[t], victim[t]}
    /\ \A t \in Callers : hd[t] = h => pc[t] # "marker"
    /\ expired' = [expired EXCEPT ![h] = TRUE]
    /\ UNCHANGED <<target, lifecycle, connection, lane, last, pending, waiter, through, begun, pc,
                   locals, wire, receiver, outcome>>

\* The receiver takes the next sample, or misses it; a marker is answered Ok
\* exactly when everything it covers has been stored.
Receive ==
    /\ seen < Len(wire)
    /\ seen' = seen + 1
    /\ LET m == wire[seen + 1] IN
       \/ UNCHANGED <<stored, answer, overdue>>
       \/ /\ m.kind = "data"
          /\ stored' = stored \union {m.seq}
          /\ UNCHANGED <<answer, overdue>>
       \/ /\ m.kind = "marker"
          /\ answer' = [answer EXCEPT ![m.handle] = IF 1 .. m.seq \subseteq stored THEN "Ok"
                                                   ELSE "Failed"]
          /\ overdue' = IF replaced THEN overdue \union {m.handle} ELSE overdue
          /\ UNCHANGED stored
    /\ UNCHANGED <<lifecycle, connection, lane, last, pending, handles, pc, locals, wire, outcome>>

-----------------------------------------------------------------------------
\* One step inside a call; the call itself is the caller's choice.
Step(t) ==
    /\ UNCHANGED target
    /\ \/ DrawSequence(t) \/ PutData(t) \/ RecheckData(t)
       \/ PublishWaiter(t) \/ PutMarker(t) \/ RecheckMarker(t) \/ ReturnHandle(t)
       \/ TakePending(t) \/ CancelWaiter(t) \/ BeginQuiesce(t) \/ EndQuiesce(t)
       \/ ReturnEarly(t) \/ AdmitWait(t) \/ RefuseWait(t) \/ CheckWait(t)
       \/ EndWait(t) \/ Poll(t) \/ SettlePoll(t) \/ Release(t)
       \/ Sample(t) \/ Reserve(t) \/ Validate(t) \/ Publish(t)
       \/ RemovePublished(t) \/ Mark(t)
       \/ CloseLane(t) \/ EndClose(t)

\* The calls of a BufferPublisher are externally serialized, those of a cache are not.
Serialized(t) == target = "Buffer" => \A u \in Callers \ {t} : pc[u] = "idle"

Call(t) ==
    /\ Serialized(t)
    /\ SubmitData(t) \/ BeginFence(t) \/ Close(t)
    /\ UNCHANGED target

\* The transport, the receiver and the clock.
Environment ==
    /\ \/ \E t \in Callbacks, h \in Handle : Complete(t, h)
       \/ Replace
       \/ Receive
    /\ UNCHANGED target

Next ==
    \/ \E t \in Callers : Call(t)
    \/ \E t \in Threads : Step(t)
    \/ \E h \in Handle : Expire(h)
    \/ Environment

Spec == Init /\ [][Next]_vars

\* A thread inside a call keeps running, and time passes.  Nothing is assumed
\* of the receiver, the transport or the callbacks' arrival.
FairSpec ==
    /\ Spec
    /\ \A t \in Threads : WF_vars(Step(t))
    /\ \A h \in Handle : WF_vars(Expire(h))

-----------------------------------------------------------------------------
(* Properties.                                                              *)

\* Sample put on the wire.
Message == [kind: {"data", "marker"}, seq: 0 .. MaxSequence, handle: 0 .. MaxFences]

\* The values of every variable.
TypeOK ==
    /\ target \in Targets
    /\ {replaced, accepting, quiescing, mismatch, disconnected, closed} \subseteq BOOLEAN
    /\ active \subseteq Callers /\ lane \in Callers \union {NoThread}
    /\ last \in 0 .. MaxSequence /\ begun \in 0 .. MaxFences /\ pending \in 0 .. begun
    /\ waiter \in [Handle -> Waiter] /\ through \in [Handle -> 0 .. MaxSequence]
    /\ expired \in [Handle -> BOOLEAN]
    /\ pc \in [Threads -> PC] /\ hd \in [Threads -> 0 .. begun]
    /\ ret \in [Threads -> {"idle", "leave", "handle", "waiting", "drain"}]
    /\ victim \in [Threads -> 0 .. begun]
    /\ got \in [Threads -> Answer] /\ mm \in [Threads -> BOOLEAN]
    /\ \A i \in 1 .. Len(wire) : wire[i] \in Message
    /\ seen \in 0 .. Len(wire) /\ stored \subseteq 1 .. MaxSequence
    /\ answer \in [Handle -> Answer] /\ overdue \subseteq Handle
    /\ verdict \in [Handle -> Verdict]

\* What one publisher puts is in lane order: data carries strictly increasing
\* sequences, none beyond the last, and a marker follows all the data it covers
\* and precedes the rest (SubmitData and BeginFence hold lane_mutex_ from
\* sequence to Put).
PutsInLaneOrder ==
    /\ TypeOK
    /\ \A i, j \in 1 .. Len(wire) :
           (i < j /\ wire[j].kind = "data") => wire[i].seq < wire[j].seq

\* What a fence returns is true of that fence.  An Ok covers only data the
\* receiver has stored, so no answer to another token was taken for this one
\* (Complete).  An answer the receiver gave after the transport generation was
\* replaced is never a success (the samples of PublishWaiterResult).  A receiver's
\* verdict reaches the caller only once it is published on the bound generation
\* and before the deadline: the provisional result of a reservation is never
\* returned (Wait).
VerdictIsTrue(h) ==
    /\ verdict[h] = "Ok" => 1 .. through[h] \subseteq stored /\ h \notin overdue
    /\ verdict[h] \in {"Ok", "Failed"} =>
           /\ TerminalResultBefore(h) /\ waiter[h].bound
           /\ waiter[h].result = verdict[h]

\* Every verdict is true, and the first terminal decision on a waiter stands,
\* whichever of completion, cancellation and timeout made it
\* (PublishWaiterResult, CancelPendingWaiter).
VerdictsAreTrue ==
    /\ [](\A h \in Handle : VerdictIsTrue(h))
    /\ [][\A h \in Handle : waiter[h].terminal =>
             waiter'[h] = [waiter[h] EXCEPT !.reserved = waiter'[h].reserved]]_vars

\* Once Close has returned no call is inside the publisher: a caller there is
\* idle, waits for an admission it will not get, or is itself closing.
CloseQuiesces ==
    closed => \A t \in Callers :
        pc[t] \in {"idle", "submit", "wait", "admit", "release", "close", "cancel", "cancelled",
                  "drain"} /\ t \notin active

\* A fence is refused as already pending only while the fence of another caller
\* is in progress (BeginFence, "Fence already pending").
RefusedOnlyWhilePending ==
    [][\A t \in Callers : (pc[t] = "begin" /\ pc'[t] = "idle") =>
          \E u \in Callers \ {t} : hd[u] # 0]_vars

\* Every call returns, by its deadline if nothing else ends it: no operation
\* waits for a peer that waits for it (QuiescePeerOperations, Close).
PublisherCallsReturn == \A t \in Threads : pc[t] # "idle" ~> pc[t] = "idle"
=============================================================================
