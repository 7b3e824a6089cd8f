---------------------------- MODULE AckedTheorems ----------------------------
(***************************************************************************)
(* The results and the answers of AckedWrites are true, a token is applied *)
(* again only after its result was dropped, and batches are contiguous in  *)
(* the store: for every number of calls, callback threads and batch        *)
(* entries, every capacity of the registry and every number of duplicates  *)
(* and restarts.                                                           *)
(***************************************************************************)
EXTENDS AckedWrites, TLAPS

\* A callback is in the application lane.
Working == {"apply", "engine", "finish"}

\* The first n entries of o are in the store.
Stored(o, n) == \A i \in 0 .. n - 1 : [op |-> o, index |-> i] \in Range(log)

\* Entry i of o is the last mutation of the store.
LastIs(o, i) == log # <<>> /\ log[Len(log)] = [op |-> o, index |-> i]

\* Nothing of o has reached the store.
Untouched(o) == \A i \in 1 .. Len(log) : log[i].op # o

\* What a result r of a request q may say of the engine calls c that its
\* application made.
TrueResult(q, r, c) ==
    /\ r.status \in Statuses
    /\ r.status = "Ok" => c.confirmed = q.size /\ r.applied = q.size
    /\ r.status = "OutcomeUnknown" =>
          c.made = c.confirmed + 1 /\ r.applied = c.confirmed /\ r.failed = c.confirmed
    /\ r.status \in Definite => c.made = 0
    /\ ValidAckResult(q.kind, r)

AnyResult == [status: Statuses \union {"none", "absent", "processing"}, applied: Int, failed: Int]

TypeInv ==
    /\ req \in [Ops -> Request] /\ phase \in [Ops -> {"idle", "poll", "done"}]
    /\ res \in [Ops -> Statuses \union {"none", "Sent", "Timeout"}]
    /\ copies \in [Ops -> 0 .. 2]
    /\ node \in {"up", "stopping", "down"} /\ session \in {"absent", "active", "lost"}
    /\ lane \in Threads \union {None}
    /\ entries \in [Ops -> AnyResult] /\ ring \in Seq(Ops) /\ busy \in Ops \union {None}
    /\ pc \in [Threads -> {"idle", "lane"} \union Working]
    /\ op \in [Threads -> Ops \union {None}]
    /\ progress \in [Threads -> [invoked: BOOLEAN, applied: Nat, index: Nat]]
    /\ out \in [Threads -> AnyResult] /\ mutated \in [Threads -> BOOLEAN]
    /\ log \in Seq([op: Ops, index: Nat])
    /\ calls \in [Ops -> [made: Nat, confirmed: Nat]]
    /\ attempts \in [Ops -> Nat] /\ forgotten \in [Ops -> Nat]

\* One thread at a time is in the lane, and the token it has claimed, if its
\* sample carries one, is the one in processing.
LaneOf(t) ==
    /\ lane = t <=> pc[t] \in Working
    /\ op[t] = None <=> pc[t] = "idle"

TokenOf(o) ==
    /\ entries[o] = Processing <=> busy = o
    /\ busy = o <=> \E t \in Threads : lane = t /\ op[t] = o /\ req[o].ack
    /\ entries[o] # Absent => req[o].ack

LaneInv == (\A t \in Threads : LaneOf(t)) /\ (\A o \in Ops : TokenOf(o))

\* The ring holds each completed token once and nothing else.
RingInv ==
    Range(ring) = {o \in Ops : Completed(o)} /\ IsInjective(ring) /\ Len(ring) <= Capacity

\* The operation in the lane: the confirmed engine calls are a prefix of its
\* entries, the last of them is the last mutation of the store, and the result
\* at hand is a true one.
Applying(t) ==
    /\ pc[t] \in {"idle", "lane"} => progress[t] = NoProgress
    /\ pc[t] \in Working => Stored(op[t], calls[op[t]].confirmed)
    /\ pc[t] \in {"apply", "engine"} =>
          /\ progress[t].applied = progress[t].index
          /\ calls[op[t]].confirmed = progress[t].index
          /\ progress[t].index < req[op[t]].size
    /\ pc[t] = "apply" =>
          /\ calls[op[t]].made = progress[t].index
          /\ progress[t].invoked <=> progress[t].index > 0
          /\ progress[t].index > 0 => LastIs(op[t], progress[t].index - 1)
    /\ pc[t] = "engine" =>
          /\ calls[op[t]].made = progress[t].index + 1 /\ progress[t].invoked
          /\ mutated[t] => LastIs(op[t], progress[t].index)
    /\ pc[t] = "finish" => TrueResult(req[op[t]], out[t], calls[op[t]])

ApplyInv == \A t \in Threads : Applying(t)

\* What the registry remembers, and how often it has forgotten.
ResultOf(o) ==
    /\ Completed(o) => TrueResult(req[o], entries[o], calls[o])
    /\ Completed(o) /\ entries[o].status = "Ok" => Stored(o, req[o].size)
    /\ attempts[o] <= 1 + forgotten[o]
    /\ entries[o] = Absent => attempts[o] <= forgotten[o]

ResultInv == \A o \in Ops : ResultOf(o)

\* What the callers were told, and what has not happened to their entries.
AnswerOf(o) ==
    /\ LocalStatus(req[o]) # "none" =>
          copies[o] = 0 /\ Untouched(o) /\ \A t \in Threads : op[t] # o
    /\ (req[o].ack /\ forgotten[o] = 0 /\ (entries[o] = Absent \/ calls[o].made = 0)) =>
          Untouched(o)
    /\ phase[o] = "poll" => LocalStatus(req[o]) = "none"
    /\ res[o] = "Ok" => Stored(o, req[o].size)
    /\ (res[o] \in Definite /\ forgotten[o] = 0 /\ LocalStatus(req[o]) = "none") =>
          Completed(o) /\ entries[o].status \in Definite

AnswerInv == \A o \in Ops : AnswerOf(o)

IInv ==
    /\ TypeInv /\ LaneInv /\ RingInv /\ ApplyInv /\ ResultInv /\ AnswerInv
    /\ BatchesAreContiguous

-----------------------------------------------------------------------------
(* Sequences.                                                               *)

\* Append adds its element, at the end.
LEMMA AppendFacts ==
    ASSUME NEW S, NEW s \in Seq(S), NEW x \in S
    PROVE  /\ Range(Append(s, x)) = Range(s) \union {x}
           /\ x \notin Range(s) /\ IsInjective(s) => IsInjective(Append(s, x))
<1>1. /\ Append(s, x) \in Seq(S) /\ Len(Append(s, x)) = Len(s) + 1
      /\ \A i \in 1 .. Len(s) : Append(s, x)[i] = s[i]
      /\ Append(s, x)[Len(s) + 1] = x
  OBVIOUS
<1>2. Range(Append(s, x)) = Range(s) \union {x}
  BY <1>1 DEF Range
<1>3. ASSUME x \notin Range(s), IsInjective(s) PROVE IsInjective(Append(s, x))
  <2>1. \A i \in 1 .. Len(s) : s[i] # x
    BY <1>3 DEF Range
  <2> QED
    BY <1>1, <1>3, <2>1 DEF IsInjective
<1> QED
  BY Zenon, <1>2, <1>3

\* Tail takes the head away, for good if the sequence is injective.
LEMMA TailFacts ==
    ASSUME NEW S, NEW s \in Seq(S), s # <<>>, IsInjective(s)
    PROVE  /\ Tail(s) \in Seq(S) /\ Len(Tail(s)) = Len(s) - 1
           /\ Head(s) \in Range(s)
           /\ Range(Tail(s)) = Range(s) \ {Head(s)} /\ IsInjective(Tail(s))
<1>1. /\ Tail(s) \in Seq(S) /\ Len(Tail(s)) = Len(s) - 1 /\ Len(s) > 0
      /\ \A i \in 1 .. Len(s) - 1 : Tail(s)[i] = s[i + 1]
      /\ Head(s) = s[1]
  OBVIOUS
<1>2. Head(s) \in Range(s)
  BY <1>1 DEF Range
<1>3. Range(Tail(s)) = Range(s) \ {Head(s)}
  <2>1. ASSUME NEW y \in Range(Tail(s)) PROVE y \in Range(s) \ {Head(s)}
    <3>1. PICK i \in 1 .. Len(s) - 1 : y = s[i + 1]
      BY <1>1 DEF Range
    <3> QED
      BY <1>1, <3>1 DEF Range, IsInjective
  <2>2. ASSUME NEW y \in Range(s) \ {Head(s)} PROVE y \in Range(Tail(s))
    <3>1. PICK i \in 1 .. Len(s) : y = s[i]
      BY DEF Range
    <3>2. i - 1 \in 1 .. Len(s) - 1 /\ Tail(s)[i - 1] = y
      BY <1>1, <3>1
    <3>3. DOMAIN Tail(s) = 1 .. Len(s) - 1
      BY <1>1
    <3> QED
      BY Zenon, <3>2, <3>3 DEF Range
  <2> QED
    BY Zenon, <2>1, <2>2
<1>4. IsInjective(Tail(s))
  BY <1>1 DEF IsInjective
<1> QED
  BY Zenon, <1>1, <1>2, <1>3, <1>4

-----------------------------------------------------------------------------
(* The store and the registry.                                              *)

\* A mutation of the store takes nothing away from it.
LEMMA Mutation ==
    ASSUME TypeInv, NEW o \in Ops, NEW i \in Nat, log' = Append(log, [op |-> o, index |-> i])
    PROVE  /\ log' \in Seq([op: Ops, index: Nat]) /\ LastIs(o, i)'
           /\ \A x \in Ops, n \in Nat : Stored(x, n) => Stored(x, n)'
           /\ \A x \in Ops : x # o /\ Untouched(x) => Untouched(x)'
           /\ (i > 0 => LastIs(o, i - 1)) /\ BatchesAreContiguous => BatchesAreContiguous'
<1> DEFINE e == [op |-> o, index |-> i]
<1>1. log \in Seq([op: Ops, index: Nat]) /\ e \in [op: Ops, index: Nat]
  BY Zenon DEF TypeInv
<1>2. e.op = o /\ e.index = i /\ (i > 0 => [e EXCEPT !.index = @ - 1] = [op |-> o, index |-> i - 1])
  OBVIOUS
<1>e. log' = Append(log, e)
  BY Zenon
<1>l. LastIs(o, i)' <=> (log' # <<>> /\ log'[Len(log')] = e)
  BY Zenon DEF LastIs
<1> HIDE DEF e
<1>3. /\ log' \in Seq([op: Ops, index: Nat]) /\ Len(log') = Len(log) + 1 /\ Len(log) \in Nat
      /\ \A j \in 1 .. Len(log) : log'[j] = log[j]
      /\ log'[Len(log) + 1] = e
  BY <1>1, <1>e
<1>4. Range(log') = Range(log) \union {e}
  <2> DEFINE Mutations == [op: Ops, index: Nat]
  <2>1. log \in Seq(Mutations) /\ e \in Mutations
    BY Zenon, <1>1
  <2> HIDE DEF Mutations
  <2>2. Range(Append(log, e)) = Range(log) \union {e}
    BY <2>1, AppendFacts
  <2> QED
    BY Zenon, <1>e, <2>2
<1>5. LastIs(o, i)'
  BY <1>3, <1>l
<1>6. \A x \in Ops, n \in Nat : Stored(x, n) => Stored(x, n)'
  BY Zenon, <1>4 DEF Stored
<1>7. \A x \in Ops : x # o /\ Untouched(x) => Untouched(x)'
  BY <1>2, <1>3 DEF Untouched
<1>8. ASSUME i > 0 => LastIs(o, i - 1), BatchesAreContiguous
      PROVE  BatchesAreContiguous'
  <2> SUFFICES ASSUME NEW j \in 1 .. Len(log'), log'[j].index > 0
               PROVE  j > 1 /\ log'[j - 1] = [log'[j] EXCEPT !.index = @ - 1]
    BY Zenon DEF BatchesAreContiguous
  <2>1. CASE j \in 1 .. Len(log)
    BY <1>3, <1>8, <2>1 DEF BatchesAreContiguous
  <2>2. CASE j = Len(log) + 1
    <3>1. log'[j] = e /\ i > 0
      BY Zenon, <1>2, <1>3, <2>2
    <3>2. LastIs(o, i - 1)
      BY Zenon, <1>8, <3>1
    <3>3. Len(log) > 0 /\ log[Len(log)] = [e EXCEPT !.index = @ - 1]
      BY <1>1, <1>2, <3>1, <3>2 DEF LastIs
    <3>4. j > 1 /\ log'[j - 1] = log[Len(log)]
      BY <1>3, <2>2, <3>3
    <3> QED
      BY Zenon, <3>1, <3>3, <3>4
  <2>3. j \in 1 .. Len(log) \/ j = Len(log) + 1
    BY <1>3
  <2> QED
    BY Zenon, <2>1, <2>2, <2>3
<1> QED
  BY Zenon, <1>3, <1>5, <1>6, <1>7, <1>8

\* A confirmed engine call extends the prefix that is stored.
LEMMA Confirmed ==
    ASSUME TypeInv, NEW o \in Ops, NEW i \in Nat, Stored(o, i), LastIs(o, i)
    PROVE  Stored(o, i + 1)
<1>1. Len(log) \in 1 .. Len(log)
  BY DEF TypeInv, LastIs
<1>2. [op |-> o, index |-> i] \in Range(log)
  <2>1. Len(log) \in DOMAIN log
    BY <1>1 DEF TypeInv
  <2> QED
    BY Zenon, <2>1 DEF LastIs, Range
<1> QED
  BY <1>2 DEF Stored

\* A new result enters the registry.  The oldest one may leave it, which is
\* counted; every other entry stays as it is.
LEMMA RetainFacts ==
    ASSUME TypeInv, RingInv, NEW o \in Ops, ~Completed(o),
           NEW r \in AnyResult, r \notin {Absent, Processing}, Retain(o, r)
    PROVE  /\ entries' \in [Ops -> AnyResult] /\ ring' \in Seq(Ops)
           /\ forgotten' \in [Ops -> Nat]
           /\ RingInv'
           /\ entries'[o] = r /\ forgotten'[o] = forgotten[o]
           /\ \A x \in Ops \ {o} :
                 \/ entries'[x] = entries[x] /\ forgotten'[x] = forgotten[x]
                 \/ Completed(x) /\ entries'[x] = Absent /\ forgotten'[x] = forgotten[x] + 1
<1>t. /\ entries \in [Ops -> AnyResult] /\ ring \in Seq(Ops) /\ forgotten \in [Ops -> Nat]
  BY Zenon DEF TypeInv
<1>a. Absent \in AnyResult
  BY DEF AnyResult, Absent, Result
<1>e. /\ entries' = [x \in Ops |-> IF x = o THEN r ELSE IF x \in Evicted THEN Absent ELSE entries[x]]
      /\ ring' = Retained(o)
      /\ forgotten' = [x \in Ops |-> IF x \in Evicted \ {o} THEN forgotten[x] + 1 ELSE forgotten[x]]
  BY Zenon DEF Retain
<1>c. /\ Range(ring) = {x \in Ops : Completed(x)} /\ IsInjective(ring) /\ Len(ring) <= Capacity
      /\ Capacity \in Nat \ {0}
  BY Zenon, CapacityAssumption DEF RingInv
<1>1. \A x \in Evicted : x \in Ops /\ Completed(x) /\ x # o
  <2>1. CASE Len(ring) < Capacity
    BY Zenon, <2>1 DEF Evicted
  <2>2. CASE ~(Len(ring) < Capacity)
    <3>1. ring # <<>>
      BY <1>t, <1>c, <2>2
    <3>2. Head(ring) \in Range(ring)
      BY Zenon, <1>t, <1>c, <3>1, TailFacts
    <3> QED
      BY Zenon, <1>c, <2>2, <3>2 DEF Evicted
  <2> QED
    BY Zenon, <2>1, <2>2
<1>2. /\ entries' \in [Ops -> AnyResult] /\ forgotten' \in [Ops -> Nat]
      /\ entries'[o] = r /\ forgotten'[o] = forgotten[o]
  BY <1>a, <1>t, <1>e, <1>1
<1>3. \A x \in Ops \ {o} :
         \/ x \notin Evicted /\ entries'[x] = entries[x] /\ forgotten'[x] = forgotten[x]
         \/ x \in Evicted /\ entries'[x] = Absent /\ forgotten'[x] = forgotten[x] + 1
  BY Zenon, <1>e
<1>4. /\ ring' \in Seq(Ops) /\ Range(ring') = (Range(ring) \ Evicted) \union {o}
      /\ IsInjective(ring') /\ Len(ring') <= Capacity
  <2>a. ASSUME NEW s \in Seq(Ops), IsInjective(s), o \notin Range(s)
        PROVE  Range(Append(s, o)) = Range(s) \union {o} /\ IsInjective(Append(s, o))
    <3>1. Range(Append(s, o)) = Range(s) \union {o}
      BY AppendFacts
    <3>2. IsInjective(Append(s, o))
      BY Zenon, <2>a, AppendFacts
    <3> QED
      BY Zenon, <3>1, <3>2
  <2>1. ring \in Seq(Ops) /\ IsInjective(ring) /\ o \notin Range(ring)
    BY Zenon, <1>t, <1>c
  <2>2. CASE Len(ring) < Capacity
    <3>1. ring' = Append(ring, o) /\ Evicted = {}
      BY Zenon, <1>e, <2>2 DEF Retained, Evicted
    <3>2. Range(ring') = Range(ring) \union {o} /\ IsInjective(ring')
      BY Zenon, <2>a, <2>1, <3>1
    <3>3. ring' \in Seq(Ops) /\ Len(ring') = Len(ring) + 1
      BY <1>t, <3>1
    <3>4. Len(ring') <= Capacity
      BY <1>t, <1>c, <2>2, <3>3
    <3> QED
      BY Zenon, <3>1, <3>2, <3>3, <3>4
  <2>3. CASE ~(Len(ring) < Capacity)
    <3>1. ring' = Append(Tail(ring), o) /\ Evicted = {Head(ring)}
      BY Zenon, <1>e, <2>3 DEF Retained, Evicted
    <3>2. ring # <<>>
      BY <1>t, <1>c, <2>3
    <3>3. /\ Tail(ring) \in Seq(Ops) /\ Len(Tail(ring)) = Len(ring) - 1
          /\ Range(Tail(ring)) = Range(ring) \ Evicted /\ IsInjective(Tail(ring))
      BY Zenon, <1>t, <1>c, <3>1, <3>2, TailFacts
    <3>4. Tail(ring) \in Seq(Ops) /\ IsInjective(Tail(ring)) /\ o \notin Range(Tail(ring))
      BY Zenon, <2>1, <3>3
    <3>5. /\ Range(Append(Tail(ring), o)) = Range(Tail(ring)) \union {o}
          /\ IsInjective(Append(Tail(ring), o))
      BY Zenon, <2>a, <3>4
    <3>6. ring' \in Seq(Ops) /\ Len(ring') = Len(ring)
      BY <1>t, <3>1, <3>3
    <3> QED
      BY Zenon, <1>c, <3>1, <3>3, <3>5, <3>6
  <2> QED
    BY Zenon, <2>2, <2>3
<1>5. Range(ring') = {x \in Ops : Completed(x)'}
  BY Zenon, <1>c, <1>1, <1>2, <1>3, <1>4 DEF Completed
<1>6. RingInv'
  BY Zenon, <1>4, <1>5, CapacityAssumption DEF RingInv
<1> QED
  BY Zenon, <1>1, <1>2, <1>3, <1>4, <1>6

-----------------------------------------------------------------------------
(* Initially, and the steps of the callers, the transport and the node's    *)
(* life.                                                                    *)

LEMMA InitIInv == Init => IInv
<1> SUFFICES ASSUME Init PROVE IInv
  BY Zenon
<1>1. /\ Absent \in AnyResult /\ NoResult \in AnyResult /\ Absent # Processing
      /\ \A o \in Ops : ~Completed(o)
  BY DEF Init, AnyResult, Absent, Processing, NoResult, Result, Completed
<1>2. req \in [Ops -> Request]
  BY Zenon, WorkloadsAssumption DEF Init
<1>3. NoProgress \in [invoked: BOOLEAN, applied: Nat, index: Nat]
  BY Zenon DEF NoProgress
<1>4. NoCalls \in [made: Nat, confirmed: Nat]
  BY Zenon DEF NoCalls
<1>5. ring = <<>> /\ log = <<>> /\ DOMAIN ring = {} /\ DOMAIN log = {} /\ Len(log) = 0
  BY DEF Init
<1>6. TypeInv
  BY <1>1, <1>2, <1>3, <1>4 DEF Init, TypeInv
<1>7. LaneInv
  BY Zenon, <1>1, NamesAssumption DEF Init, LaneInv, LaneOf, TokenOf, Working
<1>8. RingInv
  BY <1>1, <1>5, CapacityAssumption DEF RingInv, Range, IsInjective
<1>9. ApplyInv
  BY Zenon DEF Init, ApplyInv, Applying, Working
<1>10. \A o \in Ops : Untouched(o)
  BY <1>5 DEF Untouched
<1>11. ResultInv
  BY <1>1, <1>10 DEF Init, ResultInv, ResultOf
<1>12. AnswerInv
  BY Zenon, <1>10, NamesAssumption DEF Init, AnswerInv, AnswerOf, Definite, Statuses
<1>13. BatchesAreContiguous
  BY <1>5 DEF BatchesAreContiguous
<1> QED
  BY Zenon, <1>6, <1>7, <1>8, <1>9, <1>11, <1>12, <1>13 DEF IInv

\* A step that leaves the node's callbacks alone.
LEMMA Frame ==
    ASSUME IInv, UNCHANGED <<req, lane, registry, callback, history>>
    PROVE  /\ LaneInv' /\ RingInv' /\ ApplyInv' /\ ResultInv' /\ BatchesAreContiguous'
           /\ \A o \in Ops : /\ Completed(o)' = Completed(o) /\ Untouched(o)' = Untouched(o)
                             /\ Stored(o, req[o].size)' = Stored(o, req[o].size)
<1>1. /\ req' = req /\ lane' = lane /\ entries' = entries /\ ring' = ring /\ busy' = busy
      /\ pc' = pc /\ op' = op /\ progress' = progress /\ out' = out /\ mutated' = mutated
      /\ log' = log /\ calls' = calls /\ attempts' = attempts /\ forgotten' = forgotten
  BY Zenon DEF registry, callback, history
<1>2. LaneInv'
  BY Zenon, <1>1 DEF IInv, LaneInv, LaneOf, TokenOf
<1>3. RingInv'
  BY Zenon, <1>1 DEF IInv, RingInv, Completed
<1>4. ApplyInv'
  BY Zenon, <1>1 DEF IInv, ApplyInv, Applying, Stored, LastIs
<1>5. ResultInv'
  BY Zenon, <1>1 DEF IInv, ResultInv, ResultOf, Stored, Completed
<1>6. BatchesAreContiguous'
  BY Zenon, <1>1 DEF IInv, BatchesAreContiguous
<1>7. \A o \in Ops : /\ Completed(o)' = Completed(o) /\ Untouched(o)' = Untouched(o)
                     /\ Stored(o, req[o].size)' = Stored(o, req[o].size)
  BY Zenon, <1>1 DEF Completed, Untouched, Stored
<1> QED
  BY Zenon, <1>2, <1>3, <1>4, <1>5, <1>6, <1>7

\* ParamStore answers a call itself with Ok only if there is nothing to write.
LEMMA LocalFacts ==
    ASSUME NEW r \in Request
    PROVE  /\ LocalStatus(r) \in {"none", "ReadOnly", "InvalidKey", "Ok"}
           /\ LocalStatus(r) = "Ok" => r.size = 0
<1>1. LocalStatus(r) \in {"none", "ReadOnly", "InvalidKey", "Ok"}
  BY Zenon DEF LocalStatus
<1>2. LocalStatus(r) = "Ok" => r.size = 0
  BY Zenon DEF LocalStatus
<1> QED
  BY Zenon, <1>1, <1>2

LEMMA ReturnFacts ==
    ASSUME TypeInv, NEW o \in Ops, NEW status \in Statuses \union {"Sent", "Timeout"},
           Return(o, status)
    PROVE  /\ phase' \in [Ops -> {"idle", "poll", "done"}]
           /\ res' \in [Ops -> Statuses \union {"none", "Sent", "Timeout"}]
           /\ phase'[o] = "done" /\ res'[o] = status
           /\ \A x \in Ops \ {o} : phase'[x] = phase[x] /\ res'[x] = res[x]
           /\ req' = req
BY Zenon DEF Return, TypeInv

LEMMA CallStep ==
    ASSUME IInv, NEW o \in Ops, Call(o)
    PROVE  IInv'
<1>1. CASE LocalStatus(req[o]) # "none" /\ Return(o, LocalStatus(req[o])) /\ UNCHANGED copies
  <2>1. req[o] \in Request /\ LocalStatus(req[o]) \in Statuses /\ LocalStatus(req[o]) # "none"
    BY Zenon, <1>1, LocalFacts DEF IInv, TypeInv, Statuses
  <2>2. /\ phase' \in [Ops -> {"idle", "poll", "done"}]
        /\ res' \in [Ops -> Statuses \union {"none", "Sent", "Timeout"}]
        /\ phase'[o] = "done" /\ res'[o] = LocalStatus(req[o]) /\ req' = req
        /\ \A x \in Ops \ {o} : phase'[x] = phase[x] /\ res'[x] = res[x]
    BY Zenon, <1>1, <2>1, ReturnFacts DEF IInv
  <2>3. UNCHANGED <<req, lane, registry, callback, history>> /\ UNCHANGED <<copies, lifecycle>>
    BY Zenon, <1>1, <2>2 DEF Call
  <2>4. TypeInv'
    BY Zenon, <2>2, <2>3 DEF IInv, TypeInv, lifecycle, registry, callback, history
  <2>5. res'[o] = "Ok" => Stored(o, req[o].size)
    <3>1. res'[o] = "Ok" => req[o].size = 0
      BY Zenon, <2>1, <2>2, LocalFacts
    <3> QED
      BY <3>1 DEF Stored
  <2>6. AnswerInv'
    <3> SUFFICES ASSUME NEW x \in Ops PROVE AnswerOf(x)'
      BY Zenon DEF AnswerInv
    <3>1. /\ AnswerOf(x) /\ Completed(x)' = Completed(x) /\ Untouched(x)' = Untouched(x)
          /\ Stored(x, req[x].size)' = Stored(x, req[x].size)
      BY Zenon, <2>3, Frame DEF IInv, AnswerInv
    <3>2. /\ req' = req /\ op' = op /\ forgotten' = forgotten /\ entries' = entries
          /\ calls' = calls /\ copies' = copies
      BY Zenon, <2>3 DEF registry, callback, history
    <3>3. CASE x = o
      BY Zenon, <1>1, <2>2, <2>5, <3>1, <3>2, <3>3 DEF AnswerOf
    <3>4. CASE x # o
      BY Zenon, <2>2, <3>1, <3>2, <3>4 DEF AnswerOf
    <3> QED
      BY Zenon, <3>3, <3>4
  <2> QED
    BY Zenon, <2>3, <2>4, <2>6, Frame DEF IInv
<1>2. CASE /\ LocalStatus(req[o]) = "none"
           /\ copies' \in {copies, [copies EXCEPT ![o] = 1]}
           /\ IF req[o].ack
                 THEN phase' = [phase EXCEPT ![o] = "poll"] /\ UNCHANGED <<req, res>>
                 ELSE Return(o, "Sent")
  <2>1. /\ phase' \in [Ops -> {"idle", "poll", "done"}]
        /\ res' \in [Ops -> Statuses \union {"none", "Sent", "Timeout"}] /\ req' = req
        /\ \A x \in Ops \ {o} : phase'[x] = phase[x]
        /\ \A x \in Ops : res'[x] = res[x] \/ res'[x] = "Sent"
    <3>1. CASE req[o].ack
      BY Zenon, <1>2, <3>1 DEF IInv, TypeInv
    <3>2. CASE ~req[o].ack
      <4>1. Return(o, "Sent")
        BY Zenon, <1>2, <3>2
      <4> QED
        BY Zenon, <4>1, ReturnFacts DEF IInv
    <3> QED
      BY Zenon, <3>1, <3>2
  <2>2. copies' \in [Ops -> 0 .. 2] /\ \A x \in Ops \ {o} : copies'[x] = copies[x]
    <3>1. copies \in [Ops -> 0 .. 2] /\ 1 \in 0 .. 2
      BY DEF IInv, TypeInv
    <3>2. copies' = copies \/ copies' = [copies EXCEPT ![o] = 1]
      BY Zenon, <1>2
    <3> QED
      BY Zenon, <3>1, <3>2
  <2>3. UNCHANGED <<req, lane, registry, callback, history>> /\ UNCHANGED lifecycle
    BY Zenon, <2>1 DEF Call
  <2>4. TypeInv'
    BY Zenon, <2>1, <2>2, <2>3 DEF IInv, TypeInv, lifecycle, registry, callback, history
  <2>5. "Sent" \notin Definite \union {"Ok"}
    BY Zenon DEF Definite, Statuses
  <2>6. AnswerInv'
    <3> SUFFICES ASSUME NEW x \in Ops PROVE AnswerOf(x)'
      BY Zenon DEF AnswerInv
    <3>1. /\ AnswerOf(x) /\ Completed(x)' = Completed(x) /\ Untouched(x)' = Untouched(x)
          /\ Stored(x, req[x].size)' = Stored(x, req[x].size)
      BY Zenon, <2>3, Frame DEF IInv, AnswerInv
    <3>2. /\ req' = req /\ op' = op /\ forgotten' = forgotten /\ entries' = entries
          /\ calls' = calls
      BY Zenon, <2>3 DEF registry, callback, history
    <3>3. CASE x = o
      BY Zenon, <1>2, <2>1, <2>5, <3>1, <3>2, <3>3 DEF AnswerOf
    <3>4. CASE x # o
      BY Zenon, <2>1, <2>2, <2>5, <3>1, <3>2, <3>4 DEF AnswerOf
    <3> QED
      BY Zenon, <3>3, <3>4
  <2> QED
    BY Zenon, <2>3, <2>4, <2>6, Frame DEF IInv
<1> QED
  BY Zenon, <1>1, <1>2 DEF Call

\* A poll returns what the registry has; a timeout says nothing.
LEMMA PollStep ==
    ASSUME IInv, NEW o \in Ops, Poll(o) \/ Timeout(o)
    PROVE  IInv'
<1>1. PICK status \in Statuses \union {"Timeout"} :
         /\ Return(o, status) /\ phase[o] = "poll"
         /\ status = "Timeout" \/ (Completed(o) /\ status = entries[o].status)
  <2>1. CASE Poll(o)
    <3>1. Completed(o) /\ entries[o].status \in Statuses
      BY Zenon, <2>1 DEF Poll, Completed, IInv, ResultInv, ResultOf, TrueResult
    <3> QED
      BY Zenon, <2>1, <3>1 DEF Poll
  <2>2. CASE Timeout(o)
    BY Zenon, <2>2 DEF Timeout
  <2> QED
    BY Zenon, <2>1, <2>2
<1>2. /\ phase' \in [Ops -> {"idle", "poll", "done"}]
      /\ res' \in [Ops -> Statuses \union {"none", "Sent", "Timeout"}]
      /\ phase'[o] = "done" /\ res'[o] = status /\ req' = req
      /\ \A x \in Ops \ {o} : phase'[x] = phase[x] /\ res'[x] = res[x]
  BY Zenon, <1>1, ReturnFacts DEF IInv
<1>3. UNCHANGED <<req, lane, registry, callback, history>> /\ UNCHANGED <<copies, lifecycle>>
  BY Zenon, <1>2 DEF Poll, Timeout, wire
<1>4. TypeInv'
  BY Zenon, <1>2, <1>3 DEF IInv, TypeInv, lifecycle, registry, callback, history
<1>5. "Timeout" \notin Definite \union {"Ok"}
  BY Zenon DEF Definite, Statuses
<1>6. status = "Ok" => Stored(o, req[o].size)
  BY Zenon, <1>1, <1>5 DEF IInv, ResultInv, ResultOf
<1>7. LocalStatus(req[o]) = "none" /\ (status \in Definite => Completed(o) /\ entries[o].status \in Definite)
  BY Zenon, <1>1, <1>5 DEF IInv, AnswerInv, AnswerOf
<1>8. /\ entries' = entries /\ op' = op /\ calls' = calls /\ forgotten' = forgotten
      /\ copies' = copies
  BY Zenon, <1>3 DEF registry, callback, history
<1>9. AnswerInv'
  <2> SUFFICES ASSUME NEW x \in Ops PROVE AnswerOf(x)'
    BY Zenon DEF AnswerInv, AnswerOf
  <2>1. CASE x = o
    BY Zenon, <1>2, <1>3, <1>6, <1>7, <1>8, <2>1, Frame DEF IInv, AnswerInv, AnswerOf
  <2>2. CASE x # o
    BY Zenon, <1>2, <1>3, <1>8, <2>2, Frame DEF IInv, AnswerInv, AnswerOf
  <2> QED
    BY Zenon, <2>1, <2>2
<1> QED
  BY Zenon, <1>3, <1>4, <1>9, Frame DEF IInv

\* The transport repeats a sample, a session changes, the node stops admission
\* or starts again.
LEMMA EnvironmentStep ==
    ASSUME IInv, (\E o \in Ops : Duplicate(o)) \/ ChangeSession \/ Stop \/ Start
    PROVE  IInv'
<1>1. /\ UNCHANGED <<req, lane, registry, callback, history>> /\ UNCHANGED <<phase, res>>
      /\ node' \in {"up", "stopping", "down"} /\ session' \in {"absent", "active", "lost"}
  BY Zenon DEF Duplicate, ChangeSession, Stop, Start, client, lifecycle, IInv, TypeInv
<1>2. /\ copies' \in [Ops -> 0 .. 2]
      /\ \A o \in Ops : copies[o] = 0 => copies'[o] = 0
  <2>1. copies \in [Ops -> 0 .. 2] /\ 2 \in 0 .. 2 /\ 1 # 0
    BY DEF IInv, TypeInv
  <2>2. copies' = copies \/ \E o \in Ops : copies[o] = 1 /\ copies' = [copies EXCEPT ![o] = 2]
    BY Zenon DEF Duplicate, ChangeSession, Stop, Start, wire
  <2> QED
    BY Zenon, <2>1, <2>2
<1>3. TypeInv'
  BY Zenon, <1>1, <1>2 DEF IInv, TypeInv, registry, callback, history
<1>4. AnswerInv'
  BY Zenon, <1>1, <1>2, Frame DEF IInv, AnswerInv, AnswerOf, registry, callback, history
<1> QED
  BY Zenon, <1>1, <1>3, <1>4, Frame DEF IInv

-----------------------------------------------------------------------------
(* The application lane.                                                    *)

\* The callback of a working thread holds the lane alone, its token is the one
\* in processing, and its operation was not answered locally.
LEMMA LaneFacts ==
    ASSUME IInv, NEW t \in Threads, pc[t] # "idle"
    PROVE  /\ op[t] \in Ops /\ req[op[t]] \in Request /\ LocalStatus(req[op[t]]) = "none"
           /\ pc[t] \in Working =>
                 /\ lane = t /\ \A u \in Threads \ {t} : pc[u] \in {"idle", "lane"}
                 /\ req[op[t]].ack => busy = op[t] /\ entries[op[t]] = Processing
                 /\ ~req[op[t]].ack => entries[op[t]] = Absent
                 /\ ~Completed(op[t]) /\ Applying(t)
<1>1. op[t] \in Ops /\ req[op[t]] \in Request
  BY Zenon DEF IInv, TypeInv, LaneInv, LaneOf, TokenOf
<1>2. LocalStatus(req[op[t]]) = "none"
  BY Zenon, <1>1 DEF IInv, AnswerInv, AnswerOf
<1>3. ASSUME pc[t] \in Working
      PROVE  /\ lane = t /\ \A u \in Threads \ {t} : pc[u] \in {"idle", "lane"}
             /\ req[op[t]].ack => busy = op[t] /\ entries[op[t]] = Processing
             /\ ~req[op[t]].ack => entries[op[t]] = Absent
  <2>1. lane = t
    BY Zenon, <1>3 DEF IInv, LaneInv, LaneOf, TokenOf
  <2>2. ASSUME NEW u \in Threads \ {t} PROVE pc[u] \in {"idle", "lane"}
    <3>1. pc[u] \in {"idle", "lane"} \union Working /\ pc[u] \notin Working
      BY Zenon, <2>1 DEF IInv, TypeInv, LaneInv, LaneOf, TokenOf
    <3> QED
      BY Zenon, <3>1
  <2>3. req[op[t]].ack => busy = op[t] /\ entries[op[t]] = Processing
    BY Zenon, <1>1, <2>1 DEF IInv, LaneInv, LaneOf, TokenOf
  <2>4. ~req[op[t]].ack => entries[op[t]] = Absent
    BY Zenon, <1>1 DEF IInv, LaneInv, LaneOf, TokenOf
  <2> QED
    BY Zenon, <2>1, <2>2, <2>3, <2>4
<1> QED
  BY Zenon, <1>1, <1>2, <1>3 DEF IInv, ApplyInv, Completed

\* The store is as it was.
LEMMA SameStore ==
    ASSUME log' = log
    PROVE  /\ \A x, n : Stored(x, n)' <=> Stored(x, n)
           /\ \A x : Untouched(x)' <=> Untouched(x)
           /\ \A x, i : LastIs(x, i)' <=> LastIs(x, i)
           /\ BatchesAreContiguous' <=> BatchesAreContiguous
BY Zenon DEF Stored, Untouched, LastIs, BatchesAreContiguous

\* A step of the thread in the lane that leaves the registry alone.
LEMMA Work ==
    ASSUME IInv, TypeInv', NEW t \in Threads, pc[t] \in Working, pc'[t] \in Working,
           UNCHANGED <<client, wire, lane, registry, op, attempts, forgotten>>,
           \A u \in Threads \ {t} : pc'[u] = pc[u] /\ progress'[u] = progress[u],
           \A x \in Ops \ {op[t]} : calls'[x] = calls[x],
           \A x \in Ops, n \in Nat : Stored(x, n) => Stored(x, n)',
           \A x \in Ops \ {op[t]} : Untouched(x) => Untouched(x)',
           calls'[op[t]].made = 0 => calls[op[t]].made = 0 /\ log' = log,
           BatchesAreContiguous', Applying(t)'
    PROVE  IInv'
<1> DEFINE o == op[t]
<1>0. /\ o \in Ops /\ LocalStatus(req[o]) = "none" /\ lane = t
      /\ \A u \in Threads \ {t} : pc[u] \in {"idle", "lane"}
      /\ req[o].ack => entries[o] = Processing
      /\ ~Completed(o)
  BY Zenon, LaneFacts DEF Working
<1>1. /\ req' = req /\ phase' = phase /\ res' = res /\ copies' = copies /\ lane' = lane
      /\ entries' = entries /\ ring' = ring /\ busy' = busy /\ op' = op
      /\ attempts' = attempts /\ forgotten' = forgotten
  BY Zenon DEF client, wire, registry
<1>s. \A x \in Ops : req[x].size \in Nat
  BY Zenon DEF IInv, TypeInv, Request
<1>2. LaneInv'
  <2>1. ASSUME NEW u \in Threads PROVE LaneOf(u)'
    <3>1. LaneOf(u)
      BY Zenon DEF IInv, LaneInv
    <3>2. CASE u = t
      <4>1. pc[t] # "idle" /\ pc'[t] # "idle"
        BY Zenon DEF Working
      <4> QED
        BY Zenon, <1>0, <1>1, <3>1, <3>2, <4>1 DEF LaneOf
    <3>3. CASE u # t
      <4>1. pc'[u] = pc[u]
        BY Zenon, <3>3
      <4> QED
        BY Zenon, <1>1, <3>1, <4>1 DEF LaneOf
    <3> QED
      BY Zenon, <3>2, <3>3
  <2>2. ASSUME NEW x \in Ops PROVE TokenOf(x)'
    <3>1. TokenOf(x)
      BY Zenon DEF IInv, LaneInv
    <3> QED
      BY Zenon, <1>1, <3>1 DEF TokenOf
  <2> QED
    BY Zenon, <2>1, <2>2 DEF LaneInv
<1>3. RingInv'
  BY Zenon, <1>1 DEF IInv, RingInv, Completed
<1>4. ApplyInv'
  <2> SUFFICES ASSUME NEW u \in Threads \ {t} PROVE Applying(u)'
    BY Zenon DEF ApplyInv
  <2>1. pc'[u] \in {"idle", "lane"} /\ progress'[u] = NoProgress
    BY Zenon, <1>0 DEF IInv, ApplyInv, Applying
  <2>2. pc'[u] \notin {"apply", "engine", "finish"}
    BY Zenon, <2>1
  <2> QED
    BY Zenon, <2>1, <2>2 DEF Applying, Working
<1>5. ResultInv'
  <2> SUFFICES ASSUME NEW x \in Ops PROVE ResultOf(x)'
    BY Zenon DEF ResultInv
  <2>1. Completed(x)' <=> Completed(x)
    BY Zenon, <1>1 DEF Completed
  <2>2. Completed(x) => calls'[x] = calls[x]
    BY Zenon, <1>0
  <2> QED
    BY Zenon, <1>1, <1>s, <2>1, <2>2 DEF IInv, ResultInv, ResultOf
<1>6. AnswerInv'
  <2> SUFFICES ASSUME NEW x \in Ops PROVE AnswerOf(x)'
    BY Zenon DEF AnswerInv
  <2>1. Completed(x)' <=> Completed(x)
    BY Zenon, <1>1 DEF Completed
  <2>2. res'[x] = "Ok" => Stored(x, req[x].size)'
    BY Zenon, <1>1, <1>s DEF IInv, AnswerInv, AnswerOf
  <2>3. CASE x = o
    <3>1. Absent # Processing
      BY Zenon DEF Absent, Processing, Result
    <3>2. calls'[o].made = 0 => (Untouched(o)' <=> Untouched(o))
      BY Zenon, SameStore
    <3> QED
      BY Zenon, <1>0, <1>1, <2>1, <2>2, <2>3, <3>1, <3>2 DEF IInv, AnswerInv, AnswerOf
  <2>4. CASE x # o
    <3>1. calls'[x] = calls[x] /\ (Untouched(x) => Untouched(x)')
      BY Zenon, <2>4
    <3> QED
      BY <1>1, <2>1, <2>2, <3>1 DEF IInv, AnswerInv, AnswerOf
  <2> QED
    BY Zenon, <2>3, <2>4
<1> QED
  BY Zenon, <1>2, <1>3, <1>4, <1>5, <1>6 DEF IInv

\* Goto moves one thread.
LEMMA GotoFacts ==
    ASSUME TypeInv, NEW t \in Threads, NEW next \in {"idle", "lane"} \union Working, Goto(t, next)
    PROVE  /\ pc' \in [Threads -> {"idle", "lane"} \union Working] /\ pc'[t] = next
           /\ \A u \in Threads \ {t} : pc'[u] = pc[u]
BY Zenon DEF TypeInv, Goto

\* A result that the guard makes up for a thrown exception is a true one.
LEMMA GuardTrue ==
    ASSUME IInv, NEW t \in Threads, pc[t] \in {"apply", "engine"},
           pc[t] = "apply" => ~progress[t].invoked
    PROVE  /\ GuardResult(op[t], progress[t]) \in AnyResult
           /\ TrueResult(req[op[t]], GuardResult(op[t], progress[t]), calls[op[t]])
<1> DEFINE q == req[op[t]]
           p == progress[t]
           c == calls[op[t]]
<1>1. /\ q \in Request /\ p \in [invoked: BOOLEAN, applied: Nat, index: Nat]
      /\ c \in [made: Nat, confirmed: Nat] /\ Applying(t) /\ pc[t] \in Working
  BY Zenon, LaneFacts DEF IInv, TypeInv, Working
<1>2. /\ p.applied = p.index /\ c.confirmed = p.index /\ p.index < q.size
      /\ ~p.invoked => c.made = 0
      /\ p.invoked => c.made = p.index + 1
  <2>1. CASE pc[t] = "apply"
    BY <1>1, <2>1 DEF Applying
  <2>2. CASE pc[t] = "engine"
    BY Zenon, <1>1, <2>2 DEF Applying
  <2> QED
    BY Zenon, <2>1, <2>2
<1>3. /\ q.size \in Nat /\ (q.kind # "batch" => q.size = 1)
  BY Zenon, <1>1 DEF Request
<1>4. CASE ~p.invoked
  <2> DEFINE f == IF q.kind = "batch" THEN NoIndex ELSE 0
  <2>1. GuardResult(op[t], p) = Result("Error", 0, f) /\ f \in Int /\ (q.kind # "batch" => f = 0)
    BY <1>4 DEF GuardResult, NoIndex
  <2> HIDE DEF f
  <2>2. Result("Error", 0, f) \in AnyResult
    BY <2>1 DEF Result, AnyResult, Statuses
  <2>3. TrueResult(q, Result("Error", 0, f), c)
    BY Zenon, <1>2, <1>4, <2>1 DEF Result, TrueResult, ValidAckResult, Statuses, Definite
  <2> QED
    BY Zenon, <2>1, <2>2, <2>3
<1>5. CASE p.invoked
  <2> DEFINE f == IF q.kind = "batch" THEN p.index ELSE 0
  <2>1. GuardResult(op[t], p) = Result("OutcomeUnknown", p.applied, f)
    BY Zenon, <1>5 DEF GuardResult
  <2>2. f = p.index /\ f \in Nat /\ (q.kind # "batch" => f = 0)
    BY <1>1, <1>2, <1>3
  <2> HIDE DEF f
  <2>3. Result("OutcomeUnknown", p.applied, f) \in AnyResult
    BY <1>1, <1>2, <2>2 DEF Result, AnyResult, Statuses
  <2>4. TrueResult(q, Result("OutcomeUnknown", p.applied, f), c)
    BY <1>1, <1>2, <1>5, <2>2 DEF Result, TrueResult, ValidAckResult, Statuses, Definite, NoIndex
  <2> QED
    BY Zenon, <2>1, <2>3, <2>4
<1> QED
  BY Zenon, <1>4, <1>5

LEMMA ThrowEarlyStep ==
    ASSUME IInv, NEW t \in Threads, ThrowEarly(t)
    PROVE  IInv'
<1> DEFINE r == GuardResult(op[t], progress[t])
<1>0. pc[t] = "apply" /\ ~progress[t].invoked /\ pc[t] \in Working /\ "finish" \in Working
  BY Zenon DEF ThrowEarly, Working
<1>1. r \in AnyResult /\ TrueResult(req[op[t]], r, calls[op[t]])
  BY Zenon, <1>0, GuardTrue
<1> HIDE DEF r
<1>2. /\ UNCHANGED <<client, wire, lane, registry, op, attempts, forgotten>>
      /\ UNCHANGED <<lifecycle, progress, mutated, log, calls>>
      /\ out' = [out EXCEPT ![t] = r] /\ Goto(t, "finish")
  BY Zenon DEF ThrowEarly, history, r
<1>3. /\ pc' \in [Threads -> {"idle", "lane"} \union Working] /\ pc'[t] = "finish"
      /\ \A u \in Threads \ {t} : pc'[u] = pc[u]
  BY Zenon, <1>0, <1>2, GotoFacts DEF IInv
<1>4. out' \in [Threads -> AnyResult] /\ out'[t] = r
  BY Zenon, <1>1, <1>2 DEF IInv, TypeInv
<1>5. TypeInv'
  BY Zenon, <1>2, <1>3, <1>4 DEF IInv, TypeInv, client, wire, lifecycle, registry
<1>6. op[t] \in Ops /\ Stored(op[t], calls[op[t]].confirmed)
  BY Zenon, <1>0, LaneFacts DEF Applying
<1>7. Applying(t)'
  <2>1. op' = op /\ calls' = calls /\ req' = req
    BY Zenon, <1>2 DEF client
  <2>2. Stored(op[t], calls[op[t]].confirmed)'
    BY Zenon, <1>2, <1>6, <2>1, SameStore
  <2>3. pc'[t] \notin {"idle", "lane", "apply", "engine"}
    BY Zenon, <1>3
  <2> QED
    BY Zenon, <1>1, <1>4, <2>1, <2>2, <2>3 DEF Applying
<1>8. BatchesAreContiguous' /\ \A x, n : Stored(x, n)' <=> Stored(x, n)
  BY Zenon, <1>2, SameStore DEF IInv
<1>9. \A x : Untouched(x)' <=> Untouched(x)
  BY Zenon, <1>2, SameStore
<1> QED
  BY Zenon, <1>0, <1>2, <1>3, <1>5, <1>7, <1>8, <1>9, Work

LEMMA InvokeStep ==
    ASSUME IInv, NEW t \in Threads, Invoke(t)
    PROVE  IInv'
<1>0. pc[t] = "apply" /\ pc[t] \in Working /\ "engine" \in Working
  BY Zenon DEF Invoke, Working
<1>o. PICK o \in Ops : o = op[t]
  BY Zenon, <1>0, LaneFacts
<1>i. PICK i \in Nat : i = progress[t].index
  BY Zenon DEF IInv, TypeInv
<1> DEFINE e == [op |-> o, index |-> i]
<1>1. /\ o \in Ops /\ Stored(o, calls[o].confirmed)
      /\ progress[t].applied = i /\ calls[o].confirmed = i /\ i < req[o].size
      /\ calls[o].made = i /\ (i > 0 => LastIs(o, i - 1))
  BY Zenon, <1>0, <1>o, <1>i, LaneFacts DEF Applying
<1>2. /\ progress[t] \in [invoked: BOOLEAN, applied: Nat, index: Nat]
      /\ calls[o] \in [made: Nat, confirmed: Nat]
  BY Zenon, <1>1 DEF IInv, TypeInv
<1>3. /\ UNCHANGED <<client, wire, lane, registry, op, attempts, forgotten>>
      /\ UNCHANGED <<lifecycle, out>> /\ Goto(t, "engine")
      /\ progress' = [progress EXCEPT ![t] = Invoked(@)]
      /\ calls' = [calls EXCEPT ![o].made = @ + 1]
  BY Zenon, <1>o DEF Invoke
<1>4. PICK m \in BOOLEAN : mutated' = [mutated EXCEPT ![t] = m]
                           /\ log' = IF m THEN Append(log, e) ELSE log
  BY Zenon, <1>o, <1>i DEF Invoke
<1>5. /\ pc' \in [Threads -> {"idle", "lane"} \union Working] /\ pc'[t] = "engine"
      /\ \A u \in Threads \ {t} : pc'[u] = pc[u]
  BY Zenon, <1>0, <1>3, GotoFacts DEF IInv
<1>6. /\ progress' \in [Threads -> [invoked: BOOLEAN, applied: Nat, index: Nat]]
      /\ progress'[t].invoked /\ progress'[t].applied = i /\ progress'[t].index = i
      /\ \A u \in Threads \ {t} : progress'[u] = progress[u]
  <2>1. /\ Invoked(progress[t]) \in [invoked: BOOLEAN, applied: Nat, index: Nat]
        /\ Invoked(progress[t]).invoked /\ Invoked(progress[t]).applied = i
        /\ Invoked(progress[t]).index = i
    BY Zenon, <1>i, <1>1, <1>2 DEF Invoked
  <2> QED
    BY Zenon, <1>3, <2>1 DEF IInv, TypeInv
<1>7. /\ calls' \in [Ops -> [made: Nat, confirmed: Nat]]
      /\ calls'[o].made = i + 1 /\ calls'[o].confirmed = i
      /\ \A x \in Ops \ {o} : calls'[x] = calls[x]
  <2> DEFINE c == [calls[o] EXCEPT !.made = @ + 1]
  <2>1. c \in [made: Nat, confirmed: Nat] /\ c.made = i + 1 /\ c.confirmed = i
    BY <1>1, <1>2
  <2>2. calls' = [calls EXCEPT ![o] = c]
    BY Zenon, <1>3
  <2> HIDE DEF c
  <2> QED
    BY Zenon, <1>1, <2>1, <2>2 DEF IInv, TypeInv
<1>8. /\ log' \in Seq([op: Ops, index: Nat]) /\ (m => LastIs(o, i)') /\ BatchesAreContiguous'
      /\ \A x \in Ops, n \in Nat : Stored(x, n) => Stored(x, n)'
      /\ \A x \in Ops \ {o} : Untouched(x) => Untouched(x)'
  <2>1. CASE m
    BY Zenon, <1>1, <1>4, <2>1, Mutation DEF IInv
  <2>2. CASE ~m
    <3>1. log' = log
      BY Zenon, <1>4, <2>2
    <3> QED
      BY Zenon, <2>2, <3>1, SameStore DEF IInv, TypeInv
  <2> QED
    BY Zenon, <2>1, <2>2
<1>9. mutated' \in [Threads -> BOOLEAN] /\ mutated'[t] = m
  BY Zenon, <1>4 DEF IInv, TypeInv
<1>10. TypeInv'
  BY Zenon, <1>3, <1>5, <1>6, <1>7, <1>8, <1>9
     DEF IInv, TypeInv, client, wire, lifecycle, registry
<1>11. op' = op /\ req' = req
  BY Zenon, <1>3 DEF client
<1>12. Applying(t)'
  <2>1. Stored(o, i)
    BY Zenon, <1>1
  <2>2. Stored(op[t], calls[op[t]].confirmed)'
    <3>1. Stored(o, i)'
      BY Zenon, <1>1, <1>8, <2>1
    <3> QED
      BY Zenon, <1>o, <1>7, <1>11, <3>1 DEF Stored
  <2>3. mutated'[t] => LastIs(op[t], progress[t].index)'
    BY Zenon, <1>o, <1>6, <1>8, <1>9, <1>11 DEF LastIs
  <2>4. pc'[t] \notin {"idle", "lane", "apply", "finish"}
    BY Zenon, <1>5
  <2> QED
    BY Zenon, <1>o, <1>1, <1>6, <1>7, <1>11, <2>2, <2>3, <2>4 DEF Applying
<1>13. calls'[o].made # 0
  BY <1>2, <1>7
<1> QED
  BY Zenon, <1>0, <1>o, <1>3, <1>5, <1>6, <1>7, <1>8, <1>10, <1>12, <1>13, Work

\* The engine call returns true.
LEMMA EngineTrueStep ==
    ASSUME IInv, NEW t \in Threads, EngineTrue(t)
    PROVE  IInv'
<1>o. PICK o \in Ops : o = op[t]
  BY Zenon, LaneFacts DEF EngineTrue
<1>i. PICK i \in Nat : i = progress[t].index
  BY Zenon DEF IInv, TypeInv
<1> DEFINE more == i + 1 < req[o].size
           batch == req[o].kind = "batch"
<1>0. pc[t] = "engine" /\ mutated[t] /\ pc[t] \in Working /\ {"apply", "finish"} \subseteq Working
  BY Zenon DEF EngineTrue, Working
<1>1. /\ o \in Ops /\ req[o] \in Request /\ Stored(o, calls[o].confirmed)
      /\ progress[t].applied = i /\ calls[o].confirmed = i /\ i < req[o].size
      /\ calls[o].made = i + 1 /\ progress[t].invoked /\ LastIs(o, i)
  BY Zenon, <1>0, <1>o, <1>i, LaneFacts DEF Applying
<1>2. /\ progress[t] \in [invoked: BOOLEAN, applied: Nat, index: Nat]
      /\ calls[o] \in [made: Nat, confirmed: Nat]
  BY Zenon, <1>1 DEF IInv, TypeInv
<1>3. i \in Nat /\ req[o].size \in Nat /\ (~batch => req[o].size = 1)
  BY Zenon, <1>1, <1>2 DEF Request
<1>4. /\ UNCHANGED <<client, wire, lane, registry, op, attempts, forgotten>>
      /\ UNCHANGED <<lifecycle, log>> /\ mutated' = [mutated EXCEPT ![t] = FALSE]
      /\ calls' = [calls EXCEPT ![o].confirmed = @ + 1]
      /\ IF more
            THEN /\ progress' = [progress EXCEPT ![t].applied = i + 1, ![t].index = i + 1]
                 /\ Goto(t, "apply") /\ UNCHANGED out
            ELSE /\ out' = [out EXCEPT ![t] = Result("Ok", i + 1, NoIndex)]
                 /\ progress' = [progress EXCEPT ![t].applied = IF batch THEN i + 1 ELSE 0]
                 /\ Goto(t, "finish")
  BY Zenon, <1>o, <1>i DEF EngineTrue
<1>5. /\ calls' \in [Ops -> [made: Nat, confirmed: Nat]]
      /\ calls'[o].made = i + 1 /\ calls'[o].confirmed = i + 1
      /\ \A x \in Ops \ {o} : calls'[x] = calls[x]
  <2> DEFINE c == [calls[o] EXCEPT !.confirmed = @ + 1]
  <2>1. c \in [made: Nat, confirmed: Nat] /\ c.made = i + 1 /\ c.confirmed = i + 1
    BY Zenon, <1>1, <1>2, <1>3
  <2>2. calls' = [calls EXCEPT ![o] = c]
    BY Zenon, <1>4
  <2> HIDE DEF c
  <2> QED
    BY Zenon, <1>1, <2>1, <2>2 DEF IInv, TypeInv
<1>6. mutated' \in [Threads -> BOOLEAN]
  BY Zenon, <1>4 DEF IInv, TypeInv
<1>7. op' = op /\ req' = req /\ log' = log /\ calls'[o].made # 0
  BY <1>3, <1>4, <1>5 DEF client
<1>8. Stored(op[t], calls[op[t]].confirmed)' /\ LastIs(o, i)'
  <2>1. Stored(o, i + 1)
    BY Zenon, <1>1, <1>3, Confirmed DEF IInv
  <2>2. Stored(o, i + 1)' /\ LastIs(o, i)'
    BY Zenon, <1>1, <1>7, <2>1, SameStore
  <2> QED
    BY Zenon, <1>o, <1>5, <1>7, <2>2 DEF Stored
<1>9. /\ BatchesAreContiguous' /\ \A x, n : Stored(x, n)' <=> Stored(x, n)
      /\ \A x : Untouched(x)' <=> Untouched(x)
  BY Zenon, <1>7, SameStore DEF IInv
<1> DEFINE Progress == [invoked: BOOLEAN, applied: Nat, index: Nat]
<1>10. CASE more
  <2> DEFINE p == [progress[t] EXCEPT !.applied = i + 1, !.index = i + 1]
  <2>1. p \in Progress /\ p.applied = i + 1 /\ p.index = i + 1 /\ p.invoked
    BY Zenon, <1>1, <1>2, <1>3
  <2>2. progress' = [progress EXCEPT ![t] = p]
    <3>1. progress \in [Threads -> Progress]
      BY Zenon DEF IInv, TypeInv
    <3> QED
      BY Zenon, <1>4, <1>10, <3>1
  <2> HIDE DEF p
  <2>3. /\ progress' \in [Threads -> Progress] /\ progress'[t] = p
        /\ \A u \in Threads \ {t} : progress'[u] = progress[u]
    BY Zenon, <2>1, <2>2 DEF IInv, TypeInv
  <2>4. /\ pc' \in [Threads -> {"idle", "lane"} \union Working] /\ pc'[t] = "apply"
        /\ \A u \in Threads \ {t} : pc'[u] = pc[u]
    BY Zenon, <1>0, <1>4, <1>10, GotoFacts DEF IInv
  <2>5. TypeInv'
    BY Zenon, <1>4, <1>5, <1>6, <1>10, <2>3, <2>4
       DEF IInv, TypeInv, client, wire, lifecycle, registry
  <2>6. LastIs(op[t], progress[t].index - 1)'
    <3>1. progress'[t].index - 1 = i
      BY <1>3, <2>1, <2>3
    <3> QED
      BY Zenon, <1>o, <1>7, <1>8, <3>1 DEF LastIs
  <2>7. Applying(t)'
    <3>1. pc'[t] \notin {"idle", "lane", "engine", "finish"} /\ i + 1 > 0
      BY <1>3, <2>4
    <3> QED
      BY Zenon, <1>o, <1>5, <1>7, <1>8, <1>10, <2>1, <2>3, <2>6, <3>1 DEF Applying
  <2> QED
    BY Zenon, <1>0, <1>o, <1>4, <1>5, <1>7, <1>9, <2>3, <2>4, <2>5, <2>7, Work
<1>11. CASE ~more
  <2> DEFINE r == Result("Ok", i + 1, NoIndex)
             p == [progress[t] EXCEPT !.applied = IF batch THEN i + 1 ELSE 0]
  <2>1. i + 1 = req[o].size
    BY <1>1, <1>3, <1>11
  <2>2. r \in AnyResult
    BY <1>3 DEF Result, AnyResult, NoIndex, Statuses
  <2>3. TrueResult(req[o], r, calls'[o])
    <3>1. r.status = "Ok" /\ r.applied = i + 1 /\ r.failed = NoIndex
      BY Zenon DEF Result
    <3> HIDE DEF r
    <3>2. ValidAckResult(req[o].kind, r)
      <4>1. ~batch => r.applied = 1
        BY Zenon, <1>3, <2>1, <3>1
      <4> QED
        BY Zenon, <3>1, <4>1 DEF ValidAckResult
    <3>3. "Ok" \in Statuses /\ "Ok" \notin Definite /\ "Ok" # "OutcomeUnknown"
      BY Zenon DEF Statuses, Definite
    <3> QED
      BY Zenon, <1>5, <2>1, <3>1, <3>2, <3>3 DEF TrueResult
  <2>4. p \in Progress
    BY <1>2, <1>3
  <2>5. progress' = [progress EXCEPT ![t] = p]
    <3>1. progress \in [Threads -> Progress]
      BY Zenon DEF IInv, TypeInv
    <3> QED
      BY Zenon, <1>4, <1>11, <3>1
  <2>x. out' = [out EXCEPT ![t] = r]
    BY Zenon, <1>4, <1>11
  <2> HIDE DEF p, r
  <2>6. /\ progress' \in [Threads -> Progress]
        /\ \A u \in Threads \ {t} : progress'[u] = progress[u]
    BY Zenon, <2>4, <2>5 DEF IInv, TypeInv
  <2>7. out' \in [Threads -> AnyResult] /\ out'[t] = r
    BY Zenon, <2>2, <2>x DEF IInv, TypeInv
  <2>8. /\ pc' \in [Threads -> {"idle", "lane"} \union Working] /\ pc'[t] = "finish"
        /\ \A u \in Threads \ {t} : pc'[u] = pc[u]
    BY Zenon, <1>0, <1>4, <1>11, GotoFacts DEF IInv
  <2>9. TypeInv'
    BY Zenon, <1>4, <1>5, <1>6, <2>6, <2>7, <2>8
       DEF IInv, TypeInv, client, wire, lifecycle, registry
  <2>10. Applying(t)'
    <3>1. pc'[t] \notin {"idle", "lane", "engine", "apply"}
      BY Zenon, <2>8
    <3> QED
      BY Zenon, <1>o, <1>7, <1>8, <2>3, <2>7, <3>1 DEF Applying
  <2> QED
    BY Zenon, <1>0, <1>o, <1>4, <1>5, <1>7, <1>9, <2>6, <2>8, <2>9, <2>10, Work
<1> QED
  BY Zenon, <1>10, <1>11

\* It fails or throws.
LEMMA EngineFailsStep ==
    ASSUME IInv, NEW t \in Threads, EngineFails(t)
    PROVE  IInv'
<1> DEFINE i == progress[t].index
<1>0. pc[t] = "engine" /\ pc[t] \in Working /\ "finish" \in Working
  BY Zenon DEF EngineFails, Working
<1>1. /\ op[t] \in Ops /\ req[op[t]] \in Request /\ Stored(op[t], calls[op[t]].confirmed)
      /\ calls[op[t]].confirmed = i /\ i < req[op[t]].size /\ calls[op[t]].made = i + 1
  BY Zenon, <1>0, LaneFacts DEF Applying
<1>2. progress[t] \in [invoked: BOOLEAN, applied: Nat, index: Nat]
  BY Zenon DEF IInv, TypeInv
<1>3. i \in Nat /\ req[op[t]].size \in Nat /\ (req[op[t]].kind # "batch" => req[op[t]].size = 1)
  BY Zenon, <1>1, <1>2 DEF Request
<1>4. /\ Result("OutcomeUnknown", i, i) \in AnyResult
      /\ TrueResult(req[op[t]], Result("OutcomeUnknown", i, i), calls[op[t]])
  <2>1. Result("OutcomeUnknown", i, i) \in AnyResult
    BY <1>3 DEF Result, AnyResult, Statuses
  <2>2. TrueResult(req[op[t]], Result("OutcomeUnknown", i, i), calls[op[t]])
    BY <1>1, <1>3 DEF Result, TrueResult, ValidAckResult, Definite, Statuses, NoIndex
  <2> QED
    BY Zenon, <2>1, <2>2
<1>5. /\ GuardResult(op[t], progress[t]) \in AnyResult
      /\ TrueResult(req[op[t]], GuardResult(op[t], progress[t]), calls[op[t]])
  BY Zenon, <1>0, GuardTrue
<1>6. PICK r \in AnyResult : /\ out' = [out EXCEPT ![t] = r]
                             /\ TrueResult(req[op[t]], r, calls[op[t]])
  BY Zenon, <1>4, <1>5 DEF EngineFails
<1>7. /\ UNCHANGED <<client, wire, lane, registry, op, attempts, forgotten>>
      /\ UNCHANGED <<lifecycle, progress, log, calls>> /\ Goto(t, "finish")
      /\ mutated' = [mutated EXCEPT ![t] = FALSE]
  BY Zenon DEF EngineFails, history
<1>8. /\ pc' \in [Threads -> {"idle", "lane"} \union Working] /\ pc'[t] = "finish"
      /\ \A u \in Threads \ {t} : pc'[u] = pc[u]
  BY Zenon, <1>0, <1>7, GotoFacts DEF IInv
<1>9. out' \in [Threads -> AnyResult] /\ out'[t] = r /\ mutated' \in [Threads -> BOOLEAN]
  BY Zenon, <1>6, <1>7 DEF IInv, TypeInv
<1>10. TypeInv'
  BY Zenon, <1>7, <1>8, <1>9 DEF IInv, TypeInv, client, wire, lifecycle, registry
<1>11. Applying(t)'
  <2>1. op' = op /\ calls' = calls /\ req' = req
    BY Zenon, <1>7 DEF client
  <2>2. Stored(op[t], calls[op[t]].confirmed)'
    BY Zenon, <1>1, <1>7, <2>1, SameStore
  <2>3. pc'[t] \notin {"idle", "lane", "apply", "engine"}
    BY Zenon, <1>8
  <2> QED
    BY Zenon, <1>6, <1>9, <2>1, <2>2, <2>3 DEF Applying
<1>12. /\ BatchesAreContiguous' /\ \A x, n : Stored(x, n)' <=> Stored(x, n)
       /\ \A x : Untouched(x)' <=> Untouched(x)
  BY Zenon, <1>7, SameStore DEF IInv
<1> QED
  BY Zenon, <1>0, <1>7, <1>8, <1>10, <1>11, <1>12, Work

-----------------------------------------------------------------------------
(* The way into the lane and out of it.                                     *)

\* The registry and the store are as they were.
LEMMA SameRegistry ==
    ASSUME IInv, UNCHANGED <<req, registry, history>>
    PROVE  /\ RingInv' /\ ResultInv' /\ BatchesAreContiguous'
           /\ \A x : Completed(x)' <=> Completed(x)
           /\ \A x : Untouched(x)' <=> Untouched(x)
           /\ \A x, n : Stored(x, n)' <=> Stored(x, n)
<1>1. /\ req' = req /\ entries' = entries /\ ring' = ring /\ log' = log /\ calls' = calls
      /\ attempts' = attempts /\ forgotten' = forgotten
  BY Zenon DEF registry, history
<1>2. \A x : Completed(x)' <=> Completed(x)
  BY Zenon, <1>1 DEF Completed
<1>3. RingInv'
  BY Zenon, <1>1, <1>2 DEF IInv, RingInv
<1>4. /\ BatchesAreContiguous'
      /\ \A x : Untouched(x)' <=> Untouched(x)
      /\ \A x, n : Stored(x, n)' <=> Stored(x, n)
  BY Zenon, <1>1, SameStore DEF IInv
<1>5. ResultInv'
  <2> SUFFICES ASSUME NEW x \in Ops PROVE ResultOf(x)'
    BY Zenon DEF ResultInv
  <2>1. Stored(x, req[x].size)' <=> Stored(x, req[x].size)
    BY Zenon, <1>1 DEF Stored
  <2> QED
    BY Zenon, <1>1, <1>2, <2>1 DEF IInv, ResultInv, ResultOf
<1> QED
  BY Zenon, <1>2, <1>3, <1>4, <1>5

\* A thread outside the lane has nothing at hand.
LEMMA Outside ==
    ASSUME NEW t \in Threads, pc'[t] \in {"idle", "lane"}, progress'[t] = NoProgress
    PROVE  Applying(t)'
<1>1. pc'[t] \notin {"apply", "engine", "finish"}
  BY Zenon
<1> QED
  BY Zenon, <1>1 DEF Applying, Working

LEMMA DeliverStep ==
    ASSUME IInv, NEW t \in Threads, NEW o \in Ops, Deliver(t, o)
    PROVE  IInv'
<1>1. /\ UNCHANGED <<req, registry, history>> /\ UNCHANGED <<phase, res, lane, progress, out, mutated>>
      /\ UNCHANGED lifecycle /\ copies[o] > 0 /\ pc[t] = "idle"
      /\ copies' = [copies EXCEPT ![o] = copies[o] - 1]
      /\ IF node = "up" THEN Goto(t, "lane") /\ op' = [op EXCEPT ![t] = o] ELSE UNCHANGED <<pc, op>>
  BY Zenon DEF Deliver, client
<1>2. copies' \in [Ops -> 0 .. 2] /\ \A x \in Ops \ {o} : copies'[x] = copies[x]
  <2>1. copies \in [Ops -> 0 .. 2]
    BY Zenon DEF IInv, TypeInv
  <2>2. copies[o] - 1 \in 0 .. 2
    BY <1>1, <2>1
  <2> QED
    BY Zenon, <1>1, <2>1, <2>2
<1>3. LocalStatus(req[o]) = "none"
  <2>1. copies[o] # 0
    BY <1>1 DEF IInv, TypeInv
  <2> QED
    BY Zenon, <2>1 DEF IInv, AnswerInv, AnswerOf
<1>4. /\ pc' \in [Threads -> {"idle", "lane"} \union Working]
      /\ op' \in [Threads -> Ops \union {None}]
      /\ \A u \in Threads \ {t} : pc'[u] = pc[u] /\ op'[u] = op[u]
      /\ (pc'[t] = "lane" /\ op'[t] = o) \/ (pc'[t] = pc[t] /\ op'[t] = op[t])
  <2>1. CASE node = "up"
    <3>1. Goto(t, "lane") /\ op' = [op EXCEPT ![t] = o]
      BY Zenon, <1>1, <2>1
    <3>2. op' \in [Threads -> Ops \union {None}] /\ op'[t] = o /\ \A u \in Threads \ {t} : op'[u] = op[u]
      BY Zenon, <3>1 DEF IInv, TypeInv
    <3> QED
      BY Zenon, <3>1, <3>2, GotoFacts DEF IInv
  <2>2. CASE node # "up"
    BY Zenon, <1>1, <2>2 DEF IInv, TypeInv
  <2> QED
    BY Zenon, <2>1, <2>2
<1>5. TypeInv'
  BY Zenon, <1>1, <1>2, <1>4 DEF IInv, TypeInv, lifecycle, registry, history
<1>6. entries' = entries /\ busy' = busy /\ calls' = calls /\ forgotten' = forgotten /\ req' = req /\ lane' = lane
  BY Zenon, <1>1 DEF registry, history
<1>7. pc[t] \notin Working /\ "lane" \notin Working /\ "lane" # "idle" /\ o # None /\ lane # t
  BY Zenon, <1>1, NamesAssumption DEF IInv, LaneInv, LaneOf, TokenOf, Working
<1>8. LaneInv'
  <2>1. ASSUME NEW u \in Threads PROVE LaneOf(u)'
    <3>1. LaneOf(u)
      BY Zenon DEF IInv, LaneInv
    <3>2. CASE u = t
      BY Zenon, <1>4, <1>6, <1>7, <3>1, <3>2 DEF LaneOf
    <3>3. CASE u # t
      BY Zenon, <1>4, <1>6, <3>1, <3>3 DEF LaneOf
    <3> QED
      BY Zenon, <3>2, <3>3
  <2>2. ASSUME NEW x \in Ops PROVE TokenOf(x)'
    <3>1. \A u \in Threads : lane = u => op'[u] = op[u]
      BY Zenon, <1>4, <1>7
    <3>2. TokenOf(x)
      BY Zenon DEF IInv, LaneInv
    <3> QED
      BY Zenon, <1>6, <3>1, <3>2 DEF TokenOf
  <2> QED
    BY Zenon, <2>1, <2>2 DEF LaneInv
<1>9. ApplyInv'
  <2> SUFFICES ASSUME NEW u \in Threads PROVE Applying(u)'
    BY Zenon DEF ApplyInv
  <2>1. CASE u = t
    <3>1. progress[t] = NoProgress
      BY Zenon, <1>1 DEF IInv, ApplyInv, Applying
    <3>2. pc'[t] \in {"idle", "lane"} /\ progress'[t] = NoProgress
      BY Zenon, <1>1, <1>4, <3>1
    <3> QED
      BY Zenon, <2>1, <3>2, Outside
  <2>2. CASE u # t
    <3>1. pc'[u] = pc[u] /\ op'[u] = op[u] /\ progress' = progress /\ out' = out /\ mutated' = mutated
      BY Zenon, <1>1, <1>4, <2>2
    <3>2. log' = log
      BY Zenon, <1>1 DEF history
    <3>3. Applying(u)
      BY Zenon DEF IInv, ApplyInv
    <3> QED
      BY Zenon, <1>6, <3>1, <3>2, <3>3 DEF Applying, Stored, LastIs
  <2> QED
    BY Zenon, <2>1, <2>2
<1>10. AnswerInv'
  <2> SUFFICES ASSUME NEW x \in Ops PROVE AnswerOf(x)'
    BY Zenon DEF AnswerInv
  <2>1. /\ Completed(x)' <=> Completed(x)
        /\ Untouched(x)' <=> Untouched(x)
    BY Zenon, <1>1, SameRegistry
  <2>2. Stored(x, req[x].size)' <=> Stored(x, req[x].size)
    BY Zenon, <1>1 DEF Stored, history
  <2>3. LocalStatus(req[x]) # "none" => copies'[x] = copies[x] /\ \A u \in Threads : op'[u] = op[u] \/ op'[u] # x
    BY Zenon, <1>2, <1>3, <1>4
  <2>4. AnswerOf(x) /\ phase' = phase /\ res' = res
    BY Zenon, <1>1 DEF IInv, AnswerInv
  <2> QED
    BY Zenon, <1>6, <2>1, <2>2, <2>3, <2>4 DEF AnswerOf
<1> QED
  BY Zenon, <1>1, <1>5, <1>8, <1>9, <1>10, SameRegistry DEF IInv

\* The thread goes, and the lane with it.
LEMMA LeaveFacts ==
    ASSUME IInv, NEW t \in Threads, Leave(t), lane \in {t, None}
    PROVE  /\ pc' \in [Threads -> {"idle", "lane"} \union Working]
           /\ op' \in [Threads -> Ops \union {None}]
           /\ progress' \in [Threads -> [invoked: BOOLEAN, applied: Nat, index: Nat]]
           /\ out' \in [Threads -> AnyResult]
           /\ pc'[t] = "idle" /\ op'[t] = None /\ progress'[t] = NoProgress /\ lane' = None
           /\ \A u \in Threads \ {t} : pc'[u] = pc[u] /\ op'[u] = op[u] /\ progress'[u] = progress[u]
           /\ ApplyInv' /\ \A u \in Threads : LaneOf(u)'
<1>1. Goto(t, "idle")
  BY Zenon DEF Leave
<1>2. pc' \in [Threads -> {"idle", "lane"} \union Working] /\ pc'[t] = "idle"
      /\ \A u \in Threads \ {t} : pc'[u] = pc[u]
  BY Zenon, <1>1, GotoFacts DEF IInv
<1>3. NoProgress \in [invoked: BOOLEAN, applied: Nat, index: Nat]
  BY Zenon DEF NoProgress
<1>4. NoResult \in AnyResult
  BY DEF NoResult, Result, AnyResult
<1>5. /\ op' \in [Threads -> Ops \union {None}] /\ op'[t] = None
      /\ \A u \in Threads \ {t} : op'[u] = op[u]
  BY Zenon DEF IInv, TypeInv, Leave
<1>6. /\ progress' \in [Threads -> [invoked: BOOLEAN, applied: Nat, index: Nat]]
      /\ progress'[t] = NoProgress
      /\ \A u \in Threads \ {t} : progress'[u] = progress[u]
  BY Zenon, <1>3 DEF IInv, TypeInv, Leave
<1>7. out' \in [Threads -> AnyResult]
  BY Zenon, <1>4 DEF IInv, TypeInv, Leave
<1>8. lane' = None
  BY Zenon DEF Leave
<1>9. ASSUME NEW u \in Threads \ {t} PROVE pc[u] \in {"idle", "lane"} /\ pc[u] \notin Working
  <2>1. lane # u
    BY Zenon, NamesAssumption
  <2>2. pc[u] \notin Working /\ pc[u] \in {"idle", "lane"} \union Working
    BY Zenon, <2>1 DEF IInv, LaneInv, LaneOf, TypeInv
  <2> QED
    BY Zenon, <2>2
<1>10. ASSUME NEW u \in Threads PROVE Applying(u)'
  <2>1. CASE u = t
    BY Zenon, <1>2, <1>6, <2>1, Outside
  <2>2. CASE u # t
    <3>1. pc'[u] \in {"idle", "lane"}
      BY Zenon, <1>2, <1>9, <2>2
    <3>2. progress'[u] = NoProgress
      BY Zenon, <1>6, <1>9, <2>2 DEF IInv, ApplyInv, Applying
    <3> QED
      BY Zenon, <3>1, <3>2, Outside
  <2> QED
    BY Zenon, <2>1, <2>2
<1>11. ASSUME NEW u \in Threads PROVE LaneOf(u)'
  <2>1. lane' # u
    BY Zenon, <1>8, NamesAssumption
  <2>2. CASE u = t
    <3>1. "idle" \notin Working
      BY Zenon DEF Working
    <3> QED
      BY Zenon, <1>2, <1>5, <2>1, <2>2, <3>1 DEF LaneOf
  <2>3. CASE u # t
    <3>1. LaneOf(u)
      BY Zenon DEF IInv, LaneInv
    <3> QED
      BY Zenon, <1>2, <1>5, <1>9, <2>1, <2>3, <3>1 DEF LaneOf
  <2> QED
    BY Zenon, <2>2, <2>3
<1> QED
  BY Zenon, <1>2, <1>5, <1>6, <1>7, <1>8, <1>10, <1>11 DEF ApplyInv

\* A callback leaves without touching the registry: a duplicate, or the end of a
\* sample without an acknowledgement.
LEMMA LeaveStep ==
    ASSUME IInv, NEW t \in Threads, pc[t] # "idle", lane \in {t, None},
           lane = t => ~req[op[t]].ack,
           Leave(t), UNCHANGED <<client, wire, lifecycle, mutated>>, UNCHANGED <<registry, history>>
    PROVE  IInv'
<1>1. /\ req' = req /\ phase' = phase /\ res' = res /\ copies' = copies /\ mutated' = mutated
      /\ entries' = entries /\ busy' = busy /\ calls' = calls /\ forgotten' = forgotten
  BY Zenon DEF client, wire, registry, history
<1>2. /\ pc' \in [Threads -> {"idle", "lane"} \union Working]
      /\ op' \in [Threads -> Ops \union {None}]
      /\ progress' \in [Threads -> [invoked: BOOLEAN, applied: Nat, index: Nat]]
      /\ out' \in [Threads -> AnyResult]
      /\ op'[t] = None /\ lane' = None
      /\ \A u \in Threads \ {t} : op'[u] = op[u]
      /\ ApplyInv' /\ \A u \in Threads : LaneOf(u)'
  BY Zenon, LeaveFacts
<1>3. UNCHANGED <<req, registry, history>>
  BY Zenon, <1>1
<1>4. TypeInv'
  BY Zenon, <1>1, <1>2 DEF IInv, TypeInv, lifecycle, registry, history
<1>5. ASSUME NEW x \in Ops PROVE TokenOf(x)'
  <2>1. TokenOf(x)
    BY Zenon DEF IInv, LaneInv
  <2>2. busy # x
    <3>1. \A u \in Threads : ~(lane = u /\ op[u] = x /\ req[x].ack)
      BY Zenon, NamesAssumption
    <3> QED
      BY Zenon, <2>1, <3>1 DEF TokenOf
  <2>3. \A u \in Threads : lane' # u
    BY Zenon, <1>2, NamesAssumption
  <2> QED
    BY Zenon, <1>1, <2>1, <2>2, <2>3 DEF TokenOf
<1>6. ASSUME NEW x \in Ops PROVE AnswerOf(x)'
  <2>1. /\ Completed(x)' <=> Completed(x)
        /\ Untouched(x)' <=> Untouched(x)
    BY Zenon, <1>3, SameRegistry
  <2>2. Stored(x, req[x].size)' <=> Stored(x, req[x].size)
    BY Zenon, <1>1 DEF Stored, history
  <2>3. \A u \in Threads : op'[u] = op[u] \/ op'[u] # x
    BY Zenon, <1>2, NamesAssumption
  <2>4. AnswerOf(x)
    BY Zenon DEF IInv, AnswerInv
  <2> QED
    BY Zenon, <1>1, <2>1, <2>2, <2>3, <2>4 DEF AnswerOf
<1> QED
  BY Zenon, <1>2, <1>3, <1>4, <1>5, <1>6, SameRegistry DEF IInv, LaneInv, AnswerInv

\* A true result enters the registry, and with it the oldest one may leave.
LEMMA Registered ==
    ASSUME IInv, NEW o \in Ops, ~Completed(o), NEW r \in AnyResult, Retain(o, r),
           UNCHANGED <<client, log, attempts>>,
           TrueResult(req[o], r, calls'[o]),
           r.status = "Ok" => Stored(o, req[o].size),
           LocalStatus(req[o]) = "none",
           req[o].ack /\ forgotten[o] = 0 /\ calls'[o].made = 0 => Untouched(o),
           \A x \in Ops \ {o} : calls'[x] = calls[x] /\ copies'[x] = copies[x],
           \A u \in Threads : op'[u] = op[u] \/ op'[u] \notin Ops
    PROVE  /\ entries' \in [Ops -> AnyResult] /\ ring' \in Seq(Ops) /\ forgotten' \in [Ops -> Nat]
           /\ RingInv' /\ ResultInv' /\ AnswerInv' /\ BatchesAreContiguous'
           /\ entries'[o] = r /\ r \notin {Absent, Processing}
           /\ \A x \in Ops \ {o} : \/ entries'[x] = entries[x]
                                   \/ Completed(x) /\ entries'[x] = Absent
<1>1. r \notin {Absent, Processing}
  <2>1. Absent.status = "absent" /\ Processing.status = "processing"
    BY Zenon DEF Absent, Processing, Result
  <2>2. "absent" \notin Statuses /\ "processing" \notin Statuses
    BY Zenon DEF Statuses
  <2> QED
    BY Zenon, <2>1, <2>2 DEF TrueResult
<1>2. /\ entries' \in [Ops -> AnyResult] /\ ring' \in Seq(Ops) /\ forgotten' \in [Ops -> Nat]
      /\ RingInv' /\ entries'[o] = r /\ forgotten'[o] = forgotten[o]
      /\ \A x \in Ops \ {o} :
            \/ entries'[x] = entries[x] /\ forgotten'[x] = forgotten[x]
            \/ Completed(x) /\ entries'[x] = Absent /\ forgotten'[x] = forgotten[x] + 1
  BY Zenon, <1>1, RetainFacts DEF IInv
<1>3. /\ req' = req /\ phase' = phase /\ res' = res /\ log' = log /\ attempts' = attempts
  BY Zenon DEF client
<1>4. /\ BatchesAreContiguous' /\ \A x : Untouched(x)' <=> Untouched(x)
  BY Zenon, <1>3, SameStore DEF IInv
<1>5. \A x \in Ops : Stored(x, req[x].size)' <=> Stored(x, req[x].size)
  BY Zenon, <1>3 DEF Stored
<1>6. /\ attempts \in [Ops -> Nat] /\ forgotten \in [Ops -> Nat]
      /\ \A x \in Ops : ResultOf(x) /\ AnswerOf(x)
  BY Zenon DEF IInv, TypeInv, ResultInv, AnswerInv
<1>7. ResultOf(o)' /\ AnswerOf(o)'
  <2>1. ResultOf(o)'
    BY Zenon, <1>1, <1>2, <1>3, <1>5, <1>6 DEF ResultOf
  <2>2. AnswerOf(o)'
    BY Zenon, <1>1, <1>2, <1>3, <1>4, <1>5, <1>6 DEF AnswerOf
  <2> QED
    BY Zenon, <2>1, <2>2
<1>8. ASSUME NEW x \in Ops \ {o} PROVE ResultOf(x)' /\ AnswerOf(x)'
  <2>0. /\ calls'[x] = calls[x] /\ copies'[x] = copies[x] /\ ResultOf(x) /\ AnswerOf(x)
        /\ \A u \in Threads : op'[u] = op[u] \/ op'[u] # x
    BY Zenon, <1>6
  <2>1. CASE entries'[x] = entries[x] /\ forgotten'[x] = forgotten[x]
    <3>1. Completed(x)' <=> Completed(x)
      BY Zenon, <2>1 DEF Completed
    <3>2. ResultOf(x)'
      BY Zenon, <1>3, <1>5, <2>0, <2>1, <3>1 DEF ResultOf
    <3>3. AnswerOf(x)'
      BY Zenon, <1>3, <1>4, <1>5, <2>0, <2>1, <3>1 DEF AnswerOf
    <3> QED
      BY Zenon, <3>2, <3>3
  <2>2. CASE Completed(x) /\ entries'[x] = Absent /\ forgotten'[x] = forgotten[x] + 1
    <3>1. ~Completed(x)'
      BY Zenon, <2>2 DEF Completed
    <3>2. attempts[x] <= forgotten'[x] /\ attempts[x] <= 1 + forgotten'[x] /\ forgotten'[x] # 0
      BY <1>6, <2>0, <2>2 DEF ResultOf
    <3>3. ResultOf(x)'
      BY Zenon, <1>3, <3>1, <3>2 DEF ResultOf
    <3>4. AnswerOf(x)'
      BY Zenon, <1>3, <1>4, <1>5, <2>0, <3>2 DEF AnswerOf
    <3> QED
      BY Zenon, <3>3, <3>4
  <2> QED
    BY Zenon, <1>2, <2>1, <2>2
<1>9. ResultInv' /\ AnswerInv'
  BY Zenon, <1>7, <1>8 DEF ResultInv, AnswerInv
<1> QED
  BY Zenon, <1>1, <1>2, <1>4, <1>9

LEMMA FinishStep ==
    ASSUME IInv, NEW t \in Threads, Finish(t)
    PROVE  IInv'
<1>0. /\ pc[t] = "finish" /\ pc[t] # "idle" /\ pc[t] \in Working /\ Leave(t)
      /\ UNCHANGED <<client, wire, lifecycle, mutated>> /\ UNCHANGED <<log, calls, attempts>>
  BY Zenon DEF Finish, Working
<1>o. PICK o \in Ops : o = op[t]
  BY Zenon, <1>0, LaneFacts
<1>1. /\ LocalStatus(req[o]) = "none" /\ lane = t /\ ~Completed(o) /\ Applying(t)
      /\ (req[o].ack => busy = o /\ entries[o] = Processing)
  BY Zenon, <1>0, <1>o, LaneFacts
<1>2. CASE ~req[o].ack
  <2>1. UNCHANGED <<registry, history>>
    BY Zenon, <1>0, <1>2, <1>o DEF Finish, history
  <2> QED
    BY Zenon, <1>0, <1>1, <1>2, <1>o, <2>1, LeaveStep
<1>3. CASE req[o].ack
  <2>1. Retain(o, out[t]) /\ busy' = None
    BY Zenon, <1>1, <1>3, <1>o DEF Finish, Complete
  <2>r. PICK r \in AnyResult : r = out[t]
    BY Zenon DEF IInv, TypeInv
  <2>2. /\ pc' \in [Threads -> {"idle", "lane"} \union Working]
        /\ op' \in [Threads -> Ops \union {None}]
        /\ progress' \in [Threads -> [invoked: BOOLEAN, applied: Nat, index: Nat]]
        /\ out' \in [Threads -> AnyResult]
        /\ op'[t] = None /\ lane' = None
        /\ \A u \in Threads \ {t} : op'[u] = op[u]
        /\ ApplyInv' /\ \A u \in Threads : LaneOf(u)'
    BY Zenon, <1>0, <1>1, LeaveFacts
  <2>3. /\ TrueResult(req[o], r, calls[o]) /\ calls' = calls /\ copies' = copies
        /\ UNCHANGED <<client, log, attempts>> /\ req' = req
        /\ \A u \in Threads : op'[u] = op[u] \/ op'[u] \notin Ops
    BY Zenon, <1>0, <1>1, <1>o, <2>2, <2>r, NamesAssumption DEF Applying, wire, client
  <2>4. r.status = "Ok" => Stored(o, req[o].size)
    BY Zenon, <1>0, <1>1, <1>o, <2>3 DEF Applying, TrueResult
  <2>5. req[o].ack /\ forgotten[o] = 0 /\ calls[o].made = 0 => Untouched(o)
    BY Zenon DEF IInv, AnswerInv, AnswerOf
  <2>6. /\ entries' \in [Ops -> AnyResult] /\ ring' \in Seq(Ops) /\ forgotten' \in [Ops -> Nat]
        /\ RingInv' /\ ResultInv' /\ AnswerInv' /\ BatchesAreContiguous'
        /\ entries'[o] = r /\ r \notin {Absent, Processing}
        /\ \A x \in Ops \ {o} : \/ entries'[x] = entries[x]
                                \/ Completed(x) /\ entries'[x] = Absent
    BY Zenon, <1>1, <2>1, <2>r, <2>3, <2>4, <2>5, Registered
  <2>7. TypeInv'
    BY Zenon, <1>0, <2>1, <2>2, <2>6 DEF IInv, TypeInv, client, wire, lifecycle
  <2>8. ASSUME NEW x \in Ops PROVE TokenOf(x)'
    <3>1. TokenOf(x) /\ busy' # x /\ \A u \in Threads : lane' # u
      BY Zenon, <2>1, <2>2, NamesAssumption DEF IInv, LaneInv
    <3>2. Absent # Processing
      BY Zenon DEF Absent, Processing, Result
    <3>3. CASE x = o
      BY Zenon, <1>3, <2>3, <2>6, <3>1, <3>3 DEF TokenOf
    <3>4. CASE x # o
      <4>1. entries[x] # Processing
        BY Zenon, <1>1, <1>3, <3>1, <3>4 DEF TokenOf
      <4> QED
        BY Zenon, <2>3, <2>6, <3>1, <3>2, <3>4, <4>1 DEF TokenOf
    <3> QED
      BY Zenon, <3>3, <3>4
  <2> QED
    BY Zenon, <2>2, <2>6, <2>7, <2>8 DEF IInv, LaneInv
<1> QED
  BY Zenon, <1>2, <1>3

\* What validation decides before the first engine call is a true result.
LEMMA VerdictFacts ==
    ASSUME NEW o \in Ops, req[o] \in Request
    PROVE  /\ Verdict(o) \in AnyResult
           /\ Verdict(o) # NoResult => TrueResult(req[o], Verdict(o), NoCalls)
           /\ Verdict(o) = NoResult => 0 < req[o].size
<1> DEFINE q == req[o]
<1>1. q.size \in Nat /\ q.bad \in Nat /\ (q.kind # "batch" => q.size = 1)
  BY Zenon DEF Request
<1>2. NoCalls.made = 0 /\ NoCalls.confirmed = 0
  BY Zenon DEF NoCalls
<1>3. ASSUME NEW s \in Definite, NEW f \in Int, q.kind # "batch" => f = 0
      PROVE  Result(s, 0, f) \in AnyResult /\ TrueResult(q, Result(s, 0, f), NoCalls)
  <2>1. Result(s, 0, f).status = s /\ Result(s, 0, f).applied = 0 /\ Result(s, 0, f).failed = f
    BY Zenon DEF Result
  <2>2. s \in Statuses /\ s # "Ok" /\ s # "OutcomeUnknown"
    BY Zenon DEF Definite
  <2>3. Result(s, 0, f) \in AnyResult
    BY <2>2 DEF Result, AnyResult
  <2>4. ValidAckResult(q.kind, Result(s, 0, f))
    BY Zenon, <1>3, <2>1, <2>2 DEF ValidAckResult
  <2> QED
    BY Zenon, <1>2, <2>1, <2>2, <2>3, <2>4 DEF TrueResult
<1>4. ASSUME q.size = 0
      PROVE  Result("Ok", 0, NoIndex) \in AnyResult /\ TrueResult(q, Result("Ok", 0, NoIndex), NoCalls)
  <2> DEFINE r == Result("Ok", 0, NoIndex)
  <2>1. r.status = "Ok" /\ r.applied = 0 /\ r.failed = NoIndex /\ r \in AnyResult
    BY DEF Result, AnyResult, NoIndex, Statuses
  <2>2. "Ok" \in Statuses /\ "Ok" \notin Definite /\ "Ok" # "OutcomeUnknown"
    BY Zenon DEF Statuses, Definite
  <2>3. q.kind = "batch"
    BY <1>1, <1>4
  <2> HIDE DEF r
  <2>4. ValidAckResult(q.kind, r)
    BY Zenon, <2>1, <2>3 DEF ValidAckResult
  <2>5. TrueResult(q, r, NoCalls)
    BY Zenon, <1>2, <1>4, <2>1, <2>2, <2>4 DEF TrueResult
  <2> QED
    BY Zenon, <2>1, <2>5 DEF r
<1>5. NoResult \in AnyResult
  BY DEF NoResult, Result, AnyResult
<1>6. {"InvalidKey", "InvalidArgument", "ReadOnly", "NotFound", "StateLost"} \subseteq Definite
  BY Zenon DEF Definite, Statuses
<1>7. PICK f \in Int : f = (IF q.kind = "batch" THEN NoIndex ELSE 0)
  BY DEF NoIndex
<1>8. PICK g \in Int : g = (IF q.kind = "batch" THEN q.bad - 1 ELSE 0)
  BY <1>1
<1>9. \/ \E s \in Definite, z \in {0, f, g} : Verdict(o) = Result(s, 0, z)
      \/ q.size = 0 /\ Verdict(o) = Result("Ok", 0, NoIndex)
      \/ q.size # 0 /\ Verdict(o) = NoResult
  BY Zenon, <1>6, <1>7, <1>8 DEF Verdict
<1>10. \A z \in {0, f, g} : z \in Int /\ (q.kind # "batch" => z = 0)
  BY <1>7, <1>8
<1>11. \A s, n, z : s \in Statuses => NoResult # Result(s, n, z)
  <2>1. NoResult.status = "none" /\ "none" \notin Statuses
    BY Zenon DEF NoResult, Result, Statuses
  <2>2. \A s, n, z : Result(s, n, z).status = s
    BY Zenon DEF Result
  <2> QED
    BY Zenon, <2>1, <2>2
<1>12. q.size # 0 => 0 < q.size
  BY <1>1
<1>13. CASE \E s \in Definite, z \in {0, f, g} : Verdict(o) = Result(s, 0, z)
  <2>1. PICK s \in Definite, z \in {0, f, g} : Verdict(o) = Result(s, 0, z)
    BY Zenon, <1>13
  <2>2. s \in Statuses
    BY Zenon DEF Definite
  <2> QED
    BY Zenon, <1>3, <1>10, <1>11, <2>1, <2>2
<1>14. CASE q.size = 0 /\ Verdict(o) = Result("Ok", 0, NoIndex)
  <2>1. "Ok" \in Statuses
    BY Zenon DEF Statuses
  <2> QED
    BY Zenon, <1>4, <1>11, <1>14, <2>1
<1>15. CASE q.size # 0 /\ Verdict(o) = NoResult
  BY Zenon, <1>5, <1>12, <1>15
<1> QED
  BY Zenon, <1>9, <1>13, <1>14, <1>15

\* The token is claimed and the sample validated.
LEMMA EnterLaneStep ==
    ASSUME IInv, NEW t \in Threads, EnterLane(t)
    PROVE  IInv'
<1>0. /\ pc[t] = "lane" /\ lane = None /\ pc[t] # "idle" /\ pc[t] \notin Working
      /\ UNCHANGED <<client, wire, lifecycle, mutated>> /\ log' = log
      /\ {"apply", "finish"} \subseteq Working
  <2>1. "lane" # "idle" /\ "lane" \notin Working /\ {"apply", "finish"} \subseteq Working
    BY Zenon DEF Working
  <2> QED
    BY Zenon, <2>1 DEF EnterLane, LaneFree
<1>o. PICK o \in Ops : o = op[t]
  BY Zenon, <1>0, LaneFacts
<1>1. LocalStatus(req[o]) = "none" /\ req[o] \in Request
  BY Zenon, <1>0, <1>o, LaneFacts
<1>2. busy = None /\ \A x \in Ops : entries[x] # Processing
  <2>1. \A u \in Threads : lane # u
    BY Zenon, <1>0, NamesAssumption
  <2>2. \A x \in Ops : busy # x /\ entries[x] # Processing
    BY Zenon, <2>1 DEF IInv, LaneInv, TokenOf
  <2> QED
    BY Zenon, <2>2 DEF IInv, TypeInv
<1>3. CASE req[o].ack /\ Known(o)
  <2>1. Leave(t) /\ UNCHANGED <<registry, history>>
    BY Zenon, <1>0, <1>o, <1>3 DEF EnterLane, history
  <2>2. lane \in {t, None} /\ (lane = t => ~req[op[t]].ack)
    BY Zenon, <1>0, NamesAssumption
  <2> QED
    BY Zenon, <1>0, <2>1, <2>2, LeaveStep
<1>4. CASE ~(req[o].ack /\ Known(o))
  <2>1. /\ lane' = t
        /\ IF req[o].ack
              THEN /\ entries' = [entries EXCEPT ![o] = Processing]
                   /\ busy' = o
                   /\ attempts' = [attempts EXCEPT ![o] = attempts[o] + 1]
              ELSE UNCHANGED <<entries, busy, attempts>>
        /\ calls' = [calls EXCEPT ![o] = NoCalls]
        /\ out' = [out EXCEPT ![t] = Verdict(o)]
        /\ Goto(t, IF Verdict(o) = NoResult THEN "apply" ELSE "finish")
        /\ UNCHANGED <<op, progress, ring, forgotten>>
    BY Zenon, <1>2, <1>4, <1>o DEF EnterLane
  <2>2. entries[o] = Absent
    BY Zenon, <1>4 DEF Known, IInv, LaneInv, TokenOf
  <2>v. PICK v \in AnyResult : v = Verdict(o)
    BY Zenon, <1>1, VerdictFacts
  <2>3. /\ v # NoResult => TrueResult(req[o], v, NoCalls)
        /\ v = NoResult => 0 < req[o].size
    BY Zenon, <1>1, <2>v, VerdictFacts
  <2>4. /\ pc' \in [Threads -> {"idle", "lane"} \union Working]
        /\ (v = NoResult /\ pc'[t] = "apply") \/ (v # NoResult /\ pc'[t] = "finish")
        /\ \A u \in Threads \ {t} : pc'[u] = pc[u]
    BY Zenon, <1>0, <2>1, <2>v, GotoFacts DEF IInv
  <2>5. out' \in [Threads -> AnyResult] /\ out'[t] = v
    BY Zenon, <2>1, <2>v DEF IInv, TypeInv
  <2>6. /\ NoCalls \in [made: Nat, confirmed: Nat] /\ NoCalls.made = 0 /\ NoCalls.confirmed = 0
        /\ Processing \in AnyResult /\ Absent # Processing
    BY DEF NoCalls, Processing, Absent, Result, AnyResult
  <2>7. /\ calls' \in [Ops -> [made: Nat, confirmed: Nat]] /\ calls'[o] = NoCalls
        /\ \A x \in Ops \ {o} : calls'[x] = calls[x]
    BY Zenon, <2>1, <2>6 DEF IInv, TypeInv
  <2>8. /\ entries' \in [Ops -> AnyResult] /\ busy' \in Ops \union {None}
        /\ req[o].ack => entries'[o] = Processing /\ busy' = o
        /\ ~req[o].ack => entries'[o] = Absent /\ busy' = None
        /\ \A x \in Ops \ {o} : entries'[x] = entries[x]
    <3>1. entries \in [Ops -> AnyResult]
      BY Zenon DEF IInv, TypeInv
    <3>2. CASE req[o].ack
      BY Zenon, <2>1, <2>6, <3>1, <3>2
    <3>3. CASE ~req[o].ack
      BY Zenon, <1>2, <2>1, <2>2, <3>1, <3>3
    <3> QED
      BY Zenon, <3>2, <3>3
  <2>9. /\ attempts' \in [Ops -> Nat] /\ \A x \in Ops \ {o} : attempts'[x] = attempts[x]
        /\ req[o].ack => attempts'[o] = attempts[o] + 1
        /\ ~req[o].ack => attempts'[o] = attempts[o]
    <3>1. attempts \in [Ops -> Nat] /\ attempts[o] + 1 \in Nat
      <4>1. attempts \in [Ops -> Nat]
        BY Zenon DEF IInv, TypeInv
      <4> QED
        BY <4>1
    <3> QED
      BY Zenon, <2>1, <3>1
  <2>10. /\ req' = req /\ phase' = phase /\ res' = res /\ copies' = copies /\ op' = op
         /\ progress' = progress /\ ring' = ring /\ forgotten' = forgotten
    BY Zenon, <1>0, <2>1 DEF client, wire
  <2>11. TypeInv'
    BY Zenon, <1>0, <2>1, <2>4, <2>5, <2>7, <2>8, <2>9, <2>10 DEF IInv, TypeInv, lifecycle
  <2>12. \A x \in Ops : Completed(x)' <=> Completed(x)
    BY Zenon, <2>2, <2>8 DEF Completed
  <2>13. RingInv'
    BY Zenon, <2>10, <2>12 DEF IInv, RingInv
  <2>14. /\ BatchesAreContiguous' /\ \A x : Untouched(x)' <=> Untouched(x)
         /\ \A x, n : Stored(x, n)' <=> Stored(x, n)
    BY Zenon, <1>0, SameStore DEF IInv
  <2>15. LaneInv'
    <3>1. ASSUME NEW u \in Threads PROVE LaneOf(u)'
      <4>1. LaneOf(u)
        BY Zenon DEF IInv, LaneInv
      <4>2. CASE u = t
        <5>1. pc'[t] \in Working /\ pc'[t] # "idle" /\ op'[t] # None
          BY Zenon, <1>0, <1>o, <2>4, <2>10, NamesAssumption DEF Working
        <5> QED
          BY Zenon, <2>1, <4>2, <5>1 DEF LaneOf
      <4>3. CASE u # t
        <5>1. pc'[u] = pc[u] /\ lane # u /\ lane' # u
          BY Zenon, <1>0, <2>1, <2>4, <4>3, NamesAssumption
        <5> QED
          BY Zenon, <2>10, <4>1, <5>1 DEF LaneOf
      <4> QED
        BY Zenon, <4>2, <4>3
    <3>2. ASSUME NEW x \in Ops PROVE TokenOf(x)'
      <4>1. TokenOf(x)
        BY Zenon DEF IInv, LaneInv
      <4>2. (\E u \in Threads : lane' = u /\ op'[u] = x /\ req'[x].ack) <=> x = o /\ req[x].ack
        BY Zenon, <1>o, <2>1, <2>10
      <4>3. CASE x = o
        BY Zenon, <2>6, <2>8, <2>10, <4>2, <4>3, NamesAssumption DEF TokenOf
      <4>4. CASE x # o
        <5>1. busy' # x /\ entries'[x] # Processing
          BY Zenon, <1>2, <2>8, <4>4, NamesAssumption
        <5> QED
          BY Zenon, <2>8, <2>10, <4>1, <4>2, <4>4, <5>1 DEF TokenOf
      <4> QED
        BY Zenon, <4>3, <4>4
    <3> QED
      BY Zenon, <3>1, <3>2 DEF LaneInv
  <2>16. ASSUME NEW u \in Threads PROVE Applying(u)'
    <3>1. progress'[t] = NoProgress
      BY Zenon, <1>0, <2>10 DEF IInv, ApplyInv, Applying
    <3>2. CASE u = t
      <4>1. Stored(op[t], calls[op[t]].confirmed)'
        <5>1. calls'[op'[t]].confirmed = 0
          BY Zenon, <1>o, <2>6, <2>7, <2>10
        <5> QED
          BY <5>1 DEF Stored
      <4>2. CASE pc'[t] = "apply"
        <5>1. /\ progress'[t].applied = 0 /\ progress'[t].index = 0 /\ ~progress'[t].invoked
          BY <3>1 DEF NoProgress
        <5>2. 0 < req'[op'[t]].size /\ calls'[op'[t]].made = 0 /\ calls'[op'[t]].confirmed = 0
          BY Zenon, <1>o, <2>3, <2>4, <2>6, <2>7, <2>10, <4>2
        <5>3. ~(progress'[t].index > 0) /\ pc'[t] \notin {"idle", "lane", "engine", "finish"}
          BY <4>2, <5>1
        <5> QED
          BY Zenon, <3>2, <4>1, <4>2, <5>1, <5>2, <5>3 DEF Applying
      <4>3. CASE pc'[t] = "finish"
        <5>1. TrueResult(req'[op'[t]], out'[t], calls'[op'[t]])
          BY Zenon, <1>o, <2>3, <2>4, <2>5, <2>7, <2>10, <4>3
        <5>2. pc'[t] \notin {"idle", "lane", "engine", "apply"}
          BY Zenon, <4>3
        <5> QED
          BY Zenon, <3>2, <4>1, <5>1, <5>2 DEF Applying
      <4> QED
        BY Zenon, <2>4, <4>2, <4>3
    <3>3. CASE u # t
      <4>1. pc[u] \notin Working /\ pc[u] \in {"idle", "lane"} \union Working
        <5>1. LaneOf(u) /\ lane # u
          BY Zenon, <1>0, NamesAssumption DEF IInv, LaneInv
        <5> QED
          BY Zenon, <5>1 DEF IInv, LaneOf, TypeInv
      <4>2. pc'[u] \in {"idle", "lane"}
        BY Zenon, <2>4, <3>3, <4>1
      <4>3. progress'[u] = NoProgress
        BY Zenon, <2>4, <2>10, <3>3, <4>2 DEF IInv, ApplyInv, Applying
      <4> QED
        BY Zenon, <4>2, <4>3, Outside
    <3> QED
      BY Zenon, <3>2, <3>3
  <2>17. ASSUME NEW x \in Ops PROVE ResultOf(x)'
    <3>1. ResultOf(x) /\ (Stored(x, req[x].size)' <=> Stored(x, req[x].size))
      BY Zenon, <1>0, <2>10 DEF IInv, ResultInv, Stored
    <3>2. CASE x = o
      <4>1. ~Completed(o)'
        BY Zenon, <2>2, <2>12 DEF Completed
      <4>2. attempts[o] <= forgotten[o] /\ attempts[o] \in Nat /\ forgotten[o] \in Nat
        BY Zenon, <2>2, <3>1, <3>2 DEF ResultOf, IInv, TypeInv
      <4>3. attempts[o] + 1 <= 1 + forgotten[o] /\ attempts[o] <= 1 + forgotten[o]
        BY <4>2
      <4>4. attempts'[o] <= 1 + forgotten'[o] /\ (entries'[o] = Absent => attempts'[o] <= forgotten'[o])
        BY Zenon, <2>6, <2>8, <2>9, <2>10, <4>2, <4>3
      <4> QED
        BY Zenon, <3>2, <4>1, <4>4 DEF ResultOf
    <3>3. CASE x # o
      <4>1. entries'[x] = entries[x] /\ calls'[x] = calls[x] /\ attempts'[x] = attempts[x]
        BY Zenon, <2>7, <2>8, <2>9, <3>3
      <4> QED
        BY Zenon, <2>10, <2>12, <3>1, <4>1 DEF ResultOf
    <3> QED
      BY Zenon, <3>2, <3>3
  <2>18. ASSUME NEW x \in Ops PROVE AnswerOf(x)'
    <3>1. AnswerOf(x) /\ (Stored(x, req[x].size)' <=> Stored(x, req[x].size))
      BY Zenon, <1>0, <2>10 DEF IInv, AnswerInv, Stored
    <3>2. CASE x = o
      <4>1. ~Completed(o)
        BY Zenon, <2>2 DEF Completed
      <4> QED
        BY Zenon, <1>1, <2>2, <2>10, <2>14, <3>1, <3>2, <4>1 DEF AnswerOf
    <3>3. CASE x # o
      <4>1. entries'[x] = entries[x] /\ calls'[x] = calls[x]
        BY Zenon, <2>7, <2>8, <3>3
      <4> QED
        BY Zenon, <2>10, <2>12, <2>14, <3>1, <4>1 DEF AnswerOf
    <3> QED
      BY Zenon, <3>2, <3>3
  <2> QED
    BY Zenon, <2>11, <2>13, <2>14, <2>15, <2>16, <2>17, <2>18
       DEF IInv, ApplyInv, ResultInv, AnswerInv
<1> QED
  BY Zenon, <1>3, <1>4

\* A sample that arrives inside the engine call of the thread in the lane.
LEMMA ReentrantStep ==
    ASSUME IInv, NEW t \in Threads, NEW o \in Ops, ReentrantSample(t, o)
    PROVE  IInv'
<1>0. /\ pc[t] = "engine" /\ pc[t] # "idle" /\ pc[t] \in Working /\ copies[o] > 0
      /\ copies' = [copies EXCEPT ![o] = copies[o] - 1]
      /\ UNCHANGED <<client, lifecycle, lane, busy, callback>> /\ UNCHANGED <<log, attempts>>
  BY Zenon DEF ReentrantSample, Working
<1>1. copies' \in [Ops -> 0 .. 2] /\ \A x \in Ops \ {o} : copies'[x] = copies[x]
  <2>1. copies \in [Ops -> 0 .. 2]
    BY Zenon DEF IInv, TypeInv
  <2>2. copies[o] - 1 \in 0 .. 2
    BY <1>0, <2>1
  <2> QED
    BY Zenon, <1>0, <2>1, <2>2
<1>2. LocalStatus(req[o]) = "none" /\ req[o] \in Request
  <2>1. copies[o] # 0
    BY <1>0 DEF IInv, TypeInv
  <2> QED
    BY Zenon, <2>1 DEF IInv, TypeInv, AnswerInv, AnswerOf
<1>3. /\ req' = req /\ phase' = phase /\ res' = res /\ lane' = lane /\ busy' = busy /\ pc' = pc
      /\ op' = op /\ progress' = progress /\ out' = out /\ mutated' = mutated
      /\ log' = log /\ attempts' = attempts
  BY Zenon, <1>0 DEF client, callback
<1>4. CASE node = "up" /\ req[o].ack /\ ~Known(o)
  <2>1. Retain(o, LaneBusyResult(o)) /\ calls' = [calls EXCEPT ![o] = NoCalls]
    BY Zenon, <1>4 DEF ReentrantSample
  <2>2. entries[o] = Absent /\ ~Completed(o)
    BY Zenon, <1>4 DEF Known, Completed
  <2>3. NoCalls \in [made: Nat, confirmed: Nat] /\ NoCalls.made = 0 /\ Absent # Processing
    BY Zenon DEF NoCalls, Absent, Processing, Result
  <2>4. /\ calls' \in [Ops -> [made: Nat, confirmed: Nat]] /\ calls'[o] = NoCalls
        /\ \A x \in Ops \ {o} : calls'[x] = calls[x]
    BY Zenon, <2>1, <2>3 DEF IInv, TypeInv
  <2>f. PICK f \in Int : f = (IF req[o].kind = "batch" THEN NoIndex ELSE 0)
    BY DEF NoIndex
  <2>r. PICK r \in AnyResult : r = LaneBusyResult(o) /\ r = Result("Error", 0, f)
    <3>1. LaneBusyResult(o) = Result("Error", 0, f)
      BY Zenon, <2>f DEF LaneBusyResult
    <3>2. Result("Error", 0, f) \in AnyResult
      BY <2>f DEF Result, AnyResult, Statuses
    <3> QED
      BY Zenon, <3>1, <3>2
  <2>5. r.status = "Error" /\ r.applied = 0 /\ r.failed = f
    BY <2>r DEF Result
  <2>6. TrueResult(req[o], r, calls'[o])
    <3>1. "Error" \in Statuses /\ "Error" # "Ok" /\ "Error" # "OutcomeUnknown"
      BY Zenon DEF Statuses
    <3>2. ValidAckResult(req[o].kind, r)
      BY Zenon, <2>f, <2>5, <3>1 DEF ValidAckResult
    <3> QED
      BY Zenon, <2>3, <2>4, <2>5, <3>1, <3>2 DEF TrueResult
  <2>7. r.status # "Ok" /\ (req[o].ack /\ forgotten[o] = 0 => Untouched(o))
    BY Zenon, <2>2, <2>5 DEF IInv, AnswerInv, AnswerOf
  <2>8. UNCHANGED <<client, log, attempts>>
    BY Zenon, <1>0
  <2>9. /\ entries' \in [Ops -> AnyResult] /\ ring' \in Seq(Ops) /\ forgotten' \in [Ops -> Nat]
        /\ RingInv' /\ ResultInv' /\ AnswerInv' /\ BatchesAreContiguous'
        /\ entries'[o] = r /\ r \notin {Absent, Processing}
        /\ \A x \in Ops \ {o} : \/ entries'[x] = entries[x]
                                \/ Completed(x) /\ entries'[x] = Absent
    <3>1. \A x \in Ops \ {o} : calls'[x] = calls[x] /\ copies'[x] = copies[x]
      BY Zenon, <1>1, <2>4
    <3>2. Retain(o, r) /\ \A u \in Threads : op'[u] = op[u]
      BY Zenon, <1>3, <2>1, <2>r
    <3> QED
      BY Zenon, <1>2, <2>2, <2>6, <2>7, <2>8, <3>1, <3>2, Registered
  <2>10. TypeInv'
    BY Zenon, <1>0, <1>1, <1>3, <2>4, <2>9 DEF IInv, TypeInv, lifecycle
  <2>11. \A u \in Threads : LaneOf(u)'
    BY Zenon, <1>3 DEF IInv, LaneInv, LaneOf
  <2>12. ASSUME NEW x \in Ops PROVE TokenOf(x)'
    <3>1. TokenOf(x)
      BY Zenon DEF IInv, LaneInv
    <3>2. entries'[x] = Processing <=> busy = x
      <4>1. CASE x = o
        BY Zenon, <2>2, <2>3, <2>9, <3>1, <4>1 DEF TokenOf
      <4>2. CASE x # o
        BY Zenon, <2>3, <2>9, <3>1, <4>2 DEF TokenOf, Completed
      <4> QED
        BY Zenon, <4>1, <4>2
    <3>3. entries'[x] # Absent => req[x].ack
      BY Zenon, <1>4, <2>9, <3>1 DEF TokenOf
    <3> QED
      BY Zenon, <1>3, <3>1, <3>2, <3>3 DEF TokenOf
  <2>13. ASSUME NEW u \in Threads PROVE Applying(u)'
    <3>1. CASE u = t
      <4>1. op[t] \in Ops /\ op[t] # o /\ Applying(t)
        BY Zenon, <1>0, <1>4, <2>2, <2>3, LaneFacts
      <4>2. calls'[op[t]] = calls[op[t]]
        BY Zenon, <2>4, <4>1
      <4>3. /\ Stored(op[t], calls[op[t]].confirmed)' <=> Stored(op[t], calls[op[t]].confirmed)
            /\ LastIs(op[t], progress[t].index)' <=> LastIs(op[t], progress[t].index)
        BY Zenon, <1>3, <4>2 DEF Stored, LastIs
      <4>4. pc'[t] \notin {"idle", "lane", "apply", "finish"} /\ pc[t] = "engine"
        BY Zenon, <1>0, <1>3
      <4> QED
        BY Zenon, <1>0, <1>3, <3>1, <4>1, <4>2, <4>3, <4>4 DEF Applying
    <3>2. CASE u # t
      <4>1. pc'[u] \in {"idle", "lane"}
        BY Zenon, <1>0, <1>3, <3>2, LaneFacts
      <4>2. progress'[u] = NoProgress
        BY Zenon, <1>3, <4>1 DEF IInv, ApplyInv, Applying
      <4> QED
        BY Zenon, <4>1, <4>2, Outside
    <3> QED
      BY Zenon, <3>1, <3>2
  <2> QED
    BY Zenon, <2>9, <2>10, <2>11, <2>12, <2>13 DEF IInv, LaneInv, ApplyInv
<1>5. CASE ~(node = "up" /\ req[o].ack /\ ~Known(o))
  <2>1. UNCHANGED <<req, lane, registry, callback, history>>
    BY Zenon, <1>0, <1>3, <1>5 DEF ReentrantSample, registry, history
  <2>2. TypeInv'
    BY Zenon, <1>0, <1>1, <1>3, <2>1 DEF IInv, TypeInv, lifecycle, registry, history
  <2>3. ASSUME NEW x \in Ops PROVE AnswerOf(x)'
    <3>1. /\ Completed(x)' = Completed(x) /\ Untouched(x)' = Untouched(x)
          /\ Stored(x, req[x].size)' = Stored(x, req[x].size) /\ AnswerOf(x)
          /\ (LocalStatus(req[x]) # "none" => copies'[x] = copies[x])
      BY Zenon, <1>1, <1>2, <2>1, Frame DEF IInv, AnswerInv
    <3>2. entries' = entries /\ calls' = calls /\ forgotten' = forgotten
      BY Zenon, <2>1 DEF registry, history
    <3> QED
      BY Zenon, <1>3, <3>1, <3>2 DEF AnswerOf
  <2> QED
    BY Zenon, <2>1, <2>2, <2>3, Frame DEF IInv, AnswerInv
<1> QED
  BY Zenon, <1>4, <1>5

\* Stop has waited for the callbacks and clears the registry.
LEMMA StoppedStep ==
    ASSUME IInv, Stopped
    PROVE  IInv'
<1>1. /\ \A t \in Threads : pc[t] = "idle"
      /\ node' = "down" /\ session' = "absent"
      /\ entries' = [o \in Ops |-> Absent] /\ ring' = <<>> /\ busy' = None
      /\ forgotten' = [o \in Ops |-> IF Known(o) THEN forgotten[o] + 1 ELSE forgotten[o]]
      /\ UNCHANGED <<client, wire, lane, callback, log, calls, attempts>>
  BY Zenon DEF Stopped
<1>2. /\ req' = req /\ phase' = phase /\ res' = res /\ copies' = copies /\ lane' = lane /\ pc' = pc
      /\ op' = op /\ progress' = progress /\ out' = out /\ mutated' = mutated
      /\ log' = log /\ calls' = calls /\ attempts' = attempts
  BY Zenon, <1>1 DEF client, wire, callback
<1>3. Absent \in AnyResult /\ Absent # Processing /\ "idle" \notin Working /\ ring' \in Seq(Ops)
  BY <1>1 DEF Absent, Processing, Result, AnyResult, Working
<1>4. ASSUME NEW o \in Ops
      PROVE  /\ forgotten'[o] \in Nat /\ attempts[o] <= forgotten'[o] /\ attempts[o] <= 1 + forgotten'[o]
             /\ forgotten'[o] = 0 => forgotten[o] = 0 /\ entries[o] = Absent
  <2>1. forgotten[o] \in Nat /\ attempts[o] \in Nat /\ ResultOf(o)
    BY Zenon DEF IInv, TypeInv, ResultInv
  <2>2. forgotten'[o] = IF Known(o) THEN forgotten[o] + 1 ELSE forgotten[o]
    BY Zenon, <1>1
  <2>3. attempts[o] <= 1 + forgotten[o] /\ (entries[o] = Absent => attempts[o] <= forgotten[o])
    BY Zenon, <2>1 DEF ResultOf
  <2> QED
    BY <2>1, <2>2, <2>3 DEF Known
<1>5. forgotten' \in [Ops -> Nat]
  <2>1. forgotten' = [o \in Ops |-> forgotten'[o]]
    BY Zenon, <1>1
  <2> QED
    BY Zenon, <1>4, <2>1
<1>6. entries' \in [Ops -> AnyResult] /\ \A o \in Ops : entries'[o] = Absent
  BY Zenon, <1>1, <1>3
<1>7. TypeInv'
  BY Zenon, <1>1, <1>2, <1>3, <1>5, <1>6 DEF IInv, TypeInv
<1>8. \A o \in Ops : ~Completed(o)'
  BY Zenon, <1>6 DEF Completed
<1>9. RingInv'
  <2>1. Range(ring') = {} /\ IsInjective(ring') /\ Len(ring') <= Capacity
    BY <1>1, CapacityAssumption DEF Range, IsInjective
  <2> QED
    BY Zenon, <1>8, <2>1, CapacityAssumption DEF RingInv
<1>10. \A t \in Threads : LaneOf(t)' /\ lane' # t
  BY Zenon, <1>1, <1>2, <1>3 DEF IInv, LaneInv, LaneOf
<1>11. \A o \in Ops : TokenOf(o)'
  BY Zenon, <1>1, <1>3, <1>6, <1>10, NamesAssumption DEF TokenOf
<1>12. \A t \in Threads : Applying(t)'
  BY Zenon, <1>1, <1>2, Outside DEF IInv, ApplyInv, Applying
<1>13. /\ BatchesAreContiguous' /\ \A x : Untouched(x)' <=> Untouched(x)
  BY Zenon, <1>2, SameStore DEF IInv
<1>14. \A o \in Ops : ResultOf(o)'
  BY Zenon, <1>2, <1>4, <1>8 DEF ResultOf
<1>15. ASSUME NEW o \in Ops PROVE AnswerOf(o)'
  <2>1. AnswerOf(o) /\ (Stored(o, req[o].size)' <=> Stored(o, req[o].size))
    BY Zenon, <1>2 DEF IInv, AnswerInv, Stored
  <2>2. forgotten'[o] = 0 => forgotten[o] = 0 /\ entries[o] = Absent /\ ~Completed(o)
    BY Zenon, <1>4 DEF Completed
  <2> QED
    BY Zenon, <1>2, <1>13, <2>1, <2>2 DEF AnswerOf
<1> QED
  BY Zenon, <1>7, <1>9, <1>10, <1>11, <1>12, <1>13, <1>14, <1>15
     DEF IInv, LaneInv, ApplyInv, ResultInv, AnswerInv

-----------------------------------------------------------------------------
(* The theorems.                                                            *)

LEMMA Stutters ==
    ASSUME IInv, UNCHANGED vars
    PROVE  IInv'
<1>1. UNCHANGED <<req, lane, registry, callback, history>> /\ UNCHANGED <<phase, res, copies, lifecycle>>
  BY Zenon DEF vars, client, wire
<1>2. TypeInv'
  BY Zenon, <1>1 DEF IInv, TypeInv, lifecycle, registry, callback, history
<1>3. AnswerInv'
  BY Zenon, <1>1, Frame DEF IInv, AnswerInv, AnswerOf, registry, callback, history
<1> QED
  BY Zenon, <1>1, <1>2, <1>3, Frame DEF IInv

LEMMA IInvStep == IInv /\ [Next]_vars => IInv'
<1> SUFFICES ASSUME IInv, [Next]_vars PROVE IInv'
  BY Zenon
<1>1. CASE UNCHANGED vars
  BY Zenon, <1>1, Stutters
<1>2. CASE Next
  BY Zenon, <1>2, CallStep, PollStep, EnvironmentStep, DeliverStep, ReentrantStep, StoppedStep,
     EnterLaneStep, ThrowEarlyStep, InvokeStep, EngineTrueStep, EngineFailsStep, FinishStep
     DEF Next, Step
<1> QED
  BY Zenon, <1>1, <1>2

LEMMA Invariant == Spec => []IInv
BY InitIInv, IInvStep, PTL DEF Spec

\* A result in the registry says what the engine calls of its application did
\* (AckCompletionGuard, ApplyBatch) and can be encoded (ValidateAckResult).
THEOREM ResultsTrue == Spec => []ResultsAreTrue
<1>1. IInv => ResultsAreTrue
  BY Zenon DEF IInv, ResultInv, ResultOf, TrueResult, ResultsAreTrue
<1> QED
  BY <1>1, Invariant, PTL

\* After Ok every entry of an acknowledged call is in the store; after a
\* rejection none is, for as long as the node has kept the result
\* (SubmitAcknowledgedWrite, ApplyAcknowledgedSample).
THEOREM AnswersTrue == Spec => []AnswersAreTrue
<1>1. ASSUME IInv PROVE AnswersAreTrue
  <2> SUFFICES ASSUME NEW o \in Ops, req[o].ack
               PROVE  /\ res[o] = "Ok" =>
                            \A i \in 0 .. req[o].size - 1 : [op |-> o, index |-> i] \in Range(log)
                      /\ (res[o] \in Definite /\ forgotten[o] = 0) =>
                            \A i \in 1 .. Len(log) : log[i].op # o
    BY Zenon DEF AnswersAreTrue
  <2>1. AnswerOf(o) /\ ResultOf(o)
    BY Zenon, <1>1 DEF IInv, AnswerInv, ResultInv
  <2>2. res[o] = "Ok" => Stored(o, req[o].size)
    BY Zenon, <2>1 DEF AnswerOf
  <2>3. ASSUME res[o] \in Definite, forgotten[o] = 0 PROVE Untouched(o)
    <3>1. CASE LocalStatus(req[o]) # "none"
      BY Zenon, <2>1, <3>1 DEF AnswerOf
    <3>2. CASE LocalStatus(req[o]) = "none"
      <4>1. Completed(o) /\ entries[o].status \in Definite
        BY Zenon, <2>1, <2>3, <3>2 DEF AnswerOf
      <4>2. calls[o].made = 0
        BY Zenon, <2>1, <4>1 DEF ResultOf, TrueResult
      <4> QED
        BY Zenon, <2>1, <2>3, <4>2 DEF AnswerOf
    <3> QED
      BY Zenon, <3>1, <3>2
  <2> QED
    BY Zenon, <2>2, <2>3 DEF Stored, Untouched
<1> QED
  BY <1>1, Invariant, PTL

\* A token is applied again only after its result was dropped; the ring holds
\* each completed token once and nothing else (ClaimLocked, RetainCompletedLocked).
THEOREM AppliesOnce == Spec => []AppliedOnce
<1>1. ASSUME IInv PROVE AppliedOnce
  <2>1. TypeOK
    <3>1. \A o \in Ops : Completed(o) => entries[o].status \in Statuses
      BY Zenon, <1>1 DEF IInv, ResultInv, ResultOf, TrueResult
    <3>2. pc \in [Threads -> {"idle", "lane", "apply", "engine", "finish"}]
      <4>1. {"idle", "lane"} \union Working = {"idle", "lane", "apply", "engine", "finish"}
        BY Zenon DEF Working
      <4> QED
        BY Zenon, <1>1, <4>1 DEF IInv, TypeInv
    <3> QED
      BY Zenon, <1>1, <3>1, <3>2 DEF IInv, TypeInv, TypeOK
  <2>2. \A o \in Ops : attempts[o] <= 1 + forgotten[o]
    BY Zenon, <1>1 DEF IInv, ResultInv, ResultOf
  <2>3. \A o \in Ops : entries[o] = Processing <=> busy = o
    BY Zenon, <1>1 DEF IInv, LaneInv, TokenOf
  <2> QED
    BY Zenon, <1>1, <2>1, <2>2, <2>3 DEF IInv, RingInv, AppliedOnce
<1> QED
  BY <1>1, Invariant, PTL

\* No other write lies between two entries of a batch in the store (OnSample).
THEOREM BatchesContiguous == Spec => []BatchesAreContiguous
<1>1. IInv => BatchesAreContiguous
  BY Zenon DEF IInv
<1> QED
  BY <1>1, Invariant, PTL
=============================================================================
