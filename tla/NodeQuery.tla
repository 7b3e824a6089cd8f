----------------------------- MODULE NodeQuery ------------------------------
(***************************************************************************)
(* Reads of the parameter store: ParamStore::Get, Contains and List and    *)
(* the discovery of a session's generation travel as a query to the        *)
(* storage node, whose replies come back through GetCompletion; a          *)
(* SessionView reads the overlay and the snapshot in the node's process.   *)
(* They race the node's writes, CloseSession, RetainSession and Stop.      *)
(*                                                                         *)
(* A scope's content is a function from some keys to values.  A request    *)
(* names the keys its selector covers ("parent") and those the caller      *)
(* asked for ("keys"): a List whose prefix ends inside a chunk queries the *)
(* enclosing chunk and drops the rest.                                     *)
(***************************************************************************)
EXTENDS Integers, FiniteSets, Sequences, SequencesExt

CONSTANTS Readers, Callbacks, Writers, Requests, Writes, Contents,
          Malformed, None, MaxChanges, MaxFaults

ASSUME ReadAssumption ==
  /\ Requests \in [Readers -> SUBSET [api : {"store", "meta", "view"},
                       op : {"Get", "Contains", "List"},
                       scope : {"base", "session", "snap"},
                       parent : SUBSET Nat, keys : SUBSET Nat]]
  /\ \A r \in Readers : \A q \in Requests[r] : q.keys \subseteq q.parent
  /\ MaxChanges \in Nat /\ MaxFaults \in Nat

VARIABLES
  node,       \* the State's gate ("accepting", "gate") and the queryable ("alive")
  stop,       \* progress of Stop, and who called it
  close,      \* progress of CloseSession, and who called it
  base,       \* the base engine
  session,    \* the one session record
  writer,     \* the write each subscriber callback carries
  call,       \* the read each reader makes
  query,      \* the node's side of each read
  wire,       \* replies on their way to the reader
  get,        \* the reader's GetCompletion
  cb,         \* reply callbacks inside GetCompletion
  discovered, \* readers whose transport knows the queryable
  faults,     \* how many transport faults have happened
  changes,    \* how many writes and lifecycle calls have begun
  live,       \* history: the read's scope was served during the call
  allowed     \* history: what each read may answer

nodeVars == <<node, stop, close, base, session, writer>>
readVars == <<call, query, wire, get, cb>>
linkVars == <<discovered, faults>>
vars == <<nodeVars, readVars, linkVars, changes, live, allowed>>

Empty == [k \in {} |-> None]
Closer == "closer"
Idle == [pc |-> "idle", by |-> None]
NoSession == [phase |-> "none", lifecycle |-> "active", generation |-> 0,
              snapshot |-> Empty, overlay |-> Empty, admitted |-> {}]
NoResult == [status |-> "none", values |-> Empty]
Err(s) == [status |-> s, values |-> Empty]
Ok(f) == [status |-> "Ok", values |-> f]
NewCall == [pc |-> "idle", request |-> None, epoch |-> 0, generation |-> 0,
            values |-> Empty, result |-> NoResult, fault |-> "none"]
NewQuery == [pc |-> "none", entries |-> <<>>]
NewGet == [dropped |-> FALSE, final |-> FALSE, state |-> "Active",
           failure |-> "none", keys |-> {}, error |-> FALSE]

\* CreateSession: the snapshot of the base, an empty overlay, a new generation.
Created(generation) == [NoSession EXCEPT !.phase = "active", !.snapshot = base,
                                         !.generation = generation]

\* A started node, without a session or with one just created.
Init ==
  /\ node = [accepting |-> TRUE, alive |-> TRUE, epoch |-> 1, gate |-> {}]
  /\ stop = Idle /\ close = Idle
  /\ base \in Contents
  /\ session \in {NoSession, Created(1)}
  /\ writer = [w \in Writers |-> None]
  /\ call = [r \in Readers |-> NewCall]
  /\ query = [r \in Readers |-> NewQuery]
  /\ wire = [r \in Readers |-> <<>>]
  /\ get = [r \in Readers |-> NewGet]
  /\ cb = [r \in Readers |-> [c \in Callbacks |-> [pc |-> "idle", reply |-> None]]]
  /\ discovered = {}
  /\ faults = 0 /\ changes = 0
  /\ live = [r \in Readers |-> FALSE]
  /\ allowed = [r \in Readers |-> {}]

-----------------------------------------------------------------------------
(* What a read answers from a content. *)

Only(f, S) == [k \in DOMAIN f \cap S |-> f[k]]
Over(f, g) == [k \in DOMAIN f \cup DOMAIN g |-> IF k \in DOMAIN f THEN f[k] ELSE g[k]]

\* ParamStore and SessionView turn what they collected into a result: a payload
\* that does not decode is an Error, and no reply to a Get is NotFound.
Answer(q, f) ==
  CASE \E k \in DOMAIN f : f[k] = Malformed -> Err("Error")
    [] q.op = "Get" /\ DOMAIN f = {} -> Err("NotFound")
    [] q.op = "Contains" -> Ok([k \in DOMAIN f |-> TRUE])
    [] OTHER -> Ok(f)

Active == session.phase = "active"
OfBase(q) == q.api = "store" /\ q.scope = "base"

\* The content that a request's scope names.
Scope(q) ==
  CASE q.api = "view" -> Over(session.overlay, session.snapshot)
    [] q.api = "meta" -> [k \in q.keys |-> session.generation]
    [] q.scope = "base" -> base
    [] q.scope = "snap" -> session.snapshot
    [] q.scope = "session" -> session.overlay

\* The session is still the one the read is bound to, if it is bound to one.
Bound(r) == call[r].request.api = "view" => call[r].generation = session.generation

\* Whether the scope of the read r is served now, and what it answers when not.
Live(r) ==
  LET q == call[r].request IN
  /\ node.accepting
  /\ OfBase(q) \/ (Active /\ session.lifecycle = "active")
  /\ q.api = "view" => call[r].epoch = node.epoch
  /\ Bound(r)

Refusal(r) ==
  LET q == call[r].request
      Gone == IF q.op \in {"Contains", "List"} THEN Ok(Empty) ELSE Err("NotFound") IN
  CASE q.api = "view" /\ (~node.accepting \/ call[r].epoch # node.epoch) -> Err("Disconnected")
    [] ~node.accepting -> Gone
    [] q.api # "view" /\ ~Active -> Gone
    [] q.api = "meta" -> Err("TypeMismatch")
    [] q.api = "view" /\ ~(Active /\ session.lifecycle = "retained") -> Err("NotFound")
    [] OTHER -> Err("StateLost")

Now(r) ==
  LET q == call[r].request IN Answer(q, Only(Scope(q), q.keys))

InCall(r) == call[r].pc \notin {"idle", "done"}

\* History: the answers that are right at some instant of the call.  A scope
\* that was served during the call may be read until the call ends.
Observe ==
  /\ live' = [r \in Readers |-> IF InCall(r)' THEN live[r] \/ Live(r)' ELSE live[r]]
  /\ allowed' = [r \in Readers |->
       IF ~InCall(r)' THEN allowed[r]
       ELSE allowed[r] \cup (IF Live(r)' THEN {} ELSE {Refusal(r)'})
                       \cup (IF live'[r] /\ Bound(r)' THEN {Now(r)'} ELSE {})]

-----------------------------------------------------------------------------
(* The client: ParamStore::Get, Contains, List and DiscoverSessionGeneration *)

Returns(r, x) == [call EXCEPT ![r].pc = "done", ![r].result = x]

\* A ParamStore read waits for a reachable node; a view is opened.
Call(r) ==
  \E q \in Requests[r] :
    /\ call[r].pc = "idle"
    /\ q.api # "view"
    /\ call' = [call EXCEPT ![r].pc = "waiting", ![r].request = q]
    /\ UNCHANGED <<nodeVars, query, wire, get, cb, linkVars>>

\* WaitForStorageNodeWithin ends when the transport has matched a queryable.
Matched(r) == r \in discovered

WaitForStorageNode(r) ==
  /\ call[r].pc = "waiting"
  /\ Matched(r)
  /\ call' = [call EXCEPT ![r].pc = "getting"]
  /\ query' = [query EXCEPT ![r].pc = "sent"]
  /\ UNCHANGED <<nodeVars, wire, get, cb, linkVars>>

\* ... or when its deadline passes; then the query matches nothing and ends at once.
WaitExpires(r) ==
  /\ call[r].pc = "waiting"
  /\ r \notin discovered
  /\ call' = [call EXCEPT ![r].pc = "getting", ![r].fault = "unreached"]
  /\ get' = [get EXCEPT ![r].final = TRUE]
  /\ UNCHANGED <<nodeVars, query, wire, cb, linkVars>>

\* z_get refuses the query: the completion is marked dropped and drained.
SubmitFails(r) ==
  /\ call[r].pc = "waiting"
  /\ faults < MaxFaults
  /\ faults' = faults + 1
  /\ get' = [get EXCEPT ![r].dropped = TRUE]
  /\ call' = [Returns(r, Err("Error")) EXCEPT ![r].fault = "failed"]
  /\ UNCHANGED <<nodeVars, query, wire, cb, discovered>>

-----------------------------------------------------------------------------
(* GetCompletion *)

InFlight(r) == {c \in Callbacks : cb[r][c].pc # "idle"}
DeliveryFree(r) == \A c \in Callbacks : cb[r][c].pc # "sink"

EndCallback(r, c) == [cb EXCEPT ![r][c] = [pc |-> "idle", reply |-> None]]

\* A reply callback, on any thread that is free, enrols unless the closure was
\* dropped.
OnGetReply(r) ==
  /\ wire[r] # <<>>
  /\ InFlight(r) # Callbacks
  /\ wire' = [wire EXCEPT ![r] = Tail(@)]
  /\ cb' = IF get[r].dropped THEN cb
           ELSE [cb EXCEPT ![r][CHOOSE c \in Callbacks \ InFlight(r) : TRUE] =
                   [pc |-> "entered", reply |-> Head(wire[r])]]
  /\ UNCHANGED <<nodeVars, call, query, get, linkVars>>

\* ProcessReply under the delivery mutex, up to the call of the sink.
ProcessReply(r, c) ==
  LET reply == cb[r][c].reply IN
  /\ cb[r][c].pc = "entered"
  /\ DeliveryFree(r)
  /\ \/ /\ get[r].state # "Active" \/ (reply.error = "none" /\ reply.key \in get[r].keys)
        /\ cb' = EndCallback(r, c)
        /\ UNCHANGED get
     \/ /\ get[r].state = "Active"
        /\ reply.error # "none"
        /\ get' = [get EXCEPT ![r].state = "Failed", ![r].failure = reply.error]
        /\ cb' = EndCallback(r, c)
     \/ /\ get[r].state = "Active"
        /\ reply.error = "none"
        /\ reply.key \notin get[r].keys
        /\ get' = [get EXCEPT ![r].keys = @ \cup {reply.key}]
        /\ cb' = [cb EXCEPT ![r][c].pc = "sink"]
  /\ UNCHANGED <<nodeVars, call, query, wire, linkVars>>

\* The sink of the caller: DecodeReply or DecodeListReply.  A payload that does
\* not decode stops the delivery; a key outside the prefix is passed over.
Sink(r, c) ==
  LET reply == cb[r][c].reply
      q == call[r].request
      Wanted == reply.key \in q.keys
      Bad == Wanted /\ reply.value = Malformed IN
  /\ cb[r][c].pc = "sink"
  /\ call' = IF Wanted /\ ~Bad
             THEN [call EXCEPT ![r].values = Over(@, [k \in {reply.key} |-> reply.value])]
             ELSE call
  /\ get' = IF Bad THEN [get EXCEPT ![r].error = TRUE, ![r].state = "StoppedBySink"] ELSE get
  /\ cb' = EndCallback(r, c)
  /\ UNCHANGED <<nodeVars, query, wire, linkVars>>

\* The native reply closure is dropped after the last reply was handed over.
MarkDropped(r) ==
  /\ get[r].final /\ wire[r] = <<>> /\ ~get[r].dropped
  /\ get' = [get EXCEPT ![r].dropped = TRUE]
  /\ UNCHANGED <<nodeVars, call, query, wire, cb, linkVars>>

\* Mutant: the drop alone ends the wait.
FinishedEarly(r) == get[r].dropped

Finished(r) == get[r].dropped /\ InFlight(r) = {}

\* A transport error comes first, then the sink's error, then the answer.
StoreResult(r) ==
  CASE get[r].state = "Failed" -> Err(get[r].failure)
    [] get[r].error -> Err(IF call[r].request.api = "meta" THEN "TypeMismatch" ELSE "Error")
    [] OTHER -> Answer(call[r].request, call[r].values)

WaitForResult(r) ==
  /\ call[r].pc = "getting"
  /\ Finished(r)
  /\ call' = Returns(r, StoreResult(r))
  /\ UNCHANGED <<nodeVars, query, wire, get, cb, linkVars>>

-----------------------------------------------------------------------------
(* The storage node's side: OnQueryable, OnQuery and TransportQuery::Reply *)

Value(k, v) == [key |-> k, value |-> v, error |-> "none"]
Error(s) == [key |-> None, value |-> None, error |-> s]
Ends(r) == get' = [get EXCEPT ![r].final = TRUE]

\* The adapter's alive check, then the State's gate.
OnQueryable(r) ==
  /\ query[r].pc = "sent"
  /\ \/ /\ node.alive /\ node.accepting
        /\ node' = [node EXCEPT !.gate = @ \cup {r}]
        /\ query' = [query EXCEPT ![r].pc = "entered"]
        /\ UNCHANGED get
     \/ /\ ~(node.alive /\ node.accepting)
        /\ query' = [query EXCEPT ![r].pc = "ended"]
        /\ Ends(r)
        /\ UNCHANGED node
  /\ UNCHANGED <<stop, close, base, session, writer, call, wire, cb, linkVars>>

Replying(r, entries) ==
  query' = [query EXCEPT ![r] = [pc |-> "replying", entries |-> entries]]

\* A retained session is refused with StateLost, never with zero replies.
Lost == <<Error("StateLost")>>

\* The metadata of a session that is not active is not one a reader accepts.
ReplyMeta(q) ==
  <<Value(CHOOSE k \in q.keys : TRUE,
          IF session.lifecycle = "active" THEN session.generation ELSE Malformed)>>

\* ReplyScopedQuery finds the session and its reader under session_mutex;
\* ReplyMetaQuery writes its answer there.
SelectReader(r) ==
  LET q == call[r].request
      Admit == session' = [session EXCEPT !.admitted = @ \cup {r}] IN
  /\ query[r].pc = "entered"
  /\ \/ /\ OfBase(q)
        /\ query' = [query EXCEPT ![r].pc = "selected"]
        /\ UNCHANGED session
     \/ /\ ~OfBase(q)
        /\ ~Active
        /\ Replying(r, <<>>)
        /\ UNCHANGED session
     \/ /\ q.api = "meta"
        /\ Active
        /\ Admit
        /\ Replying(r, ReplyMeta(q))
     \/ /\ q.api = "store" /\ ~OfBase(q)
        /\ Active
        /\ Admit
        /\ IF session.lifecycle = "active"
           THEN query' = [query EXCEPT ![r].pc = "selected"]
           ELSE Replying(r, Lost)
  /\ UNCHANGED <<node, stop, close, base, writer, call, wire, get, cb, linkVars>>

\* The engine copies the entries under its own lock, in key order.
Collect(r) ==
  LET q == call[r].request
      f == Only(Scope(q), q.parent) IN
  /\ query[r].pc = "selected"
  /\ Replying(r, [i \in 1..Cardinality(DOMAIN f) |->
       LET k == SetToSortSeq(DOMAIN f, <)[i] IN Value(k, f[k])])
  /\ UNCHANGED <<nodeVars, call, wire, get, cb, linkVars>>

\* TransportQuery::Reply under the queryable's mutex.  A reply that fails ends
\* the enumeration; a reply after the reader gave up goes nowhere.
Reply(r) ==
  /\ query[r].pc = "replying" /\ query[r].entries # <<>>
  /\ query' = [query EXCEPT ![r].entries = IF node.alive THEN Tail(@) ELSE <<>>]
  /\ wire' = IF node.alive /\ ~get[r].final
             THEN [wire EXCEPT ![r] = Append(@, Head(query[r].entries))] ELSE wire
  /\ UNCHANGED <<nodeVars, call, get, cb, linkVars>>

ReplyFails(r) ==
  /\ query[r].pc = "replying" /\ query[r].entries # <<>>
  /\ faults < MaxFaults
  /\ faults' = faults + 1
  /\ query' = [query EXCEPT ![r].entries = <<>>]
  /\ call' = [call EXCEPT ![r].fault = IF @ = "none" THEN "truncated" ELSE @]
  /\ UNCHANGED <<nodeVars, wire, get, cb, discovered>>

\* The callback leaves the session and the gate; the query is dropped.
EndQuery(r) ==
  /\ query[r].pc = "replying" /\ query[r].entries = <<>>
  /\ query' = [query EXCEPT ![r].pc = "ended"]
  /\ session' = [session EXCEPT !.admitted = @ \ {r}]
  /\ node' = [node EXCEPT !.gate = @ \ {r}]
  /\ Ends(r)
  /\ UNCHANGED <<stop, close, base, writer, call, wire, cb, linkVars>>

-----------------------------------------------------------------------------
(* The transport (external): discovery, loss, duplication and time-out *)

Discover(r) ==
  /\ call[r].pc = "waiting" /\ node.alive /\ r \notin discovered
  /\ discovered' = discovered \cup {r}
  /\ UNCHANGED <<nodeVars, readVars, faults>>

LoseQuery(r) ==
  /\ query[r].pc = "sent"
  /\ faults < MaxFaults
  /\ faults' = faults + 1
  /\ query' = [query EXCEPT ![r].pc = "ended"]
  /\ UNCHANGED <<nodeVars, call, wire, get, cb, discovered>>

Duplicate(r) ==
  /\ wire[r] # <<>>
  /\ faults < MaxFaults
  /\ faults' = faults + 1
  /\ wire' = [wire EXCEPT ![r] = Append(@, Head(@))]
  /\ UNCHANGED <<nodeVars, call, query, get, cb, discovered>>

TimeOut(r) ==
  /\ call[r].pc = "getting" /\ ~get[r].final
  /\ wire' = [wire EXCEPT ![r] = Append(@, Error("Error"))]
  /\ call' = [call EXCEPT ![r].fault = "failed"]
  /\ Ends(r)
  /\ UNCHANGED <<nodeVars, query, cb, linkVars>>

-----------------------------------------------------------------------------
(* SessionView, in the node's process *)

\* Open binds the view to the session's current overlay.
OpenView(r) ==
  \E q \in Requests[r] :
    /\ call[r].pc = "idle"
    /\ q.api = "view"
    /\ call' = IF node.accepting /\ Active /\ session.lifecycle = "active"
               THEN [call EXCEPT ![r].pc = "opened", ![r].request = q,
                       ![r].epoch = node.epoch, ![r].generation = session.generation]
               ELSE Returns(r, Err(CASE ~node.accepting -> "Disconnected"
                                     [] Active -> "StateLost"
                                     [] OTHER -> "NotFound"))
    /\ UNCHANGED <<nodeVars, query, wire, get, cb, linkVars>>

\* AcquireReaders enters the gate of the State the view was opened on ...
EnterView(r) ==
  /\ call[r].pc = "opened"
  /\ IF node.accepting /\ call[r].epoch = node.epoch
     THEN /\ call' = [call EXCEPT ![r].pc = "entered"]
          /\ node' = [node EXCEPT !.gate = @ \cup {r}]
     ELSE /\ call' = Returns(r, Err("Disconnected"))
          /\ UNCHANGED node
  /\ UNCHANGED <<stop, close, base, session, writer, query, wire, get, cb, linkVars>>

\* Mutant: a view reads whatever session has its sid.
SameOwnerAny(r) == TRUE

SameOwner(r) == call[r].generation = session.generation

\* ... and the session under session_mutex, if its overlay is still that one.
AcquireReaders(r) ==
  /\ call[r].pc = "entered"
  /\ IF Active /\ session.lifecycle = "active" /\ SameOwner(r)
     THEN /\ call' = [call EXCEPT ![r].pc = "acquired"]
          /\ session' = [session EXCEPT !.admitted = @ \cup {r}]
          /\ UNCHANGED node
     ELSE /\ call' = Returns(r, Err(IF Active /\ session.lifecycle = "retained"
                                    THEN "StateLost" ELSE "NotFound"))
          /\ node' = [node EXCEPT !.gate = @ \ {r}]
          /\ UNCHANGED session
  /\ UNCHANGED <<stop, close, base, writer, query, wire, get, cb, linkVars>>

\* Read and List take the overlay first and the snapshot for the other keys.
ReadView(r) ==
  LET q == call[r].request IN
  /\ call[r].pc = "acquired"
  /\ call' = [call EXCEPT ![r].pc = "read", ![r].values = Only(Scope(q), q.keys)]
  /\ UNCHANGED <<nodeVars, query, wire, get, cb, linkVars>>

\* Mutant: List keeps its leases while it calls the sink.
ReleaseReadersLate(r) ==
  LET q == call[r].request
      x == Answer(q, call[r].values)
      InSink == q.op = "List" /\ x.status = "Ok" IN
  /\ call[r].pc = "read"
  /\ session' = IF InSink THEN session ELSE [session EXCEPT !.admitted = @ \ {r}]
  /\ node' = IF InSink THEN node ELSE [node EXCEPT !.gate = @ \ {r}]
  /\ call' = IF InSink THEN [call EXCEPT ![r].pc = "sink"] ELSE Returns(r, x)
  /\ UNCHANGED <<stop, close, base, writer, query, wire, get, cb, linkVars>>

\* The leases are given back before List calls the caller's sink.
ReleaseReaders(r) ==
  LET q == call[r].request
      x == Answer(q, call[r].values) IN
  /\ call[r].pc = "read"
  /\ session' = [session EXCEPT !.admitted = @ \ {r}]
  /\ node' = [node EXCEPT !.gate = @ \ {r}]
  /\ call' = IF q.op = "List" /\ x.status = "Ok"
             THEN [call EXCEPT ![r].pc = "sink"] ELSE Returns(r, x)
  /\ UNCHANGED <<stop, close, base, writer, query, wire, get, cb, linkVars>>

\* The caller's sink has returned; it may have closed the session or stopped
\* the node, and then waited for that.
ViewSinkReturns(r) ==
  /\ call[r].pc = "sink"
  /\ stop.by # r /\ close.by # r
  /\ call' = Returns(r, Answer(call[r].request, call[r].values))
  /\ UNCHANGED <<nodeVars, query, wire, get, cb, linkVars>>

-----------------------------------------------------------------------------
(* Writes, sessions and the node's lifecycle *)

Administrators == {"admin"} \cup {r \in Readers : call[r].pc = "sink"}

\* A subscriber callback enters the gate and, for a session, its admission; it
\* keeps the overlay it found there.
AdmitWrite(w) ==
  \E x \in Writes :
    /\ writer[w] = None
    /\ node.accepting
    /\ x.scope = "session" => Active /\ session.lifecycle = "active"
    /\ writer' = [writer EXCEPT ![w] = x]
    /\ node' = [node EXCEPT !.gate = @ \cup {w}]
    /\ session' = IF x.scope = "session" THEN [session EXCEPT !.admitted = @ \cup {w}] ELSE session
    /\ UNCHANGED <<stop, close, base, readVars, linkVars>>

Written(f, x) ==
  IF x.value = None THEN Only(f, DOMAIN f \ {x.key})
  ELSE Over([k \in {x.key} |-> x.value], f)

ApplyWrite(w) ==
  LET x == writer[w] IN
  /\ w \in node.gate
  /\ base' = IF x.scope = "base" THEN Written(base, x) ELSE base
  /\ session' = [session EXCEPT !.admitted = @ \ {w},
                   !.overlay = IF x.scope = "session" THEN Written(@, x) ELSE @]
  /\ node' = [node EXCEPT !.gate = @ \ {w}]
  /\ UNCHANGED <<stop, close, writer, readVars, linkVars>>

CreateSession ==
  /\ node.accepting /\ session.phase = "none"
  /\ session' = Created(session.generation + 1)
  /\ UNCHANGED <<node, stop, close, base, writer, readVars, linkVars>>

\* RetainSession's commit: the lifecycle and the readers change together.
RetainSession ==
  /\ node.accepting /\ Active /\ session.lifecycle = "active"
  /\ session' = [session EXCEPT !.lifecycle = "retained"]
  /\ UNCHANGED <<node, stop, close, base, writer, readVars, linkVars>>

CloseSession ==
  \E a \in Administrators :
    /\ close = Idle /\ stop.by # a
    /\ node.accepting /\ Active
    /\ close' = [pc |-> "closing", by |-> a]
    /\ session' = [session EXCEPT !.phase = "closing"]
    /\ node' = [node EXCEPT !.gate = @ \cup {Closer}]
    /\ UNCHANGED <<stop, base, writer, readVars, linkVars>>

\* Mutant: closing does not wait for the callbacks it admitted.
AdmissionDrainedNever == TRUE

AdmissionDrained == session.admitted = {}

Released == [NoSession EXCEPT !.generation = session.generation, !.admitted = session.admitted]

ReleaseSession ==
  /\ close.pc = "closing"
  /\ AdmissionDrained
  /\ close' = Idle
  /\ session' = Released
  /\ node' = [node EXCEPT !.gate = @ \ {Closer}]
  /\ UNCHANGED <<stop, base, writer, readVars, linkVars>>

\* Start declares the queryable and opens the gate.
Start ==
  /\ ~node.accepting /\ ~node.alive /\ stop = Idle
  /\ node' = [node EXCEPT !.accepting = TRUE, !.alive = TRUE, !.epoch = @ + 1]
  /\ UNCHANGED <<stop, close, base, session, writer, readVars, linkVars>>

\* Stop closes the gate, waits for every callback to leave, ends the sessions
\* and only then undeclares the queryable.
Stop ==
  \E a \in Administrators :
    /\ stop = Idle /\ node.accepting /\ close.by # a
    /\ stop' = [pc |-> "draining", by |-> a]
    /\ node' = [node EXCEPT !.accepting = FALSE]
    /\ UNCHANGED <<close, base, session, writer, readVars, linkVars>>

Quiesce ==
  /\ stop.pc = "draining"
  /\ node.gate = {} /\ AdmissionDrained
  /\ stop' = [stop EXCEPT !.pc = "quiet"]
  /\ session' = Released
  /\ UNCHANGED <<node, close, base, writer, readVars, linkVars>>

ResetQueryable ==
  /\ stop.pc = "quiet"
  /\ stop' = Idle
  /\ node' = [node EXCEPT !.alive = FALSE]
  /\ discovered' = {}
  /\ UNCHANGED <<close, base, session, writer, readVars, faults>>

-----------------------------------------------------------------------------
Completion(r) ==
  \/ \E c \in Callbacks : ProcessReply(r, c) \/ Sink(r, c)
  \/ OnGetReply(r) \/ MarkDropped(r) \/ WaitForResult(r)

StoreRead(r) == WaitForStorageNode(r) \/ WaitExpires(r) \/ Completion(r) \/ TimeOut(r)

OnQuery(r) ==
  OnQueryable(r) \/ SelectReader(r) \/ Collect(r) \/ Reply(r) \/ EndQuery(r)

ReadOfView(r) ==
  \/ EnterView(r) \/ AcquireReaders(r) \/ ReadView(r) \/ ReleaseReaders(r)
  \/ ViewSinkReturns(r)

Called == \E r \in Readers : Call(r) \/ OpenView(r)

\* Bounds: MaxChanges of these begin, and none once every read has returned.
Change ==
  /\ changes < MaxChanges
  /\ \E r \in Readers : call[r].pc # "done"
  /\ changes' = changes + 1
  /\ \/ \E w \in Writers : AdmitWrite(w)
     \/ CreateSession \/ RetainSession \/ CloseSession \/ Start \/ Stop

Fault ==
  \E r \in Readers : \/ SubmitFails(r) \/ ReplyFails(r) \/ LoseQuery(r) \/ Duplicate(r)
                     \/ Discover(r)

\* What the threads of a read, a write or an ending do once they have begun.
Progress ==
  \/ \E r \in Readers : StoreRead(r) \/ OnQuery(r) \/ ReadOfView(r)
  \/ \E w \in Writers : ApplyWrite(w)
  \/ ReleaseSession \/ Quiesce \/ ResetQueryable

Next ==
  /\ \/ Change
     \/ (Called \/ Fault \/ Progress) /\ UNCHANGED changes
  /\ Observe

Spec == Init /\ [][Next]_vars

\* As long as some thread can go on, or a query's timer is running, one does.
\* Every call and every fault is bounded, so no more is needed; nobody is bound
\* to call, to write or to end a session, and no fault is bound to happen.
FairSpec == Spec /\ WF_<<nodeVars, readVars, linkVars>>(Progress)

-----------------------------------------------------------------------------
\* A read answers what its scope held, or was refused with, at one instant of
\* the call: a List is never a mixture of two states, a truncated enumeration
\* or the overlay of another generation, NotFound is never said of a key that
\* was there all along, and a retained session is never taken for an absent
\* one.  Excepted are the reads the transport failed: their error, the empty
\* answer of a node that was not reached in time, and the part of a List whose
\* reply zenoh refused.
ReadsAreTrue ==
  \A r \in Readers :
    LET x == call[r].result IN
    call[r].pc = "done" /\ call[r].request # None =>
      \/ x \in allowed[r]
      \/ /\ call[r].fault = "failed"
         /\ x = Err("Error")
      \/ /\ call[r].fault = "unreached"
         /\ x = Answer(call[r].request, Empty)
      \/ /\ call[r].fault = "truncated"
         /\ \E y \in allowed[r] : \A k \in DOMAIN x.values :
              k \in DOMAIN y.values /\ x.values[k] = y.values[k]

\* GetCompletion waits for every callback it enrolled: when the read has
\* returned none is left that could touch the caller's sink, and no two are in
\* the sink at once.
CallbacksEndWithTheCall ==
  \A r \in Readers :
    /\ call[r].pc = "done" => InFlight(r) = {}
    /\ \A c, d \in InFlight(r) : cb[r][c].pc = "sink" /\ cb[r][d].pc = "sink" => c = d
    /\ \A c \in InFlight(r) : cb[r][c].pc = "sink" => get[r].state = "Active"

\* CloseSession and Stop are quiescence boundaries: while a query or a view
\* holds a session or the gate, neither has returned, and no reply leaves a
\* node whose queryable is gone.
EndsAreQuiet ==
  /\ session.phase = "none" => session.admitted = {}
  /\ ~node.alive => node.gate = {}
  /\ \A r \in Readers : query[r].pc \in {"entered", "selected", "replying"} =>
       node.alive /\ r \in node.gate

Busy == (\E r \in Readers : InCall(r)) \/ close # Idle \/ stop # Idle

\* Every read returns, even when its query is lost, and so does every
\* CloseSession and Stop, the ones that a List sink calls included.
ReadsAndEndsReturn == Busy ~> ~Busy
=============================================================================
