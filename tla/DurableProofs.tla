----------------------------- MODULE DurableProofs -----------------------------
(***************************************************************************)
(* The inductive invariant of DurableSession, for every number of threads, *)
(* entries and generations and for every number of crashes and failing     *)
(* disk operations, and why the steps that only move a call and those that *)
(* write the catalog preserve it.                                          *)
(***************************************************************************)
EXTENDS DurableSession, TLAPS

\* The thread owns the Creating record.
Creating(t) == kind[t] = "create" /\ pc[t] \notin {"announce", "announcing"}

\* The thread owns the Closing record.
Closing(t) == pc[t] \in {"token", "drain"}

\* The thread is past the release of the generation and before its last record.
Removing(t) == pc[t] \in {"finish", "removing", "finishing"}

\* Where a thread may be in each operation.
ControlOf(t) ==
    /\ kind[t] = "none" <=> pc[t] = "idle"
    /\ kind[t] = "create" =>
          pc[t] \in {"active", "store", "opening", "deleting", "activate", "announce",
                     "announcing", "rollback", "finish", "removing", "finishing", "latching"}
    /\ kind[t] = "close" =>
          pc[t] \in {"begin", "token", "drain", "finish", "removing", "finishing", "latching"}
    /\ kind[t] = "retain" =>
          pc[t] \in {"retain", "gate", "syncing", "commit", "withdraw", "latching"}
    /\ kind[t] = "write" => pc[t] \in {"admitted", "writing"}
    /\ kind[t] = "read" => pc[t] = "reading"
    /\ kind[t] = "start" =>
          pc[t] \in {"open", "initialize", "reconcile", "orphan", "finish", "removing",
                     "finishing", "latching"}

ControlInv == \A t \in Threads : ControlOf(t)

\* catalog_mutex is held exactly where the code holds it, nobody is inside the
\* gate once the catalog is latched, and Start runs alone on an empty node.
LockOf(t) ==
    /\ pc[t] \in {"gate", "syncing", "commit", "withdraw"} => holder = t
    /\ holder = t => pc[t] \in {"gate", "syncing", "commit", "withdraw", "latching"}
    /\ pc[t] = "latching" => holder = t \/ kind[t] = "start"
    /\ pc[t] \in InGate => ~latched
    /\ kind[t] = "start" =>
          /\ node = "starting" /\ ~latched /\ rec = NoSession /\ token = 0
          /\ \A u \in Threads : u # t => kind[u] = "none"
    /\ kind[t] \notin {"none", "start"} => node \in {"up", "stopping"}

LockInv ==
    /\ \A t \in Threads : LockOf(t)
    /\ \A t, u \in Threads : Creating(t) /\ Creating(u) => t = u
    /\ \A t, u \in Threads : Closing(t) /\ Closing(u) => t = u

\* What memory and the disk have in common.  The catalog's view is the disk's
\* record except before it is loaded and after a failed write, which latches.
SyncInv ==
    /\ node = "down" =>
          /\ rec = NoSession /\ view = NoRecord /\ token = 0
          /\ \A t \in Threads : kind[t] = "none"
    /\ \/ disk = view \/ latched \/ node = "down"
       \/ \E t \in Threads : pc[t] \in {"open", "latching"}
    /\ node \in {"up", "stopping"} /\ ~latched => catalog = "ready"
    /\ \A t \in Threads : kind[t] = "start" =>
        /\ pc[t] \in {"open", "initialize"} => view = NoRecord
        /\ pc[t] = "initialize" => catalog = "raw"
        /\ pc[t] \notin {"open", "initialize", "latching"} => catalog = "ready"
        /\ pc[t] = "reconcile" => gen[t] = view.gen
        /\ pc[t] = "orphan" => gen[t] = view.gen /\ view.state = "active" /\ gen[t] \in dirs
    /\ Readable(view)

\* The session record follows the catalog's, and an open engine has its directory.
RecordInv ==
    /\ rec.gen <= born /\ view.gen <= born /\ disk.gen <= born
    /\ rec.gen = 0 <=> rec = NoSession
    /\ rec.phase = "None" <=> rec = NoSession
    /\ rec.phase = "Creating" => rec.lifecycle = "active" /\ ~rec.reconciled
    /\ rec.phase = "Active" =>
          /\ rec.open /\ view.gen = rec.gen /\ view.state = rec.lifecycle
          /\ rec.lifecycle \in {"active", "retained", "orphaned"}
    /\ rec.phase = "Closing" => rec.open /\ view.gen = rec.gen /\ view.state = "deleting"
    /\ rec.open => rec.gen \in dirs

\* A creation owns the session record and, from the active record on, the
\* catalog's.
CreateOf(t) ==
    Creating(t) =>
        /\ rec.phase = "Creating" /\ rec.gen = gen[t] /\ gen[t] # 0
        /\ pc[t] = "active" => view.state \in {"none", "deleted"} /\ view.gen < gen[t]
        /\ pc[t] \in {"store", "opening", "activate", "deleting"} =>
              view = ActiveRecord(gen[t]) /\ disk = view
        /\ rec.open <=> pc[t] = "activate"

CreateInv == \A t \in Threads : CreateOf(t)

\* The record says that generation g is being deleted, was, or is history.
Doomed(r, g) == r.gen > g \/ (r.gen = g /\ r.state \in {"deleting", "delete_failed", "deleted"})

\* A deletion that has begun is recorded in memory and on disk, nobody holds the
\* engine of a generation whose removal has begun, and a removal without an
\* error leaves no directory.
DeleteOf(t) ==
    /\ Closing(t) => rec.gen = gen[t] /\ rec.phase = "Closing"
    /\ Closing(t) \/ Removing(t) =>
          gen[t] # 0 /\ Doomed(view, gen[t]) /\ (~latched => Doomed(disk, gen[t]))
    /\ Removing(t) => ~(rec.gen = gen[t] /\ rec.open)
    /\ pc[t] = "finishing" /\ ~failed[t] => gen[t] \notin dirs

DeleteInv == \A t \in Threads : DeleteOf(t)

\* An admitted call pins the session record, and a retention that holds
\* catalog_mutex keeps it active; what it vouches for is stored, then synchronized.
AdmissionOf(t) ==
    /\ Admitted(t) => rec.gen = gen[t] /\ rec.phase \in {"Active", "Closing"}
    /\ pc[t] \in {"gate", "syncing", "commit"} =>
          rec.phase = "Active" /\ rec.lifecycle = "active" /\ ~rec.reconciled
    /\ pc[t] \in {"retain", "gate", "syncing"} => item[t] \subseteq store[gen[t]]
    /\ pc[t] = "commit" => item[t] \subseteq synced[gen[t]]

AdmissionInv == \A t \in Threads : AdmissionOf(t)

\* What a retention vouched for is synchronized until the generation is doomed.
PromiseInv ==
    \A g \in Generation :
        /\ synced[g] \subseteq store[g]
        /\ ~Doomed(disk, g) => promised[g] \subseteq synced[g]

\* A declaration in progress is of the live active session, or a close or a
\* retention waits for it.
AnnounceOf(t) ==
    pc[t] = "announcing" =>
        \/ rec.gen = gen[t] /\ rec.phase = "Active" /\ rec.lifecycle = "active"
        \/ \E u \in Threads : pc[u] \in {"token", "withdraw"} /\ gen[u] = gen[t]

TokenInv == TokenNamesActiveSession /\ \A t \in Threads : AnnounceOf(t)

IInv ==
    /\ TypeOK
    /\ CatalogMatchesDisk
    /\ ControlInv
    /\ LockInv
    /\ SyncInv
    /\ RecordInv
    /\ CreateInv
    /\ DeleteInv
    /\ AdmissionInv
    /\ PromiseInv
    /\ TokenInv

-----------------------------------------------------------------------------
(* Control of one thread, and what every other thread keeps.                *)

CallType ==
    /\ node \in {"down", "starting", "up", "stopping"}
    /\ kind \in [Threads -> Kind] /\ pc \in [Threads -> PC]
    /\ gen \in [Threads -> 0 .. MaxGeneration] /\ item \in [Threads -> SUBSET Items]
    /\ failed \in [Threads -> BOOLEAN]

OthersKeep(t) ==
    \A u \in Threads \ {t} :
        /\ kind'[u] = kind[u] /\ pc'[u] = pc[u] /\ gen'[u] = gen[u]
        /\ item'[u] = item[u] /\ failed'[u] = failed[u]

\* The thread goes on inside its operation.
Keeps(t) ==
    /\ kind'[t] = kind[t] /\ node' = node
    /\ gen'[t] = gen[t] /\ item'[t] = item[t] /\ failed'[t] = failed[t]
    /\ OthersKeep(t)
    /\ CallType'

Advances(t, next) == pc'[t] = next /\ Keeps(t)

\* The operation is over.
Returns(t) ==
    /\ pc'[t] = "idle" /\ kind'[t] = "none"
    /\ node' = IF kind[t] = "start" THEN "up" ELSE node
    /\ OthersKeep(t)
    /\ CallType'

LEMMA GenerationOf ==
    ASSUME TypeOK, NEW u \in Threads, gen[u] # 0
    PROVE  gen[u] \in Generation
BY DEF TypeOK, Generation

LEMMA GotoAdvances ==
    ASSUME TypeOK, NEW t \in Threads, NEW next \in PC, Goto(t, next), Locals(t), kind[t] # "none"
    PROVE  Advances(t, next)
<1>1. next # "done"
  BY Zenon DEF PC, InGate
<1>2. pc' = [pc EXCEPT ![t] = next] /\ UNCHANGED <<kind, node>>
  BY Zenon, <1>1 DEF Goto
<1>3. UNCHANGED <<gen, item, failed>>
  BY Zenon, <1>2 DEF Locals
<1> QED
  BY Zenon, <1>2, <1>3 DEF TypeOK, CallType, Advances, Keeps, OthersKeep

LEMMA ReturnReturns ==
    ASSUME TypeOK, NEW t \in Threads, Return(t), Locals(t)
    PROVE  Returns(t)
<1>1. "idle" \in PC /\ "none" \in Kind
  BY Zenon DEF PC, Kind
<1>2. kind'[t] = "none"
  BY Zenon DEF Return, TypeOK
<1>3. /\ gen' = [gen EXCEPT ![t] = 0] /\ item' = [item EXCEPT ![t] = {}]
      /\ failed' = [failed EXCEPT ![t] = FALSE]
  BY Zenon, <1>2 DEF Locals
<1>4. /\ kind' = [kind EXCEPT ![t] = "none"] /\ pc' = [pc EXCEPT ![t] = "idle"]
      /\ node' = IF kind[t] = "start" THEN "up" ELSE node
  BY Zenon DEF Return
<1> QED
  BY <1>1, <1>3, <1>4, BoundsAssumption DEF TypeOK, CallType, Returns, OthersKeep

\* Goto(t, "done") ends the operation or sends a creation to its rollback.
LEMMA GotoDone ==
    ASSUME TypeOK, NEW t \in Threads, Goto(t, "done"), Locals(t), kind[t] # "none"
    PROVE  IF kind[t] = "create" THEN Advances(t, "rollback") ELSE Returns(t)
<1>1. CASE kind[t] = "create"
  <2>1. Goto(t, "rollback")
    BY Zenon, <1>1 DEF Goto
  <2> QED
    BY Zenon, <1>1, <2>1, GotoAdvances DEF PC
<1>2. CASE kind[t] # "create"
  BY Zenon, <1>2, ReturnReturns DEF Goto
<1> QED
  BY Zenon, <1>1, <1>2

-----------------------------------------------------------------------------
(* A step of one thread keeps what the invariant says of the others as long  *)
(* as it leaves what their conjuncts read alone.                             *)

LEMMA ControlFrame ==
    ASSUME ControlInv, NEW t \in Threads, OthersKeep(t), ControlOf(t)'
    PROVE  ControlInv'
<1>1. ASSUME NEW u \in Threads \ {t} PROVE ControlOf(u)'
  <2>1. ControlOf(u) /\ kind'[u] = kind[u] /\ pc'[u] = pc[u]
    BY Zenon DEF ControlInv, OthersKeep
  <2> QED
    BY Zenon, <2>1 DEF ControlOf
<1> QED
  BY Zenon, <1>1 DEF ControlInv

LEMMA LockFrame ==
    ASSUME LockInv, NEW t \in Threads, OthersKeep(t), node' = node, latched' = latched,
           \A u \in Threads : kind[u] # "start",
           \A u \in Threads \ {t} : holder' = u <=> holder = u,
           Creating(t)' => \A u \in Threads \ {t} : ~Creating(u),
           Closing(t)' => \A u \in Threads \ {t} : ~Closing(u),
           LockOf(t)'
    PROVE  LockInv'
<1>1. ASSUME NEW u \in Threads \ {t} PROVE LockOf(u)'
  <2>1. LockOf(u) /\ kind'[u] = kind[u] /\ pc'[u] = pc[u] /\ kind[u] # "start"
    BY Zenon DEF LockInv, OthersKeep
  <2> QED
    BY Zenon, <2>1 DEF LockOf
<1>2. \A u \in Threads \ {t} : (Creating(u)' <=> Creating(u)) /\ (Closing(u)' <=> Closing(u))
  BY Zenon DEF Creating, Closing, OthersKeep
<1>3. \A u, v \in Threads : Creating(u)' /\ Creating(v)' => u = v
  BY Zenon, <1>2 DEF LockInv
<1>4. \A u, v \in Threads : Closing(u)' /\ Closing(v)' => u = v
  BY Zenon, <1>2 DEF LockInv
<1> QED
  BY Zenon, <1>1, <1>3, <1>4 DEF LockInv

LEMMA SyncFrame ==
    ASSUME SyncInv, NEW t \in Threads, OthersKeep(t),
           node' = node, catalog' = catalog, disk' = disk, view' = view, latched' = latched,
           node # "down", \A u \in Threads : kind[u] # "start", kind'[t] # "start",
           pc[t] \notin {"open", "latching"}
    PROVE  SyncInv'
<1>1. \A u \in Threads : kind'[u] # "start"
  BY Zenon DEF OthersKeep
<1>2. (\E u \in Threads : pc[u] \in {"open", "latching"}) => \E u \in Threads : pc'[u] \in {"open", "latching"}
  BY Zenon DEF OthersKeep
<1> QED
  BY Zenon, <1>1, <1>2 DEF SyncInv

LEMMA CreateFrame ==
    ASSUME CreateInv, NEW t \in Threads, OthersKeep(t), rec' = rec, view' = view, disk' = disk,
           CreateOf(t)'
    PROVE  CreateInv'
<1>1. ASSUME NEW u \in Threads \ {t} PROVE CreateOf(u)'
  <2>1. CreateOf(u) /\ kind'[u] = kind[u] /\ pc'[u] = pc[u] /\ gen'[u] = gen[u]
    BY Zenon DEF CreateInv, OthersKeep
  <2> QED
    BY Zenon, <2>1 DEF CreateOf, Creating
<1> QED
  BY Zenon, <1>1 DEF CreateInv

LEMMA DeleteFrame ==
    ASSUME DeleteInv, NEW t \in Threads, OthersKeep(t), rec' = rec, view' = view, disk' = disk,
           dirs' = dirs, latched => latched', DeleteOf(t)'
    PROVE  DeleteInv'
<1>1. ASSUME NEW u \in Threads \ {t} PROVE DeleteOf(u)'
  <2>1. DeleteOf(u) /\ pc'[u] = pc[u] /\ gen'[u] = gen[u] /\ failed'[u] = failed[u]
    BY Zenon DEF DeleteInv, OthersKeep
  <2> QED
    BY Zenon, <2>1 DEF DeleteOf, Closing, Removing
<1> QED
  BY Zenon, <1>1 DEF DeleteInv

\* A write of the catalog dooms more generations, never fewer.
LEMMA DeleteGrows ==
    ASSUME TypeOK, DeleteInv, NEW t \in Threads, OthersKeep(t), dirs' = dirs, latched => latched',
           rec'.gen = rec.gen, rec'.open = rec.open,
           \A u \in Threads \ {t} : Closing(u) => rec'.phase = rec.phase,
           \A g \in Generation : Doomed(view, g) => Doomed(view', g),
           \A g \in Generation : Doomed(disk, g) => Doomed(disk', g),
           DeleteOf(t)'
    PROVE  DeleteInv'
<1>1. ASSUME NEW u \in Threads \ {t} PROVE DeleteOf(u)'
  <2>1. DeleteOf(u) /\ pc'[u] = pc[u] /\ gen'[u] = gen[u] /\ failed'[u] = failed[u]
    BY Zenon DEF DeleteInv, OthersKeep
  <2>2. Closing(u) \/ Removing(u) => gen[u] \in Generation
    BY Zenon, <2>1, GenerationOf DEF DeleteOf
  <2>3. Closing(u) \/ Removing(u) => Doomed(view', gen[u]) /\ (~latched' => Doomed(disk', gen[u]))
    BY Zenon, <2>1, <2>2 DEF DeleteOf
  <2> QED
    BY Zenon, <2>1, <2>3 DEF DeleteOf, Closing, Removing
<1> QED
  BY Zenon, <1>1 DEF DeleteInv

LEMMA AdmissionFrame ==
    ASSUME AdmissionInv, NEW t \in Threads, OthersKeep(t), rec' = rec,
           \A u \in Threads \ {t} : pc[u] \in {"retain", "gate", "syncing"} =>
               store[gen[u]] \subseteq store'[gen[u]],
           \A u \in Threads \ {t} : pc[u] = "commit" => synced[gen[u]] \subseteq synced'[gen[u]],
           AdmissionOf(t)'
    PROVE  AdmissionInv'
<1>1. ASSUME NEW u \in Threads \ {t} PROVE AdmissionOf(u)'
  <2>1. /\ AdmissionOf(u) /\ kind'[u] = kind[u] /\ pc'[u] = pc[u] /\ gen'[u] = gen[u]
        /\ item'[u] = item[u]
    BY Zenon DEF AdmissionInv, OthersKeep
  <2> QED
    BY Zenon, <2>1 DEF AdmissionOf, Admitted
<1> QED
  BY Zenon, <1>1 DEF AdmissionInv

LEMMA TokenFrame ==
    ASSUME TokenInv, NEW t \in Threads, OthersKeep(t),
           rec.phase = "Active" =>
               \/ rec'.gen = rec.gen /\ rec'.phase = rec.phase /\ rec'.lifecycle = rec.lifecycle
               \/ pc'[t] \in {"token", "withdraw"} /\ gen'[t] = rec.gen,
           token' \in {0, token} \/ (token' = gen[t] /\ pc[t] = "announcing"),
           pc'[t] # "announcing",
           pc[t] \in {"token", "withdraw"} =>
               /\ token' # 0 => token' # gen[t]
               /\ \A u \in Threads : pc[u] = "announcing" => gen[u] # gen[t]
    PROVE  TokenInv'
<1>1. ASSUME NEW u \in Threads \ {t}, pc[u] \in {"token", "withdraw"}
      PROVE  pc'[u] \in {"token", "withdraw"} /\ gen'[u] = gen[u]
  BY Zenon, <1>1 DEF OthersKeep
<1> DEFINE Named(g) == rec.gen = g /\ rec.phase = "Active" /\ rec.lifecycle = "active"
           Withdrawn(g) == \E v \in Threads : pc[v] \in {"token", "withdraw"} /\ gen[v] = g
<1>2. ASSUME NEW g, Named(g) \/ Withdrawn(g), pc[t] \in {"token", "withdraw"} => g # gen[t]
      PROVE  \/ rec'.gen = g /\ rec'.phase = "Active" /\ rec'.lifecycle = "active"
             \/ \E v \in Threads : pc'[v] \in {"token", "withdraw"} /\ gen'[v] = g
  <2>1. CASE Named(g)
    BY Zenon, <2>1
  <2>2. CASE Withdrawn(g)
    <3>1. PICK v \in Threads : pc[v] \in {"token", "withdraw"} /\ gen[v] = g
      BY Zenon, <2>2
    <3>2. v # t
      BY Zenon, <1>2, <3>1
    <3> QED
      BY Zenon, <1>1, <3>1, <3>2
  <2> QED
    BY Zenon, <1>2, <2>1, <2>2
<1>3. ASSUME NEW u \in Threads \ {t} PROVE AnnounceOf(u)'
  <2>1. AnnounceOf(u) /\ pc'[u] = pc[u] /\ gen'[u] = gen[u]
    BY Zenon DEF TokenInv, OthersKeep
  <2>2. SUFFICES ASSUME pc[u] = "announcing"
                 PROVE  \/ rec'.gen = gen[u] /\ rec'.phase = "Active" /\ rec'.lifecycle = "active"
                        \/ \E v \in Threads : pc'[v] \in {"token", "withdraw"} /\ gen'[v] = gen[u]
    BY Zenon, <2>1 DEF AnnounceOf
  <2>3. Named(gen[u]) \/ Withdrawn(gen[u])
    BY Zenon, <2>1, <2>2 DEF AnnounceOf
  <2>4. pc[t] \in {"token", "withdraw"} => gen[u] # gen[t]
    BY Zenon, <2>2
  <2> HIDE DEF Named, Withdrawn
  <2> QED
    BY Zenon, <1>2, <2>3, <2>4
<1>3b. TokenNamesActiveSession'
  <2>1. ASSUME token' # 0 PROVE Named(token') \/ Withdrawn(token')
    <3>1. CASE token' = token
      BY Zenon, <2>1, <3>1 DEF TokenInv, TokenNamesActiveSession
    <3>2. CASE token' = gen[t] /\ pc[t] = "announcing"
      <4>1. AnnounceOf(t)
        BY Zenon DEF TokenInv
      <4> QED
        BY Zenon, <3>2, <4>1 DEF AnnounceOf
    <3> QED
      BY Zenon, <2>1, <3>1, <3>2
  <2> HIDE DEF Named, Withdrawn
  <2> QED
    BY Zenon, <1>2, <2>1 DEF TokenNamesActiveSession
<1>4. AnnounceOf(t)'
  BY Zenon DEF AnnounceOf
<1> QED
  BY Zenon, <1>3, <1>3b, <1>4 DEF TokenInv

-----------------------------------------------------------------------------
(* Steps that only move a thread.                                           *)

Shared == <<catalog, disk, dirs, store, synced, view, latched, rec, token, born, promised>>

\* The thread enters the gate, or goes on to a step that owns nothing new.
Enters(t) ==
    /\ UNCHANGED holder /\ Keeps(t)
    /\ \/ /\ ~latched
          /\ <<pc[t], pc'[t]>> \in {<<"store", "opening">>, <<"finish", "removing">>,
                                   <<"gate", "syncing">>, <<"admitted", "writing">>}
       \/ /\ pc[t] = "announce" /\ pc'[t] = "announcing"
          /\ rec.gen = gen[t] /\ rec.phase = "Active" /\ rec.lifecycle = "active"
       \/ /\ pc[t] \in {"store", "finish", "finishing"} /\ kind[t] = "create"
          /\ pc'[t] = "rollback"
       \/ pc[t] = "reconcile" /\ pc'[t] = "finish" /\ view.state = "deleting"

\* The thread takes catalog_mutex to retain the session.
Holds(t) ==
    /\ pc[t] = "retain" /\ Advances(t, "gate")
    /\ holder = NoThread /\ holder' = t
    /\ rec.phase = "Active" /\ rec.lifecycle = "active" /\ ~rec.reconciled

\* The operation ends, with catalog_mutex if the thread has it.
Ends(t) ==
    /\ Returns(t)
    /\ holder' = IF holder = t THEN NoThread ELSE holder
    /\ \/ pc[t] \in {"announce", "retain", "gate", "admitted", "reading", "begin", "reconcile"}
       \/ pc[t] \in {"finish", "finishing"} /\ kind[t] # "create"

\* An operation begins on the session record as it stands.
Begins(t) ==
    /\ kind[t] = "none" /\ node = "up" /\ node' = node /\ UNCHANGED holder
    /\ gen'[t] = rec.gen
    /\ OthersKeep(t) /\ CallType'
    /\ \/ kind'[t] = "close" /\ pc'[t] = "begin"
       \/ /\ rec.phase = "Active"
          /\ \/ kind'[t] = "retain" /\ pc'[t] = "retain" /\ item'[t] = store[rec.gen]
             \/ kind'[t] = "write" /\ pc'[t] = "admitted"
             \/ kind'[t] = "read" /\ pc'[t] = "reading" /\ ~latched

\* A closer takes over a deletion that is already recorded.
Continues(t) ==
    /\ pc[t] = "begin" /\ pc'[t] = "finish" /\ kind'[t] = kind[t] /\ node' = node
    /\ gen'[t] = view.gen /\ view.state = "deleting" /\ rec = NoSession
    /\ holder = NoThread /\ UNCHANGED holder
    /\ OthersKeep(t) /\ CallType'

Moves(t) ==
    /\ UNCHANGED Shared
    /\ TypeOK'
    /\ Enters(t) \/ Holds(t) \/ Ends(t) \/ Begins(t) \/ Continues(t)

\* The step a thread is at tells its operation.
LEMMA KindOfStep ==
    ASSUME TypeOK, ControlInv, NEW t \in Threads
    PROVE  /\ kind[t] = "none" <=> pc[t] = "idle"
           /\ pc[t] \in {"active", "store", "opening", "deleting", "activate", "announce",
                         "announcing", "rollback"} => kind[t] = "create"
           /\ pc[t] \in {"begin", "token", "drain"} => kind[t] = "close"
           /\ pc[t] \in {"retain", "gate", "syncing", "commit", "withdraw"} => kind[t] = "retain"
           /\ pc[t] \in {"admitted", "writing"} => kind[t] = "write"
           /\ pc[t] = "reading" => kind[t] = "read"
           /\ pc[t] \in {"open", "initialize", "reconcile", "orphan"} => kind[t] = "start"
           /\ pc[t] \in {"finish", "removing", "finishing"} => kind[t] \in {"create", "close", "start"}
           /\ pc[t] = "latching" => kind[t] \in {"create", "close", "retain", "start"}
BY Zenon DEF TypeOK, ControlInv, ControlOf, Kind

\* Start holds no lock until a write of its own fails.
LEMMA StartHoldsNothing ==
    ASSUME IInv, NEW t \in Threads, kind[t] = "start", pc[t] # "latching"
    PROVE  holder = NoThread
<1>1. holder \in Threads => holder = t
  BY Zenon DEF IInv, LockInv, LockOf, ControlInv, ControlOf
<1>2. holder # t
  BY Zenon DEF IInv, LockInv, LockOf, ControlInv, ControlOf
<1> QED
  BY Zenon, <1>1, <1>2 DEF IInv, TypeOK

\* A thread that may write the catalog finds it loaded and in step with the disk.
LEMMA InStep ==
    ASSUME IInv, NEW t \in Threads, ~latched, holder \in {NoThread, t},
           pc[t] \notin {"idle", "open", "initialize", "latching"}
    PROVE  disk = view /\ catalog = "ready"
<1>1. kind[t] # "none" /\ node # "down"
  BY Zenon DEF ControlInv, ControlOf, SyncInv, IInv
<1>2. ASSUME NEW u \in Threads, pc[u] \in {"open", "latching"} PROVE FALSE
  <2>1. kind[u] = "start" \/ holder = u
    BY Zenon, <1>2 DEF ControlInv, ControlOf, LockInv, LockOf, TypeOK, Kind, IInv
  <2>2. u # t /\ holder # u
    BY Zenon, <1>2, NoThreadAssumption
  <2> QED
    BY Zenon, <1>1, <2>1, <2>2 DEF LockInv, LockOf, IInv
<1>3. kind[t] = "start" \/ node \in {"up", "stopping"}
  BY Zenon, <1>1 DEF LockInv, LockOf, IInv
<1> QED
  BY Zenon, <1>2, <1>3 DEF SyncInv, IInv

LEMMA MovesStep ==
    ASSUME IInv, NEW t \in Threads, Moves(t)
    PROVE  IInv'
<1>a. UNCHANGED <<catalog, disk, dirs, store, synced, view, latched, rec, token, born, promised>>
  BY Zenon DEF Moves, Shared
<1>b. TypeOK' /\ (Enters(t) \/ Holds(t) \/ Ends(t) \/ Begins(t) \/ Continues(t))
  BY Zenon DEF Moves
<1>c. OthersKeep(t)
  BY Zenon, <1>b DEF Enters, Holds, Ends, Begins, Continues, Advances, Keeps, Returns
<1>1. CatalogMatchesDisk'
  BY Zenon, <1>a, <1>b DEF CatalogMatchesDisk, IInv
<1>1b. RecordInv'
  BY Zenon, <1>a DEF RecordInv, IInv
<1>1c. PromiseInv'
  BY Zenon, <1>a DEF PromiseInv, IInv
<1>2. ASSUME Enters(t)
      PROVE  ControlInv' /\ LockInv' /\ SyncInv' /\ CreateInv' /\ DeleteInv' /\ AdmissionInv' /\ TokenInv'
  <2>1. ControlInv'
    BY <1>2 DEF ControlInv, ControlOf, IInv, Enters, Keeps, OthersKeep
  <2>1b. LockInv'
    BY <1>a, <1>2 DEF LockInv, LockOf, Creating, Closing, InGate, IInv, Enters, Keeps, OthersKeep
  <2>2. SyncInv'
    BY <1>a, <1>2 DEF SyncInv, IInv, Enters, Keeps, OthersKeep
  <2>3. CreateInv'
    BY <1>a, <1>2 DEF CreateInv, CreateOf, Creating, IInv, Enters, Keeps, OthersKeep
  <2>4. DeleteInv'
    <3>1. view.state = "deleting" => view.gen # 0 /\ Doomed(view, view.gen)
      BY DEF TypeOK, CatalogRecord, NoRecord, Generation, Doomed, IInv
    <3>2. pc[t] = "reconcile" => /\ gen[t] = view.gen /\ rec = NoSession /\ ~latched /\ disk = view
      BY Zenon, KindOfStep DEF SyncInv, LockInv, LockOf, IInv
    <3>3. ~NoSession.open
      BY Zenon DEF NoSession
    <3> QED
      BY <3>1, <3>2, <3>3, <1>a, <1>2
         DEF DeleteInv, DeleteOf, Closing, Removing, IInv, Enters, Keeps, OthersKeep
  <2>5. AdmissionInv'
    BY <1>a, <1>2 DEF AdmissionInv, AdmissionOf, Admitted, IInv, Enters, Keeps, OthersKeep
  <2>6. TokenInv'
    BY <1>a, <1>2 DEF TokenInv, AnnounceOf, TokenNamesActiveSession, IInv, Enters, Keeps, OthersKeep
  <2> QED
    BY Zenon, <2>1, <2>1b, <2>2, <2>3, <2>4, <2>5, <2>6
<1>3. ASSUME Holds(t)
      PROVE  ControlInv' /\ LockInv' /\ SyncInv' /\ CreateInv' /\ DeleteInv' /\ AdmissionInv' /\ TokenInv'
  <2>1. ControlInv'
    BY <1>3 DEF ControlInv, ControlOf, IInv, Holds, Advances, Keeps, OthersKeep
  <2>1b. LockInv'
    BY NoThreadAssumption, <1>a, <1>3
       DEF LockInv, LockOf, Creating, Closing, InGate, IInv, Holds, Advances, Keeps, OthersKeep
  <2>2. SyncInv'
    BY <1>a, <1>3 DEF SyncInv, IInv, Holds, Advances, Keeps, OthersKeep
  <2>2b. CreateInv'
    BY Zenon, <1>3 DEF CreateInv, CreateOf, Creating, IInv, Holds, Advances, Keeps, OthersKeep
  <2>2c. DeleteInv'
    BY Zenon, <1>a, <1>c, <1>3 DEF DeleteInv, DeleteOf, Closing, Removing, IInv, Holds, Advances, OthersKeep
  <2>3. AdmissionInv'
    BY <1>a, <1>3 DEF AdmissionInv, AdmissionOf, Admitted, IInv, Holds, Advances, Keeps, OthersKeep
  <2>4. TokenInv'
    BY <1>a, <1>c, <1>3 DEF TokenInv, AnnounceOf, TokenNamesActiveSession, IInv, Holds, Advances, OthersKeep
  <2> QED
    BY Zenon, <2>1, <2>1b, <2>2, <2>2b, <2>2c, <2>3, <2>4
<1>4. ASSUME Ends(t)
      PROVE  ControlInv' /\ LockInv' /\ SyncInv' /\ CreateInv' /\ DeleteInv' /\ AdmissionInv' /\ TokenInv'
  <2>1. ControlInv'
    BY <1>4 DEF ControlInv, ControlOf, IInv, Ends, Returns, OthersKeep
  <2>1b. LockInv'
    BY NoThreadAssumption, <1>a, <1>4
       DEF LockInv, LockOf, Creating, Closing, InGate, IInv, Ends, Returns, OthersKeep
  <2>2. SyncInv'
    BY <1>a, <1>4 DEF SyncInv, IInv, Ends, Returns, OthersKeep
  <2>3. CreateInv'
    BY <1>a, <1>4 DEF CreateInv, CreateOf, Creating, IInv, Ends, Returns, OthersKeep
  <2>3b. DeleteInv'
    <3>1. DeleteOf(t)'
      BY Zenon, <1>4 DEF DeleteOf, Closing, Removing, Ends, Returns
    <3> QED
      BY Zenon, <1>a, <1>c, <3>1, DeleteFrame DEF IInv
  <2>4. AdmissionInv'
    <3>1. AdmissionOf(t)'
      BY Zenon, <1>4 DEF AdmissionOf, Admitted, Ends, Returns
    <3> QED
      BY Zenon, <1>a, <1>c, <3>1, AdmissionFrame DEF IInv
  <2>4b. TokenInv'
    BY <1>a, <1>4 DEF TokenInv, AnnounceOf, TokenNamesActiveSession, IInv, Ends, Returns, OthersKeep
  <2> QED
    BY Zenon, <2>1, <2>1b, <2>2, <2>3, <2>3b, <2>4, <2>4b
<1>5. ASSUME Begins(t)
      PROVE  ControlInv' /\ LockInv' /\ SyncInv' /\ CreateInv' /\ DeleteInv' /\ AdmissionInv' /\ TokenInv'
  <2>1. ControlInv'
    BY <1>5 DEF ControlInv, ControlOf, IInv, Begins, OthersKeep
  <2>1b. LockInv'
    BY <1>a, <1>5, KindOfStep DEF LockInv, LockOf, Creating, Closing, InGate, IInv, Begins, OthersKeep
  <2>2. SyncInv'
    BY <1>a, <1>5, KindOfStep DEF SyncInv, IInv, Begins, OthersKeep
  <2>3. CreateInv'
    BY <1>a, <1>5 DEF CreateInv, CreateOf, Creating, IInv, Begins, OthersKeep
  <2>3b. DeleteInv'
    BY <1>a, <1>5 DEF DeleteInv, DeleteOf, Closing, Removing, IInv, Begins, OthersKeep
  <2>4. AdmissionInv'
    BY <1>a, <1>5 DEF AdmissionInv, AdmissionOf, Admitted, IInv, Begins, OthersKeep
  <2>4b. TokenInv'
    BY <1>a, <1>5, KindOfStep DEF TokenInv, AnnounceOf, TokenNamesActiveSession, IInv, Begins, OthersKeep
  <2> QED
    BY Zenon, <2>1, <2>1b, <2>2, <2>3, <2>3b, <2>4, <2>4b
<1>6. ASSUME Continues(t)
      PROVE  ControlInv' /\ LockInv' /\ SyncInv' /\ CreateInv' /\ DeleteInv' /\ AdmissionInv' /\ TokenInv'
  <2>1. ControlInv'
    BY <1>6 DEF ControlInv, ControlOf, IInv, Continues, OthersKeep
  <2>1b. LockInv'
    BY <1>a, <1>6 DEF LockInv, LockOf, Creating, Closing, InGate, IInv, Continues, OthersKeep
  <2>2. SyncInv'
    BY <1>a, <1>6 DEF SyncInv, IInv, Continues, OthersKeep
  <2>2b. CreateInv'
    BY <1>a, <1>6, KindOfStep DEF CreateInv, CreateOf, Creating, IInv, Continues, OthersKeep
  <2>3. DeleteInv'
    <3>1. view.gen # 0 /\ Doomed(view, view.gen)
      BY <1>6 DEF TypeOK, CatalogRecord, NoRecord, Generation, Doomed, IInv, Continues
    <3>2. ~latched => disk = view
      BY Zenon, InStep, <1>6 DEF Continues
    <3>3. ~NoSession.open
      BY Zenon DEF NoSession
    <3> QED
      BY <3>1, <3>2, <3>3, <1>a, <1>6
         DEF DeleteInv, DeleteOf, Closing, Removing, IInv, Continues, OthersKeep
  <2>4. AdmissionInv'
    BY <1>a, <1>6, KindOfStep DEF AdmissionInv, AdmissionOf, Admitted, IInv, Continues, OthersKeep
  <2>4b. TokenInv'
    BY <1>a, <1>6 DEF TokenInv, AnnounceOf, TokenNamesActiveSession, IInv, Continues, OthersKeep
  <2> QED
    BY Zenon, <2>1, <2>1b, <2>2, <2>2b, <2>3, <2>4, <2>4b
<1> QED
  BY Zenon, <1>b, <1>1, <1>1b, <1>1c, <1>2, <1>3, <1>4, <1>5, <1>6 DEF IInv

\* The types that a step of one thread's control can disturb.
LEMMA MovesType ==
    ASSUME TypeOK, CallType', UNCHANGED <<Shared, crashes, failures>>,
           holder' \in Threads \union {NoThread}, accesses' \in 0 .. MaxAccesses
    PROVE  TypeOK'
BY Zenon DEF TypeOK, CallType, Shared

LEMMA CallMoves ==
    ASSUME IInv, NEW t \in Threads,
           CloseSession(t) \/ RetainSession(t) \/ WriteSample(t) \/ QueryBuffer(t)
    PROVE  Moves(t)
<1>a. /\ UNCHANGED <<Shared, holder, failed, crashes, failures>>
      /\ accesses' = accesses \/ (accesses < MaxAccesses /\ accesses' = accesses + 1)
  <2>1. CASE CloseSession(t) \/ RetainSession(t)
    BY Zenon, <2>1 DEF CloseSession, RetainSession, Shared, durable, history, counters
  <2>2. CASE WriteSample(t) \/ QueryBuffer(t)
    BY Zenon, <2>2 DEF WriteSample, QueryBuffer, Shared, durable, history
  <2> QED
    BY Zenon, <2>1, <2>2
<1>b. /\ kind[t] = "none" /\ node = "up" /\ UNCHANGED node
      /\ gen' = [gen EXCEPT ![t] = rec.gen] /\ rec.gen \in 0 .. MaxGeneration
  BY Zenon DEF CloseSession, RetainSession, WriteSample, QueryBuffer, TypeOK, SessionRecord, IInv, Call
<1>c. \/ /\ kind' = [kind EXCEPT ![t] = "close"] /\ pc' = [pc EXCEPT ![t] = "begin"]
         /\ UNCHANGED item
      \/ /\ kind' = [kind EXCEPT ![t] = "retain"] /\ pc' = [pc EXCEPT ![t] = "retain"]
         /\ rec.phase = "Active" /\ item' = [item EXCEPT ![t] = store[rec.gen]]
      \/ /\ kind' = [kind EXCEPT ![t] = "write"] /\ pc' = [pc EXCEPT ![t] = "admitted"]
         /\ rec.phase = "Active" /\ \E i \in Items : item' = [item EXCEPT ![t] = {i}]
      \/ /\ kind' = [kind EXCEPT ![t] = "read"] /\ pc' = [pc EXCEPT ![t] = "reading"]
         /\ rec.phase = "Active" /\ ~latched /\ UNCHANGED item
  BY Zenon DEF CloseSession, RetainSession, WriteSample, QueryBuffer, Call
<1>d. rec.phase = "Active" => store[rec.gen] \subseteq Items
  BY Zenon DEF TypeOK, RecordInv, IInv
<1>e. CallType'
  BY <1>a, <1>b, <1>c, <1>d DEF TypeOK, CallType, Kind, PC, InGate, IInv
<1>f. TypeOK'
  BY <1>a, <1>e, MovesType, BoundsAssumption DEF TypeOK, IInv
<1>g. Begins(t)
  BY Zenon, <1>a, <1>b, <1>c, <1>e DEF Begins, OthersKeep, TypeOK, IInv
<1> QED
  BY Zenon, <1>a, <1>f, <1>g DEF Moves

LEMMA StepMoves ==
    ASSUME IInv, NEW t \in Threads,
           \/ EnterCreateGate(t) \/ AnnounceSession(t) \/ EnterRemoveGate(t) \/ CheckRetainable(t)
           \/ EnterRetainGate(t) \/ EnterWriteGate(t) \/ ReplyBufferQuery(t)
    PROVE  Moves(t)
<1>a. /\ UNCHANGED <<Shared, counters>> /\ Locals(t)
  BY Zenon DEF EnterCreateGate, AnnounceSession, EnterRemoveGate, CheckRetainable, EnterRetainGate,
         EnterWriteGate, ReplyBufferQuery, Shared, durable, history
<1>b. /\ kind[t] # "none"
      /\ pc[t] \in {"store", "announce", "finish", "retain", "gate", "admitted", "reading"}
  BY Zenon, KindOfStep
     DEF EnterCreateGate, AnnounceSession, EnterRemoveGate, CheckRetainable, EnterRetainGate,
         EnterWriteGate, ReplyBufferQuery, IInv
<1>c. {"opening", "announcing", "removing", "gate", "syncing", "writing"} \subseteq PC
  BY Zenon DEF PC, InGate
<1>d. Enters(t) \/ Holds(t) \/ Ends(t)
  <2>0. pc[t] # "gate" => holder # t
    BY Zenon, <1>b DEF LockInv, LockOf, IInv
  <2>1. CASE EnterCreateGate(t)
    BY Zenon, <1>c, <2>1, KindOfStep, GotoAdvances, GotoDone DEF Advances, EnterCreateGate, Enters, IInv
  <2>2. CASE AnnounceSession(t)
    BY Zenon, <1>b, <1>c, <2>0, <2>2, GotoAdvances, ReturnReturns
       DEF Advances, AnnounceSession, Enters, Ends, IInv
  <2>3. CASE EnterRemoveGate(t)
    BY Zenon, <1>b, <1>c, <2>0, <2>3, GotoAdvances, GotoDone
       DEF Advances, EnterRemoveGate, Enters, Ends, IInv
  <2>4. CASE CheckRetainable(t)
    BY Zenon, <1>b, <1>c, <2>4, GotoAdvances, ReturnReturns DEF CheckRetainable, Holds, Ends, IInv
  <2>5. CASE EnterRetainGate(t)
    BY Zenon, <1>b, <1>c, <2>5, GotoAdvances, ReturnReturns
       DEF Advances, EnterRetainGate, Enters, Ends, LockInv, LockOf, IInv
  <2>6. CASE EnterWriteGate(t)
    BY Zenon, <1>b, <1>c, <2>0, <2>6, GotoAdvances, ReturnReturns
       DEF Advances, EnterWriteGate, Enters, Ends, IInv
  <2>7. CASE ReplyBufferQuery(t)
    BY Zenon, <2>0, <2>7, ReturnReturns DEF ReplyBufferQuery, Ends, IInv
  <2> QED
    BY Zenon, <2>1, <2>2, <2>3, <2>4, <2>5, <2>6, <2>7
<1>e. CallType' /\ holder' \in Threads \union {NoThread}
  BY Zenon, <1>d DEF Enters, Holds, Ends, Advances, Keeps, Returns, TypeOK, IInv
<1>f. TypeOK'
  BY Zenon, <1>a, <1>e, MovesType DEF TypeOK, counters, IInv
<1> QED
  BY Zenon, <1>a, <1>d, <1>f DEF Moves

-----------------------------------------------------------------------------
(* Catalog writes.                                                          *)

Writers == {"active", "deleting", "begin", "finishing", "commit", "orphan"}

\* One step of a record along the lifecycle, or to a new generation.
Follows(a, b) ==
    \/ b = a
    \/ b.gen = a.gen /\ <<a.state, b.state>> \in LifecycleStep
    \/ b.gen > a.gen /\ b.state = "active" /\ a.state \in {"none", "deleted"}

\* A record that may replace the one on disk.
Fits(r) ==
    /\ r \in CatalogRecord /\ r # NoRecord /\ r.gen <= born
    /\ Follows(disk, r)
    /\ \A g \in dirs : r.gen = g /\ r.state # "deleted"
    /\ r.state \in {"retained", "orphaned"} => r.gen \in dirs
    /\ Readable(r)

\* What is doomed stays so.
LEMMA DoomedStays ==
    ASSUME NEW a \in CatalogRecord, NEW b \in CatalogRecord, Follows(a, b), NEW g \in Generation,
           Doomed(a, g)
    PROVE  Doomed(b, g)
<1>1. a.gen \in 0 .. MaxGeneration /\ b.gen \in 0 .. MaxGeneration
  BY BoundsAssumption DEF CatalogRecord, NoRecord, Generation
<1>2. CASE b.gen = a.gen /\ <<a.state, b.state>> \in LifecycleStep
  BY Zenon, <1>2 DEF Doomed, LifecycleStep
<1>3. CASE b.gen > a.gen
  BY <1>1, <1>3 DEF Doomed, Generation
<1> QED
  BY Zenon, <1>2, <1>3 DEF Follows

\* A write that reports an error, whether or not it reached the disk.
PutFails(t, r) ==
    /\ disk' = disk \/ (disk' = r /\ ~latched)
    /\ UNCHANGED <<catalog, dirs, store, synced, view, latched, rec, token, born, promised, node>>
    /\ holder \in {NoThread, t} /\ holder' = t
    /\ pc'[t] = "latching" /\ kind'[t] = kind[t] /\ gen' \in [Threads -> 0 .. MaxGeneration]
    /\ kind[t] # "close" => gen'[t] = gen[t]
    /\ OthersKeep(t)

LEMMA PutFailsStep ==
    ASSUME IInv, TypeOK', NEW t \in Threads, pc[t] \in Writers, NEW r, PutFails(t, r),
           ~latched => Fits(r),
           \A u \in Threads \ {t} :
               Creating(u) => pc[u] \notin {"store", "opening", "activate", "deleting"}
    PROVE  IInv'
<1>a. UNCHANGED <<catalog, dirs, store, synced, view, latched, rec, token, born, promised, node>>
  BY Zenon DEF PutFails
<1>b. /\ pc'[t] = "latching" /\ kind'[t] = kind[t] /\ OthersKeep(t)
      /\ kind[t] # "close" => gen'[t] = gen[t]
      /\ holder \in {NoThread, t} /\ holder' = t
  BY Zenon DEF PutFails
<1>c. disk' = disk \/ (disk' = r /\ ~latched /\ Fits(r) /\ catalog = "ready")
  BY Zenon, InStep DEF PutFails, Writers
<1>d. \A g \in Generation : Doomed(disk, g) => Doomed(disk', g)
  <2>1. disk \in CatalogRecord
    BY Zenon DEF TypeOK, IInv
  <2> QED
    BY Zenon, <1>c, <2>1, DoomedStays DEF Fits
<1>1. CatalogMatchesDisk'
  BY Zenon, <1>a, <1>c DEF CatalogMatchesDisk, Fits, IInv
<1>2. ControlInv'
  BY <1>b DEF ControlInv, ControlOf, Writers, OthersKeep, IInv
<1>2b. LockInv'
  BY <1>a, <1>b, NoThreadAssumption
     DEF LockInv, LockOf, Writers, OthersKeep, Creating, Closing, InGate, IInv
<1>3. SyncInv'
  BY <1>a, <1>b DEF SyncInv, OthersKeep, IInv
<1>4. RecordInv'
  BY Zenon, <1>a, <1>c DEF RecordInv, Fits, IInv
<1>5. CreateInv'
  BY <1>a, <1>b DEF CreateInv, CreateOf, Creating, Writers, OthersKeep, IInv
<1>6. DeleteInv'
  <2>1. DeleteOf(t)'
    BY Zenon, <1>b DEF DeleteOf, Closing, Removing
  <2> QED
    BY Zenon, <1>a, <1>b, <1>d, <2>1, DeleteGrows DEF IInv
<1>7. AdmissionInv'
  <2>1. AdmissionOf(t)'
    <3>1. AdmissionOf(t) /\ kind'[t] = kind[t] /\ (Admitted(t) => gen'[t] = gen[t])
      BY Zenon, <1>b DEF AdmissionInv, Admitted, IInv
    <3> QED
      BY Zenon, <1>a, <1>b, <3>1 DEF AdmissionOf, Admitted
  <2> QED
    BY Zenon, <1>a, <1>b, <2>1, AdmissionFrame DEF IInv
<1>8. PromiseInv'
  BY Zenon, <1>a, <1>d DEF PromiseInv, IInv
<1>9. TokenInv'
  BY Zenon, <1>a, <1>b, TokenFrame DEF Writers, IInv
<1> QED
  BY Zenon, <1>1, <1>2, <1>2b, <1>3, <1>4, <1>5, <1>6, <1>7, <1>8, <1>9 DEF IInv

\* A record that moves along the lifecycle keeps its generation and stays one
\* that DecodeSessionRecord accepts.
LEMMA MovedFacts ==
    ASSUME NEW r \in CatalogRecord, r # NoRecord, NEW s \in LifecycleState, NEW m \in Mark
    PROVE  /\ Moved(r, s, m) \in CatalogRecord
           /\ Moved(r, s, m).gen = r.gen /\ Moved(r, s, m).state = s
           /\ Moved(r, s, m).marks = r.marks \union {m}
           /\ Moved(r, s, m) # NoRecord
<1>1. r \in [gen: Generation, state: LifecycleState, marks: SUBSET Mark]
  BY Zenon DEF CatalogRecord
<1>2. /\ Moved(r, s, m) \in [gen: Generation, state: LifecycleState, marks: SUBSET Mark]
      /\ Moved(r, s, m).gen = r.gen /\ Moved(r, s, m).state = s
      /\ Moved(r, s, m).marks = r.marks \union {m}
  BY Zenon, <1>1 DEF Moved
<1>3. Moved(r, s, m) # NoRecord
  BY <1>2 DEF NoRecord
<1> QED
  BY Zenon, <1>2, <1>3 DEF CatalogRecord

\* HasLifecycleMetadata, mark by mark.
LEMMA Metadata ==
    ASSUME NEW r
    PROVE  HasLifecycleMetadata(r) <=>
             /\ r.state = "active" => \A m \in Mark : m \notin r.marks
             /\ r.state = "retained" => "retained_at" \in r.marks
             /\ r.state = "orphaned" => "orphaned_at" \in r.marks
             /\ r.state \in {"retained", "orphaned"} =>
                   /\ "deleting_at" \notin r.marks /\ "deleted_at" \notin r.marks
                   /\ "failure" \notin r.marks
             /\ r.state \in {"deleting", "delete_failed"} =>
                   "deleting_at" \in r.marks /\ "deleted_at" \notin r.marks
             /\ r.state = "delete_failed" => "failure" \in r.marks
             /\ r.state = "deleted" =>
                   /\ "deleting_at" \in r.marks /\ "deleted_at" \in r.marks
                   /\ "failure" \notin r.marks
BY Zenon DEF HasLifecycleMetadata

LEMMA MovedReadable ==
    ASSUME NEW r \in CatalogRecord, r # NoRecord, Readable(r), NEW n \in CatalogRecord,
           NEW s, NEW m, n.state = s, n.marks = r.marks \union {m},
           \/ /\ r.state = "active"
              /\ <<s, m>> \in {<<"retained", "retained_at">>, <<"orphaned", "orphaned_at">>}
           \/ /\ r.state \in {"active", "retained", "orphaned", "delete_failed"}
              /\ s = "deleting" /\ m = "deleting_at"
           \/ /\ r.state \in {"deleting", "delete_failed"}
              /\ s = "delete_failed" /\ m = "failure"
    PROVE  Readable(n)
<1>1. HasLifecycleMetadata(r)
  BY Zenon DEF Readable
<1>2. "deleting_at" \in Mark /\ "deleted_at" \in Mark /\ "failure" \in Mark
  BY Zenon DEF Mark
<1>3. HasLifecycleMetadata(n)
  BY Zenon, <1>1, <1>2, Metadata
<1> QED
  BY Zenon, <1>3 DEF Readable

LEMMA DeletedReadable ==
    ASSUME NEW r \in CatalogRecord, r # NoRecord, Readable(r), NEW n \in CatalogRecord,
           r.state \in {"deleting", "delete_failed"},
           n.state = "deleted", n.marks = (r.marks \union {"deleted_at"}) \ {"failure"}
    PROVE  Readable(n)
<1>1. HasLifecycleMetadata(r)
  BY Zenon DEF Readable
<1>2. HasLifecycleMetadata(n)
  BY Zenon, <1>1, Metadata
<1> QED
  BY Zenon, <1>2 DEF Readable

\* The first record of a new generation replaces none or a deleted one.
LEMMA ActiveFits ==
    ASSUME IInv, NEW t \in Threads, pc[t] = "active", holder = NoThread, ~latched
    PROVE  Fits(ActiveRecord(gen[t]))
<1> DEFINE r == ActiveRecord(gen[t])
<1>1. disk = view
  BY Zenon, InStep
<1>2. /\ gen[t] \in Generation /\ gen[t] <= born
      /\ view.state \in {"none", "deleted"} /\ view.gen < gen[t]
  BY KindOfStep DEF CreateInv, CreateOf, Creating, RecordInv, TypeOK, Generation, IInv
<1>3. r.gen = gen[t] /\ r.state = "active" /\ r.marks = {}
  BY Zenon DEF ActiveRecord
<1>4. r \in CatalogRecord /\ r # NoRecord
  BY Zenon, <1>2 DEF ActiveRecord, CatalogRecord, LifecycleState, NoRecord
<1>5. dirs = {}
  BY <1>1, <1>2
     DEF CatalogMatchesDisk, TypeOK, CatalogRecord, NoRecord, LifecycleState, Generation, IInv
<1> HIDE DEF r
<1>6. Readable(r)
  BY Zenon, <1>3, Metadata DEF Readable
<1>7. Follows(disk, r)
  BY Zenon, <1>1, <1>2, <1>3 DEF Follows
<1> QED
  BY Zenon, <1>2, <1>3, <1>4, <1>5, <1>6, <1>7 DEF Fits, r

LEMMA MovedView ==
    ASSUME IInv, view # NoRecord, NEW s \in LifecycleState, NEW m \in Mark
    PROVE  Moved(view, s, m).gen = view.gen /\ Moved(view, s, m).state = s
<1>1. view \in CatalogRecord
  BY Zenon DEF TypeOK, IInv
<1> QED
  BY <1>1, MovedFacts

\* Every other write but the last moves the current record along the lifecycle.
LEMMA MovedFits ==
    ASSUME IInv, disk = view, view # NoRecord, NEW s \in LifecycleState, NEW m \in Mark,
           \/ /\ view.state = "active" /\ view.gen \in dirs
              /\ <<s, m>> \in {<<"retained", "retained_at">>, <<"orphaned", "orphaned_at">>}
           \/ /\ view.state \in {"active", "retained", "orphaned", "delete_failed"}
              /\ s = "deleting" /\ m = "deleting_at"
           \/ /\ view.state \in {"deleting", "delete_failed"}
              /\ s = "delete_failed" /\ m = "failure"
    PROVE  Fits(Moved(view, s, m))
<1> DEFINE r == Moved(view, s, m)
<1>1. /\ r \in CatalogRecord /\ r # NoRecord
      /\ r.gen = view.gen /\ r.state = s /\ r.marks = view.marks \union {m}
  BY MovedFacts DEF TypeOK, IInv
<1>2. view.state = "delete_failed" /\ s = "delete_failed" => r = view
  <2>1. view.state = "delete_failed" => "failure" \in view.marks
    BY Zenon, Metadata DEF SyncInv, Readable, IInv
  <2>2. view \in [gen: Generation, state: LifecycleState, marks: SUBSET Mark]
    BY Zenon DEF TypeOK, CatalogRecord, IInv
  <2> QED
    BY Zenon, <2>1, <2>2 DEF Moved
<1> HIDE DEF r
<1>3. Readable(r)
  BY Zenon, <1>1, MovedReadable DEF SyncInv, TypeOK, IInv
<1>4. Follows(disk, r)
  BY Zenon, <1>1, <1>2 DEF Follows, LifecycleStep
<1>5. \A g \in dirs : r.gen = g /\ r.state # "deleted"
  BY Zenon, <1>1 DEF CatalogMatchesDisk, IInv
<1> QED
  BY Zenon, <1>1, <1>3, <1>4, <1>5 DEF Fits, r, RecordInv, IInv

\* The last record is written once the directory is gone.
LEMMA DeletionFits ==
    ASSUME IInv, NEW t \in Threads, pc[t] = "finishing", disk = view, view.gen = gen[t],
           view.state \in {"deleting", "delete_failed"}
    PROVE  Fits(Deletion(failed[t]))
<1>0. view # NoRecord
  <2>1. NoRecord.state = "none"
    BY Zenon DEF NoRecord
  <2> QED
    BY Zenon, <2>1
<1>1. CASE failed[t]
  BY Zenon, <1>0, <1>1, MovedFits DEF Deletion, LifecycleState, Mark
<1>2. CASE ~failed[t]
  <2> DEFINE moved == Moved(view, "deleted", "deleted_at")
             r == [moved EXCEPT !.marks = @ \ {"failure"}]
  <2>1. /\ moved \in [gen: Generation, state: LifecycleState, marks: SUBSET Mark]
        /\ moved.gen = view.gen /\ moved.state = "deleted"
        /\ moved.marks = view.marks \union {"deleted_at"}
    <3>1. "deleted" \in LifecycleState /\ "deleted_at" \in Mark
      BY Zenon DEF LifecycleState, Mark
    <3> QED
      BY <1>0, <3>1, MovedFacts DEF TypeOK, CatalogRecord, IInv
  <2> HIDE DEF moved
  <2>2. /\ r \in [gen: Generation, state: LifecycleState, marks: SUBSET Mark]
        /\ r.gen = view.gen /\ r.state = "deleted"
        /\ r.marks = (view.marks \union {"deleted_at"}) \ {"failure"}
    BY Zenon, <2>1
  <2>3. r = Deletion(failed[t])
    BY Zenon, <1>2 DEF Deletion, moved
  <2> HIDE DEF r
  <2>4. r \in CatalogRecord /\ r # NoRecord
    BY <2>2 DEF CatalogRecord, NoRecord
  <2>5. Readable(r)
    BY Zenon, <1>0, <2>2, <2>4, DeletedReadable DEF SyncInv, TypeOK, IInv
  <2>6. dirs = {}
    BY Zenon, <1>2 DEF CatalogMatchesDisk, DeleteInv, DeleteOf, IInv
  <2>7. Follows(disk, r)
    BY Zenon, <2>2 DEF Follows, LifecycleStep
  <2> QED
    BY Zenon, <2>2, <2>3, <2>4, <2>5, <2>6, <2>7 DEF Fits, RecordInv, IInv
<1> QED
  BY Zenon, <1>1, <1>2

\* What every write that succeeds has in common.
Puts(t, r) ==
    /\ ~latched /\ disk' = r /\ view' = r
    /\ UNCHANGED <<catalog, dirs, store, synced, latched, token, born, holder>>
    /\ holder \in {NoThread, t}
    /\ OthersKeep(t)

LEMMA PutsFacts ==
    ASSUME IInv, TypeOK', NEW t \in Threads, pc[t] \in Writers, NEW r, Fits(r), Puts(t, r)
    PROVE  /\ CatalogMatchesDisk'
           /\ Readable(view')
           /\ r.gen <= born
           /\ \A g \in Generation : Doomed(disk, g) => Doomed(r, g)
           /\ disk = view /\ catalog = "ready"
           /\ promised' = promised => PromiseInv'
<1>1. disk = view /\ catalog = "ready"
  BY Zenon, InStep DEF Puts, Writers
<1>2. \A g \in Generation : Doomed(disk, g) => Doomed(r, g)
  BY Zenon, DoomedStays DEF Fits, TypeOK, IInv
<1>3. CatalogMatchesDisk'
  BY Zenon, <1>1 DEF CatalogMatchesDisk, Fits, Puts
<1>4. promised' = promised => PromiseInv'
  BY Zenon, <1>2 DEF PromiseInv, Puts, IInv
<1> QED
  BY Zenon, <1>1, <1>2, <1>3, <1>4 DEF Puts, Fits

-----------------------------------------------------------------------------
(* The steps that write the catalog.                                        *)

\* The types that a catalog write can disturb.
LEMMA PutType ==
    ASSUME TypeOK, CallType', disk' \in CatalogRecord, view' \in CatalogRecord,
           rec' \in SessionRecord, holder' \in Threads \union {NoThread},
           failures' \in 0 .. MaxFailures, promised' \in [Generation -> SUBSET Items],
           UNCHANGED <<catalog, dirs, store, synced, latched, token, born, crashes, accesses>>
    PROVE  TypeOK'
BY Zenon DEF TypeOK, CallType

\* Nothing is asked of threads that run no operation.
LEMMA IdleInv ==
    ASSUME \A u \in Threads : kind'[u] = "none" /\ pc'[u] = "idle",
           holder' = NoThread, token' = 0
    PROVE  ControlInv' /\ LockInv' /\ CreateInv' /\ DeleteInv' /\ AdmissionInv' /\ TokenInv'
<1>1. ControlInv'
  BY Zenon DEF ControlInv, ControlOf
<1>2. LockInv'
  BY Zenon, NoThreadAssumption DEF LockInv, LockOf, Creating, Closing, InGate
<1>3. CreateInv'
  BY Zenon DEF CreateInv, CreateOf, Creating
<1>3b. DeleteInv'
  BY Zenon DEF DeleteInv, DeleteOf, Closing, Removing
<1>4. AdmissionInv'
  BY Zenon DEF AdmissionInv, AdmissionOf, Admitted
<1>4b. TokenInv'
  BY Zenon DEF TokenInv, AnnounceOf, TokenNamesActiveSession
<1> QED
  BY Zenon, <1>1, <1>2, <1>3, <1>3b, <1>4, <1>4b

\* A write that fails leaves the thread with catalog_mutex, about to latch.
LEMMA FailedPut ==
    ASSUME IInv, NEW t \in Threads, pc[t] \in Writers, holder \in {NoThread, t},
           NEW r, ~latched => Fits(r),
           \A u \in Threads \ {t} :
               Creating(u) => pc[u] \notin {"store", "opening", "activate", "deleting"},
           \/ latched /\ UNCHANGED <<disk, failures>>
           \/ ~latched /\ Fail /\ disk' \in {disk, r},
           holder' = t, Goto(t, "latching"),
           UNCHANGED <<item, failed>>, gen' \in [Threads -> 0 .. MaxGeneration],
           \A u \in Threads : (u # t \/ kind[t] # "close") => gen'[u] = gen[u],
           UNCHANGED <<view, rec, catalog, dirs, store, synced, latched, token, born, promised,
                       crashes, accesses>>
    PROVE  IInv'
<1>1. pc' = [pc EXCEPT ![t] = "latching"] /\ UNCHANGED <<kind, node>>
  BY Zenon DEF Goto
<1>2. CallType' /\ OthersKeep(t) /\ pc'[t] = "latching"
  BY Zenon, <1>1 DEF TypeOK, CallType, OthersKeep, PC, IInv
<1>3. disk' = disk \/ (disk' = r /\ ~latched)
  BY Zenon
<1>4. TypeOK'
  <2>1. disk' \in CatalogRecord
    BY Zenon DEF Fits, TypeOK, IInv
  <2>2. failures' \in 0 .. MaxFailures
    BY BoundsAssumption DEF Fail, TypeOK, IInv
  <2> QED
    BY Zenon, <1>2, <2>1, <2>2, PutType DEF TypeOK, IInv
<1>5. PutFails(t, r)
  BY Zenon, <1>1, <1>2 DEF PutFails
<1> QED
  BY Zenon, <1>4, <1>5, PutFailsStep

\* All that a catalog write may do to the disk.
Written ==
    /\ UNCHANGED <<catalog, dirs, store, synced, latched>>
    /\ disk' = disk \/ (~latched /\ Follows(disk, disk'))

LEMMA WriteActiveStep ==
    ASSUME IInv, NEW t \in Threads, WriteActive(t)
    PROVE  IInv' /\ Written
<1>a. /\ pc[t] = "active" /\ holder = NoThread /\ kind[t] = "create" /\ Creating(t)
      /\ UNCHANGED <<catalog, dirs, store, synced, latched, token, born, promised, crashes, accesses>>
      /\ Locals(t)
  BY Zenon, KindOfStep DEF WriteActive, Creating, history, IInv
<1> DEFINE r == ActiveRecord(gen[t])
<1>b. ~latched => Fits(r)
  BY Zenon, <1>a, ActiveFits
<1>c. gen[t] \in Generation /\ \A u \in Threads \ {t} : ~Creating(u)
  BY <1>a DEF CreateInv, CreateOf, LockInv, LockOf, TypeOK, Generation, IInv
<1>r. r = [gen |-> gen[t], state |-> "active", marks |-> {}]
  BY Zenon DEF ActiveRecord
<1>z. Written
  BY Zenon, <1>b DEF WriteActive, PutRecord, Written, Fits
<1> HIDE DEF r
<1> SUFFICES IInv'
  BY Zenon, <1>z
<1>1. CASE /\ ~latched /\ disk' = r /\ view' = r /\ rec' = rec
           /\ Goto(t, "store") /\ UNCHANGED <<failures, holder>>
  <2>1. Advances(t, "store")
    BY Zenon, <1>1, <1>a, GotoAdvances DEF PC, IInv
  <2>2. TypeOK'
    BY Zenon, <1>1, <1>a, <1>b, <2>1, PutType DEF Advances, Keeps, Fits, TypeOK, IInv
  <2>3. Puts(t, r)
    BY Zenon, <1>1, <1>a, <2>1 DEF Puts, Advances, Keeps
  <2>4. /\ CatalogMatchesDisk' /\ PromiseInv' /\ Readable(view') /\ r.gen <= born
        /\ \A g \in Generation : Doomed(disk, g) => Doomed(r, g)
        /\ disk = view /\ catalog = "ready"
    BY Zenon, <1>1, <1>a, <1>b, <2>2, <2>3, PutsFacts DEF Writers
  <2>5. ControlInv'
    <3>1. OthersKeep(t) /\ ControlOf(t)'
      BY Zenon, <1>a, <2>1 DEF ControlOf, Advances, Keeps
    <3> QED
      BY Zenon, <3>1, ControlFrame DEF IInv
  <2>5b. LockInv'
    <3>1. LockOf(t) /\ \A u \in Threads : kind[u] # "start"
      BY Zenon, <1>a DEF LockInv, LockOf, IInv
    <3>2. OthersKeep(t) /\ node' = node /\ LockOf(t)'
      BY Zenon, <1>1, <1>a, <2>1, <3>1 DEF LockOf, InGate, Advances, Keeps
    <3>3. /\ Creating(t)' => \A u \in Threads \ {t} : ~Creating(u)
          /\ Closing(t)' => \A u \in Threads \ {t} : ~Closing(u)
      BY Zenon, <1>a, <2>1 DEF Creating, Closing, LockInv, IInv, Advances, Keeps
    <3> QED
      BY Zenon, <1>1, <1>a, <3>1, <3>2, <3>3, LockFrame DEF IInv
  <2>6. SyncInv'
    <3>1. \A u \in Threads : kind'[u] # "start"
      BY Zenon, <1>a, <2>1 DEF LockInv, LockOf, IInv, Advances, Keeps, OthersKeep
    <3> QED
      BY Zenon, <2>4, <3>1, <1>1, <1>a, <2>1 DEF SyncInv, IInv, Advances, Keeps
  <2>7. RecordInv'
    BY Zenon, <1>r, <1>1, <1>a DEF RecordInv, CreateInv, CreateOf, IInv
  <2>7b. CreateInv'
    <3>1. \A u \in Threads \ {t} : ~Creating(u)'
      BY Zenon, <1>c, <2>1 DEF Creating, Advances, Keeps, OthersKeep
    <3>2. CreateOf(t) /\ view' = ActiveRecord(gen'[t]) /\ disk' = view'
      BY Zenon, <1>r, <1>1, <2>1 DEF CreateInv, ActiveRecord, IInv, Advances, Keeps
    <3>3. CreateOf(t)'
      BY Zenon, <1>1, <1>a, <2>1, <3>2 DEF CreateOf, Creating, Advances, Keeps
    <3> QED
      BY Zenon, <3>1, <3>3 DEF CreateInv, CreateOf
  <2>8. DeleteInv'
    <3>1. OthersKeep(t) /\ DeleteOf(t)'
      BY Zenon, <2>1 DEF DeleteOf, Closing, Removing, Advances, Keeps
    <3> QED
      BY Zenon, <1>1, <1>a, <2>4, <3>1, DeleteGrows DEF IInv
  <2>9. AdmissionInv'
    <3>1. OthersKeep(t) /\ AdmissionOf(t)'
      BY Zenon, <1>a, <2>1 DEF AdmissionOf, Admitted, Advances, Keeps
    <3> QED
      BY Zenon, <1>1, <1>a, <3>1, AdmissionFrame DEF IInv
  <2>9b. TokenInv'
    BY Zenon, <1>1, <1>a, <2>1, TokenFrame DEF IInv, Advances, Keeps
  <2> QED
    BY Zenon, <2>2, <2>4, <2>5, <2>5b, <2>6, <2>7, <2>7b, <2>8, <2>9, <2>9b DEF IInv
<1>2. CASE /\ \/ latched /\ UNCHANGED <<disk, failures>>
              \/ ~latched /\ Fail /\ disk' \in {disk, r}
           /\ holder' = t /\ Goto(t, "latching") /\ UNCHANGED <<view, rec>>
  <2>1. Advances(t, "latching")
    BY Zenon, <1>2, <1>a, GotoAdvances DEF PC, IInv
  <2> QED
    BY Zenon, <1>2, <1>a, <1>b, <1>c, <2>1, FailedPut DEF Writers, Advances, Keeps, Locals, TypeOK, IInv
<1> QED
  BY Zenon, <1>1, <1>2 DEF WriteActive, PutRecord, r

LEMMA WriteDeletingStep ==
    ASSUME IInv, NEW t \in Threads, WriteDeleting(t)
    PROVE  IInv' /\ Written
<1>a. /\ pc[t] = "deleting" /\ holder = NoThread /\ kind[t] = "create" /\ Creating(t)
      /\ UNCHANGED <<catalog, dirs, store, synced, latched, token, born, promised, crashes, accesses>>
      /\ Locals(t)
  BY Zenon, KindOfStep DEF WriteDeleting, Creating, history, IInv
<1> DEFINE r == Moved(ActiveRecord(gen[t]), "deleting", "deleting_at")
<1>c. /\ gen[t] \in Generation /\ \A u \in Threads \ {t} : ~Creating(u)
      /\ view = ActiveRecord(gen[t]) /\ disk = view
      /\ rec.phase = "Creating" /\ rec.gen = gen[t] /\ ~rec.open
  BY <1>a DEF CreateInv, CreateOf, LockInv, LockOf, TypeOK, Generation, IInv
<1>v. view # NoRecord /\ view.state = "active" /\ view.gen = gen[t]
  BY Zenon, <1>c DEF ActiveRecord, NoRecord
<1>b. Fits(r)
  BY Zenon, <1>c, <1>v, MovedFits DEF LifecycleState, Mark
<1>r. r.gen = gen[t] /\ r.state = "deleting"
  <2>1. "deleting" \in LifecycleState /\ "deleting_at" \in Mark /\ r = Moved(view, "deleting", "deleting_at")
    BY Zenon, <1>c DEF LifecycleState, Mark
  <2> HIDE DEF r
  <2> QED
    BY Zenon, <1>v, <2>1, MovedView
<1>z. Written
  BY Zenon, <1>b DEF WriteDeleting, PutRecord, Written, Fits
<1> HIDE DEF r
<1> SUFFICES IInv'
  BY Zenon, <1>z
<1>1. CASE /\ ~latched /\ disk' = r /\ view' = r /\ rec' = rec
           /\ Goto(t, "finish") /\ UNCHANGED <<failures, holder>>
  <2>1. Advances(t, "finish")
    BY Zenon, <1>1, <1>a, GotoAdvances DEF PC, IInv
  <2>2. TypeOK'
    BY Zenon, <1>1, <1>a, <1>b, <2>1, PutType DEF Advances, Keeps, Fits, TypeOK, IInv
  <2>3. Puts(t, r)
    BY Zenon, <1>1, <1>a, <2>1 DEF Puts, Advances, Keeps
  <2>4. /\ CatalogMatchesDisk' /\ PromiseInv' /\ Readable(view') /\ r.gen <= born
        /\ \A g \in Generation : Doomed(disk, g) => Doomed(r, g)
        /\ disk = view /\ catalog = "ready"
    BY Zenon, <1>a, <1>b, <2>2, <2>3, PutsFacts DEF Writers
  <2>5. ControlInv'
    <3>1. OthersKeep(t) /\ ControlOf(t)'
      BY Zenon, <1>a, <2>1 DEF ControlOf, Advances, Keeps
    <3> QED
      BY Zenon, <3>1, ControlFrame DEF IInv
  <2>5b. LockInv'
    <3>1. LockOf(t) /\ \A u \in Threads : kind[u] # "start"
      BY Zenon, <1>a DEF LockInv, LockOf, IInv
    <3>2. OthersKeep(t) /\ node' = node /\ LockOf(t)'
      BY Zenon, <1>1, <1>a, <2>1, <3>1 DEF LockOf, InGate, Advances, Keeps
    <3>3. /\ Creating(t)' => \A u \in Threads \ {t} : ~Creating(u)
          /\ Closing(t)' => \A u \in Threads \ {t} : ~Closing(u)
      BY Zenon, <1>a, <2>1 DEF Creating, Closing, LockInv, IInv, Advances, Keeps
    <3> QED
      BY Zenon, <1>1, <1>a, <3>1, <3>2, <3>3, LockFrame DEF IInv
  <2>6. SyncInv'
    <3>1. \A u \in Threads : kind'[u] # "start"
      BY Zenon, <1>a, <2>1 DEF LockInv, LockOf, IInv, Advances, Keeps, OthersKeep
    <3> QED
      BY Zenon, <2>4, <3>1, <1>1, <1>a, <2>1 DEF SyncInv, IInv, Advances, Keeps
  <2>7. RecordInv'
    BY Zenon, <2>4, <1>1, <1>a, <1>c DEF RecordInv, IInv
  <2>7b. CreateInv'
    <3>1. \A u \in Threads \ {t} : ~Creating(u)'
      BY Zenon, <1>c, <2>1 DEF Creating, Advances, Keeps, OthersKeep
    <3>2. CreateOf(t)
      BY Zenon DEF CreateInv, IInv
    <3>3. CreateOf(t)'
      BY Zenon, <1>1, <1>a, <1>c, <2>1, <3>2 DEF CreateOf, Creating, Advances, Keeps
    <3> QED
      BY Zenon, <3>1, <3>3 DEF CreateInv, CreateOf
  <2>8. DeleteInv'
    <3>1. Doomed(r, gen[t])
      BY Zenon, <1>r DEF Doomed
    <3>2. gen[t] # 0
      BY <1>c DEF Generation
    <3>3. OthersKeep(t) /\ DeleteOf(t)'
      BY Zenon, <1>1, <1>c, <2>1, <3>1, <3>2 DEF DeleteOf, Closing, Removing, Advances, Keeps
    <3> QED
      BY Zenon, <1>1, <1>a, <2>4, <3>3, DeleteGrows DEF IInv
  <2>9. AdmissionInv'
    <3>1. OthersKeep(t) /\ AdmissionOf(t)'
      BY Zenon, <1>a, <2>1 DEF AdmissionOf, Admitted, Advances, Keeps
    <3> QED
      BY Zenon, <1>1, <1>a, <3>1, AdmissionFrame DEF IInv
  <2>9b. TokenInv'
    BY Zenon, <1>1, <1>a, <2>1, TokenFrame DEF IInv, Advances, Keeps
  <2> QED
    BY Zenon, <2>2, <2>4, <2>5, <2>5b, <2>6, <2>7, <2>7b, <2>8, <2>9, <2>9b DEF IInv
<1>2. CASE /\ \/ latched /\ UNCHANGED <<disk, failures>>
              \/ ~latched /\ Fail /\ disk' \in {disk, r}
           /\ holder' = t /\ Goto(t, "latching") /\ UNCHANGED <<view, rec>>
  <2>1. Advances(t, "latching")
    BY Zenon, <1>2, <1>a, GotoAdvances DEF PC, IInv
  <2> QED
    BY Zenon, <1>2, <1>a, <1>b, <1>c, <2>1, FailedPut DEF Writers, Advances, Keeps, Locals, TypeOK, IInv
<1> QED
  BY Zenon, <1>1, <1>2 DEF WriteDeleting, PutRecord, r

LEMMA FinishCatalogDeletionStep ==
    ASSUME IInv, NEW t \in Threads, FinishCatalogDeletion(t)
    PROVE  IInv' /\ Written
<1>a. /\ pc[t] = "finishing" /\ holder = NoThread /\ kind[t] \in {"create", "close", "start"}
      /\ UNCHANGED <<catalog, dirs, store, synced, latched, token, born, promised, crashes, accesses>>
      /\ Locals(t)
  BY Zenon, KindOfStep DEF FinishCatalogDeletion, history, IInv
<1>d. /\ gen[t] # 0 /\ gen[t] \in Generation /\ Doomed(view, gen[t])
      /\ ~(rec.gen = gen[t] /\ rec.open)
  BY <1>a DEF DeleteInv, DeleteOf, Removing, TypeOK, Generation, IInv
<1>z. Written
  <2>1. ~latched /\ view.gen = gen[t] /\ view.state \in {"deleting", "delete_failed"} =>
            Follows(disk, Deletion(failed[t]))
    BY Zenon, <1>a, InStep, DeletionFits DEF Fits
  <2> QED
    BY Zenon, <2>1 DEF FinishCatalogDeletion, PutRecord, Written
<1> SUFFICES IInv'
  BY Zenon, <1>z
<1>1. CASE view.gen = gen[t] /\ view.state \in {"deleting", "delete_failed"}
  <2> DEFINE r == Deletion(failed[t])
  <2>b. ~latched => Fits(r)
    BY Zenon, <1>1, <1>a, InStep, DeletionFits
  <2>c. ~(rec.phase = "Active" /\ rec.gen = gen[t])
    BY Zenon, <1>1 DEF RecordInv, IInv
  <2>d. \A u \in Threads \ {t} :
            Creating(u) => pc[u] \notin {"store", "opening", "activate", "deleting"}
    <3>1. \A g : ActiveRecord(g).state = "active"
      BY Zenon DEF ActiveRecord
    <3>2. \A u \in Threads : view # ActiveRecord(gen[u])
      BY Zenon, <1>1, <3>1
    <3> QED
      BY Zenon, <3>2 DEF CreateInv, CreateOf, IInv
  <2>e. rec.phase \notin {"Active", "Closing"}
    BY Zenon, <1>1, <1>d DEF RecordInv, IInv
  <2> HIDE DEF r
  <2>1. CASE /\ ~latched /\ disk' = r /\ view' = r /\ rec' = rec
             /\ Goto(t, "done") /\ UNCHANGED <<failures, holder>>
    <3>1. IF kind[t] = "create" THEN Advances(t, "rollback") ELSE Returns(t)
      BY Zenon, <2>1, <1>a, GotoDone DEF IInv
    <3>m. CallType' /\ OthersKeep(t)
      BY Zenon, <3>1 DEF Advances, Keeps, Returns
    <3>2. TypeOK'
      BY Zenon, <2>1, <1>a, <2>b, <3>m, PutType DEF Fits, TypeOK, IInv
    <3>3. Puts(t, r)
      BY Zenon, <2>1, <1>a, <3>m DEF Puts
    <3>4. /\ CatalogMatchesDisk' /\ PromiseInv' /\ Readable(view') /\ r.gen <= born
          /\ \A g \in Generation : Doomed(disk, g) => Doomed(r, g)
          /\ disk = view /\ catalog = "ready"
      BY Zenon, <2>1, <1>a, <2>b, <3>2, <3>3, PutsFacts DEF Writers
    <3>5. ControlInv'
      <4>1. ControlOf(t)'
        BY Zenon, <3>1 DEF ControlOf, Advances, Keeps, Returns
      <4> QED
        BY Zenon, <3>m, <4>1, ControlFrame DEF IInv
    <3>5b. LockInv'
      <4>1. CASE kind[t] = "start"
        <5>1. \A u \in Threads : kind'[u] = "none"
          BY Zenon, <1>a, <3>1, <3>m, <4>1 DEF LockInv, LockOf, IInv, Returns, OthersKeep
        <5>2. \A u \in Threads : pc'[u] = "idle"
          BY Zenon, <3>5, <5>1 DEF ControlInv, ControlOf
        <5>3. holder' = NoThread /\ token' = 0
          BY Zenon, <2>1, <1>a, <4>1 DEF LockInv, LockOf, IInv
        <5> QED
          BY Zenon, <5>1, <5>2, <5>3, IdleInv
      <4>2. CASE kind[t] # "start"
        <5>1. LockOf(t) /\ \A u \in Threads : kind[u] # "start"
          BY Zenon, <1>a, <4>2 DEF LockInv, LockOf, IInv
        <5>2. node' = node /\ LockOf(t)'
          BY Zenon, <2>1, <1>a, <3>1, <4>2, <5>1, NoThreadAssumption DEF LockOf, InGate, Advances, Keeps, Returns
        <5>3. /\ Creating(t)' => \A u \in Threads \ {t} : ~Creating(u)
              /\ Closing(t)' => \A u \in Threads \ {t} : ~Closing(u)
          BY Zenon, <1>a, <3>1 DEF Creating, Closing, LockInv, IInv, Advances, Keeps, Returns
        <5> QED
          BY Zenon, <2>1, <1>a, <3>m, <5>1, <5>2, <5>3, LockFrame DEF IInv
      <4> QED
        BY Zenon, <4>1, <4>2
    <3>6. SyncInv'
      <4>1. \A u \in Threads : kind'[u] # "start"
        BY Zenon, <1>a, <3>1 DEF LockInv, LockOf, IInv, Advances, Keeps, Returns, OthersKeep
      <4>2. kind[t] = "start" => node = "starting"
        BY Zenon DEF LockInv, LockOf, IInv
      <4> QED
        BY Zenon, <3>4, <4>1, <2>1, <1>a, <3>1 DEF SyncInv, IInv, Advances, Keeps, Returns
    <3>7. RecordInv'
      BY Zenon, <2>e, <3>4, <2>1, <1>a DEF RecordInv, IInv
    <3>8. CreateInv'
      <4>1. \A u \in Threads \ {t} : Creating(u) => pc[u] # "active"
        BY Zenon, <1>1 DEF CreateInv, CreateOf, IInv
      <4> QED
        <5>1. ASSUME NEW u \in Threads \ {t} PROVE CreateOf(u)'
          <6>1. CreateOf(u) /\ kind'[u] = kind[u] /\ pc'[u] = pc[u] /\ gen'[u] = gen[u]
            BY Zenon, <3>m DEF CreateInv, IInv, OthersKeep
          <6> QED
            BY Zenon, <2>d, <2>1, <4>1, <6>1 DEF CreateOf, Creating
        <5>2. CreateOf(t)
          BY Zenon DEF CreateInv, IInv
        <5>3. CreateOf(t)'
          BY Zenon, <2>1, <1>a, <3>1, <5>2 DEF CreateOf, Creating, Advances, Keeps, Returns
        <5> QED
          BY Zenon, <5>1, <5>3 DEF CreateInv
    <3>9. DeleteInv'
      <4>1. DeleteOf(t)'
        BY Zenon, <3>1 DEF DeleteOf, Closing, Removing, Advances, Keeps, Returns
      <4> QED
        BY Zenon, <2>1, <1>a, <3>4, <3>m, <4>1, DeleteGrows DEF IInv
    <3>10. AdmissionInv'
      <4>1. AdmissionOf(t)'
        BY Zenon, <1>a, <3>1 DEF AdmissionOf, Admitted, Advances, Keeps, Returns
      <4> QED
        BY Zenon, <2>1, <1>a, <3>m, <4>1, AdmissionFrame DEF IInv
    <3>11. TokenInv'
      <4>1. pc'[t] # "announcing"
        BY Zenon, <3>1 DEF Advances, Returns
      <4> QED
        BY Zenon, <2>1, <1>a, <3>m, <4>1, TokenFrame DEF IInv
    <3> QED
      BY Zenon, <3>2, <3>4, <3>5, <3>5b, <3>6, <3>7, <3>8, <3>9, <3>10, <3>11 DEF IInv
  <2>2. CASE /\ \/ latched /\ UNCHANGED <<disk, failures>>
                \/ ~latched /\ Fail /\ disk' \in {disk, r}
             /\ holder' = t /\ Goto(t, "latching") /\ UNCHANGED <<view, rec>>
    <3>1. Advances(t, "latching")
      BY Zenon, <2>2, <1>a, GotoAdvances DEF PC, IInv
    <3> QED
      BY Zenon, <2>2, <1>a, <2>b, <2>d, <3>1, FailedPut
         DEF Writers, Advances, Keeps, Locals, TypeOK, IInv
  <2> QED
    BY Zenon, <1>1, <2>1, <2>2 DEF FinishCatalogDeletion, PutRecord, r
<1>2. CASE ~(view.gen = gen[t] /\ view.state \in {"deleting", "delete_failed"})
  <2>1. Goto(t, "done") /\ UNCHANGED <<disk, view, rec, holder, failures>>
    BY Zenon, <1>2 DEF FinishCatalogDeletion
  <2>2. IF kind[t] = "create" THEN Advances(t, "rollback") ELSE Returns(t)
    BY Zenon, <2>1, <1>a, GotoDone DEF IInv
  <2>3. TypeOK'
    BY Zenon, <1>a, <2>1, <2>2, PutType DEF Advances, Keeps, Returns, TypeOK, IInv
  <2>4. Enters(t) \/ Ends(t)
    <3>1. CASE kind[t] = "create"
      BY Zenon, <1>a, <2>1, <2>2, <3>1 DEF Enters, Advances
    <3>2. CASE kind[t] # "create"
      BY Zenon, <1>a, <2>1, <2>2, <3>2, NoThreadAssumption DEF Ends
    <3> QED
      BY Zenon, <3>1, <3>2
  <2>5. Moves(t)
    BY Zenon, <1>a, <2>1, <2>3, <2>4 DEF Moves, Shared
  <2> QED
    BY Zenon, <2>5, MovesStep
<1> QED
  BY Zenon, <1>1, <1>2

LEMMA BeginCatalogDeletionStep ==
    ASSUME IInv, NEW t \in Threads, BeginCatalogDeletion(t)
    PROVE  IInv' /\ Written
<1> DEFINE closing == IF gen[t] = 0 THEN rec ELSE [rec EXCEPT !.phase = "Closing"]
           next == IF gen[t] = 0 THEN "finish" ELSE "token"
           r == Moved(view, "deleting", "deleting_at")
<1>a. /\ pc[t] = "begin" /\ holder = NoThread /\ kind[t] = "close"
      /\ UNCHANGED <<catalog, dirs, store, synced, latched, token, born, promised, crashes,
                     accesses, item, failed>>
  BY Zenon, KindOfStep DEF BeginCatalogDeletion, history, IInv
<1>1. CASE /\ DeletionRefused(t) /\ Return(t) /\ gen' = [gen EXCEPT ![t] = 0]
           /\ UNCHANGED <<disk, view, rec, holder, failures>>
  <2>1. kind' = [kind EXCEPT ![t] = "none"] /\ pc' = [pc EXCEPT ![t] = "idle"] /\ node' = node
    BY Zenon, <1>1, <1>a DEF Return
  <2>2. Returns(t)
    BY <1>1, <1>a, <2>1, BoundsAssumption
       DEF Returns, OthersKeep, CallType, TypeOK, Kind, PC, IInv
  <2>3. TypeOK'
    BY Zenon, <1>1, <1>a, <2>2, PutType DEF Returns, TypeOK, IInv
  <2>4. Moves(t)
    BY Zenon, <1>1, <1>a, <2>2, <2>3 DEF Moves, Shared, Ends
  <2> QED
    BY Zenon, <1>1, <1>a, <2>4, MovesStep DEF Written
<1>2. CASE ~DeletionRefused(t) /\ gen' = [gen EXCEPT ![t] = view.gen]
  <2>1. /\ rec.gen = gen[t] /\ (gen[t] # 0 => rec.phase = "Active" /\ view.gen = gen[t])
        /\ view.state \notin {"none", "deleted"} /\ (gen[t] = 0 => view.state # "active")
    BY Zenon, <1>2 DEF DeletionRefused
  <2>2. view # NoRecord /\ view.gen \in Generation /\ view.state \in LifecycleState
    BY <2>1 DEF NoRecord, TypeOK, CatalogRecord, IInv
  <2>3. gen[t] = 0 => rec = NoSession
    BY Zenon, <2>1 DEF RecordInv, IInv
  <2>4. next \in PC /\ next # "done" /\ closing \in SessionRecord
    BY Zenon DEF PC, TypeOK, SessionRecord, IInv
  <2>g. gen' \in [Threads -> 0 .. MaxGeneration] /\ gen'[t] = view.gen
        /\ \A u \in Threads \ {t} : gen'[u] = gen[u]
    BY <1>2, <2>2 DEF TypeOK, Generation, IInv
  <2>5. CASE view.state = "deleting" /\ rec' = closing /\ Goto(t, next)
             /\ UNCHANGED <<disk, view, holder, failures>>
    <3>1. gen[t] = 0 /\ rec' = rec /\ rec = NoSession
      BY Zenon, <2>1, <2>5 DEF RecordInv, IInv
    <3>2. pc' = [pc EXCEPT ![t] = "finish"] /\ UNCHANGED <<kind, node>>
      BY Zenon, <2>5, <3>1 DEF Goto
    <3>3. CallType' /\ OthersKeep(t)
      BY Zenon, <1>a, <2>g, <3>2 DEF CallType, OthersKeep, TypeOK, PC, IInv
    <3>4. TypeOK'
      BY Zenon, <1>a, <2>5, <3>1, <3>3, PutType DEF TypeOK, IInv
    <3>5. Continues(t)
      BY Zenon, <1>a, <2>g, <2>5, <3>1, <3>2, <3>3 DEF Continues, TypeOK, IInv
    <3>6. Moves(t)
      BY Zenon, <1>a, <2>5, <3>1, <3>4, <3>5 DEF Moves, Shared
    <3> QED
      BY Zenon, <1>a, <2>5, <3>6, MovesStep DEF Written
  <2>6. CASE view.state # "deleting" /\ PutRecord(t, r, closing, next)
    <3>b. ~latched => Fits(r)
      <4>1. view.state \in {"active", "retained", "orphaned", "delete_failed"}
        BY Zenon, <2>1, <2>2, <2>6 DEF LifecycleState
      <4> QED
        BY Zenon, <1>a, <2>2, <4>1, InStep, MovedFits DEF LifecycleState, Mark
    <3>r. r.gen = view.gen /\ r.state = "deleting"
      BY Zenon, <2>2, MovedView DEF LifecycleState, Mark
    <3>n. /\ rec.phase \in {"None", "Active"}
          /\ \A u \in Threads : ~Creating(u) /\ ~Closing(u)
      <4>1. rec.phase \in {"None", "Active"}
        BY <2>1, <2>3 DEF NoSession
      <4> QED
        BY Zenon, <4>1 DEF CreateInv, CreateOf, DeleteInv, DeleteOf, IInv
    <3>z. Written
      BY Zenon, <1>a, <2>6, <3>b DEF PutRecord, Written, Fits
    <3> SUFFICES IInv'
      BY Zenon, <3>z
    <3> HIDE DEF r
    <3>1. CASE /\ ~latched /\ disk' = r /\ view' = r /\ rec' = closing
               /\ Goto(t, next) /\ UNCHANGED <<failures, holder>>
      <4>1. pc' = [pc EXCEPT ![t] = next] /\ UNCHANGED <<kind, node>>
        BY Zenon, <3>1 DEF Goto
      <4>2. CallType' /\ OthersKeep(t) /\ pc'[t] = next /\ kind'[t] = kind[t]
        BY Zenon, <1>a, <2>4, <2>g, <4>1 DEF CallType, OthersKeep, TypeOK, IInv
      <4>3. TypeOK'
        BY Zenon, <1>a, <2>4, <3>1, <3>b, <4>2, PutType DEF TypeOK, Fits, IInv
      <4>4. Puts(t, r)
        BY Zenon, <1>a, <3>1, <4>2 DEF Puts
      <4>5. /\ CatalogMatchesDisk' /\ PromiseInv' /\ Readable(view') /\ r.gen <= born
            /\ \A g \in Generation : Doomed(disk, g) => Doomed(r, g)
            /\ disk = view /\ catalog = "ready"
        BY Zenon, <1>a, <3>1, <3>b, <4>3, <4>4, PutsFacts DEF Writers
      <4>c. /\ rec'.gen = rec.gen /\ rec'.open = rec.open /\ rec'.lifecycle = rec.lifecycle
            /\ rec'.reconciled = rec.reconciled
            /\ gen[t] # 0 => rec'.phase = "Closing" /\ pc'[t] = "token" /\ gen'[t] = gen[t]
            /\ gen[t] = 0 => rec' = rec /\ rec = NoSession /\ pc'[t] = "finish"
        BY <2>1, <2>3, <2>g, <3>1, <4>2
      <4> HIDE DEF closing, next
      <4>6. ControlInv'
        <5>1. ControlOf(t)'
          BY Zenon, <1>a, <4>2, <4>c DEF ControlOf
        <5> QED
          BY Zenon, <4>2, <5>1, ControlFrame DEF IInv
      <4>s. \A u \in Threads : kind'[u] # "start"
        BY Zenon, <1>a, <4>2 DEF LockInv, LockOf, IInv, OthersKeep
      <4>7. LockInv'
        <5>1. LockOf(t) /\ \A u \in Threads : kind[u] # "start"
          BY Zenon, <1>a DEF LockInv, LockOf, IInv
        <5>2. pc'[t] \in {"token", "finish"}
          BY Zenon, <4>c
        <5>3. LockOf(t)'
          BY Zenon, <1>a, <3>1, <4>1, <4>2, <5>1, <5>2, NoThreadAssumption DEF LockOf, InGate
        <5> QED
          BY Zenon, <1>a, <3>1, <3>n, <4>1, <4>2, <5>1, <5>3, LockFrame DEF IInv
      <4>8. SyncInv'
        BY Zenon, <4>1, <4>5, <1>a, <3>1 DEF SyncInv, LockInv, LockOf, IInv
      <4>9. RecordInv'
        <5>1. NoSession.phase = "None" /\ NoSession.gen = 0 /\ ~NoSession.open
          BY Zenon DEF NoSession
        <5> QED
          BY Zenon, <3>r, <5>1, <1>a, <2>1, <3>1, <4>c DEF RecordInv, IInv
      <4>10. CreateInv'
        BY Zenon, <1>a, <2>1, <4>2 DEF CreateInv, CreateOf, Creating, IInv, OthersKeep
      <4>11. DeleteInv'
        <5>2. Doomed(r, view.gen) /\ view.gen # 0
          BY <2>2, <3>r DEF Doomed, Generation
        <5>3. ~NoSession.open
          BY Zenon DEF NoSession
        <5>5. DeleteOf(t)'
          <6>1. gen'[t] # 0 /\ Doomed(view', gen'[t]) /\ Doomed(disk', gen'[t])
            BY Zenon, <2>g, <3>1, <5>2
          <6>2. CASE gen[t] = 0
            BY Zenon, <4>c, <5>3, <6>1, <6>2 DEF DeleteOf, Closing, Removing
          <6>3. CASE gen[t] # 0
            BY Zenon, <2>1, <4>c, <6>1, <6>3 DEF DeleteOf, Closing, Removing
          <6> QED
            BY Zenon, <6>2, <6>3
        <5> QED
          BY Zenon, <1>a, <3>1, <3>n, <4>2, <4>5, <4>c, <5>5, DeleteGrows DEF IInv
      <4>12. AdmissionInv'
        <5>1. \A u \in Threads : pc[u] \notin {"gate", "syncing", "commit"}
          BY Zenon, NoThreadAssumption, <1>a DEF LockInv, LockOf, IInv
        <5>2. ASSUME NEW u \in Threads \ {t} PROVE AdmissionOf(u)'
          <6>1. /\ AdmissionOf(u) /\ kind'[u] = kind[u] /\ pc'[u] = pc[u] /\ gen'[u] = gen[u]
                /\ item'[u] = item[u] /\ pc[u] \notin {"gate", "syncing", "commit"}
            BY Zenon, <4>2, <5>1 DEF AdmissionInv, IInv, OthersKeep
          <6>2. rec.gen = rec'.gen /\ rec'.phase \in {rec.phase, "Closing"}
            BY Zenon, <4>c
          <6> QED
            BY Zenon, <1>a, <6>1, <6>2 DEF AdmissionOf, Admitted
        <5>3. AdmissionOf(t)'
          BY Zenon, <1>a, <4>2, <4>c DEF AdmissionOf, Admitted
        <5> QED
          BY Zenon, <5>2, <5>3 DEF AdmissionInv
      <4>13. TokenInv'
        <5>1. NoSession.phase # "Active"
          BY Zenon DEF NoSession
        <5> QED
          BY Zenon, <1>a, <2>1, <4>2, <4>c, <5>1, TokenFrame DEF IInv
      <4> QED
        BY Zenon, <4>3, <4>5, <4>6, <4>7, <4>8, <4>9, <4>10, <4>11, <4>12, <4>13 DEF IInv
    <3>2. CASE /\ \/ latched /\ UNCHANGED <<disk, failures>>
                  \/ ~latched /\ Fail /\ disk' \in {disk, r}
               /\ holder' = t /\ Goto(t, "latching") /\ UNCHANGED <<view, rec>>
      BY Zenon, <1>a, <2>g, <3>2, <3>b, <3>n, FailedPut DEF Writers
    <3> QED
      BY Zenon, <2>6, <3>1, <3>2 DEF PutRecord
  <2> HIDE DEF r
  <2> QED
    BY Zenon, <1>2, <2>5, <2>6 DEF BeginCatalogDeletion, r
<1> QED
  BY Zenon, <1>1, <1>2 DEF BeginCatalogDeletion

LEMMA CommitRetainedStep ==
    ASSUME IInv, NEW t \in Threads, CommitRetained(t)
    PROVE  IInv' /\ Written
<1>a. /\ pc[t] = "commit" /\ holder = t /\ kind[t] = "retain" /\ ~latched
      /\ UNCHANGED <<catalog, dirs, store, synced, latched, token, born, crashes, accesses>>
      /\ Locals(t)
  BY Zenon, KindOfStep DEF CommitRetained, LockInv, LockOf, InGate, IInv
<1> DEFINE r == Moved(view, "retained", "retained_at")
           s == [rec EXCEPT !.lifecycle = "retained"]
<1>c. /\ rec.phase = "Active" /\ rec.lifecycle = "active" /\ ~rec.reconciled
      /\ rec.gen = gen[t] /\ item[t] \subseteq synced[gen[t]]
  BY Zenon, <1>a DEF AdmissionInv, AdmissionOf, Admitted, IInv
<1>v. /\ view.gen = gen[t] /\ view.state = "active" /\ gen[t] \in dirs /\ disk = view
      /\ rec.open
  BY Zenon, <1>a, <1>c, InStep DEF RecordInv, IInv
<1>w. view # NoRecord
  BY <1>v DEF NoRecord
<1>n. \A u \in Threads : ~Creating(u) /\ ~Closing(u)
  BY Zenon, <1>c DEF CreateInv, CreateOf, DeleteInv, DeleteOf, IInv
<1>b. Fits(r)
  BY Zenon, <1>v, <1>w, MovedFits DEF LifecycleState, Mark
<1>r. r.gen = gen[t] /\ r.state = "retained"
  BY Zenon, <1>v, <1>w, MovedView DEF LifecycleState, Mark
<1>s. /\ s \in SessionRecord /\ s # rec
      /\ s.gen = rec.gen /\ s.phase = rec.phase /\ s.open = rec.open
      /\ s.reconciled = rec.reconciled /\ s.lifecycle = "retained"
  BY Zenon, <1>c DEF TypeOK, SessionRecord, LifecycleState, IInv
<1>z. Written
  BY Zenon, <1>b DEF CommitRetained, PutRecord, Written, Fits
<1> HIDE DEF r, s
<1> SUFFICES IInv'
  BY Zenon, <1>z
<1>1. CASE /\ ~latched /\ disk' = r /\ view' = r /\ rec' = s
           /\ Goto(t, "withdraw") /\ UNCHANGED <<failures, holder>>
  <2>1. Advances(t, "withdraw")
    BY Zenon, <1>1, <1>a, GotoAdvances DEF PC, IInv
  <2>p. promised' = [promised EXCEPT ![gen[t]] = item[t]]
    BY Zenon, <1>1, <1>s DEF CommitRetained
  <2>q. gen[t] \in Generation /\ promised' \in [Generation -> SUBSET Items]
    BY Zenon, <1>v, <2>p DEF TypeOK, IInv
  <2>2. TypeOK'
    BY Zenon, <1>1, <1>a, <1>b, <1>s, <2>1, <2>q, PutType DEF Advances, Keeps, Fits, TypeOK, IInv
  <2>3. Puts(t, r)
    BY Zenon, <1>1, <1>a, <2>1 DEF Puts, Advances, Keeps
  <2>4. /\ CatalogMatchesDisk' /\ Readable(view') /\ r.gen <= born
        /\ \A g \in Generation : Doomed(disk, g) => Doomed(r, g)
        /\ catalog = "ready"
    BY Zenon, <1>a, <1>b, <2>2, <2>3, PutsFacts DEF Writers
  <2>5. ControlInv'
    <3>1. OthersKeep(t) /\ ControlOf(t)'
      BY Zenon, <1>a, <2>1 DEF ControlOf, Advances, Keeps
    <3> QED
      BY Zenon, <3>1, ControlFrame DEF IInv
  <2>s. \A u \in Threads : kind'[u] # "start"
    BY Zenon, <1>a, <2>1 DEF LockInv, LockOf, IInv, Advances, Keeps, OthersKeep
  <2>6. LockInv'
    <3>1. LockOf(t) /\ \A u \in Threads : kind[u] # "start"
      BY Zenon, <1>a DEF LockInv, LockOf, IInv
    <3>2. OthersKeep(t) /\ node' = node /\ LockOf(t)'
      BY Zenon, <1>1, <1>a, <2>1, <3>1 DEF LockOf, InGate, Advances, Keeps
    <3>3. /\ Creating(t)' => \A u \in Threads \ {t} : ~Creating(u)
          /\ Closing(t)' => \A u \in Threads \ {t} : ~Closing(u)
      BY Zenon, <1>a, <2>1 DEF Creating, Closing, LockInv, IInv, Advances, Keeps
    <3> QED
      BY Zenon, <1>1, <1>a, <3>1, <3>2, <3>3, LockFrame DEF IInv
  <2>7. SyncInv'
    BY Zenon, <2>4, <2>s, <1>1, <1>a, <2>1 DEF SyncInv, IInv, Advances, Keeps
  <2>8. RecordInv'
    <3>1. NoSession.phase = "None"
      BY Zenon DEF NoSession
    <3> QED
      BY Zenon, <1>r, <3>1, <1>1, <1>a, <1>c, <1>s DEF RecordInv, IInv
  <2>9. CreateInv'
    BY Zenon, <1>n, <1>a, <2>1 DEF CreateInv, CreateOf, Creating, Advances, Keeps, OthersKeep
  <2>10. DeleteInv'
    <3>1. \A u \in Threads : gen[u] # 0 => gen[u] \in Generation
      BY Zenon, GenerationOf DEF IInv
    <3>2. \A u \in Threads : ~Closing(u)'
      BY Zenon, <1>n, <2>1 DEF Closing, Advances, Keeps, OthersKeep
    <3>3. \A u \in Threads : Removing(u)' =>
             Removing(u) /\ pc'[u] = pc[u] /\ gen'[u] = gen[u] /\ failed'[u] = failed[u]
      BY Zenon, <2>1 DEF Removing, Advances, Keeps, OthersKeep
    <3>4. \A u \in Threads : pc'[u] = "finishing" => Removing(u)'
      BY Zenon DEF Removing
    <3>5. \A u \in Threads : Removing(u) =>
             /\ gen[u] \in Generation /\ gen[u] # 0 /\ Doomed(disk, gen[u])
             /\ ~(s.gen = gen[u] /\ s.open)
             /\ pc[u] = "finishing" /\ ~failed[u] => gen[u] \notin dirs
      BY Zenon, <3>1, <1>a, <1>s DEF DeleteInv, DeleteOf, IInv
    <3> QED
      BY Zenon, <1>1, <1>a, <2>4, <3>2, <3>3, <3>4, <3>5 DEF DeleteInv, DeleteOf
  <2>11. AdmissionInv'
    <3>1. \A u \in Threads \ {t} : pc[u] \notin {"gate", "syncing", "commit"}
      BY Zenon, <1>a DEF LockInv, LockOf, IInv
    <3>2. \A u \in Threads : pc'[u] \notin {"gate", "syncing", "commit"}
      BY Zenon, <3>1, <2>1 DEF Advances, Keeps, OthersKeep
    <3>3. \A u \in Threads : Admitted(u)' => Admitted(u) /\ gen'[u] = gen[u]
      BY Zenon, <1>a, <2>1, KindOfStep DEF Admitted, Advances, Keeps, OthersKeep, IInv
    <3>4. \A u \in Threads : pc'[u] = "retain" =>
             pc[u] = "retain" /\ gen'[u] = gen[u] /\ item'[u] = item[u]
      BY Zenon, <2>1 DEF Advances, Keeps, OthersKeep
    <3> QED
      BY Zenon, <1>1, <1>a, <1>s, <3>2, <3>3, <3>4 DEF AdmissionInv, AdmissionOf, IInv
  <2>12. PromiseInv'
    <3>1. ASSUME NEW g \in Generation
          PROVE  ~Doomed(disk', g) => promised'[g] \subseteq synced'[g]
      <4>1. ~Doomed(disk', g) => ~Doomed(disk, g)
        BY Zenon, <1>1, <2>4
      <4>2. CASE g = gen[t]
        <5>1. promised'[g] = item[t]
          BY Zenon, <2>p, <4>2 DEF TypeOK, IInv
        <5> QED
          BY Zenon, <1>a, <1>c, <4>2, <5>1
      <4>3. CASE g # gen[t]
        <5>1. promised'[g] = promised[g]
          BY Zenon, <2>p, <4>3 DEF TypeOK, IInv
        <5> QED
          BY Zenon, <1>a, <4>1, <5>1 DEF PromiseInv, IInv
      <4> QED
        BY Zenon, <4>2, <4>3
    <3> QED
      BY Zenon, <1>a, <3>1 DEF PromiseInv, IInv
  <2>13. TokenInv'
    BY Zenon, <1>a, <1>c, <2>1, TokenFrame DEF IInv, Advances, Keeps
  <2> QED
    BY Zenon, <2>2, <2>4, <2>5, <2>6, <2>7, <2>8, <2>9, <2>10, <2>11, <2>12, <2>13 DEF IInv
<1>2. CASE /\ \/ latched /\ UNCHANGED <<disk, failures>>
              \/ ~latched /\ Fail /\ disk' \in {disk, r}
           /\ holder' = t /\ Goto(t, "latching") /\ UNCHANGED <<view, rec>>
  <2>1. Advances(t, "latching")
    BY Zenon, <1>2, <1>a, GotoAdvances DEF PC, IInv
  <2>2. promised' = promised
    BY Zenon, <1>2 DEF CommitRetained
  <2> QED
    BY Zenon, <1>2, <1>a, <1>b, <1>n, <2>1, <2>2, FailedPut
       DEF Writers, Advances, Keeps, Locals, TypeOK, IInv
<1> QED
  BY Zenon, <1>1, <1>2 DEF CommitRetained, PutRecord, r, s

LEMMA WriteOrphanedStep ==
    ASSUME IInv, NEW t \in Threads, WriteOrphaned(t)
    PROVE  IInv' /\ Written
<1>a. /\ pc[t] = "orphan" /\ holder = NoThread /\ kind[t] = "start" /\ ~latched
      /\ UNCHANGED <<catalog, dirs, store, synced, latched, token, born, promised, crashes, accesses>>
      /\ Locals(t)
  BY Zenon, KindOfStep DEF WriteOrphaned, history, LockInv, LockOf, IInv
<1> DEFINE r == Moved(view, "orphaned", "orphaned_at")
           s == Reconciled(gen[t], "orphaned")
<1>c. /\ \A u \in Threads : u # t => kind[u] = "none" /\ pc[u] = "idle"
      /\ token = 0 /\ catalog = "ready"
  BY Zenon, <1>a, KindOfStep DEF LockInv, LockOf, SyncInv, IInv
<1>v. /\ view.gen = gen[t] /\ view.state = "active" /\ gen[t] \in dirs /\ disk = view
  BY Zenon, <1>a, InStep DEF SyncInv, IInv
<1>w. view # NoRecord /\ gen[t] \in Generation
  BY <1>v DEF NoRecord, TypeOK, IInv
<1>b. Fits(r)
  BY Zenon, <1>v, <1>w, MovedFits DEF LifecycleState, Mark
<1>r. r.gen = gen[t] /\ r.state = "orphaned"
  BY Zenon, <1>v, <1>w, MovedView DEF LifecycleState, Mark
<1>s. /\ s \in SessionRecord
      /\ s.gen = gen[t] /\ s.phase = "Active" /\ s.open /\ s.lifecycle = "orphaned"
  BY <1>w DEF Reconciled, SessionRecord, LifecycleState, Generation
<1>z. Written
  BY Zenon, <1>b DEF WriteOrphaned, PutRecord, Written, Fits
<1> HIDE DEF r, s
<1> SUFFICES IInv'
  BY Zenon, <1>z
<1>1. CASE /\ ~latched /\ disk' = r /\ view' = r /\ rec' = s
           /\ Goto(t, "done") /\ UNCHANGED <<failures, holder>>
  <2>1. Returns(t)
    BY Zenon, <1>1, <1>a, GotoDone DEF IInv
  <2>2. TypeOK'
    BY Zenon, <1>1, <1>a, <1>b, <1>s, <2>1, PutType DEF Returns, Fits, TypeOK, IInv
  <2>3. Puts(t, r)
    BY Zenon, <1>1, <1>a, <2>1 DEF Puts, Returns
  <2>4. CatalogMatchesDisk' /\ PromiseInv' /\ Readable(view') /\ r.gen <= born
    BY Zenon, <1>a, <1>b, <2>2, <2>3, PutsFacts DEF Writers
  <2>5. \A u \in Threads : kind'[u] = "none" /\ pc'[u] = "idle"
    BY Zenon, <1>c, <2>1 DEF Returns, OthersKeep
  <2>6. holder' = NoThread /\ node' = "up" /\ token' = 0 /\ catalog' = "ready" /\ view' = disk'
    BY Zenon, <1>1, <1>a, <1>c, <2>1 DEF Returns
  <2>7. ControlInv'
    BY Zenon, <2>5, <2>6, IdleInv
  <2>7b. LockInv'
    BY Zenon, <2>5, <2>6, IdleInv
  <2>7c. CreateInv'
    BY Zenon, <2>5, <2>6, IdleInv
  <2>7d. DeleteInv'
    BY Zenon, <2>5, <2>6, IdleInv
  <2>7e. AdmissionInv'
    BY Zenon, <2>5, <2>6, IdleInv
  <2>7f. TokenInv'
    BY Zenon, <2>5, <2>6, IdleInv
  <2>8. SyncInv'
    BY Zenon, <2>4, <2>5, <2>6 DEF SyncInv
  <2>9. RecordInv'
    <3>1. NoSession.phase = "None" /\ gen[t] # 0
      BY <1>w DEF NoSession, Generation
    <3> QED
      BY Zenon, <1>1, <1>a, <1>r, <1>s, <1>v, <2>4, <3>1 DEF RecordInv
  <2> QED
    BY Zenon, <2>2, <2>4, <2>7, <2>7b, <2>7c, <2>7d, <2>7e, <2>7f, <2>8, <2>9 DEF IInv
<1>2. CASE /\ \/ latched /\ UNCHANGED <<disk, failures>>
              \/ ~latched /\ Fail /\ disk' \in {disk, r}
           /\ holder' = t /\ Goto(t, "latching") /\ UNCHANGED <<view, rec>>
  <2>1. Advances(t, "latching")
    BY Zenon, <1>2, <1>a, GotoAdvances DEF PC, IInv
  <2>2. \A u \in Threads \ {t} : ~Creating(u)
    BY Zenon, <1>c DEF Creating
  <2> QED
    BY Zenon, <1>2, <1>a, <1>b, <2>1, <2>2, FailedPut DEF Writers, Advances, Keeps, Locals, TypeOK, IInv
<1> QED
  BY Zenon, <1>1, <1>2 DEF WriteOrphaned, PutRecord, r, s
=============================================================================
