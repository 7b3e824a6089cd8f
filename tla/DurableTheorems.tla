---------------------------- MODULE DurableTheorems ----------------------------
(***************************************************************************)
(* The steps of DurableSession that do not write the catalog, and what     *)
(* follows from the inductive invariant of DurableProofs.                  *)
(***************************************************************************)
EXTENDS DurableProofs

-----------------------------------------------------------------------------
(* The other steps of CreateSession.                                        *)

\* The types that a step of an operation can disturb beside its control.
LEMMA StepType ==
    ASSUME TypeOK, CallType', dirs' \subseteq Generation, rec' \in SessionRecord,
           store' \in [Generation -> SUBSET Items], synced' \in [Generation -> SUBSET Items],
           token' \in 0 .. MaxGeneration, holder' \in Threads \union {NoThread},
           failures' = failures \/ Fail,
           UNCHANGED <<catalog, disk, view, latched, born, promised, crashes, accesses>>
    PROVE  TypeOK'
<1>1. failures' \in 0 .. MaxFailures
  BY BoundsAssumption DEF Fail, TypeOK
<1> QED
  BY Zenon, <1>1 DEF TypeOK, CallType

LEMMA CreateSessionStep ==
    ASSUME IInv, NEW t \in Threads, CreateSession(t)
    PROVE  IInv'
<1>a. /\ kind[t] = "none" /\ node = "up" /\ ~latched /\ rec = NoSession
      /\ view.state \in {"none", "deleted"} /\ born < MaxGeneration
      /\ UNCHANGED <<node, catalog, disk, dirs, store, synced, view, latched, token, holder, promised>>
      /\ UNCHANGED <<item, failed, crashes, failures, accesses>>
      /\ born' = born + 1 /\ gen' = [gen EXCEPT ![t] = born + 1]
  BY Zenon DEF CreateSession, Call, durable, counters
<1>b. /\ kind' = [kind EXCEPT ![t] = "create"]
      /\ pc' = [pc EXCEPT ![t] = "active"] \/ pc' = [pc EXCEPT ![t] = "rollback"]
  BY Zenon DEF CreateSession, Call
<1>c. born \in Nat /\ born + 1 \in 0 .. MaxGeneration /\ born + 1 # 0
  BY <1>a, BoundsAssumption DEF TypeOK, IInv
<1>d. /\ rec'.gen = born + 1 /\ rec'.phase = "Creating" /\ rec'.lifecycle = "active"
      /\ ~rec'.reconciled /\ ~rec'.open /\ rec' \in SessionRecord
  BY Zenon, <1>c DEF CreateSession, NoSession, SessionRecord, LifecycleState
<1>e. /\ CallType' /\ OthersKeep(t) /\ kind'[t] = "create" /\ pc'[t] \in {"active", "rollback"}
      /\ gen'[t] = born + 1 /\ pc[t] = "idle"
  <2>1. kind \in [Threads -> Kind] /\ pc \in [Threads -> PC] /\ gen \in [Threads -> 0 .. MaxGeneration]
    BY Zenon DEF TypeOK, CallType, IInv
  <2>2. "create" \in Kind /\ {"active", "rollback"} \subseteq PC
    BY Zenon DEF Kind, PC
  <2>3. CallType'
    BY Zenon, <1>a, <1>b, <1>c, <2>1, <2>2 DEF CallType, TypeOK, IInv
  <2>4. OthersKeep(t)
    BY Zenon, <1>a, <1>b, <2>1 DEF OthersKeep
  <2>5. kind'[t] = "create" /\ pc'[t] \in {"active", "rollback"} /\ gen'[t] = born + 1
    BY Zenon, <1>a, <1>b, <2>1
  <2>6. pc[t] = "idle"
    BY Zenon, <1>a, KindOfStep DEF IInv
  <2> QED
    BY Zenon, <2>3, <2>4, <2>5, <2>6
<1>f. /\ NoSession.gen = 0 /\ NoSession.phase = "None" /\ ~NoSession.open
  BY Zenon DEF NoSession
<1>g. \A u \in Threads : ~Creating(u) /\ ~Closing(u) /\ ~Admitted(u)
  BY Zenon, <1>a, <1>f DEF CreateInv, CreateOf, DeleteInv, DeleteOf, AdmissionInv, AdmissionOf, IInv
<1>1. TypeOK'
  BY Zenon, <1>a, <1>d, <1>e DEF TypeOK, CallType, IInv
<1>2. CatalogMatchesDisk'
  BY Zenon, <1>1, <1>a DEF CatalogMatchesDisk, IInv
<1>2b. PromiseInv'
  BY Zenon, <1>a DEF PromiseInv, IInv
<1>3. ControlInv'
  <2>1. ControlOf(t)'
    BY Zenon, <1>a, <1>e DEF ControlOf
  <2> QED
    BY Zenon, <1>e, <2>1, ControlFrame DEF IInv
<1>s. \A u \in Threads : kind'[u] # "start"
  BY Zenon, <1>a, <1>e DEF LockInv, LockOf, IInv, OthersKeep
<1>4. LockInv'
  <2>1. LockOf(t) /\ \A u \in Threads : kind[u] # "start"
    BY Zenon, <1>a DEF LockInv, LockOf, IInv
  <2>2. LockOf(t)'
    BY Zenon, <1>a, <1>e, <1>g, <2>1, NoThreadAssumption DEF LockOf, InGate
  <2>3. /\ \A u \in Threads \ {t} : holder' = u <=> holder = u
        /\ Creating(t)' => \A u \in Threads \ {t} : ~Creating(u)
        /\ Closing(t)' => \A u \in Threads \ {t} : ~Closing(u)
    BY Zenon, <1>a, <1>e, <1>g, NoThreadAssumption DEF Creating, Closing, LockInv, IInv
  <2> QED
    BY Zenon, <1>a, <1>e, <2>1, <2>2, <2>3, LockFrame DEF IInv
<1>5. SyncInv'
  <2>1. node # "down" /\ \A u \in Threads : kind[u] # "start"
    BY Zenon, <1>a DEF LockInv, LockOf, IInv
  <2> QED
    BY Zenon, <1>a, <1>e, <2>1, SyncFrame DEF IInv
<1>6. RecordInv'
  <2>1. view.gen \in Nat /\ disk.gen \in Nat
    BY DEF TypeOK, CatalogRecord, NoRecord, Generation, IInv
  <2> QED
    BY <1>c, <1>d, <2>1, <1>a DEF RecordInv, IInv
<1>7. CreateInv'
  <2>1. view.gen < born + 1
    <3>1. view.gen \in Nat
      BY DEF TypeOK, CatalogRecord, NoRecord, Generation, IInv
    <3> QED
      BY <1>c, <3>1 DEF RecordInv, IInv
  <2> QED
    BY <1>c, <1>d, <2>1, <1>a, <1>e, <1>g DEF CreateInv, CreateOf, Creating, OthersKeep
<1>8. DeleteInv'
  BY <1>d, <1>a, <1>e, <1>g DEF DeleteInv, DeleteOf, Closing, Removing, IInv, OthersKeep
<1>9. AdmissionInv'
  BY KindOfStep, <1>e, <1>g DEF AdmissionInv, AdmissionOf, Admitted, IInv, OthersKeep
<1>10. TokenInv'
  BY Zenon, <1>a, <1>f, <1>e, TokenFrame DEF IInv
<1> QED
  BY Zenon, <1>1, <1>2, <1>2b, <1>3, <1>4, <1>5, <1>6, <1>7, <1>8, <1>9, <1>10 DEF IInv

LEMMA OpenStoreStep ==
    ASSUME IInv, NEW t \in Threads, OpenStore(t)
    PROVE  IInv'
<1>a. /\ pc[t] = "opening" /\ kind[t] = "create" /\ Creating(t) /\ ~latched
      /\ UNCHANGED <<catalog, disk, store, synced, view, latched, token, holder, born, promised>>
      /\ UNCHANGED <<crashes, accesses>> /\ Locals(t)
  BY Zenon, KindOfStep DEF OpenStore, Creating, history, LockInv, LockOf, InGate, IInv
<1>b. \/ /\ Advances(t, "activate") /\ dirs' = dirs \union {gen[t]}
         /\ rec' = [rec EXCEPT !.open = TRUE] /\ failures' = failures
      \/ /\ Advances(t, "deleting") /\ dirs' \in {dirs, dirs \union {gen[t]}}
         /\ rec' = rec /\ Fail
  BY Zenon, <1>a, GotoAdvances DEF OpenStore, PC, IInv
<1>c. /\ gen[t] \in Generation /\ \A u \in Threads \ {t} : ~Creating(u)
      /\ view = ActiveRecord(gen[t]) /\ disk = view
      /\ rec.phase = "Creating" /\ rec.gen = gen[t] /\ ~rec.open
  BY <1>a DEF CreateInv, CreateOf, LockInv, LockOf, TypeOK, Generation, IInv
<1>v. view.gen = gen[t] /\ view.state = "active"
  BY Zenon, <1>c DEF ActiveRecord
<1>d. /\ rec'.gen = rec.gen /\ rec'.phase = rec.phase /\ rec'.lifecycle = rec.lifecycle
      /\ rec'.reconciled = rec.reconciled /\ rec' \in SessionRecord
      /\ rec'.open <=> pc'[t] = "activate"
      /\ rec'.open => gen[t] \in dirs'
  BY Zenon, <1>b, <1>c DEF TypeOK, SessionRecord, Advances, IInv
<1>e. /\ CallType' /\ OthersKeep(t) /\ pc'[t] \in {"activate", "deleting"}
      /\ kind'[t] = kind[t] /\ node' = node /\ gen'[t] = gen[t]
      /\ dirs \subseteq dirs' /\ dirs' \subseteq dirs \union {gen[t]}
  BY Zenon, <1>b DEF Advances, Keeps
<1>n. /\ \A u \in Threads : ~Admitted(u) /\ ~Closing(u) /\ kind[u] # "start"
      /\ \A u \in Threads : Removing(u) => gen[u] # gen[t]
  <2>1. \A u \in Threads : ~Admitted(u) /\ ~Closing(u) /\ kind[u] # "start"
    BY Zenon, <1>a, <1>c DEF AdmissionInv, AdmissionOf, DeleteInv, DeleteOf, LockInv, LockOf, IInv
  <2>2. ~Doomed(view, gen[t])
    BY <1>c, <1>v DEF Doomed, Generation
  <2> QED
    BY Zenon, <2>1, <2>2 DEF DeleteInv, DeleteOf, IInv
<1>1. TypeOK'
  BY Zenon, <1>a, <1>b, <1>c, <1>d, <1>e, StepType DEF TypeOK, IInv
<1>2. CatalogMatchesDisk' /\ PromiseInv'
  <2>1. catalog = "ready"
    BY Zenon, <1>a DEF LockInv, LockOf, SyncInv, IInv
  <2> QED
    BY Zenon, <1>1, <1>v, <2>1, <1>a, <1>c, <1>e DEF CatalogMatchesDisk, PromiseInv, IInv
<1>3. ControlInv'
  <2>1. ControlOf(t)'
    BY Zenon, <1>a, <1>e DEF ControlOf
  <2> QED
    BY Zenon, <1>e, <2>1, ControlFrame DEF IInv
<1>4. LockInv'
  <2>1. LockOf(t) /\ \A u \in Threads : kind[u] # "start"
    BY Zenon, <1>a DEF LockInv, LockOf, IInv
  <2>2. LockOf(t)'
    BY Zenon, <1>a, <1>e, <2>1, NoThreadAssumption DEF LockOf, InGate
  <2>3. /\ \A u \in Threads \ {t} : holder' = u <=> holder = u
        /\ Creating(t)' => \A u \in Threads \ {t} : ~Creating(u)
        /\ Closing(t)' => \A u \in Threads \ {t} : ~Closing(u)
    BY Zenon, <1>a, <1>e, NoThreadAssumption DEF Creating, Closing, LockInv, IInv
  <2> QED
    BY Zenon, <1>a, <1>e, <2>1, <2>2, <2>3, LockFrame DEF IInv
<1>5. SyncInv'
  <2>1. node # "down" /\ \A u \in Threads : kind[u] # "start"
    BY Zenon, <1>a DEF LockInv, LockOf, IInv
  <2> QED
    BY Zenon, <1>a, <1>e, <2>1, SyncFrame DEF IInv
<1>6. RecordInv' /\ CreateInv'
  <2>1. NoSession.phase = "None"
    BY Zenon DEF NoSession
  <2> QED
    BY <1>d, <2>1, <1>a, <1>c, <1>e DEF RecordInv, CreateInv, CreateOf, Creating, IInv, OthersKeep
<1>7. DeleteInv'
  <2>1. \A u \in Threads : Removing(u)' => Removing(u) /\ u # t
    BY Zenon, <1>e DEF Removing, OthersKeep
  <2>2. \A u \in Threads : ~Closing(u)'
    BY Zenon, <1>e, <1>n DEF Closing, OthersKeep
  <2>3. \A u \in Threads : pc'[u] = "finishing" => Removing(u)
    BY Zenon, <1>e DEF Removing, OthersKeep
  <2>4. ASSUME NEW u \in Threads, Removing(u), u # t
        PROVE  /\ gen[u] # 0 /\ Doomed(view, gen[u]) /\ Doomed(disk, gen[u])
               /\ gen[u] # gen[t] /\ (pc[u] = "finishing" /\ ~failed[u] => gen[u] \notin dirs)
    BY Zenon, <2>4, <1>a, <1>n DEF DeleteInv, DeleteOf, IInv
  <2> QED
    BY <1>d, <2>1, <2>2, <2>3, <2>4, <1>a, <1>c, <1>e DEF DeleteInv, DeleteOf, OthersKeep
<1>8. AdmissionInv'
  BY Zenon, <1>a, <1>c, <1>e DEF AdmissionInv, AdmissionOf, Admitted, IInv, OthersKeep
<1>9. TokenInv'
  BY Zenon, <1>a, <1>c, <1>e, TokenFrame DEF IInv
<1> QED
  BY Zenon, <1>1, <1>2, <1>3, <1>4, <1>5, <1>6, <1>7, <1>8, <1>9 DEF IInv

LEMMA RollbackStep ==
    ASSUME IInv, NEW t \in Threads, Rollback(t)
    PROVE  IInv'
<1>a. /\ pc[t] = "rollback" /\ kind[t] = "create" /\ Creating(t)
      /\ UNCHANGED <<catalog, disk, dirs, store, synced, view, latched, token, holder, born, promised>>
      /\ UNCHANGED <<crashes, failures, accesses>> /\ Returns(t)
  BY Zenon, KindOfStep, ReturnReturns DEF Rollback, Creating, durable, history, counters, IInv
<1>b. /\ \A u \in Threads \ {t} : ~Creating(u)
      /\ rec.phase = "Creating" /\ rec' = NoSession
  BY Zenon, <1>a DEF CreateInv, CreateOf, LockInv, LockOf, Rollback, IInv
<1>c. /\ NoSession.gen = 0 /\ NoSession.phase = "None" /\ ~NoSession.open
      /\ NoSession \in SessionRecord
  BY BoundsAssumption DEF NoSession, SessionRecord, LifecycleState
<1>n. \A u \in Threads : ~Admitted(u) /\ ~Closing(u) /\ kind[u] # "start"
  BY Zenon, <1>a, <1>b DEF AdmissionInv, AdmissionOf, DeleteInv, DeleteOf, LockInv, LockOf, IInv
<1>e. /\ CallType' /\ OthersKeep(t) /\ pc'[t] = "idle" /\ kind'[t] = "none" /\ node' = node
  BY Zenon, <1>a DEF Returns
<1>1. TypeOK'
  BY Zenon, <1>a, <1>b, <1>c, <1>e, StepType DEF TypeOK, IInv
<1>2. CatalogMatchesDisk'
  BY Zenon, <1>a, <1>1 DEF CatalogMatchesDisk, IInv
<1>2b. PromiseInv'
  BY Zenon, <1>a DEF PromiseInv, IInv
<1>3. ControlInv'
  <2>1. ControlOf(t)'
    BY Zenon, <1>a, <1>e DEF ControlOf
  <2> QED
    BY Zenon, <1>e, <2>1, ControlFrame DEF IInv
<1>4. LockInv'
  <2>1. LockOf(t) /\ \A u \in Threads : kind[u] # "start"
    BY Zenon, <1>a DEF LockInv, LockOf, IInv
  <2>2. LockOf(t)'
    BY Zenon, <1>a, <1>e, <2>1, NoThreadAssumption DEF LockOf, InGate
  <2>3. /\ \A u \in Threads \ {t} : holder' = u <=> holder = u
        /\ Creating(t)' => \A u \in Threads \ {t} : ~Creating(u)
        /\ Closing(t)' => \A u \in Threads \ {t} : ~Closing(u)
    BY Zenon, <1>a, <1>e, NoThreadAssumption DEF Creating, Closing, LockInv, IInv
  <2> QED
    BY Zenon, <1>a, <1>e, <2>1, <2>2, <2>3, LockFrame DEF IInv
<1>5. SyncInv'
  <2>1. node # "down" /\ \A u \in Threads : kind[u] # "start"
    BY Zenon, <1>a DEF LockInv, LockOf, IInv
  <2> QED
    BY Zenon, <1>a, <1>e, <2>1, SyncFrame DEF IInv
<1>6. RecordInv'
  BY <1>a, <1>b, <1>c DEF RecordInv, TypeOK, IInv
<1>6b. CreateInv'
  BY Zenon, <1>b, <1>e DEF CreateInv, CreateOf, Creating, OthersKeep
<1>7. DeleteInv'
  BY Zenon, <1>a, <1>c, <1>b, <1>e, <1>n DEF DeleteInv, DeleteOf, Closing, Removing, IInv, OthersKeep
<1>8. AdmissionInv'
  BY <1>e, <1>n, KindOfStep DEF AdmissionInv, AdmissionOf, Admitted, IInv, OthersKeep
<1>9. TokenInv'
  BY Zenon, <1>a, <1>b, <1>e, TokenFrame DEF IInv
<1> QED
  BY Zenon, <1>1, <1>2, <1>2b, <1>3, <1>4, <1>5, <1>6, <1>6b, <1>7, <1>8, <1>9 DEF IInv

LEMMA ActivateSessionStep ==
    ASSUME IInv, NEW t \in Threads, ActivateSession(t)
    PROVE  IInv'
<1>a. /\ pc[t] = "activate" /\ kind[t] = "create" /\ Creating(t)
      /\ UNCHANGED <<catalog, disk, dirs, store, synced, view, latched, token, holder, born, promised>>
      /\ UNCHANGED <<crashes, failures, accesses>> /\ Advances(t, "announce")
  BY Zenon, KindOfStep, GotoAdvances
     DEF ActivateSession, Creating, durable, history, counters, PC, IInv
<1>b. /\ \A u \in Threads \ {t} : ~Creating(u)
      /\ view = ActiveRecord(gen[t]) /\ disk = view
      /\ rec.phase = "Creating" /\ rec.gen = gen[t] /\ rec.open
      /\ rec.lifecycle = "active" /\ ~rec.reconciled
  BY Zenon, <1>a DEF CreateInv, CreateOf, LockInv, LockOf, RecordInv, IInv
<1>c. /\ rec'.gen = rec.gen /\ rec'.phase = "Active" /\ rec'.lifecycle = "active"
      /\ ~rec'.reconciled /\ rec'.open /\ rec' \in SessionRecord
  BY Zenon, <1>b DEF ActivateSession, TypeOK, SessionRecord, IInv
<1>v. view.gen = gen[t] /\ view.state = "active"
  BY Zenon, <1>b DEF ActiveRecord
<1>n. \A u \in Threads : ~Admitted(u) /\ ~Closing(u) /\ kind[u] # "start"
  BY Zenon, <1>a, <1>b DEF AdmissionInv, AdmissionOf, DeleteInv, DeleteOf, LockInv, LockOf, IInv
<1>e. /\ CallType' /\ OthersKeep(t) /\ pc'[t] = "announce" /\ kind'[t] = "create" /\ node' = node
      /\ gen'[t] = gen[t]
  BY Zenon, <1>a DEF Advances, Keeps
<1>1. TypeOK'
  BY Zenon, <1>a, <1>c, <1>e, StepType DEF TypeOK, IInv
<1>2. CatalogMatchesDisk'
  BY Zenon, <1>a, <1>1 DEF CatalogMatchesDisk, IInv
<1>2b. PromiseInv'
  BY Zenon, <1>a DEF PromiseInv, IInv
<1>3. ControlInv'
  <2>1. ControlOf(t)'
    BY Zenon, <1>a, <1>e DEF ControlOf
  <2> QED
    BY Zenon, <1>e, <2>1, ControlFrame DEF IInv
<1>4. LockInv'
  <2>1. LockOf(t) /\ \A u \in Threads : kind[u] # "start"
    BY Zenon, <1>a DEF LockInv, LockOf, IInv
  <2>2. LockOf(t)'
    BY Zenon, <1>a, <1>e, <2>1, NoThreadAssumption DEF LockOf, InGate
  <2>3. /\ \A u \in Threads \ {t} : holder' = u <=> holder = u
        /\ Creating(t)' => \A u \in Threads \ {t} : ~Creating(u)
        /\ Closing(t)' => \A u \in Threads \ {t} : ~Closing(u)
    BY Zenon, <1>a, <1>e, NoThreadAssumption DEF Creating, Closing, LockInv, IInv
  <2> QED
    BY Zenon, <1>a, <1>e, <2>1, <2>2, <2>3, LockFrame DEF IInv
<1>5. SyncInv'
  <2>1. node # "down" /\ \A u \in Threads : kind[u] # "start"
    BY Zenon, <1>a DEF LockInv, LockOf, IInv
  <2> QED
    BY Zenon, <1>a, <1>e, <2>1, SyncFrame DEF IInv
<1>6. RecordInv' /\ CreateInv'
  <2>1. NoSession.phase = "None"
    BY Zenon DEF NoSession
  <2> QED
    BY <1>a, <1>b, <1>c, <1>e, <1>v, <2>1 DEF RecordInv, CreateInv, CreateOf, Creating, IInv, OthersKeep
<1>7. DeleteInv'
  <2>1. \A u \in Threads : Removing(u) => gen[u] # rec.gen
    <3>1. ~Doomed(view, gen[t])
      BY <1>v DEF Doomed, TypeOK, IInv
    <3> QED
      BY Zenon, <1>b DEF DeleteInv, DeleteOf, IInv
  <2> QED
    BY <1>a, <1>c, <1>e, <1>n, <2>1 DEF DeleteInv, DeleteOf, Closing, Removing, IInv, OthersKeep
<1>8. AdmissionInv'
  BY <1>e, <1>n, KindOfStep DEF AdmissionInv, AdmissionOf, Admitted, IInv, OthersKeep
<1>9. TokenInv'
  BY Zenon, <1>a, <1>b, <1>e, TokenFrame DEF IInv
<1> QED
  BY Zenon, <1>1, <1>2, <1>2b, <1>3, <1>4, <1>5, <1>6, <1>7, <1>8, <1>9 DEF IInv

-----------------------------------------------------------------------------
(* The liveliness token, and the steps of CloseSession and RetainSession.   *)

LEMMA DeclareTokenStep ==
    ASSUME IInv, NEW t \in Threads, DeclareToken(t)
    PROVE  IInv'
<1>a. /\ pc[t] = "announcing" /\ kind[t] = "create"
      /\ UNCHANGED <<catalog, disk, dirs, store, synced, view, latched, rec, holder, born, promised>>
      /\ UNCHANGED <<crashes, failures, accesses>> /\ token' \in {token, gen[t]}
  BY Zenon, KindOfStep DEF DeclareToken, durable, history, counters, IInv
<1>e. /\ CallType' /\ OthersKeep(t) /\ pc'[t] = "idle" /\ kind'[t] = "none" /\ node' = node
  BY Zenon, <1>a, ReturnReturns DEF DeclareToken, Returns, IInv
<1>n. \A u \in Threads : kind[u] # "start"
  BY Zenon, <1>a DEF LockInv, LockOf, IInv
<1>1. TypeOK'
  BY Zenon, <1>a, <1>e, StepType DEF TypeOK, IInv
<1>2. CatalogMatchesDisk'
  BY Zenon, <1>a, <1>1 DEF CatalogMatchesDisk, IInv
<1>2b. PromiseInv'
  BY Zenon, <1>a DEF PromiseInv, IInv
<1>2c. RecordInv'
  BY Zenon, <1>a DEF RecordInv, IInv
<1>3. ControlInv'
  <2>1. ControlOf(t)'
    BY Zenon, <1>a, <1>e DEF ControlOf
  <2> QED
    BY Zenon, <1>e, <2>1, ControlFrame DEF IInv
<1>4. LockInv'
  <2>1. LockOf(t) /\ \A u \in Threads : kind[u] # "start"
    BY Zenon, <1>a DEF LockInv, LockOf, IInv
  <2>2. LockOf(t)'
    BY Zenon, <1>a, <1>e, <2>1, NoThreadAssumption DEF LockOf, InGate
  <2>3. /\ \A u \in Threads \ {t} : holder' = u <=> holder = u
        /\ Creating(t)' => \A u \in Threads \ {t} : ~Creating(u)
        /\ Closing(t)' => \A u \in Threads \ {t} : ~Closing(u)
    BY Zenon, <1>a, <1>e, NoThreadAssumption DEF Creating, Closing, LockInv, IInv
  <2> QED
    BY Zenon, <1>a, <1>e, <2>1, <2>2, <2>3, LockFrame DEF IInv
<1>5. SyncInv'
  <2>1. node # "down" /\ \A u \in Threads : kind[u] # "start"
    BY Zenon, <1>a DEF LockInv, LockOf, IInv
  <2> QED
    BY Zenon, <1>a, <1>e, <2>1, SyncFrame DEF IInv
<1>6. CreateInv'
  <2>1. CreateOf(t)
    BY Zenon DEF CreateInv, IInv
  <2>2. CreateOf(t)'
    BY Zenon, <1>a, <1>e, <2>1 DEF CreateOf, Creating
  <2> QED
    BY Zenon, <1>a, <1>e, <2>2, CreateFrame DEF IInv
<1>6b. DeleteInv'
  <2>1. DeleteOf(t)
    BY Zenon DEF DeleteInv, IInv
  <2>2. DeleteOf(t)'
    BY Zenon, <1>a, <1>e, <2>1 DEF DeleteOf, Closing, Removing
  <2> QED
    BY Zenon, <1>a, <1>e, <2>2, DeleteFrame DEF IInv
<1>7. AdmissionInv'
  <2>1. AdmissionOf(t)
    BY Zenon DEF AdmissionInv, IInv
  <2>2. AdmissionOf(t)'
    BY Zenon, <1>a, <1>e, <2>1 DEF AdmissionOf, Admitted
  <2> QED
    BY Zenon, <1>a, <1>e, <2>2, AdmissionFrame DEF IInv
<1>8. TokenInv'
  BY Zenon, <1>a, <1>e, TokenFrame DEF IInv
<1> QED
  BY Zenon, <1>1, <1>2, <1>2b, <1>2c, <1>3, <1>4, <1>5, <1>6, <1>6b, <1>7, <1>8 DEF IInv

LEMMA WithdrawClosedStep ==
    ASSUME IInv, NEW t \in Threads, WithdrawClosed(t)
    PROVE  IInv'
<1>a. /\ pc[t] = "token" /\ kind[t] = "close"
      /\ UNCHANGED <<catalog, disk, dirs, store, synced, view, latched, rec, holder, born, promised>>
      /\ UNCHANGED <<crashes, failures, accesses>>
      /\ token' = IF token = gen[t] THEN 0 ELSE token
      /\ \A u \in Threads : pc[u] = "announcing" => gen[u] # gen[t]
  BY Zenon, KindOfStep
     DEF WithdrawClosed, WithdrawToken, Announcing, durable, history, counters, IInv
<1>e. /\ CallType' /\ OthersKeep(t) /\ pc'[t] = "drain" /\ kind'[t] = "close" /\ node' = node
      /\ gen'[t] = gen[t] /\ item'[t] = item[t] /\ failed'[t] = failed[t]
  BY Zenon, <1>a, GotoAdvances DEF WithdrawClosed, Advances, Keeps, PC, IInv
<1>n. \A u \in Threads : kind[u] # "start"
  BY Zenon, <1>a DEF LockInv, LockOf, IInv
<1>1. TypeOK'
  BY <1>a, <1>e, StepType, BoundsAssumption DEF TypeOK, IInv
<1>2. CatalogMatchesDisk'
  BY Zenon, <1>a, <1>1 DEF CatalogMatchesDisk, IInv
<1>2b. PromiseInv'
  BY Zenon, <1>a DEF PromiseInv, IInv
<1>2c. RecordInv'
  BY Zenon, <1>a DEF RecordInv, IInv
<1>3. ControlInv'
  <2>1. ControlOf(t)'
    BY Zenon, <1>a, <1>e DEF ControlOf
  <2> QED
    BY Zenon, <1>e, <2>1, ControlFrame DEF IInv
<1>4. LockInv'
  <2>1. LockOf(t) /\ \A u \in Threads : kind[u] # "start"
    BY Zenon, <1>a DEF LockInv, LockOf, IInv
  <2>2. LockOf(t)'
    BY Zenon, <1>a, <1>e, <2>1, NoThreadAssumption DEF LockOf, InGate
  <2>3. /\ \A u \in Threads \ {t} : holder' = u <=> holder = u
        /\ Creating(t)' => \A u \in Threads \ {t} : ~Creating(u)
        /\ Closing(t)' => \A u \in Threads \ {t} : ~Closing(u)
    BY Zenon, <1>a, <1>e, NoThreadAssumption DEF Creating, Closing, LockInv, IInv
  <2> QED
    BY Zenon, <1>a, <1>e, <2>1, <2>2, <2>3, LockFrame DEF IInv
<1>5. SyncInv'
  <2>1. node # "down" /\ \A u \in Threads : kind[u] # "start"
    BY Zenon, <1>a DEF LockInv, LockOf, IInv
  <2> QED
    BY Zenon, <1>a, <1>e, <2>1, SyncFrame DEF IInv
<1>6. CreateInv'
  <2>1. CreateOf(t)
    BY Zenon DEF CreateInv, IInv
  <2>2. CreateOf(t)'
    BY Zenon, <1>a, <1>e, <2>1 DEF CreateOf, Creating
  <2> QED
    BY Zenon, <1>a, <1>e, <2>2, CreateFrame DEF IInv
<1>6b. DeleteInv'
  <2>1. DeleteOf(t)
    BY Zenon DEF DeleteInv, IInv
  <2>2. DeleteOf(t)'
    BY Zenon, <1>a, <1>e, <2>1 DEF DeleteOf, Closing, Removing
  <2> QED
    BY Zenon, <1>a, <1>e, <2>2, DeleteFrame DEF IInv
<1>7. AdmissionInv'
  <2>1. AdmissionOf(t)
    BY Zenon DEF AdmissionInv, IInv
  <2>2. AdmissionOf(t)'
    BY Zenon, <1>a, <1>e, <2>1 DEF AdmissionOf, Admitted
  <2> QED
    BY Zenon, <1>a, <1>e, <2>2, AdmissionFrame DEF IInv
<1>8. TokenInv'
  BY Zenon, <1>a, <1>e, TokenFrame DEF IInv
<1> QED
  BY Zenon, <1>1, <1>2, <1>2b, <1>2c, <1>3, <1>4, <1>5, <1>6, <1>6b, <1>7, <1>8 DEF IInv

LEMMA WithdrawRetainedStep ==
    ASSUME IInv, NEW t \in Threads, WithdrawRetained(t)
    PROVE  IInv'
<1>a. /\ pc[t] = "withdraw" /\ kind[t] = "retain" /\ holder = t /\ holder' = NoThread
      /\ UNCHANGED <<catalog, disk, dirs, store, synced, view, latched, rec, born, promised>>
      /\ UNCHANGED <<crashes, failures, accesses>>
      /\ token' = IF token = gen[t] THEN 0 ELSE token
      /\ \A u \in Threads : pc[u] = "announcing" => gen[u] # gen[t]
  BY Zenon, KindOfStep
     DEF WithdrawRetained, WithdrawToken, Announcing, durable, history, counters, LockInv, LockOf, IInv
<1>e. /\ CallType' /\ OthersKeep(t) /\ pc'[t] = "idle" /\ kind'[t] = "none" /\ node' = node
  BY Zenon, <1>a, ReturnReturns DEF WithdrawRetained, Returns, IInv
<1>n. \A u \in Threads : kind[u] # "start"
  BY Zenon, <1>a DEF LockInv, LockOf, IInv
<1>1. TypeOK'
  BY <1>a, <1>e, StepType, BoundsAssumption DEF TypeOK, IInv
<1>2. CatalogMatchesDisk'
  BY Zenon, <1>a, <1>1 DEF CatalogMatchesDisk, IInv
<1>2b. PromiseInv'
  BY Zenon, <1>a DEF PromiseInv, IInv
<1>2c. RecordInv'
  BY Zenon, <1>a DEF RecordInv, IInv
<1>3. ControlInv'
  <2>1. ControlOf(t)'
    BY Zenon, <1>a, <1>e DEF ControlOf
  <2> QED
    BY Zenon, <1>e, <2>1, ControlFrame DEF IInv
<1>4. LockInv'
  <2>1. LockOf(t) /\ \A u \in Threads : kind[u] # "start"
    BY Zenon, <1>a DEF LockInv, LockOf, IInv
  <2>2. LockOf(t)'
    BY Zenon, <1>a, <1>e, NoThreadAssumption, <2>1 DEF LockOf, InGate
  <2>3. /\ \A u \in Threads \ {t} : holder' = u <=> holder = u
        /\ Creating(t)' => \A u \in Threads \ {t} : ~Creating(u)
        /\ Closing(t)' => \A u \in Threads \ {t} : ~Closing(u)
    BY Zenon, <1>a, <1>e, NoThreadAssumption DEF Creating, Closing, LockInv, IInv
  <2> QED
    BY Zenon, <1>a, <1>e, <2>1, <2>2, <2>3, LockFrame DEF IInv
<1>5. SyncInv'
  <2>1. node # "down" /\ \A u \in Threads : kind[u] # "start"
    BY Zenon, <1>a DEF LockInv, LockOf, IInv
  <2> QED
    BY Zenon, <1>a, <1>e, <2>1, SyncFrame DEF IInv
<1>6. CreateInv'
  <2>1. CreateOf(t)
    BY Zenon DEF CreateInv, IInv
  <2>2. CreateOf(t)'
    BY Zenon, <1>a, <1>e, <2>1 DEF CreateOf, Creating
  <2> QED
    BY Zenon, <1>a, <1>e, <2>2, CreateFrame DEF IInv
<1>6b. DeleteInv'
  <2>1. DeleteOf(t)
    BY Zenon DEF DeleteInv, IInv
  <2>2. DeleteOf(t)'
    BY Zenon, <1>a, <1>e, <2>1 DEF DeleteOf, Closing, Removing
  <2> QED
    BY Zenon, <1>a, <1>e, <2>2, DeleteFrame DEF IInv
<1>7. AdmissionInv'
  <2>1. AdmissionOf(t)
    BY Zenon DEF AdmissionInv, IInv
  <2>2. AdmissionOf(t)'
    BY Zenon, <1>a, <1>e, <2>1 DEF AdmissionOf, Admitted
  <2> QED
    BY Zenon, <1>a, <1>e, <2>2, AdmissionFrame DEF IInv
<1>8. TokenInv'
  BY Zenon, <1>a, <1>e, TokenFrame DEF IInv
<1> QED
  BY Zenon, <1>1, <1>2, <1>2b, <1>2c, <1>3, <1>4, <1>5, <1>6, <1>6b, <1>7, <1>8 DEF IInv

LEMMA ReleaseSessionStep ==
    ASSUME IInv, NEW t \in Threads, ReleaseSession(t)
    PROVE  IInv'
<1>a. /\ pc[t] = "drain" /\ kind[t] = "close" /\ rec' = NoSession
      /\ UNCHANGED <<catalog, disk, dirs, store, synced, view, latched, token, holder, born, promised>>
      /\ UNCHANGED <<crashes, failures, accesses>>
      /\ \A u \in Threads : ~(Admitted(u) /\ gen[u] = gen[t])
  BY Zenon, KindOfStep DEF ReleaseSession, durable, history, counters, IInv
<1>b. rec.gen = gen[t] /\ rec.phase = "Closing"
  BY Zenon, <1>a DEF DeleteInv, DeleteOf, Closing, IInv
<1>c. /\ NoSession.gen = 0 /\ NoSession.phase = "None" /\ ~NoSession.open
      /\ NoSession \in SessionRecord
  BY BoundsAssumption DEF NoSession, SessionRecord, LifecycleState
<1>e. /\ CallType' /\ OthersKeep(t) /\ pc'[t] = "finish" /\ kind'[t] = "close" /\ node' = node
      /\ gen'[t] = gen[t] /\ item'[t] = item[t] /\ failed'[t] = failed[t]
  BY Zenon, <1>a, GotoAdvances DEF ReleaseSession, Advances, Keeps, PC, IInv
<1>n. \A u \in Threads : ~Admitted(u) /\ ~Creating(u) /\ kind[u] # "start" /\ (u # t => ~Closing(u))
  <2>1. \A u \in Threads : ~Admitted(u)
    BY Zenon, <1>a, <1>b DEF AdmissionInv, AdmissionOf, IInv
  <2>2. \A u \in Threads : ~Creating(u) /\ kind[u] # "start"
    BY Zenon, <1>a, <1>b DEF CreateInv, CreateOf, LockInv, LockOf, IInv
  <2>3. \A u \in Threads : u # t => ~Closing(u)
    BY Zenon, <1>a DEF LockInv, LockOf, Closing, IInv
  <2> QED
    BY Zenon, <2>1, <2>2, <2>3
<1>1. TypeOK'
  BY Zenon, <1>a, <1>c, <1>e, StepType DEF TypeOK, IInv
<1>2. CatalogMatchesDisk'
  BY Zenon, <1>a, <1>1 DEF CatalogMatchesDisk, IInv
<1>2b. PromiseInv'
  BY Zenon, <1>a DEF PromiseInv, IInv
<1>3. ControlInv'
  <2>1. ControlOf(t)'
    BY Zenon, <1>a, <1>e DEF ControlOf
  <2> QED
    BY Zenon, <1>e, <2>1, ControlFrame DEF IInv
<1>4. LockInv'
  <2>1. LockOf(t) /\ \A u \in Threads : kind[u] # "start"
    BY Zenon, <1>a DEF LockInv, LockOf, IInv
  <2>2. LockOf(t)'
    BY Zenon, <1>a, <1>e, <2>1, NoThreadAssumption DEF LockOf, InGate
  <2>3. /\ \A u \in Threads \ {t} : holder' = u <=> holder = u
        /\ Creating(t)' => \A u \in Threads \ {t} : ~Creating(u)
        /\ Closing(t)' => \A u \in Threads \ {t} : ~Closing(u)
    BY Zenon, <1>a, <1>e, NoThreadAssumption DEF Creating, Closing, LockInv, IInv
  <2> QED
    BY Zenon, <1>a, <1>e, <2>1, <2>2, <2>3, LockFrame DEF IInv
<1>5. SyncInv'
  <2>1. node # "down" /\ \A u \in Threads : kind[u] # "start"
    BY Zenon, <1>a DEF LockInv, LockOf, IInv
  <2> QED
    BY Zenon, <1>a, <1>e, <2>1, SyncFrame DEF IInv
<1>6. RecordInv'
  BY <1>a, <1>c DEF RecordInv, TypeOK, IInv
<1>6b. CreateInv'
  BY Zenon, <1>e, <1>n DEF CreateInv, CreateOf, Creating, OthersKeep
<1>7. DeleteInv'
  <2>1. gen[t] # 0 /\ Doomed(view, gen[t]) /\ (~latched => Doomed(disk, gen[t]))
    BY Zenon, <1>a DEF DeleteInv, DeleteOf, Closing, IInv
  <2>2. UNCHANGED <<view, disk, latched, dirs>> /\ ~rec'.open
    BY Zenon, <1>a, <1>c
  <2>3. \A u \in Threads : ~Closing(u)'
    BY Zenon, <1>e, <1>n DEF Closing, OthersKeep
  <2> QED
    BY Zenon, <1>e, <2>1, <2>2, <2>3 DEF DeleteInv, DeleteOf, Removing, IInv, OthersKeep
<1>8. AdmissionInv'
  <2>1. \A u \in Threads : ~Admitted(u)'
    BY Zenon, <1>e, <1>n DEF Admitted, OthersKeep
  <2>2. \A u \in Threads : pc'[u] \notin {"retain", "gate", "syncing", "commit"}
    <3>1. \A u \in Threads : pc[u] \notin {"retain", "gate", "syncing", "commit"}
      BY Zenon, <1>n, KindOfStep DEF Admitted, IInv
    <3> QED
      BY Zenon, <1>e, <3>1 DEF OthersKeep
  <2> QED
    BY Zenon, <2>1, <2>2 DEF AdmissionInv, AdmissionOf
<1>9. TokenInv'
  BY Zenon, <1>a, <1>b, <1>e, TokenFrame DEF IInv
<1> QED
  BY Zenon, <1>1, <1>2, <1>2b, <1>3, <1>4, <1>5, <1>6, <1>6b, <1>7, <1>8, <1>9 DEF IInv

LEMMA RemoveGenerationStep ==
    ASSUME IInv, NEW t \in Threads, RemoveGeneration(t)
    PROVE  IInv'
<1>a. /\ pc[t] = "removing" /\ kind[t] \in {"create", "close", "start"} /\ ~latched
      /\ UNCHANGED <<catalog, disk, view, latched, rec, token, holder, born, promised>>
      /\ UNCHANGED <<gen, item, crashes, accesses>>
  BY Zenon, KindOfStep DEF RemoveGeneration, history, LockInv, LockOf, InGate, IInv
<1>b. /\ gen[t] # 0 /\ Doomed(view, gen[t]) /\ Doomed(disk, gen[t])
      /\ ~(rec.gen = gen[t] /\ rec.open) /\ gen[t] \in Generation
  BY Zenon, <1>a, GenerationOf DEF DeleteInv, DeleteOf, Removing, IInv
<1>c. /\ pc' = [pc EXCEPT ![t] = "finishing"] /\ UNCHANGED <<kind, node>>
  BY Zenon DEF RemoveGeneration, Goto
<1>d. /\ \E f \in BOOLEAN : failed' = [failed EXCEPT ![t] = f] /\ (~f => dirs' = dirs \ {gen[t]})
      /\ dirs' \in {dirs, dirs \ {gen[t]}} /\ (failures' = failures \/ Fail)
      /\ \E left \in SUBSET store[gen[t]] : store' = [store EXCEPT ![gen[t]] = left]
      /\ synced' = [synced EXCEPT ![gen[t]] = @ \intersect store'[gen[t]]]
  BY Zenon DEF RemoveGeneration
<1>e. /\ CallType' /\ OthersKeep(t) /\ pc'[t] = "finishing" /\ kind'[t] = kind[t]
      /\ gen'[t] = gen[t] /\ (~failed'[t] => gen[t] \notin dirs')
  BY Zenon, <1>a, <1>c, <1>d DEF CallType, TypeOK, PC, IInv, OthersKeep
<1>f. /\ store' \in [Generation -> SUBSET Items] /\ synced' \in [Generation -> SUBSET Items]
      /\ \A g \in Generation : g # gen[t] => store'[g] = store[g] /\ synced'[g] = synced[g]
      /\ synced'[gen[t]] \subseteq store'[gen[t]]
      /\ dirs' \subseteq dirs /\ \A g \in dirs : g # gen[t] => g \in dirs'
  BY <1>b, <1>d DEF TypeOK, IInv
<1>1. TypeOK'
  BY Zenon, <1>a, <1>d, <1>e, <1>f, StepType DEF TypeOK, IInv
<1>2. CatalogMatchesDisk'
  <2>1. disk.state \in {"retained", "orphaned"} => disk.gen # gen[t]
    BY <1>b DEF Doomed, Generation
  <2> QED
    BY Zenon, <1>a, <1>f, <1>1, <2>1 DEF CatalogMatchesDisk, IInv
<1>3. ControlInv'
  <2>1. ControlOf(t)'
    BY Zenon, <1>a, <1>e DEF ControlOf
  <2> QED
    BY Zenon, <1>e, <2>1, ControlFrame DEF IInv
<1>4. LockInv'
  BY <1>a, <1>c DEF LockInv, LockOf, Creating, Closing, IInv
<1>5. SyncInv'
  BY Zenon, <1>a, <1>c, <1>e DEF SyncInv, LockInv, LockOf, IInv, OthersKeep
<1>6. RecordInv'
  BY Zenon, <1>a, <1>b, <1>f DEF RecordInv, IInv
<1>7. CreateInv'
  <2>1. CreateOf(t)
    BY Zenon DEF CreateInv, IInv
  <2>2. CreateOf(t)'
    BY Zenon, <1>a, <1>e, <2>1 DEF CreateOf, Creating
  <2> QED
    BY Zenon, <1>a, <1>e, <2>2, CreateFrame DEF IInv
<1>8. DeleteInv'
  BY Zenon, <1>a, <1>b, <1>e, <1>f DEF DeleteInv, DeleteOf, Closing, Removing, IInv, OthersKeep
<1>9. AdmissionInv'
  <2>1. \A u \in Threads : Admitted(u) => gen[u] \in Generation /\ gen[u] # gen[t]
    <3>1. ASSUME NEW u \in Threads, Admitted(u) PROVE gen[u] \in Generation /\ gen[u] # gen[t]
      <4>1. rec.gen = gen[u] /\ rec.open /\ rec.gen # 0
        BY Zenon, <3>1 DEF AdmissionInv, AdmissionOf, RecordInv, IInv
      <4> QED
        BY Zenon, <1>b, <4>1, GenerationOf DEF IInv
    <3> QED
      BY Zenon, <3>1
  <2>2. \A u \in Threads : pc[u] \in {"retain", "gate", "syncing", "commit"} => Admitted(u) /\ u # t
    BY Zenon, <1>a, KindOfStep DEF Admitted, IInv
  <2>3. \A u \in Threads : Admitted(u)' => Admitted(u) /\ u # t
    BY Zenon, <1>a, <1>e DEF Admitted, OthersKeep
  <2>4. \A u \in Threads : pc'[u] \in {"retain", "gate", "syncing", "commit"} => u # t /\ pc[u] = pc'[u]
    BY Zenon, <1>e DEF OthersKeep
  <2>5. ASSUME NEW u \in Threads \ {t}, pc[u] \in {"retain", "gate", "syncing", "commit"}
        PROVE  store'[gen[u]] = store[gen[u]] /\ synced'[gen[u]] = synced[gen[u]]
    BY Zenon, <1>f, <2>1, <2>2, <2>5
  <2>6. \A u \in Threads \ {t} : pc'[u] = pc[u] /\ gen'[u] = gen[u] /\ item'[u] = item[u]
    BY Zenon, <1>e DEF OthersKeep
  <2>7. rec' = rec
    BY Zenon, <1>a
  <2> QED
    BY <2>3, <2>4, <2>5, <2>6, <2>7 DEF AdmissionInv, AdmissionOf, IInv
<1>10. PromiseInv'
  BY Zenon, <1>a, <1>b, <1>f DEF PromiseInv, IInv
<1>11. TokenInv'
  BY Zenon, <1>a, <1>e, TokenFrame DEF IInv
<1> QED
  BY Zenon, <1>1, <1>2, <1>3, <1>4, <1>5, <1>6, <1>7, <1>8, <1>9, <1>10, <1>11 DEF IInv

LEMMA SyncStoreStep ==
    ASSUME IInv, NEW t \in Threads, SyncStore(t)
    PROVE  IInv'
<1>a. /\ pc[t] = "syncing" /\ kind[t] = "retain" /\ holder = t /\ ~latched
      /\ UNCHANGED <<catalog, disk, dirs, store, view, latched, rec, token, born, promised>>
      /\ UNCHANGED <<crashes, accesses>> /\ Locals(t)
  BY Zenon, KindOfStep DEF SyncStore, history, LockInv, LockOf, InGate, IInv
<1>b. /\ rec.phase = "Active" /\ rec.gen = gen[t] /\ item[t] \subseteq store[gen[t]]
      /\ gen[t] \in Generation
  <2>1. rec.phase = "Active" /\ rec.gen = gen[t] /\ item[t] \subseteq store[gen[t]]
    BY Zenon, <1>a DEF AdmissionInv, AdmissionOf, Admitted, IInv
  <2>2. gen[t] # 0
    BY Zenon, <2>1 DEF RecordInv, IInv
  <2> QED
    BY Zenon, <2>1, <2>2, GenerationOf DEF IInv
<1>c. \/ /\ Advances(t, "commit") /\ synced' = [synced EXCEPT ![gen[t]] = store[gen[t]]]
         /\ holder' = t /\ failures' = failures
      \/ Returns(t) /\ holder' = NoThread /\ synced' = synced /\ Fail
  BY Zenon, <1>a, GotoAdvances, ReturnReturns DEF SyncStore, PC, InGate, IInv
<1>n. \A u \in Threads : kind[u] # "start"
  BY Zenon, <1>a DEF LockInv, LockOf, IInv
<1>e. /\ CallType' /\ OthersKeep(t) /\ node' = node
      /\ \/ /\ pc'[t] = "commit" /\ kind'[t] = "retain" /\ gen'[t] = gen[t] /\ item'[t] = item[t]
            /\ holder' = t
         \/ pc'[t] = "idle" /\ kind'[t] = "none" /\ holder' = NoThread
  BY Zenon, <1>a, <1>c DEF Advances, Keeps, Returns
<1>f. /\ synced' \in [Generation -> SUBSET Items]
      /\ \A g \in Generation : synced[g] \subseteq synced'[g] /\ synced'[g] \subseteq store[g]
      /\ pc'[t] = "commit" => store[gen[t]] \subseteq synced'[gen[t]]
  BY <1>b, <1>c DEF TypeOK, PromiseInv, Returns, IInv
<1>1. TypeOK'
  BY Zenon, <1>a, <1>c, <1>e, StepType DEF TypeOK, IInv
<1>2. CatalogMatchesDisk'
  BY Zenon, <1>a, <1>1 DEF CatalogMatchesDisk, IInv
<1>2b. RecordInv'
  BY Zenon, <1>a DEF RecordInv, IInv
<1>3. ControlInv'
  <2>1. ControlOf(t)'
    BY Zenon, <1>a, <1>e DEF ControlOf
  <2> QED
    BY Zenon, <1>e, <2>1, ControlFrame DEF IInv
<1>4. LockInv'
  <2>1. LockOf(t) /\ \A u \in Threads : kind[u] # "start"
    BY Zenon, <1>a DEF LockInv, LockOf, IInv
  <2>2. LockOf(t)'
    BY Zenon, <1>a, <1>e, NoThreadAssumption, <2>1 DEF LockOf, InGate
  <2>3. /\ \A u \in Threads \ {t} : holder' = u <=> holder = u
        /\ Creating(t)' => \A u \in Threads \ {t} : ~Creating(u)
        /\ Closing(t)' => \A u \in Threads \ {t} : ~Closing(u)
    BY Zenon, <1>a, <1>e, NoThreadAssumption DEF Creating, Closing, LockInv, IInv
  <2> QED
    BY Zenon, <1>a, <1>e, <2>1, <2>2, <2>3, LockFrame DEF IInv
<1>5. SyncInv'
  <2>1. node # "down" /\ \A u \in Threads : kind[u] # "start"
    BY Zenon, <1>a DEF LockInv, LockOf, IInv
  <2> QED
    BY Zenon, <1>a, <1>e, <2>1, SyncFrame DEF IInv
<1>6. CreateInv'
  <2>1. CreateOf(t)
    BY Zenon DEF CreateInv, IInv
  <2>2. CreateOf(t)'
    BY Zenon, <1>a, <1>e, <2>1 DEF CreateOf, Creating
  <2> QED
    BY Zenon, <1>a, <1>e, <2>2, CreateFrame DEF IInv
<1>6b. DeleteInv'
  <2>1. DeleteOf(t)
    BY Zenon DEF DeleteInv, IInv
  <2>2. DeleteOf(t)'
    BY Zenon, <1>a, <1>e, <2>1 DEF DeleteOf, Closing, Removing
  <2> QED
    BY Zenon, <1>a, <1>e, <2>2, DeleteFrame DEF IInv
<1>7. AdmissionInv'
  <2>1. \A u \in Threads \ {t} : pc[u] # "commit"
    BY Zenon, <1>a DEF LockInv, LockOf, IInv
  <2>2. AdmissionOf(t) /\ \A u \in Threads \ {t} : pc[u] # "commit"
    BY Zenon, <2>1 DEF AdmissionInv, IInv
  <2>3. AdmissionOf(t)'
    BY Zenon, <1>a, <1>b, <1>e, <1>f, <2>2 DEF AdmissionOf, Admitted
  <2> QED
    BY Zenon, <1>a, <1>e, <2>2, <2>3, AdmissionFrame DEF IInv
<1>8. PromiseInv'
  BY Zenon, <1>a, <1>f DEF PromiseInv, IInv
<1>9. TokenInv'
  BY Zenon, <1>a, <1>e, TokenFrame DEF IInv
<1> QED
  BY Zenon, <1>1, <1>2, <1>2b, <1>3, <1>4, <1>5, <1>6, <1>6b, <1>7, <1>8, <1>9 DEF IInv

LEMMA ApplyDurableBufferWriteStep ==
    ASSUME IInv, NEW t \in Threads, ApplyDurableBufferWrite(t)
    PROVE  IInv'
<1>a. /\ pc[t] = "writing" /\ kind[t] = "write"
      /\ UNCHANGED <<catalog, disk, dirs, synced, view, latched, rec, token, holder, born, promised>>
      /\ UNCHANGED <<crashes, failures, accesses>>
      /\ store' \in {store, [store EXCEPT ![gen[t]] = @ \union item[t]]}
  BY Zenon, KindOfStep DEF ApplyDurableBufferWrite, history, counters, IInv
<1>e. /\ CallType' /\ OthersKeep(t) /\ pc'[t] = "idle" /\ kind'[t] = "none" /\ node' = node
  BY Zenon, <1>a, ReturnReturns DEF ApplyDurableBufferWrite, Returns, IInv
<1>f. /\ store' \in [Generation -> SUBSET Items]
      /\ \A g \in Generation : store[g] \subseteq store'[g]
  BY Zenon, <1>a DEF TypeOK, IInv
<1>n. \A u \in Threads : kind[u] # "start"
  BY Zenon, <1>a DEF LockInv, LockOf, IInv
<1>1. TypeOK'
  BY Zenon, <1>a, <1>e, <1>f, StepType DEF TypeOK, IInv
<1>2. CatalogMatchesDisk'
  BY Zenon, <1>a, <1>1 DEF CatalogMatchesDisk, IInv
<1>2b. RecordInv'
  BY Zenon, <1>a DEF RecordInv, IInv
<1>3. ControlInv'
  <2>1. ControlOf(t)'
    BY Zenon, <1>a, <1>e DEF ControlOf
  <2> QED
    BY Zenon, <1>e, <2>1, ControlFrame DEF IInv
<1>4. LockInv'
  <2>1. LockOf(t) /\ \A u \in Threads : kind[u] # "start"
    BY Zenon, <1>a DEF LockInv, LockOf, IInv
  <2>2. LockOf(t)'
    BY Zenon, <1>a, <1>e, <2>1, NoThreadAssumption DEF LockOf, InGate
  <2>3. /\ \A u \in Threads \ {t} : holder' = u <=> holder = u
        /\ Creating(t)' => \A u \in Threads \ {t} : ~Creating(u)
        /\ Closing(t)' => \A u \in Threads \ {t} : ~Closing(u)
    BY Zenon, <1>a, <1>e, NoThreadAssumption DEF Creating, Closing, LockInv, IInv
  <2> QED
    BY Zenon, <1>a, <1>e, <2>1, <2>2, <2>3, LockFrame DEF IInv
<1>5. SyncInv'
  <2>1. node # "down" /\ \A u \in Threads : kind[u] # "start"
    BY Zenon, <1>a DEF LockInv, LockOf, IInv
  <2> QED
    BY Zenon, <1>a, <1>e, <2>1, SyncFrame DEF IInv
<1>6. CreateInv'
  <2>1. CreateOf(t)
    BY Zenon DEF CreateInv, IInv
  <2>2. CreateOf(t)'
    BY Zenon, <1>a, <1>e, <2>1 DEF CreateOf, Creating
  <2> QED
    BY Zenon, <1>a, <1>e, <2>2, CreateFrame DEF IInv
<1>6b. DeleteInv'
  <2>1. DeleteOf(t)
    BY Zenon DEF DeleteInv, IInv
  <2>2. DeleteOf(t)'
    BY Zenon, <1>a, <1>e, <2>1 DEF DeleteOf, Closing, Removing
  <2> QED
    BY Zenon, <1>a, <1>e, <2>2, DeleteFrame DEF IInv
<1>7. AdmissionInv'
  <2>1. ASSUME NEW u \in Threads, pc[u] \in {"retain", "gate", "syncing"}
        PROVE  gen[u] \in Generation
    <3>1. Admitted(u)
      BY Zenon, <2>1, KindOfStep DEF Admitted, IInv
    <3>2. gen[u] # 0
      BY Zenon, <3>1 DEF AdmissionInv, AdmissionOf, RecordInv, IInv
    <3> QED
      BY Zenon, <3>2, GenerationOf DEF IInv
  <2>2. AdmissionOf(t)'
    BY Zenon, <1>e DEF AdmissionOf, Admitted
  <2> QED
    BY Zenon, <1>a, <1>e, <1>f, <2>1, <2>2, AdmissionFrame DEF IInv
<1>8. PromiseInv'
  BY Zenon, <1>a, <1>f DEF PromiseInv, IInv
<1>9. TokenInv'
  BY Zenon, <1>a, <1>e, TokenFrame DEF IInv
<1> QED
  BY Zenon, <1>1, <1>2, <1>2b, <1>3, <1>4, <1>5, <1>6, <1>6b, <1>7, <1>8, <1>9 DEF IInv

-----------------------------------------------------------------------------
(* The latch, Start, Stop and crashes.                                      *)

LEMMA LatchStep ==
    ASSUME IInv, NEW t \in Threads, Latch(t)
    PROVE  IInv'
<1>a. /\ pc[t] = "latching" /\ kind[t] \in {"create", "close", "retain", "start"} /\ latched' = TRUE
      /\ UNCHANGED <<catalog, disk, dirs, store, synced, view, rec, token, born, promised>>
      /\ UNCHANGED <<crashes, failures, accesses>>
      /\ \A u \in Threads : pc[u] \notin InGate
      /\ holder' = IF holder = t THEN NoThread ELSE holder
  BY Zenon, KindOfStep DEF Latch, durable, counters, IInv
<1>b. IF kind[t] = "create" THEN Advances(t, "rollback") ELSE Returns(t)
  BY Zenon, <1>a, GotoDone DEF Latch, IInv
<1>e. /\ CallType' /\ OthersKeep(t)
      /\ kind[t] # "start" => node' = node
      /\ kind[t] = "start" => node' = "up"
      /\ kind[t] = "create" => /\ pc'[t] = "rollback" /\ kind'[t] = "create" /\ gen'[t] = gen[t]
      /\ kind[t] # "create" => pc'[t] = "idle" /\ kind'[t] = "none"
  BY Zenon, <1>b DEF Advances, Keeps, Returns
<1>n. \A u \in Threads : u # t => kind[u] # "start"
  BY Zenon, <1>a DEF LockInv, LockOf, IInv
<1>1. TypeOK'
  BY Zenon, <1>a, <1>e DEF TypeOK, CallType, IInv
<1>2. CatalogMatchesDisk'
  BY Zenon, <1>a, <1>1 DEF CatalogMatchesDisk, IInv
<1>2b. RecordInv'
  BY Zenon, <1>a DEF RecordInv, IInv
<1>2c. PromiseInv'
  BY Zenon, <1>a DEF PromiseInv, IInv
<1>3. ControlInv'
  <2>1. ControlOf(t)'
    BY Zenon, <1>a, <1>e DEF ControlOf
  <2> QED
    BY Zenon, <1>e, <2>1, ControlFrame DEF IInv
<1>4. LockInv'
  <2>1. \A u \in Threads : kind'[u] # "start"
    BY Zenon, <1>e, <1>n DEF OthersKeep
  <2>2. \A u \in Threads : pc'[u] \notin InGate
    BY Zenon, <1>a, <1>e DEF InGate, OthersKeep
  <2>4. \A u \in Threads \ {t} : pc[u] \in {"gate", "withdraw", "latching"} => holder = u
    BY Zenon, <1>n DEF LockInv, LockOf, IInv
  <2>5. \A u \in Threads : holder' = u => u # t /\ holder = u
    BY Zenon, <1>a, NoThreadAssumption
  <2>6. /\ \A u, v \in Threads : Creating(u)' /\ Creating(v)' => u = v
        /\ \A u, v \in Threads : Closing(u)' /\ Closing(v)' => u = v
    <3>1. /\ \A u \in Threads : Creating(u)' => Creating(u)
          /\ \A u \in Threads : Closing(u)' => Closing(u)
      BY Zenon, <1>a, <1>e DEF Creating, Closing, OthersKeep
    <3> QED
      BY Zenon, <3>1 DEF LockInv, IInv
  <2>7. \A u \in Threads : kind'[u] \notin {"none", "start"} => node' \in {"up", "stopping"}
    BY Zenon, <1>e DEF LockInv, LockOf, IInv, OthersKeep
  <2>8. \A u \in Threads : pc'[u] \in {"gate", "syncing", "commit", "withdraw", "latching"} => holder' = u
    <3>1. ASSUME NEW u \in Threads, pc'[u] \in {"gate", "syncing", "commit", "withdraw", "latching"}
          PROVE  holder' = u
      <4>1. u \in Threads \ {t} /\ pc[u] \in {"gate", "withdraw", "latching"}
        BY Zenon, <1>a, <1>e, <3>1 DEF InGate, OthersKeep
      <4>2. holder = u
        BY Zenon, <2>4, <4>1
      <4> QED
        BY Zenon, <1>a, <4>1, <4>2
    <3> QED
      BY Zenon, <3>1
  <2>9. \A u \in Threads : holder' = u => pc'[u] \in {"gate", "syncing", "commit", "withdraw", "latching"}
    BY Zenon, <1>e, <2>5 DEF LockInv, LockOf, IInv, OthersKeep
  <2> QED
    BY Zenon, <2>1, <2>2, <2>6, <2>7, <2>8, <2>9 DEF LockInv, LockOf
<1>5. SyncInv'
  <2>1. node' # "down" /\ \A u \in Threads : kind'[u] # "start"
    BY Zenon, <1>a, <1>e DEF LockInv, LockOf, IInv, OthersKeep
  <2> QED
    BY Zenon, <1>a, <2>1 DEF SyncInv, IInv
<1>6. CreateInv'
  <2>1. CreateOf(t)
    BY Zenon DEF CreateInv, IInv
  <2>2. CreateOf(t)'
    BY Zenon, <1>a, <1>e, <2>1 DEF CreateOf, Creating
  <2> QED
    BY Zenon, <1>a, <1>e, <2>2, CreateFrame DEF IInv
<1>7. DeleteInv'
  <2>1. DeleteOf(t)
    BY Zenon DEF DeleteInv, IInv
  <2>2. DeleteOf(t)'
    BY Zenon, <1>a, <1>e, <2>1 DEF DeleteOf, Closing, Removing
  <2> QED
    BY Zenon, <1>a, <1>e, <2>2, DeleteFrame DEF IInv
<1>8. AdmissionInv'
  <2>1. AdmissionOf(t)
    BY Zenon DEF AdmissionInv, IInv
  <2>2. AdmissionOf(t)'
    BY Zenon, <1>a, <1>e, <2>1 DEF AdmissionOf, Admitted
  <2> QED
    BY Zenon, <1>a, <1>e, <2>2, AdmissionFrame DEF IInv
<1>9. TokenInv'
  BY Zenon, <1>a, <1>e, TokenFrame DEF IInv
<1> QED
  BY Zenon, <1>1, <1>2, <1>2b, <1>2c, <1>3, <1>4, <1>5, <1>6, <1>7, <1>8, <1>9 DEF IInv

LEMMA LatchElsewhereStep ==
    ASSUME IInv, LatchElsewhere
    PROVE  IInv'
<1>a. /\ UNCHANGED <<catalog, disk, dirs, store, synced, node, view, rec, token, holder, kind, pc>>
      /\ UNCHANGED <<gen, item, failed, born, promised, crashes, accesses>>
      /\ latched' = TRUE /\ node = "up" /\ Fail /\ \A t \in Threads : pc[t] \notin InGate
  BY Zenon DEF LatchElsewhere, durable, calls
<1>n. \A u \in Threads : kind[u] # "start"
  BY Zenon, <1>a DEF LockInv, LockOf, IInv
<1>1. TypeOK'
  BY <1>a, BoundsAssumption DEF TypeOK, Fail, IInv
<1>2. CatalogMatchesDisk'
  BY Zenon, <1>a, <1>1 DEF CatalogMatchesDisk, IInv
<1>2b. RecordInv'
  BY Zenon, <1>a DEF RecordInv, IInv
<1>2c. PromiseInv'
  BY Zenon, <1>a DEF PromiseInv, IInv
<1>2d. ControlInv'
  BY Zenon, <1>a DEF ControlInv, ControlOf, IInv
<1>3. LockInv'
  BY Zenon, <1>a DEF LockInv, LockOf, Creating, Closing, IInv
<1>3b. SyncInv'
  BY Zenon, <1>a DEF SyncInv, IInv
<1>4. CreateInv'
  BY Zenon, <1>a DEF CreateInv, CreateOf, Creating, IInv
<1>4b. DeleteInv'
  BY Zenon, <1>a DEF DeleteInv, DeleteOf, Closing, Removing, IInv
<1>5. AdmissionInv'
  BY Zenon, <1>a DEF AdmissionInv, AdmissionOf, Admitted, IInv
<1>5b. TokenInv'
  BY Zenon, <1>a DEF TokenInv, AnnounceOf, TokenNamesActiveSession, IInv
<1> QED
  BY Zenon, <1>1, <1>2, <1>2b, <1>2c, <1>2d, <1>3, <1>3b, <1>4, <1>4b, <1>5, <1>5b DEF IInv

LEMMA StopStep ==
    ASSUME IInv, Stop
    PROVE  IInv'
<1>a. /\ UNCHANGED <<catalog, disk, dirs, store, synced, view, latched, rec, token, holder, kind, pc>>
      /\ UNCHANGED <<gen, item, failed, born, promised, crashes, failures, accesses>>
      /\ node = "up" /\ node' = "stopping"
  BY Zenon DEF Stop, durable, calls, history, counters
<1>n. \A u \in Threads : kind[u] # "start"
  BY Zenon, <1>a DEF LockInv, LockOf, IInv
<1>1. TypeOK'
  BY Zenon, <1>a DEF TypeOK, IInv
<1>2. CatalogMatchesDisk'
  BY Zenon, <1>a, <1>1 DEF CatalogMatchesDisk, IInv
<1>2b. RecordInv'
  BY Zenon, <1>a DEF RecordInv, IInv
<1>2c. PromiseInv'
  BY Zenon, <1>a DEF PromiseInv, IInv
<1>2d. ControlInv'
  BY Zenon, <1>a DEF ControlInv, ControlOf, IInv
<1>3. LockInv'
  BY Zenon, <1>a DEF LockInv, LockOf, Creating, Closing, IInv
<1>3b. SyncInv'
  BY Zenon, <1>a DEF SyncInv, IInv
<1>4. CreateInv'
  BY Zenon, <1>a DEF CreateInv, CreateOf, Creating, IInv
<1>4b. DeleteInv'
  BY Zenon, <1>a DEF DeleteInv, DeleteOf, Closing, Removing, IInv
<1>5. AdmissionInv'
  BY Zenon, <1>a DEF AdmissionInv, AdmissionOf, Admitted, IInv
<1>5b. TokenInv'
  BY Zenon, <1>a DEF TokenInv, AnnounceOf, TokenNamesActiveSession, IInv
<1> QED
  BY Zenon, <1>1, <1>2, <1>2b, <1>2c, <1>2d, <1>3, <1>3b, <1>4, <1>4b, <1>5, <1>5b DEF IInv

\* Nobody holds catalog_mutex while no operation runs.
LEMMA IdleHolder ==
    ASSUME IInv, \A t \in Threads : kind[t] = "none"
    PROVE  holder = NoThread /\ \A t \in Threads : pc[t] = "idle"
<1>1. \A t \in Threads : pc[t] = "idle"
  BY Zenon, KindOfStep DEF IInv
<1> QED
  BY Zenon, <1>1 DEF IInv, TypeOK, LockInv, LockOf

\* A node that is down keeps nothing but the disk.
LEMMA DownInv ==
    ASSUME TypeOK', CatalogMatchesDisk', PromiseInv', node' = "down",
           \A u \in Threads : kind'[u] = "none" /\ pc'[u] = "idle",
           holder' = NoThread, token' = 0, rec' = NoSession, view' = NoRecord, disk'.gen <= born'
    PROVE  IInv'
<1>1. ControlInv'
  BY Zenon, IdleInv
<1>1b. LockInv'
  BY Zenon, IdleInv
<1>1c. CreateInv'
  BY Zenon, IdleInv
<1>1d. DeleteInv'
  BY Zenon, IdleInv
<1>1e. AdmissionInv'
  BY Zenon, IdleInv
<1>1f. TokenInv'
  BY Zenon, IdleInv
<1>2. Readable(NoRecord) /\ NoRecord.gen = 0
  BY Zenon DEF Readable, NoRecord
<1>3. SyncInv'
  BY Zenon, <1>2 DEF SyncInv
<1>4. RecordInv'
  <2>1. NoSession.gen = 0 /\ NoSession.phase = "None" /\ ~NoSession.open
    BY Zenon DEF NoSession
  <2> QED
    BY <1>2, <2>1 DEF RecordInv, TypeOK
<1> QED
  BY Zenon, <1>1, <1>1b, <1>1c, <1>1d, <1>1e, <1>1f, <1>3, <1>4 DEF IInv

LEMMA QuiesceStep ==
    ASSUME IInv, Quiesce
    PROVE  IInv'
<1>a. /\ UNCHANGED <<catalog, disk, dirs, store, synced, latched, holder, kind, pc>>
      /\ UNCHANGED <<gen, item, failed, born, promised, crashes, failures, accesses>>
      /\ node' = "down" /\ rec' = NoSession /\ token' = 0 /\ view' = NoRecord
      /\ \A t \in Threads : kind[t] = "none"
  BY Zenon DEF Quiesce, durable, calls, history, counters
<1>1. TypeOK'
  BY <1>a, BoundsAssumption
     DEF TypeOK, NoSession, SessionRecord, LifecycleState, CatalogRecord, IInv
<1>2. CatalogMatchesDisk'
  BY Zenon, <1>a, <1>1 DEF CatalogMatchesDisk, IInv
<1>2b. PromiseInv'
  BY Zenon, <1>a DEF PromiseInv, IInv
<1> QED
  BY Zenon, <1>a, <1>1, <1>2, <1>2b, IdleHolder, DownInv DEF RecordInv, IInv

LEMMA CrashStep ==
    ASSUME IInv, Crash
    PROVE  IInv'
<1>a. /\ UNCHANGED <<catalog, disk, dirs, born, promised, failures, accesses>>
      /\ node' = "down" /\ rec' = NoSession /\ token' = 0 /\ view' = NoRecord /\ latched' = FALSE
      /\ holder' = NoThread
      /\ kind' = [t \in Threads |-> "none"] /\ pc' = [t \in Threads |-> "idle"]
      /\ gen' = [t \in Threads |-> 0] /\ item' = [t \in Threads |-> {}]
      /\ failed' = [t \in Threads |-> FALSE]
      /\ crashes < MaxCrashes /\ crashes' = crashes + 1
  BY Zenon DEF Crash
<1>b. PICK lost \in SUBSET Items :
          /\ store' = [g \in Generation |-> store[g] \ (lost \intersect AtRisk(g))]
          /\ synced' = [g \in Generation |-> synced[g] \ (lost \intersect AtRisk(g))]
  BY Zenon DEF Crash
<1>c. store' \in [Generation -> SUBSET Items] /\ synced' \in [Generation -> SUBSET Items]
  BY Zenon, <1>b DEF TypeOK, IInv
<1>1. TypeOK'
  <2>1. CallType'
    BY <1>a, BoundsAssumption DEF CallType, Kind, PC
  <2>2. NoSession \in SessionRecord /\ NoRecord \in CatalogRecord
    BY BoundsAssumption DEF NoSession, SessionRecord, LifecycleState, CatalogRecord
  <2>3. crashes' \in 0 .. MaxCrashes /\ token' \in 0 .. MaxGeneration
    BY <1>a, BoundsAssumption DEF TypeOK, IInv
  <2> QED
    BY Zenon, <1>a, <1>c, <2>1, <2>2, <2>3 DEF TypeOK, CallType, IInv
<1>2. CatalogMatchesDisk'
  BY Zenon, <1>a, <1>1 DEF CatalogMatchesDisk, IInv
<1>3. PromiseInv'
  <2>1. ASSUME NEW g \in Generation, ~Doomed(disk, g)
        PROVE  synced'[g] = synced[g]
    <3>1. \A t \in Threads : pc[t] = "removing" => gen[t] # g
      BY <2>1 DEF DeleteInv, DeleteOf, Removing, LockInv, LockOf, InGate, IInv
    <3>2. AtRisk(g) = store[g] \ synced[g]
      BY Zenon, <3>1 DEF AtRisk
    <3> QED
      BY Zenon, <1>b, <3>2
  <2>2. \A g \in Generation : synced'[g] \subseteq store'[g]
    BY Zenon, <1>b DEF PromiseInv, IInv
  <2> QED
    BY Zenon, <1>a, <2>1, <2>2 DEF PromiseInv, IInv
<1> QED
  BY Zenon, <1>a, <1>1, <1>2, <1>3, DownInv DEF RecordInv, IInv

LEMMA StartStep ==
    ASSUME IInv, NEW t \in Threads, Start(t)
    PROVE  IInv'
<1>a. /\ node = "down" /\ node' = "starting" /\ latched' = FALSE
      /\ kind' = [kind EXCEPT ![t] = "start"] /\ pc' = [pc EXCEPT ![t] = "open"]
      /\ UNCHANGED <<catalog, disk, dirs, store, synced, view, rec, token, holder>>
      /\ UNCHANGED <<gen, item, failed, born, promised, crashes, failures, accesses>>
  BY Zenon DEF Start, durable, history, counters
<1>b. /\ rec = NoSession /\ view = NoRecord /\ token = 0 /\ holder = NoThread
      /\ \A u \in Threads : kind[u] = "none" /\ pc[u] = "idle"
  BY Zenon, <1>a, IdleHolder DEF SyncInv, IInv
<1>c. /\ kind'[t] = "start" /\ pc'[t] = "open"
      /\ \A u \in Threads \ {t} : kind'[u] = "none" /\ pc'[u] = "idle"
  BY Zenon, <1>a, <1>b DEF TypeOK, IInv
<1>1. TypeOK'
  BY Zenon, <1>a DEF TypeOK, Kind, PC, IInv
<1>2. CatalogMatchesDisk'
  BY Zenon, <1>a, <1>1 DEF CatalogMatchesDisk, IInv
<1>2b. RecordInv'
  BY Zenon, <1>a DEF RecordInv, IInv
<1>2c. PromiseInv'
  BY Zenon, <1>a DEF PromiseInv, IInv
<1>3. ControlInv'
  BY Zenon, <1>c DEF ControlInv, ControlOf
<1>4. LockInv'
  BY <1>a, <1>b, NoThreadAssumption DEF LockInv, LockOf, Creating, Closing
<1>5. SyncInv'
  BY Zenon, <1>a, <1>c DEF SyncInv, IInv
<1>6. CreateInv'
  BY Zenon, <1>c DEF CreateInv, CreateOf, Creating
<1>6b. DeleteInv'
  BY Zenon, <1>c DEF DeleteInv, DeleteOf, Closing, Removing
<1>7. AdmissionInv'
  BY Zenon, <1>c DEF AdmissionInv, AdmissionOf, Admitted
<1>7b. TokenInv'
  BY Zenon, <1>a, <1>b, <1>c DEF TokenInv, AnnounceOf, TokenNamesActiveSession
<1> QED
  BY Zenon, <1>1, <1>2, <1>2b, <1>2c, <1>3, <1>4, <1>5, <1>6, <1>6b, <1>7, <1>7b DEF IInv

\* What Start may change before it publishes the node: it runs alone.
Prepares(t) ==
    /\ kind[t] = "start" /\ pc[t] \in {"open", "initialize", "reconcile"}
    /\ pc'[t] \in {"initialize", "reconcile", "orphan", "latching"}
    /\ kind'[t] = "start" /\ node' = node
    /\ OthersKeep(t)
    /\ UNCHANGED <<disk, latched, rec, token, holder, born, store, synced, promised>>

LEMMA PreparesStep ==
    ASSUME IInv, NEW t \in Threads, Prepares(t), TypeOK', CatalogMatchesDisk', SyncInv',
           view'.gen <= born'
    PROVE  IInv'
<1>a. /\ kind[t] = "start" /\ pc[t] # "latching" /\ OthersKeep(t) /\ node' = node
      /\ pc'[t] \in {"initialize", "reconcile", "orphan", "latching"} /\ kind'[t] = "start"
      /\ UNCHANGED <<disk, latched, rec, token, holder, born, store, synced, promised>>
  BY Zenon DEF Prepares
<1>b. /\ \A u \in Threads \ {t} : kind[u] = "none" /\ pc[u] = "idle"
      /\ rec = NoSession /\ token = 0 /\ holder = NoThread /\ node = "starting" /\ ~latched
  BY Zenon, <1>a, KindOfStep, StartHoldsNothing DEF LockInv, LockOf, IInv
<1>c. \A u \in Threads \ {t} : kind'[u] = "none" /\ pc'[u] = "idle"
  BY Zenon, <1>a, <1>b DEF OthersKeep
<1>1. ControlInv'
  BY Zenon, <1>a, <1>c DEF ControlInv, ControlOf
<1>2. LockInv'
  BY Zenon, <1>a, <1>b, <1>c, NoThreadAssumption DEF LockInv, LockOf, Creating, Closing
<1>3. RecordInv'
  <2>1. NoSession.gen = 0 /\ NoSession.phase = "None" /\ ~NoSession.open
    BY Zenon DEF NoSession
  <2> QED
    BY Zenon, <1>a, <1>b, <2>1 DEF RecordInv, IInv
<1>4. CreateInv'
  BY Zenon, <1>a, <1>c DEF CreateInv, CreateOf, Creating
<1>4b. DeleteInv'
  BY Zenon, <1>a, <1>c DEF DeleteInv, DeleteOf, Closing, Removing
<1>5. AdmissionInv'
  BY Zenon, <1>a, <1>c DEF AdmissionInv, AdmissionOf, Admitted
<1>5b. TokenInv'
  BY Zenon, <1>a, <1>b, <1>c DEF TokenInv, AnnounceOf, TokenNamesActiveSession
<1>6. PromiseInv'
  BY Zenon, <1>a DEF PromiseInv, IInv
<1> QED
  BY Zenon, <1>1, <1>2, <1>3, <1>4, <1>4b, <1>5, <1>5b, <1>6 DEF IInv

\* The types that Start can disturb.
LEMMA StartType ==
    ASSUME TypeOK, CallType', catalog' \in {"absent", "raw", "ready"}, view' \in CatalogRecord,
           dirs' \subseteq Generation, rec' \in SessionRecord, failures' = failures \/ Fail,
           UNCHANGED <<disk, store, synced, latched, token, holder, born, promised, crashes, accesses>>
    PROVE  TypeOK'
<1>1. failures' \in 0 .. MaxFailures
  BY BoundsAssumption DEF Fail, TypeOK
<1> QED
  BY Zenon, <1>1 DEF TypeOK, CallType

LEMMA OpenCatalogStep ==
    ASSUME IInv, NEW t \in Threads, OpenCatalog(t)
    PROVE  IInv'
<1>a. /\ pc[t] = "open" /\ kind[t] = "start" /\ view = NoRecord /\ node = "starting" /\ ~latched
      /\ UNCHANGED <<disk, dirs, store, synced, latched, rec, token, holder, item, failed>>
      /\ UNCHANGED <<born, promised, crashes, accesses>>
      /\ \A u \in Threads \ {t} : kind[u] = "none"
      /\ rec = NoSession /\ token = 0
  BY Zenon, KindOfStep DEF OpenCatalog, SyncInv, LockInv, LockOf, history, IInv
<1>b. \/ /\ catalog = "ready" /\ Readable(disk) /\ view' = disk /\ gen' = [gen EXCEPT ![t] = disk.gen]
         /\ Goto(t, "reconcile") /\ UNCHANGED <<catalog, failures>>
      \/ /\ catalog = "absent" /\ catalog' = "raw" /\ Goto(t, "initialize")
         /\ UNCHANGED <<view, gen, failures>>
      \/ /\ catalog' \in {catalog, IF catalog = "absent" THEN "raw" ELSE catalog}
         /\ Goto(t, "latching") /\ UNCHANGED <<view, gen>> /\ (failures' = failures \/ Fail)
  BY Zenon DEF OpenCatalog, Loadable
<1>c. /\ UNCHANGED <<kind, node>>
      /\ \E next \in {"reconcile", "initialize", "latching"} : pc' = [pc EXCEPT ![t] = next]
  BY Zenon, <1>b DEF Goto
<1>d. disk.gen \in 0 .. MaxGeneration
  BY BoundsAssumption DEF TypeOK, CatalogRecord, NoRecord, Generation, IInv
<1>e. /\ CallType' /\ OthersKeep(t) /\ kind'[t] = "start"
      /\ pc'[t] \in {"reconcile", "initialize", "latching"}
  BY Zenon, <1>a, <1>b, <1>c, <1>d DEF CallType, OthersKeep, TypeOK, PC, IInv
<1>f. \/ /\ pc'[t] = "reconcile" /\ catalog' = "ready" /\ catalog = "ready"
         /\ view' = disk /\ gen'[t] = disk.gen
      \/ pc'[t] = "initialize" /\ catalog' = "raw" /\ catalog # "ready" /\ view' = view
      \/ /\ pc'[t] = "latching" /\ view' = view
         /\ (catalog' # "ready" => catalog # "ready") /\ catalog' \in {"absent", "raw", "ready"}
  BY Zenon, <1>b DEF TypeOK, Goto, IInv
<1>1. TypeOK'
  BY Zenon, <1>a, <1>b, <1>e, StartType DEF TypeOK, IInv
<1>2. CatalogMatchesDisk'
  BY Zenon, <1>a, <1>f, <1>1 DEF CatalogMatchesDisk, IInv
<1>3. \A u \in Threads : kind'[u] = "start" => u = t
  BY Zenon, <1>a, <1>e DEF OthersKeep
<1>4. SyncInv'
  <2>1. Readable(disk) /\ Readable(NoRecord)
    BY Zenon DEF CatalogMatchesDisk, Readable, IInv
  <2>2. disk' = view' \/ pc'[t] = "latching"
    BY Zenon, <1>a, <1>f DEF CatalogMatchesDisk, IInv
  <2> QED
    BY Zenon, <1>a, <1>c, <1>f, <2>1, <2>2 DEF SyncInv
<1>5. Prepares(t)
  BY Zenon, <1>a, <1>c, <1>e DEF Prepares
<1>6. view'.gen <= born'
  BY Zenon, <1>a, <1>f DEF RecordInv, IInv
<1> QED
  BY Zenon, <1>1, <1>2, <1>4, <1>5, <1>6, PreparesStep

LEMMA InitializeCatalogStep ==
    ASSUME IInv, NEW t \in Threads, InitializeCatalog(t)
    PROVE  IInv'
<1>a. /\ pc[t] = "initialize" /\ kind[t] = "start" /\ view = NoRecord /\ node = "starting" /\ ~latched
      /\ UNCHANGED <<disk, dirs, store, synced, view, latched, rec, token, holder, item, failed>>
      /\ UNCHANGED <<born, promised, crashes, accesses>> /\ gen' = [gen EXCEPT ![t] = 0]
      /\ \A u \in Threads \ {t} : kind[u] = "none"
      /\ catalog = "raw"
  BY Zenon, KindOfStep DEF InitializeCatalog, SyncInv, LockInv, LockOf, history, IInv
<1>b. \/ catalog' = "ready" /\ Goto(t, "reconcile") /\ failures' = failures
      \/ catalog' \in {"raw", "ready"} /\ Goto(t, "latching") /\ Fail
  BY Zenon DEF InitializeCatalog
<1>c. /\ UNCHANGED <<kind, node>> /\ (failures' = failures \/ Fail)
      /\ \/ pc' = [pc EXCEPT ![t] = "reconcile"] /\ catalog' = "ready"
         \/ pc' = [pc EXCEPT ![t] = "latching"] /\ catalog' \in {"raw", "ready"}
  BY Zenon, <1>b DEF Goto
<1>e. /\ CallType' /\ OthersKeep(t) /\ kind'[t] = "start" /\ gen'[t] = 0
      /\ \/ pc'[t] = "reconcile" /\ catalog' = "ready"
         \/ pc'[t] = "latching" /\ catalog' \in {"raw", "ready"}
  BY <1>a, <1>c, BoundsAssumption DEF CallType, OthersKeep, TypeOK, PC, IInv
<1>1. TypeOK'
  BY Zenon, <1>a, <1>c, <1>e, StartType DEF TypeOK, IInv
<1>2. CatalogMatchesDisk'
  BY Zenon, <1>a, <1>1 DEF CatalogMatchesDisk, IInv
<1>3. \A u \in Threads : kind'[u] = "start" => u = t
  BY Zenon, <1>a, <1>e DEF OthersKeep
<1>4. SyncInv'
  <2>1. disk = NoRecord /\ NoRecord.gen = 0
    BY Zenon, <1>a DEF CatalogMatchesDisk, NoRecord, IInv
  <2> QED
    BY Zenon, <1>a, <1>c, <1>e, <2>1 DEF SyncInv, IInv
<1>5. Prepares(t)
  BY Zenon, <1>a, <1>c, <1>e DEF Prepares
<1>6. view'.gen <= born'
  BY Zenon, <1>a DEF RecordInv, IInv
<1> QED
  BY Zenon, <1>1, <1>2, <1>4, <1>5, <1>6, PreparesStep

LEMMA ReconcileCatalogStep ==
    ASSUME IInv, NEW t \in Threads, ReconcileCatalog(t)
    PROVE  IInv'
<1>a. /\ pc[t] = "reconcile" /\ kind[t] = "start" /\ node = "starting" /\ ~latched
      /\ UNCHANGED <<catalog, disk, store, synced, view, latched, token, holder>>
      /\ UNCHANGED <<born, promised, crashes, accesses>> /\ Locals(t)
      /\ \A u \in Threads \ {t} : kind[u] = "none" /\ pc[u] = "idle"
      /\ rec = NoSession /\ token = 0 /\ gen[t] = view.gen /\ catalog = "ready"
  BY Zenon, KindOfStep DEF ReconcileCatalog, SyncInv, LockInv, LockOf, history, IInv
<1>b. disk = view /\ holder = NoThread
  BY Zenon, <1>a, StartHoldsNothing, InStep
<1>c. view.state # "none" => gen[t] \in Generation
  BY <1>a DEF TypeOK, CatalogRecord, NoRecord, IInv
<1>1. CASE /\ view.state \in {"none", "deleted", "delete_failed"} /\ Return(t)
           /\ UNCHANGED <<dirs, rec, failures>>
  <2>1. Returns(t)
    BY Zenon, <1>a, <1>1, ReturnReturns DEF IInv
  <2>2. TypeOK'
    BY Zenon, <1>a, <1>1, <2>1, StartType DEF Returns, TypeOK, IInv
  <2>3. Ends(t)
    BY Zenon, <1>a, <1>b, <2>1 DEF Ends
  <2>4. Moves(t)
    BY Zenon, <1>a, <1>1, <2>2, <2>3 DEF Moves, Shared
  <2> QED
    BY Zenon, <2>4, MovesStep
<1>2. CASE view.state = "deleting" /\ ReconcileDeleting(t)
  <2>1. Advances(t, "finish") /\ UNCHANGED <<dirs, rec, failures>>
    BY Zenon, <1>a, <1>2, GotoAdvances DEF ReconcileDeleting, PC, IInv
  <2>2. TypeOK'
    BY Zenon, <1>a, <2>1, StartType DEF Advances, Keeps, TypeOK, IInv
  <2>3. Enters(t)
    BY Zenon, <1>a, <1>2, <2>1 DEF Enters, Advances
  <2>4. Moves(t)
    BY Zenon, <1>a, <2>1, <2>2, <2>3 DEF Moves, Shared
  <2> QED
    BY Zenon, <2>4, MovesStep
<1>3. ASSUME NEW next \in {"orphan", "latching"}, Goto(t, next), rec' = rec,
             dirs' \in {dirs, dirs \union {gen[t]}}, failures' = failures \/ Fail,
             dirs' # dirs => view.state = "active",
             next = "orphan" => view.state = "active" /\ gen[t] \in dirs'
      PROVE  IInv'
  <2>1. Advances(t, next)
    BY Zenon, <1>a, <1>3, GotoAdvances DEF PC, IInv
  <2>e. /\ pc'[t] = next /\ kind'[t] = "start" /\ node' = node /\ gen'[t] = gen[t]
        /\ OthersKeep(t) /\ CallType'
    BY Zenon, <1>a, <2>1 DEF Advances, Keeps
  <2>2. TypeOK'
    BY Zenon, <1>a, <1>c, <1>3, <2>e, StartType DEF TypeOK, IInv
  <2>3. CatalogMatchesDisk'
    BY Zenon, <1>a, <1>b, <1>3, <2>2 DEF CatalogMatchesDisk, IInv
  <2>4. \A u \in Threads : kind'[u] = "start" => u = t
    BY Zenon, <1>a, <2>e DEF OthersKeep
  <2>5. SyncInv'
    BY Zenon, <1>a, <1>3, <2>e, <2>4 DEF SyncInv, IInv
  <2>6. Prepares(t)
    BY Zenon, <1>a, <1>3, <2>e DEF Prepares
  <2> QED
    BY Zenon, <1>a, <2>2, <2>3, <2>5, <2>6, PreparesStep DEF RecordInv, IInv
<1>4. CASE /\ view.state \in {"retained", "orphaned"} /\ gen[t] \in dirs /\ Return(t)
           /\ rec' = Reconciled(gen[t], view.state) /\ UNCHANGED <<dirs, failures>>
  <2>1. Returns(t)
    BY Zenon, <1>a, <1>4, ReturnReturns DEF IInv
  <2>s. /\ rec' \in SessionRecord /\ rec'.gen = gen[t] /\ rec'.phase = "Active" /\ rec'.open
        /\ rec'.lifecycle = view.state
    BY <1>4, <1>c DEF Reconciled, SessionRecord, LifecycleState, Generation
  <2>2. TypeOK'
    BY Zenon, <1>a, <1>4, <2>1, <2>s, StartType DEF Returns, TypeOK, IInv
  <2>3. CatalogMatchesDisk'
    BY Zenon, <1>a, <1>4, <2>2 DEF CatalogMatchesDisk, IInv
  <2>3b. PromiseInv'
    BY Zenon, <1>a DEF PromiseInv, IInv
  <2>4. \A u \in Threads : kind'[u] = "none" /\ pc'[u] = "idle"
    BY Zenon, <1>a, <2>1 DEF Returns, OthersKeep
  <2>5. ControlInv'
    BY Zenon, <1>a, <1>b, <2>4, IdleInv
  <2>5b. LockInv'
    BY Zenon, <1>a, <1>b, <2>4, IdleInv
  <2>5c. CreateInv'
    BY Zenon, <1>a, <1>b, <2>4, IdleInv
  <2>5d. DeleteInv'
    BY Zenon, <1>a, <1>b, <2>4, IdleInv
  <2>5e. AdmissionInv'
    BY Zenon, <1>a, <1>b, <2>4, IdleInv
  <2>5f. TokenInv'
    BY Zenon, <1>a, <1>b, <2>4, IdleInv
  <2>6. node' = "up"
    BY Zenon, <1>a, <2>1 DEF Returns
  <2>7. SyncInv'
    BY Zenon, <1>a, <2>4, <2>6 DEF SyncInv, IInv
  <2>8. RecordInv'
    <3>1. NoSession.phase = "None" /\ gen[t] # 0
      BY <1>4, <1>c DEF NoSession, Generation
    <3> QED
      BY Zenon, <1>a, <1>4, <2>s, <3>1 DEF RecordInv, IInv
  <2> QED
    BY Zenon, <2>2, <2>3, <2>3b, <2>5, <2>5b, <2>5c, <2>5d, <2>5e, <2>5f, <2>7, <2>8 DEF IInv
<1>5. CASE view.state = "active" /\ ReconcileActive(t)
  BY Zenon, <1>3, <1>5 DEF ReconcileActive, ReconcileFails
<1>6. CASE view.state \in {"retained", "orphaned"} /\ ReconcileEstablished(t)
  BY Zenon, <1>3, <1>4, <1>6 DEF ReconcileEstablished, ReconcileFails
<1> QED
  BY Zenon, <1>1, <1>2, <1>5, <1>6 DEF ReconcileCatalog

-----------------------------------------------------------------------------
(* The induction.                                                           *)

LEMMA InitIInv ==
    ASSUME Init
    PROVE  IInv
<1>1. NoSession \in SessionRecord /\ NoRecord \in CatalogRecord
  BY BoundsAssumption DEF NoSession, SessionRecord, LifecycleState, CatalogRecord
<1>2. TypeOK
  <2>1. CallType
    BY BoundsAssumption DEF CallType, Kind, PC, Init
  <2>2. /\ store \in [Generation -> SUBSET Items] /\ synced \in [Generation -> SUBSET Items]
        /\ promised \in [Generation -> SUBSET Items]
    BY Zenon DEF Init
  <2>3. /\ token \in 0 .. MaxGeneration /\ born \in 0 .. MaxGeneration
        /\ crashes \in 0 .. MaxCrashes /\ failures \in 0 .. MaxFailures
        /\ accesses \in 0 .. MaxAccesses
    BY BoundsAssumption DEF Init
  <2>4. /\ catalog \in {"absent", "raw", "ready"} /\ disk \in CatalogRecord
        /\ view \in CatalogRecord /\ dirs \subseteq Generation /\ latched \in BOOLEAN
        /\ rec \in SessionRecord /\ holder \in Threads \union {NoThread}
    BY Zenon, <1>1 DEF Init
  <2> QED
    BY Zenon, <2>1, <2>2, <2>3, <2>4 DEF TypeOK, CallType
<1>3. NoRecord.gen = 0 /\ NoRecord.state = "none" /\ Readable(NoRecord)
  BY Zenon DEF NoRecord, Readable
<1>4. NoSession.gen = 0 /\ NoSession.phase = "None" /\ ~NoSession.open
  BY Zenon DEF NoSession
<1>5. CatalogMatchesDisk
  BY Zenon, <1>2, <1>3 DEF CatalogMatchesDisk, Init
<1>6. ControlInv /\ LockInv
  BY Zenon, NoThreadAssumption DEF ControlInv, ControlOf, LockInv, LockOf, Creating, Closing, Init
<1>7. SyncInv /\ RecordInv
  BY <1>3, <1>4 DEF SyncInv, RecordInv, Init
<1>8. CreateInv /\ DeleteInv
  BY Zenon DEF CreateInv, CreateOf, DeleteInv, DeleteOf, Creating, Closing, Removing, Init
<1>9. AdmissionInv /\ PromiseInv /\ TokenInv
  BY Zenon DEF AdmissionInv, AdmissionOf, Admitted, PromiseInv, TokenInv, AnnounceOf, TokenNamesActiveSession, Init
<1> QED
  BY Zenon, <1>2, <1>5, <1>6, <1>7, <1>8, <1>9 DEF IInv

LEMMA StutterIInv ==
    ASSUME IInv, UNCHANGED vars
    PROVE  IInv'
<1>a. /\ UNCHANGED <<catalog, disk, dirs, store, synced, node, view, latched, rec, token, holder>>
      /\ UNCHANGED <<kind, pc, gen, item, failed, born, promised, crashes, failures, accesses>>
  BY Zenon DEF vars, durable, process, calls, history, counters
<1>1. TypeOK'
  BY Zenon, <1>a DEF TypeOK, IInv
<1>2. CatalogMatchesDisk'
  BY Zenon, <1>a, <1>1 DEF CatalogMatchesDisk, IInv
<1>2b. RecordInv'
  BY Zenon, <1>a DEF RecordInv, IInv
<1>2c. PromiseInv'
  BY Zenon, <1>a DEF PromiseInv, IInv
<1>2d. ControlInv'
  BY Zenon, <1>a DEF ControlInv, ControlOf, IInv
<1>3. LockInv'
  BY Zenon, <1>a DEF LockInv, LockOf, Creating, Closing, IInv
<1>3b. SyncInv'
  BY Zenon, <1>a DEF SyncInv, IInv
<1>4. CreateInv'
  BY Zenon, <1>a DEF CreateInv, CreateOf, Creating, IInv
<1>4b. DeleteInv'
  BY Zenon, <1>a DEF DeleteInv, DeleteOf, Closing, Removing, IInv
<1>5. AdmissionInv'
  BY Zenon, <1>a DEF AdmissionInv, AdmissionOf, Admitted, IInv
<1>5b. TokenInv'
  BY Zenon, <1>a DEF TokenInv, AnnounceOf, TokenNamesActiveSession, IInv
<1> QED
  BY Zenon, <1>1, <1>2, <1>2b, <1>2c, <1>2d, <1>3, <1>3b, <1>4, <1>4b, <1>5, <1>5b DEF IInv

LEMMA IInvStep ==
    IInv /\ [Next]_vars => IInv'
<1> SUFFICES ASSUME IInv, [Next]_vars PROVE IInv'
  BY Zenon
<1>1. ASSUME NEW t \in Threads, Calls(t) PROVE IInv'
  BY Zenon, <1>1, CreateSessionStep, CallMoves, MovesStep DEF Calls
<1>2. ASSUME NEW t \in Threads, Steps(t) PROVE IInv'
  <2>1. CASE \/ EnterCreateGate(t) \/ AnnounceSession(t) \/ EnterRemoveGate(t) \/ CheckRetainable(t)
             \/ EnterRetainGate(t) \/ EnterWriteGate(t) \/ ReplyBufferQuery(t)
    BY Zenon, <2>1, StepMoves, MovesStep
  <2>2. CASE \/ WriteActive(t) \/ WriteDeleting(t) \/ BeginCatalogDeletion(t)
             \/ FinishCatalogDeletion(t) \/ CommitRetained(t) \/ WriteOrphaned(t)
    BY Zenon, <2>2, WriteActiveStep, WriteDeletingStep, BeginCatalogDeletionStep,
       FinishCatalogDeletionStep, CommitRetainedStep, WriteOrphanedStep
  <2>3. CASE \/ OpenStore(t) \/ Rollback(t) \/ ActivateSession(t) \/ DeclareToken(t)
             \/ WithdrawClosed(t) \/ ReleaseSession(t) \/ RemoveGeneration(t)
    BY Zenon, <2>3, OpenStoreStep, RollbackStep, ActivateSessionStep, DeclareTokenStep,
       WithdrawClosedStep, ReleaseSessionStep, RemoveGenerationStep
  <2>4. CASE \/ SyncStore(t) \/ WithdrawRetained(t) \/ ApplyDurableBufferWrite(t)
             \/ OpenCatalog(t) \/ InitializeCatalog(t) \/ ReconcileCatalog(t) \/ Latch(t)
    BY Zenon, <2>4, SyncStoreStep, WithdrawRetainedStep, ApplyDurableBufferWriteStep,
       OpenCatalogStep, InitializeCatalogStep, ReconcileCatalogStep, LatchStep
  <2> QED
    BY Zenon, <1>2, <2>1, <2>2, <2>3, <2>4 DEF Steps
<1> QED
  BY Zenon, <1>1, <1>2, StartStep, StopStep, QuiesceStep, LatchElsewhereStep, CrashStep,
     StutterIInv
     DEF Next

\* IInv holds in every reachable state, whatever the numbers of threads, entries,
\* generations, crashes and failing disk operations.
THEOREM Inductive == Spec => []IInv
BY InitIInv, IInvStep, PTL DEF Spec

-----------------------------------------------------------------------------
(* What follows.                                                            *)

\* At every point of every interleaving, with any number of failed writes and
\* removals, a power loss leaves a catalog that agrees with the directories: the
\* synchronized record precedes what it announces and follows what it forgets.
THEOREM CatalogSurvivesPowerLoss == Spec => []CatalogMatchesDisk
<1>1. IInv => CatalogMatchesDisk
  BY Zenon DEF IInv
<1> QED
  BY <1>1, Inductive, PTL

\* RetainSession's promise: what was stored when it was called outlives every later
\* power loss while the record says retained, because Sync precedes the record.
THEOREM RetentionIsDurable == Spec => []RetainedDataSurvives
<1>1. ASSUME IInv PROVE RetainedDataSurvives
  <2>1. ASSUME disk.state = "retained" PROVE promised[disk.gen] \subseteq store[disk.gen]
    <3>1. disk.gen \in Generation
      BY <1>1, <2>1 DEF IInv, TypeOK, CatalogRecord, NoRecord
    <3>2. ~Doomed(disk, disk.gen)
      BY <2>1, <3>1 DEF Doomed, Generation
    <3> QED
      BY Zenon, <1>1, <3>1, <3>2 DEF IInv, PromiseInv
  <2> QED
    BY Zenon, <2>1 DEF RetainedDataSurvives
<1> QED
  BY <1>1, Inductive, PTL

\* WaitForAdmission suffices: no durable read, write or Sync ever runs on an engine
\* that a close has released or on a directory that a close has removed.
THEOREM AccessPinsEngine == Spec => []NoAccessAfterRelease
<1>1. ASSUME IInv PROVE NoAccessAfterRelease
  <2>1. ASSUME NEW t \in Threads, pc[t] \in {"syncing", "commit", "writing", "reading"}
        PROVE  rec.gen = gen[t] /\ rec.open /\ gen[t] \in dirs
    <3>1. Admitted(t)
      BY Zenon, <1>1, <2>1, KindOfStep DEF IInv, Admitted
    <3> QED
      BY Zenon, <1>1, <3>1 DEF IInv, AdmissionInv, AdmissionOf, RecordInv
  <2> QED
    BY Zenon, <2>1 DEF NoAccessAfterRelease
<1> QED
  BY <1>1, Inductive, PTL

\* liveliness_mutex suffices: a token declared while the session closes or is
\* retained is withdrawn by that call.
THEOREM TokenIsWithdrawn == Spec => []TokenNamesActiveSession
<1>1. IInv => TokenNamesActiveSession
  BY Zenon DEF IInv, TokenInv, AnnounceOf
<1> QED
  BY <1>1, Inductive, PTL

\* A step leaves the disk alone, writes the catalog, adds to the stores, removes a
\* generation, or is a power loss.
LEMMA DurableChange ==
    ASSUME IInv, [Next]_vars
    PROVE  \/ UNCHANGED durable
           \/ Written
           \/ ~latched /\ disk' = disk /\ dirs \subseteq dirs'
           \/ /\ ~latched /\ disk' = disk
              /\ \E t \in Threads : pc[t] = "removing" /\ dirs' \in {dirs, dirs \ {gen[t]}}
           \/ ~latched' /\ disk' = disk /\ dirs' = dirs
<1>1. ASSUME NEW t \in Threads, Calls(t) PROVE UNCHANGED durable
  BY Zenon, <1>1 DEF Calls, CreateSession, CloseSession, RetainSession, WriteSample, QueryBuffer
<1>2. ASSUME NEW t \in Threads,
             \/ EnterCreateGate(t) \/ AnnounceSession(t) \/ EnterRemoveGate(t) \/ CheckRetainable(t)
             \/ EnterRetainGate(t) \/ EnterWriteGate(t) \/ ReplyBufferQuery(t) \/ Rollback(t)
             \/ ActivateSession(t) \/ DeclareToken(t) \/ WithdrawClosed(t) \/ ReleaseSession(t)
             \/ WithdrawRetained(t) \/ Latch(t) \/ Start(t)
      PROVE  UNCHANGED durable
  BY Zenon, <1>2
     DEF EnterCreateGate, AnnounceSession, EnterRemoveGate, CheckRetainable, EnterRetainGate,
         EnterWriteGate, ReplyBufferQuery, Rollback, ActivateSession, DeclareToken,
         WithdrawClosed, ReleaseSession, WithdrawRetained, Latch, Start
<1>3. ASSUME NEW t \in Threads,
             \/ WriteActive(t) \/ WriteDeleting(t) \/ BeginCatalogDeletion(t)
             \/ FinishCatalogDeletion(t) \/ CommitRetained(t) \/ WriteOrphaned(t)
      PROVE  Written
  BY Zenon, <1>3, WriteActiveStep, WriteDeletingStep, BeginCatalogDeletionStep,
     FinishCatalogDeletionStep, CommitRetainedStep, WriteOrphanedStep
<1>4. ASSUME NEW t \in Threads,
             OpenStore(t) \/ SyncStore(t) \/ ApplyDurableBufferWrite(t)
      PROVE  ~latched /\ disk' = disk /\ dirs \subseteq dirs'
  <2>1. ~latched
    BY Zenon, <1>4 DEF OpenStore, SyncStore, ApplyDurableBufferWrite, LockInv, LockOf, InGate, IInv
  <2> QED
    BY Zenon, <1>4, <2>1 DEF OpenStore, SyncStore, ApplyDurableBufferWrite
<1>5. ASSUME NEW t \in Threads,
             OpenCatalog(t) \/ InitializeCatalog(t) \/ ReconcileCatalog(t)
      PROVE  ~latched /\ disk' = disk /\ dirs \subseteq dirs'
  <2>1. ~latched
    BY Zenon, <1>5, KindOfStep DEF OpenCatalog, InitializeCatalog, ReconcileCatalog, LockInv, LockOf, IInv
  <2>2. CASE OpenCatalog(t) \/ InitializeCatalog(t)
    BY Zenon, <2>1, <2>2 DEF OpenCatalog, InitializeCatalog
  <2>3. CASE ReconcileCatalog(t)
    BY Zenon, <2>1, <2>3
       DEF ReconcileCatalog, ReconcileDeleting, ReconcileActive, ReconcileEstablished
  <2> QED
    BY Zenon, <1>5, <2>2, <2>3
<1>6. ASSUME NEW t \in Threads, RemoveGeneration(t)
      PROVE  ~latched /\ disk' = disk /\ pc[t] = "removing" /\ dirs' \in {dirs, dirs \ {gen[t]}}
  BY Zenon, <1>6 DEF RemoveGeneration, LockInv, LockOf, InGate, IInv
<1>7. ASSUME Crash PROVE ~latched' /\ disk' = disk /\ dirs' = dirs
  BY Zenon, <1>7 DEF Crash
<1>8. ASSUME Stop \/ Quiesce \/ LatchElsewhere \/ UNCHANGED vars PROVE UNCHANGED durable
  BY Zenon, <1>8 DEF Stop, Quiesce, LatchElsewhere, vars
<1> HIDE DEF IInv
<1>9. ASSUME NEW t \in Threads, Calls(t) \/ Steps(t) \/ Start(t)
      PROVE  \/ UNCHANGED durable
             \/ Written
             \/ ~latched /\ disk' = disk /\ dirs \subseteq dirs'
             \/ /\ ~latched /\ disk' = disk
                /\ \E u \in Threads : pc[u] = "removing" /\ dirs' \in {dirs, dirs \ {gen[u]}}
  BY Zenon, <1>1, <1>2, <1>3, <1>4, <1>5, <1>6, <1>9 DEF Steps
<1> QED
  BY Zenon, <1>7, <1>8, <1>9 DEF Next

\* Every catalog write moves the record along the lifecycle or starts a new
\* generation after a deletion, and RemoveGeneration removes only what the record
\* on disk condemned and no session record holds.
THEOREM LifecycleIsRespected == Spec => DurableLifecycle
<1>1. ASSUME IInv, [Next]_vars
      PROVE  [/\ disk' # disk =>
                   \/ disk'.gen = disk.gen /\ <<disk.state, disk'.state>> \in LifecycleStep
                   \/ /\ disk'.gen > disk.gen /\ disk'.state = "active"
                      /\ disk.state \in {"none", "deleted"}
              /\ \A g \in dirs \ dirs' :
                   /\ disk.gen = g /\ disk.state \in {"deleting", "delete_failed"}
                   /\ ~(rec.gen = g /\ rec.open)]_vars
  <2>1. CASE disk' = disk /\ dirs \subseteq dirs'
    BY Zenon, <2>1
  <2>2. CASE Written
    BY Zenon, <2>2 DEF Written, Follows
  <2>3. ASSUME NEW t \in Threads, pc[t] = "removing", ~latched, disk' = disk,
               dirs' \in {dirs, dirs \ {gen[t]}}, NEW g \in dirs \ dirs'
        PROVE  /\ disk.gen = g /\ disk.state \in {"deleting", "delete_failed"}
               /\ ~(rec.gen = g /\ rec.open)
    <3>1. g = gen[t] /\ disk.gen = g /\ disk.state # "deleted" /\ g \in Nat
      BY <1>1, <2>3 DEF IInv, CatalogMatchesDisk, TypeOK
    <3>2. Doomed(disk, g) /\ ~(rec.gen = g /\ rec.open)
      BY Zenon, <1>1, <2>3 DEF IInv, DeleteInv, DeleteOf, Removing
    <3> QED
      BY <3>1, <3>2 DEF Doomed
  <2> QED
    BY Zenon, <1>1, <2>2, <2>3, DurableChange DEF durable
<1> QED
  BY <1>1, Inductive, PTL DEF Spec, DurableLifecycle

\* LatchCatalogUnavailable waits for everyone inside catalog_gate, and each entry
\* checks the latch again: nothing durable changes behind a latched catalog.
THEOREM LatchIsFinal == Spec => LatchStopsDurableChange
<1>1. ASSUME IInv, [Next]_vars
      PROVE  [latched /\ latched' => UNCHANGED durable]_vars
  BY Zenon, <1>1, DurableChange DEF Written, durable
<1> QED
  BY <1>1, Inductive, PTL DEF Spec, LatchStopsDurableChange
=============================================================================
