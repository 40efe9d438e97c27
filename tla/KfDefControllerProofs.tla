----------------------- MODULE KfDefControllerProofs -----------------------
(* Theorems about KfDefController, for every value of its constants. *)
EXTENDS KfDefController, TLAPS

-----------------------------------------------------------------------------
(* Objects and workers *)

LEMMA NoObjType == NoObj \in Object
BY DEF NoObj, Object

LEMMA StoredType ==
  ASSUME NEW o \in Object
  PROVE  Stored(o) \in Object
BY NoObjType DEF Stored

LEMMA FinsType ==
  ASSUME NEW o \in Object, NEW fs \in SUBSET Finalizers
  PROVE  [o EXCEPT !.fins = fs] \in Object
BY DEF Object

LEMMA DelType ==
  ASSUME NEW o \in Object
  PROVE  [o EXCEPT !.del = TRUE] \in Object
BY DEF Object

LEMMA CondsType ==
  ASSUME NEW o \in Object, NEW cs \in SUBSET Conditions
  PROVE  [o EXCEPT !.conds = cs] \in Object
BY DEF Object

LEMMA SpecType ==
  ASSUME NEW o \in Object
  PROVE  [o EXCEPT !.spec = @ + 1] \in Object
<1>1. o.spec + 1 \in Nat
  BY DEF Object
<1>2. ASSUME NEW n \in Nat PROVE [o EXCEPT !.spec = n] \in Object
  BY DEF Object
<1>3. QED
  BY <1>1, <1>2

LEMMA DeletedType ==
  ASSUME NEW o \in Object
  PROVE  Deleted(o) \in Object
BY StoredType, DelType DEF Deleted

LEMMA IdleType == Idle \in WorkerState
BY NoObjType, ConstantsAssumption DEF Idle, Task, WorkerState, PCs

LEMMA GotoType ==
  ASSUME NEW s \in WorkerState, NEW pc \in PCs
  PROVE  [s EXCEPT !.pc = pc] \in WorkerState
BY DEF WorkerState

LEMMA BeginType ==
  ASSUME NEW k \in KfDefs, NEW pc \in PCs, NEW o \in Object
  PROVE  Task(k, pc, o) \in WorkerState /\ Task(k, pc, o).key = k
BY ConstantsAssumption DEF WorkerState, Task

-----------------------------------------------------------------------------
(* Type correctness *)

LEMMA AddType ==
  ASSUME NEW q \in [Controllers -> SUBSET KfDefs], NEW c \in Controllers,
         NEW k \in KfDefs
  PROVE  Add(q, c, k) \in [Controllers -> SUBSET KfDefs]
BY DEF Add

LEMMA HomeType == \A w \in Workers : Home(w) \in Controllers
BY DEF Workers, Home, Controllers

LEMMA MainType == Main \in Controllers /\ MainWorker \in Workers
BY DEF Controllers, Workers, MainWorker

LEMMA DequeuedType ==
  ASSUME WorkersOK, NEW w \in Workers, NEW k \in KfDefs
  PROVE  Dequeued(w, k) \in [Controllers -> SUBSET KfDefs]
BY DEF WorkersOK, Dequeued

LEMMA RequeueType ==
  ASSUME WorkersOK, NEW w \in Workers, worker[w].pc # "idle", Requeue(w)
  PROVE  WorkersOK'
BY AddType, HomeType, IdleType DEF WorkersOK, Requeue, Idle, Task

LEMMA FinishType ==
  ASSUME WorkersOK, NEW w \in Workers, Finish(w)
  PROVE  WorkersOK'
BY IdleType DEF WorkersOK, Finish, Idle, Task

LEMMA SetWorkerType ==
  ASSUME WorkersOK, NEW w \in Workers, NEW s \in WorkerState,
         s.key \in KfDefs, worker' = [worker EXCEPT ![w] = s], queue' = queue
  PROVE  WorkersOK'
BY DEF WorkersOK

LEMMA GotoStep ==
  ASSUME WorkersOK, NEW w \in Workers, NEW pc \in PCs, worker[w].pc # "idle", Goto(w, pc)
  PROVE  WorkersOK'
<1>1. worker' = [worker EXCEPT ![w] = [worker[w] EXCEPT !.pc = pc]]
  BY DEF Goto, WorkersOK
<1>2. [worker[w] EXCEPT !.pc = pc] \in WorkerState
  BY GotoType DEF WorkersOK
<1>3. [worker[w] EXCEPT !.pc = pc].key \in KfDefs
  BY DEF WorkersOK, WorkerState
<1>4. QED
  BY <1>1, <1>2, <1>3, SetWorkerType DEF Goto

LEMMA BeginStep ==
  ASSUME WorkersOK, NEW w \in Workers, NEW k \in KfDefs, NEW pc \in PCs,
         NEW o \in Object, Begin(w, k, pc, o)
  PROVE  WorkersOK'
BY BeginType, DequeuedType DEF WorkersOK, Begin

LEMMA DropType ==
  ASSUME WorkersOK, NEW w \in Workers, NEW k \in KfDefs, Drop(w, k) \/ Retry(w, k)
  PROVE  WorkersOK'
<1>1. queue' \in [Controllers -> SUBSET KfDefs]
  BY DequeuedType, AddType, HomeType DEF Drop, Retry
<1>2. QED
  BY <1>1 DEF WorkersOK, Drop, Retry

LEMMA SpendType ==
  ASSUME ClusterOK, NEW e \in EventKinds, Spend(e)
  PROVE  used' \in [EventKinds -> Nat]
BY DEF ClusterOK, Spend

LEMMA SetDeployedType ==
  ASSUME ClusterOK, InformerOK, NEW k \in KfDefs, NEW d \in [Resources -> Nat],
         SetDeployed(k, d)
  PROVE  /\ deployed' \in [KfDefs -> [Resources -> Nat]]
         /\ resEvt' \in SUBSET (KfDefs \X Resources)
BY DEF ClusterOK, InformerOK, SetDeployed, Changed

LEMMA LoseMemoryType ==
  ASSUME LoseMemory
  PROVE  InformerOK' /\ WorkersOK' /\ GlobalsOK'
<1>1. InformerOK'
  BY NoObjType DEF LoseMemory, InformerOK
<1>2. WorkersOK'
  BY IdleType DEF LoseMemory, WorkersOK, Idle, Task
<1>3. GlobalsOK'
  BY DEF LoseMemory, GlobalsOK
<1>4. QED
  BY <1>1, <1>2, <1>3

LEMMA InitType == Init => TypeOK
<1> SUFFICES ASSUME Init PROVE TypeOK
  OBVIOUS
<1>1. ClusterOK
  BY NoObjType DEF Init, ClusterOK
<1>2. InformerOK
  BY NoObjType DEF Init, InformerOK
<1>3. WorkersOK
  BY IdleType DEF Init, WorkersOK, Idle, Task
<1>4. GlobalsOK
  BY DEF Init, GlobalsOK
<1>5. QED
  BY <1>1, <1>2, <1>3, <1>4 DEF TypeOK

LEMMA InformersType == TypeOK /\ Informers => TypeOK'
<1> SUFFICES ASSUME TypeOK, Informers PROVE TypeOK'
  OBVIOUS
<1> USE DEF TypeOK, memory, informer, cluster
<1>1. ASSUME NEW k \in KfDefs, SyncCache(k) PROVE TypeOK'
  <2>1. Notified(cache[k], cr[k]) \in SUBSET SUBSET Finalizers
    BY DEF ClusterOK, InformerOK, Object, Notified
  <2>2. InformerOK'
    BY <1>1, <2>1 DEF InformerOK, ClusterOK, SyncCache
  <2>3. QED
    BY <1>1, <2>2 DEF SyncCache, ClusterOK, WorkersOK, GlobalsOK
<1>2. ASSUME NEW k \in KfDefs, ResyncKfDef(k) PROVE TypeOK'
  <2>1. cache[k].fins \in SUBSET Finalizers
    BY DEF InformerOK, Object
  <2>2. InformerOK'
    BY <1>2, <2>1 DEF InformerOK, ResyncKfDef
  <2>3. ClusterOK'
    BY <1>2, SpendType DEF ResyncKfDef, ClusterOK, EventKinds
  <2>4. QED
    BY <1>2, <2>2, <2>3 DEF ResyncKfDef, WorkersOK, GlobalsOK
<1>3. ASSUME NEW k \in KfDefs, EnqueueKfDef(k) PROVE TypeOK'
  <2>1. InformerOK'
    BY <1>3 DEF InformerOK, EnqueueKfDef
  <2>2. WorkersOK'
    BY <1>3, AddType, MainType DEF WorkersOK, EnqueueKfDef
  <2>3. QED
    BY <1>3, <2>1, <2>2 DEF EnqueueKfDef, ClusterOK, GlobalsOK
<1>4. ASSUME NEW k \in KfDefs, AddFinalizer(k) PROVE TypeOK'
  <2>1. PICK fs \in notif[k] : AddFinalizer(k)!2!(fs)
    BY <1>4 DEF AddFinalizer
  <2>2. fs \cup {"kfdef"} \in SUBSET Finalizers
    BY <2>1 DEF InformerOK, Finalizers
  <2>3. InformerOK'
    BY <1>4, <2>1 DEF InformerOK, AddFinalizer
  <2>4. Stored([cr[k] EXCEPT !.fins = fs \cup {"kfdef"}]) \in Object
    BY <2>2, StoredType, FinsType DEF ClusterOK
  <2>5. cr' \in [KfDefs -> Object]
    BY <2>1, <2>4 DEF ClusterOK
  <2>6. used' \in [EventKinds -> Nat]
    BY <2>1, SpendType DEF ClusterOK, EventKinds
  <2>7. QED
    BY <1>4, <2>3, <2>5, <2>6 DEF AddFinalizer, ClusterOK, WorkersOK, GlobalsOK
<1>5. ASSUME NEW k \in KfDefs, NEW r \in Resources, HandleResource(k, r) PROVE TypeOK'
  <2>1. InformerOK'
    BY <1>5 DEF InformerOK, HandleResource
  <2>2. WorkersOK'
    BY <1>5 DEF WorkersOK, HandleResource
  <2>3. QED
    BY <1>5, <2>1, <2>2 DEF HandleResource, ClusterOK, GlobalsOK
<1>6. ASSUME HandleConfigMap PROVE TypeOK'
  <2>1. queue' \in [Controllers -> SUBSET KfDefs]
    BY <1>6, AddType, MainType DEF WorkersOK, GlobalsOK, HandleConfigMap
  <2>2. QED
    BY <1>6, <2>1 DEF HandleConfigMap, ClusterOK, WorkersOK, GlobalsOK, InformerOK
<1>7. ASSUME NEW k \in KfDefs, NEW r \in Resources, TouchResource(k, r) PROVE TypeOK'
  <2>1. InformerOK'
    BY <1>7 DEF InformerOK, TouchResource
  <2>2. ClusterOK'
    BY <1>7, SpendType DEF TouchResource, ClusterOK, EventKinds
  <2>3. QED
    BY <1>7, <2>1, <2>2 DEF TouchResource, WorkersOK, GlobalsOK
<1>8. ASSUME ResyncConfigMap PROVE TypeOK'
  <2>1. ClusterOK'
    BY <1>8, SpendType DEF ResyncConfigMap, ClusterOK, EventKinds
  <2>2. QED
    BY <1>8, <2>1 DEF ResyncConfigMap, InformerOK, WorkersOK, GlobalsOK
<1>9. QED
  BY <1>1, <1>2, <1>3, <1>4, <1>5, <1>6, <1>7, <1>8 DEF Informers

LEMMA StartType ==
  ASSUME TypeOK, NEW w \in Workers, NEW k \in KfDefs, Start(w, k)
  PROVE  TypeOK'
<1> USE DEF TypeOK, memory, informer, cluster
<1>1. CASE StartGone(w, k)
  <2>1. WorkersOK'
    BY <1>1, BeginStep, DropType, NoObjType DEF StartGone, PCs
  <2>2. QED
    BY <1>1, <2>1 DEF StartGone, ClusterOK, InformerOK, GlobalsOK
<1>2. CASE StartDelete(w, k)
  <2>1. CASE Begin(w, k, "delete", cache[k])
    <3>1. WorkersOK'
      BY <2>1, BeginStep DEF InformerOK, PCs, DeletePath
    <3>2. GlobalsOK'
      BY <1>2, <2>1, LoseMemoryType DEF StartDelete, StopSecond, GlobalsOK
    <3>3. QED
      BY <1>2, <2>1, <3>1, <3>2, LoseMemoryType DEF StartDelete, StopSecond, ClusterOK, InformerOK
  <2>2. CASE proc' = "panicked" /\ LoseMemory
    BY <1>2, <2>2, LoseMemoryType DEF StartDelete, ClusterOK
  <2>3. QED
    BY <1>2, <2>1, <2>2 DEF StartDelete
<1>3. CASE StartApply(w, k)
  <2> DEFINE new == [cache[k] EXCEPT !.fins = @ \cup {"kfdef"}]
  <2>1. new \in Object
    BY FinsType DEF InformerOK, Object, Finalizers
  <2> HIDE DEF new
  <2>2. \/ Begin(w, k, "apply", cache[k]) /\ UNCHANGED <<cr, used>>
        \/ Begin(w, k, "apply", new) /\ cr' = [cr EXCEPT ![k] = new] /\ UNCHANGED used
        \/ Retry(w, k) /\ UNCHANGED <<cr, used>>
        \/ /\ Retry(w, k) /\ Spend("faults")
           /\ UNCHANGED cr \/ cr' = [cr EXCEPT ![k] = new]
    BY <1>3 DEF StartApply, new
  <2>3. WorkersOK'
    BY <2>1, <2>2, BeginStep, DropType DEF InformerOK, PCs, ApplyPath
  <2>4. used' \in [EventKinds -> Nat]
    BY <2>2, SpendType DEF ClusterOK, EventKinds
  <2>5. cr' \in [KfDefs -> Object]
    BY <2>1, <2>2 DEF ClusterOK
  <2>6. QED
    BY <1>3, <2>3, <2>4, <2>5 DEF StartApply, ClusterOK, InformerOK, GlobalsOK
<1>4. QED
  BY <1>1, <1>2, <1>3 DEF Start

LEMMA BusyType ==
  ASSUME TypeOK, NEW w \in Workers, worker[w].pc # "idle"
  PROVE  /\ worker[w] \in WorkerState
         /\ worker[w].key \in KfDefs
         /\ worker[w].inst \in Object
BY DEF TypeOK, WorkersOK, WorkerState

LEMMA DeletePathType ==
  ASSUME TypeOK, NEW w \in Workers, DeleteApp(w) \/ Cleanup(w) \/ RemoveFinalizer(w)
  PROVE  TypeOK'
<1> USE DEF TypeOK, memory, informer, cluster
<1>1. CASE DeleteApp(w)
  <2> DEFINE k == worker[w].key
  <2>1. worker[w].pc # "idle" /\ k \in KfDefs
    BY <1>1, BusyType DEF DeleteApp, At
  <2>2. \E d \in [Resources -> Nat] : SetDeployed(k, d)
    BY <1>1, <2>1 DEF DeleteApp, Undeployed, ClusterOK
  <2>3. /\ deployed' \in [KfDefs -> [Resources -> Nat]]
        /\ resEvt' \in SUBSET (KfDefs \X Resources)
    BY <2>1, <2>2, SetDeployedType
  <2>4. WorkersOK'
    BY <1>1, <2>1, GotoStep DEF DeleteApp, PCs, DeletePath
  <2>5. used' \in [EventKinds -> Nat]
    BY <1>1, SpendType DEF DeleteApp, ClusterOK, EventKinds
  <2>6. QED
    BY <1>1, <2>3, <2>4, <2>5 DEF DeleteApp, ClusterOK, InformerOK, GlobalsOK
<1>2. CASE Cleanup(w)
  <2>1. worker[w].pc # "idle"
    BY <1>2 DEF Cleanup, At
  <2>2. WorkersOK'
    BY <1>2, <2>1, GotoStep, RequeueType DEF Cleanup, PCs, DeletePath
  <2>3. used' \in [EventKinds -> Nat]
    BY <1>2, SpendType DEF Cleanup, ClusterOK, EventKinds
  <2>4. QED
    BY <1>2, <2>2, <2>3 DEF Cleanup, Unregister, ClusterOK, InformerOK, GlobalsOK
<1>3. CASE RemoveFinalizer(w)
  <2> DEFINE k == worker[w].key
             rest == worker[w].inst.fins \ {"kfdef"}
             st == [worker[w] EXCEPT
                      !.inst = IF Exists(cache[k]) THEN cache[k] ELSE @, !.tries = @ + 1]
  <2>1. /\ worker[w].pc # "idle" /\ k \in KfDefs
        /\ worker[w] \in WorkerState /\ rest \in SUBSET Finalizers
    BY <1>3, BusyType DEF RemoveFinalizer, At, Object
  <2>2. Stored([cr[k] EXCEPT !.fins = rest]) \in Object
    BY <2>1, FinsType, StoredType DEF ClusterOK
  <2> HIDE DEF k, rest, st
  <2>3. \/ /\ cr' = [cr EXCEPT ![k] = Stored([cr[k] EXCEPT !.fins = rest])]
           /\ Requeue(w) \/ Finish(w)
           /\ UNCHANGED used
        \/ /\ worker[w].tries < FinalizerMaxRetries
           /\ worker' = [worker EXCEPT ![w] = st]
           /\ UNCHANGED <<queue, cr, used>>
        \/ Requeue(w) /\ UNCHANGED <<cr, used>>
        \/ Requeue(w) /\ UNCHANGED cr /\ Spend("faults")
    BY <1>3, <2>1 DEF RemoveFinalizer, MayRetry, k, rest, st, WorkersOK, ClusterOK
  <2>4. cr' \in [KfDefs -> Object]
    BY <2>1, <2>2, <2>3 DEF ClusterOK
  <2>5. used' \in [EventKinds -> Nat]
    BY <2>3, SpendType DEF ClusterOK, EventKinds
  <2>6. ASSUME worker[w].tries < FinalizerMaxRetries
        PROVE  st \in WorkerState /\ st.key \in KfDefs
    <3> DEFINE o == IF Exists(cache[k]) THEN cache[k] ELSE worker[w].inst
    <3>1. o \in Object
      BY <2>1 DEF InformerOK, WorkerState
    <3>2. worker[w].tries + 1 \in 0..FinalizerMaxRetries
      BY <2>1, <2>6, ConstantsAssumption DEF WorkerState
    <3>3. st = [worker[w] EXCEPT !.inst = o, !.tries = worker[w].tries + 1]
      BY DEF st
    <3> HIDE DEF o
    <3>4. QED
      BY <2>1, <3>1, <3>2, <3>3 DEF k, WorkerState
  <2>7. WorkersOK'
    BY <2>1, <2>3, <2>6, RequeueType, FinishType, SetWorkerType
  <2>8. QED
    BY <1>3, <2>4, <2>5, <2>7 DEF RemoveFinalizer, ClusterOK, InformerOK, GlobalsOK
<1>4. QED
  BY <1>1, <1>2, <1>3

LEMMA ApplyPathType ==
  ASSUME TypeOK, NEW w \in Workers,
         \/ DeleteInstances(w) \/ Apply(w) \/ Register(w) \/ StartSecond(w) \/ SetStatus(w)
  PROVE  TypeOK'
<1> USE DEF TypeOK, memory, informer, cluster
<1>1. CASE DeleteInstances(w)
  <2>1. worker[w].pc # "idle"
    BY <1>1 DEF DeleteInstances, At
  <2>2. WorkersOK'
    BY <1>1, <2>1, RequeueType DEF DeleteInstances
  <2>3. used' \in [EventKinds -> Nat]
    BY <1>1, SpendType DEF DeleteInstances, ClusterOK, EventKinds
  <2>4. cr' \in [KfDefs -> Object]
    BY <1>1, DeletedType DEF DeleteInstances, ClusterOK
  <2>5. QED
    BY <1>1, <2>2, <2>3, <2>4 DEF DeleteInstances, ClusterOK, InformerOK, GlobalsOK
<1>2. CASE Apply(w)
  <2> DEFINE k == worker[w].key
  <2>1. /\ worker[w].pc # "idle" /\ k \in KfDefs
        /\ worker[w] \in WorkerState /\ worker[w].inst \in Object
    BY <1>2, BusyType DEF Apply, At
  <2>2. \/ \E d \in [Resources -> Nat] : SetDeployed(k, d)
        \/ UNCHANGED <<deployed, resEvt>>
    <3>1. worker[w].inst.spec \in Nat
      BY <2>1 DEF Object
    <3> DEFINE Done(S) == [r \in Resources |->
                              IF r \in S THEN worker[w].inst.spec ELSE deployed[k][r]]
    <3>2. ASSUME NEW S \in SUBSET Resources
          PROVE  Done(S) \in [Resources -> Nat]
      BY <2>1, <3>1 DEF ClusterOK
    <3>3. \/ \E S \in SUBSET Resources : SetDeployed(k, Done(S))
          \/ UNCHANGED <<deployed, resEvt>>
      <4>1. Resources \in SUBSET Resources
        OBVIOUS
      <4>2. \/ SetDeployed(k, Done(Resources))
            \/ \E S \in SUBSET Resources : SetDeployed(k, Done(S))
            \/ UNCHANGED <<deployed, resEvt>>
        BY <1>2, ZenonT(60) DEF Apply
      <4> HIDE DEF Done
      <4>3. QED
        BY <4>1, <4>2
    <3> HIDE DEF Done
    <3>4. QED
      BY <3>2, <3>3
  <2>3. /\ deployed' \in [KfDefs -> [Resources -> Nat]]
        /\ resEvt' \in SUBSET (KfDefs \X Resources)
    BY <2>1, <2>2, SetDeployedType DEF ClusterOK, InformerOK
  <2>4. \E pc \in {"register", "status"}, ok \in BOOLEAN, cs \in SUBSET Conditions :
          worker' = [worker EXCEPT ![w].pc = pc, ![w].ok = ok, ![w].inst.conds = cs]
    BY <1>2 DEF Apply, Conditions
  <2>5. PICK pc \in {"register", "status"}, ok \in BOOLEAN, cs \in SUBSET Conditions :
          worker' = [worker EXCEPT ![w].pc = pc, ![w].ok = ok, ![w].inst.conds = cs]
    BY <2>4
  <2>6. [worker[w].inst EXCEPT !.conds = cs] \in Object
    BY <2>1, CondsType
  <2> DEFINE o  == [worker[w].inst EXCEPT !.conds = cs]
             st == [worker[w] EXCEPT !.pc = pc, !.ok = ok, !.inst = o]
  <2>7. worker' = [worker EXCEPT ![w] = st]
    BY <2>1, <2>5 DEF WorkersOK, WorkerState
  <2>8. st \in WorkerState /\ st.key \in KfDefs
    <3> HIDE DEF o
    <3>1. o \in Object /\ pc \in PCs
      BY <2>6 DEF o, PCs, ApplyPath
    <3>2. QED
      BY <2>1, <3>1 DEF WorkerState
  <2> HIDE DEF st, o
  <2>9. WorkersOK'
    BY <1>2, <2>7, <2>8, SetWorkerType DEF Apply
  <2>10. used' \in [EventKinds -> Nat]
    BY <1>2, SpendType DEF Apply, ClusterOK, EventKinds
  <2>11. QED
    BY <1>2, <2>3, <2>9, <2>10 DEF Apply, ClusterOK, InformerOK, GlobalsOK
<1>3. CASE Register(w)
  <2>1. worker[w].pc # "idle" /\ worker[w].key \in KfDefs
    BY <1>3, BusyType DEF Register, At
  <2>2. WorkersOK'
    BY <1>3, <2>1, GotoStep DEF Register, AfterRegister, PCs, ApplyPath
  <2>3. QED
    BY <1>3, <2>1, <2>2 DEF Register, ClusterOK, InformerOK, GlobalsOK
<1>4. CASE StartSecond(w)
  <2>1. worker[w].pc # "idle"
    BY <1>4 DEF StartSecond, At
  <2>2. WorkersOK'
    BY <1>4, <2>1, GotoStep, FinishType DEF StartSecond, PCs, ApplyPath
  <2>3. used' \in [EventKinds -> Nat]
    BY <1>4, SpendType DEF StartSecond, ClusterOK, EventKinds
  <2>4. GlobalsOK'
    BY <1>4 DEF StartSecond, GlobalsOK
  <2>5. QED
    BY <1>4, <2>2, <2>3, <2>4 DEF StartSecond, ClusterOK, InformerOK
<1>5. CASE SetStatus(w)
  <2> DEFINE k == worker[w].key
             cs == worker[w].inst.conds
  <2>1. /\ worker[w].pc # "idle" /\ k \in KfDefs
        /\ cs \in SUBSET Conditions
    BY <1>5, BusyType DEF SetStatus, At, Object
  <2>2. [cr[k] EXCEPT !.conds = cs] \in Object
    BY <2>1, CondsType DEF ClusterOK
  <2> HIDE DEF cs
  <2>3. /\ Requeue(w) \/ Finish(w)
        /\ cr' = [cr EXCEPT ![k] = [cr[k] EXCEPT !.conds = cs]] \/ UNCHANGED cr
    BY <1>5, <2>1 DEF SetStatus, cs, ClusterOK
  <2>4. WorkersOK'
    BY <2>1, <2>3, RequeueType, FinishType
  <2>5. cr' \in [KfDefs -> Object]
    BY <2>1, <2>2, <2>3 DEF ClusterOK
  <2>6. used' \in [EventKinds -> Nat]
    BY <1>5, SpendType DEF SetStatus, ClusterOK, EventKinds
  <2>7. QED
    BY <1>5, <2>4, <2>5, <2>6 DEF SetStatus, ClusterOK, InformerOK, GlobalsOK
<1>6. QED
  BY <1>1, <1>2, <1>3, <1>4, <1>5

LEMMA UninstallType ==
  ASSUME TypeOK, NEW w \in Workers, Uninstall(w) \/ Purge(w)
  PROVE  TypeOK'
<1> USE DEF TypeOK, memory, informer, cluster
<1>1. CASE Uninstall(w)
  <2>1. worker[w].pc # "idle"
    BY <1>1 DEF Uninstall, At
  <2>2. WorkersOK'
    BY <1>1, <2>1, GotoStep, RequeueType DEF Uninstall, PCs
  <2>3. ns' \in [Namespaces -> {"active", "terminating", "gone"}]
    BY <1>1 DEF Uninstall, ClusterOK
  <2>4. used' \in [EventKinds -> Nat]
    BY <1>1, SpendType DEF Uninstall, ClusterOK, EventKinds
  <2>5. QED
    BY <1>1, <2>2, <2>3, <2>4 DEF Uninstall, ClusterOK, InformerOK, GlobalsOK
<1>2. CASE Purge(w)
  <2>1. worker[w].pc # "idle"
    BY <1>2 DEF Purge, At
  <2>2. WorkersOK'
    BY <1>2, <2>1, RequeueType DEF Purge
  <2>3. ns' \in [Namespaces -> {"active", "terminating", "gone"}] /\ csv' \in BOOLEAN
    BY <1>2 DEF Purge, ClusterOK
  <2>4. used' \in [EventKinds -> Nat]
    BY <1>2, SpendType DEF Purge, ClusterOK, EventKinds
  <2>5. QED
    BY <1>2, <2>2, <2>3, <2>4 DEF Purge, ClusterOK, InformerOK, GlobalsOK
<1>3. QED
  BY <1>1, <1>2

LEMMA ReconcileType == TypeOK /\ Reconcile => TypeOK'
BY StartType, DeletePathType, ApplyPathType, UninstallType DEF Reconcile, Continue

LEMMA EnvironmentType == TypeOK /\ Environment => TypeOK'
<1> SUFFICES ASSUME TypeOK, Environment PROVE TypeOK'
  OBVIOUS
<1> USE DEF TypeOK, memory, informer, cluster
<1>1. ASSUME NEW k \in KfDefs, CreateKfDef(k) PROVE TypeOK'
  <2> DEFINE o == [NoObj EXCEPT !.inc = born'[k], !.spec = 1]
  <2>1. born' \in [KfDefs -> Nat]
    BY <1>1 DEF CreateKfDef, ClusterOK
  <2>2. o \in Object
    BY <2>1 DEF NoObj, Object
  <2> HIDE DEF o
  <2>3. cr' = [cr EXCEPT ![k] = o]
    BY <1>1 DEF CreateKfDef, o
  <2>4. cr' \in [KfDefs -> Object]
    BY <2>2, <2>3 DEF ClusterOK
  <2>5. QED
    BY <1>1, <2>1, <2>4 DEF CreateKfDef, ClusterOK, InformerOK, WorkersOK, GlobalsOK
<1>2. ASSUME NEW k \in KfDefs, EditKfDef(k) PROVE TypeOK'
  <2>1. [cr[k] EXCEPT !.spec = @ + 1] \in Object
    BY SpecType DEF ClusterOK
  <2>2. cr' = [cr EXCEPT ![k] = [cr[k] EXCEPT !.spec = @ + 1]]
    BY <1>2 DEF EditKfDef, ClusterOK
  <2>3. cr' \in [KfDefs -> Object]
    BY <2>1, <2>2 DEF ClusterOK
  <2>4. used' \in [EventKinds -> Nat]
    BY <1>2, SpendType DEF EditKfDef, ClusterOK, EventKinds
  <2>5. QED
    BY <1>2, <2>3, <2>4 DEF EditKfDef, ClusterOK, InformerOK, WorkersOK, GlobalsOK
<1>3. ASSUME NEW k \in KfDefs, DeleteKfDef(k) PROVE TypeOK'
  <2>1. Deleted(cr[k]) \in Object
    BY DeletedType DEF ClusterOK
  <2>2. [cr[k] EXCEPT !.del = TRUE, !.fins = @ \cup {"foreground"}] \in Object
    BY DEF ClusterOK, Object, Finalizers
  <2>3. \/ cr' = [cr EXCEPT ![k] = Deleted(cr[k])] /\ UNCHANGED used
        \/ /\ cr' = [cr EXCEPT ![k] = [cr[k] EXCEPT !.del = TRUE, !.fins = @ \cup {"foreground"}]]
           /\ Spend("foregrounds")
    BY <1>3 DEF DeleteKfDef, ClusterOK
  <2>4. cr' \in [KfDefs -> Object]
    BY <2>1, <2>2, <2>3 DEF ClusterOK
  <2>5. used' \in [EventKinds -> Nat]
    BY <2>3, SpendType DEF ClusterOK, EventKinds
  <2>6. QED
    BY <1>3, <2>4, <2>5 DEF DeleteKfDef, ClusterOK, InformerOK, WorkersOK, GlobalsOK
<1>4. ASSUME NEW k \in KfDefs, CollectForeground(k) PROVE TypeOK'
  <2> DEFINE fs == cr[k].fins \ {"foreground"}
             o  == [cr[k] EXCEPT !.fins = fs]
  <2>1. fs \in SUBSET Finalizers
    BY DEF ClusterOK, Object
  <2>2. o = [cr[k] EXCEPT !.fins = @ \ {"foreground"}]
    BY DEF ClusterOK, Object
  <2>3. cr' = [cr EXCEPT ![k] = Stored(o)]
    BY <1>4, <2>2 DEF CollectForeground, ClusterOK
  <2>4. o \in Object
    BY <2>1, FinsType DEF ClusterOK
  <2> HIDE DEF o
  <2>5. cr' \in [KfDefs -> Object]
    BY <2>3, <2>4, StoredType DEF ClusterOK
  <2>6. QED
    BY <1>4, <2>5 DEF CollectForeground, ClusterOK, InformerOK, WorkersOK, GlobalsOK
<1>5. ASSUME NEW k \in KfDefs, NEW r \in Resources, LoseResource(k, r) PROVE TypeOK'
  <2>1. deployed' \in [KfDefs -> [Resources -> Nat]]
    BY <1>5 DEF LoseResource, ClusterOK
  <2>2. resEvt' \in SUBSET (KfDefs \X Resources)
    BY <1>5 DEF LoseResource, InformerOK
  <2>3. used' \in [EventKinds -> Nat]
    BY <1>5, SpendType DEF LoseResource, ClusterOK, EventKinds
  <2>4. QED
    BY <1>5, <2>1, <2>2, <2>3 DEF LoseResource, ClusterOK, InformerOK, WorkersOK, GlobalsOK
<1>6. ASSUME NEW n \in Namespaces, EmptyNamespace(n) PROVE TypeOK'
  <2>1. cr' \in [KfDefs -> Object]
    BY <1>6, DeletedType DEF EmptyNamespace, ClusterOK
  <2>2. deployed' \in [KfDefs -> [Resources -> Nat]]
    BY <1>6 DEF EmptyNamespace, ClusterOK
  <2>3. resEvt' \in SUBSET (KfDefs \X Resources)
    BY <1>6 DEF EmptyNamespace, InformerOK, Changed
  <2>4. QED
    BY <1>6, <2>1, <2>2, <2>3 DEF EmptyNamespace, ClusterOK, InformerOK, WorkersOK, GlobalsOK
<1>7. ASSUME NEW n \in Namespaces, DropNamespace(n) PROVE TypeOK'
  <2>1. ns' \in [Namespaces -> {"active", "terminating", "gone"}]
    BY <1>7 DEF DropNamespace, ClusterOK
  <2>2. QED
    BY <1>7, <2>1 DEF DropNamespace, ClusterOK, InformerOK, WorkersOK, GlobalsOK
<1>8. ASSUME AddDeleteConfigMap PROVE TypeOK'
  BY <1>8, SpendType
  DEF AddDeleteConfigMap, ClusterOK, InformerOK, WorkersOK, GlobalsOK, EventKinds
<1>9. ASSUME Crash PROVE TypeOK'
  BY <1>9, LoseMemoryType, SpendType DEF Crash, ClusterOK, EventKinds
<1>10. ASSUME Restart PROVE TypeOK'
  <2>1. InformerOK'
    BY <1>10 DEF Restart, ClusterOK, InformerOK, Object
  <2>2. QED
    BY <1>10, <2>1 DEF Restart, ClusterOK, WorkersOK, GlobalsOK
<1>11. ASSUME RemoveOperator PROVE TypeOK'
  BY <1>11, LoseMemoryType DEF RemoveOperator, ClusterOK
<1>12. QED
  BY <1>1, <1>2, <1>3, <1>4, <1>5, <1>6, <1>7, <1>8, <1>9, <1>10, <1>11 DEF Environment

LEMMA StutterType == TypeOK /\ UNCHANGED vars => TypeOK'
BY DEF TypeOK, ClusterOK, InformerOK, WorkersOK, GlobalsOK, vars, memory, informer, cluster

\* Every state of the controller, the informers and the cluster is well-typed.
THEOREM TypeCorrect == Spec => []TypeOK
<1>1. TypeOK /\ [Next]_vars => TypeOK'
  BY InformersType, ReconcileType, EnvironmentType, StutterType DEF Next
<1>2. QED
  BY InitType, <1>1, PTL DEF Spec

=============================================================================
