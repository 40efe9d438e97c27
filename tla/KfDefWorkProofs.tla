-------------------------- MODULE KfDefWorkProofs --------------------------
(***************************************************************************)
(* What KfDefController promises, for every value of its constants.        *)
(*                                                                         *)
(* NoLostWork rests on CacheBehind: a write that changes a KfDef always    *)
(* makes it differ from the informer's copy, so its event is still to      *)
(* come.  StopMatchesFlag needs nothing else.                              *)
(*                                                                         *)
(* FinalizerGuards, RegisteredExist, CrdKindsWatched, OneSecondController  *)
(* and the refinement of KfDefLifecycle hold under hypotheses on the       *)
(* behaviour, each of which names what breaks them otherwise: a name that  *)
(* is used again (Unreused), a second controller at work (MainAlone), a    *)
(* deletion that leaves something (Undeploys), the uninstallation (cm), a  *)
(* call that fails, two workers that start a controller (OneStarter).      *)
(***************************************************************************)
EXTENDS KfDefControllerProofs, KfDefRefinement

-----------------------------------------------------------------------------
(* The informer's copy is never ahead of the object *)

\* Behind(k) is what CacheBehind says of k.
Behind(k) ==
  /\ IF Exists(cr[k]) THEN cr[k].inc = born[k] /\ cr[k].spec # 0 ELSE cr[k] = NoObj
  /\ cache[k].inc <= born[k]
  /\ Exists(cr[k]) /\ cache[k].inc = cr[k].inc => Later(cache[k], cr[k])

\* What one step can do to k: move the informer's copy, the object, or create it.
Informed(k) ==
  /\ cr'[k] = cr[k]
  /\ born'[k] = born[k]
  /\ cache'[k] \in {cache[k], cr[k], NoObj}

Written(k) ==
  /\ cache'[k] = cache[k]
  /\ born'[k] = born[k]
  /\ Exists(cr[k])
  /\ cr'[k] = NoObj \/ Later(cr[k], cr'[k])

Created(k) ==
  /\ cache'[k] = cache[k]
  /\ ~Exists(cr[k])
  /\ born'[k] = born[k] + 1
  /\ cr'[k] = [NoObj EXCEPT !.inc = born'[k], !.spec = 1]

Evolves(k) == Informed(k) \/ Written(k) \/ Created(k)

LEMMA LaterType ==
  ASSUME NEW o \in Object, NEW p \in Object, NEW q \in Object
  PROVE  Later(o, o) /\ (Later(o, p) /\ Later(p, q) => Later(o, q))
BY DEF Later, Object

LEMMA FinsLater ==
  ASSUME NEW o \in Object, NEW fs \in SUBSET Finalizers, o.del => fs \subseteq o.fins
  PROVE  Later(o, [o EXCEPT !.fins = fs])
BY DEF Later, Object

LEMMA StoredIs == \A o : Stored(o) = NoObj \/ Stored(o) = o
BY DEF Stored

LEMMA DeletedLater ==
  ASSUME NEW o \in Object, Exists(o)
  PROVE  Deleted(o) = NoObj \/ Later(o, Deleted(o))
<1>1. Later(o, [o EXCEPT !.del = TRUE])
  BY DEF Later, Object
<1>2. QED
  BY <1>1, StoredIs DEF Deleted

LEMMA EvolvesBehind ==
  ASSUME TypeOK, TypeOK', NEW k \in KfDefs, Behind(k), Evolves(k)
  PROVE  Behind(k)'
<1>1. /\ cr[k] \in Object /\ cache[k] \in Object /\ born[k] \in Nat
      /\ cr'[k] \in Object /\ cache'[k] \in Object /\ born'[k] \in Nat
  BY DEF TypeOK, ClusterOK, InformerOK
<1>2. ~Exists(NoObj) /\ NoObj.inc = 0
  BY DEF Exists, NoObj
<1>3. CASE Informed(k)
  BY <1>1, <1>2, <1>3, LaterType DEF Informed, Behind, Exists, Object
<1>4. CASE Written(k)
  <2>1. cr[k].inc = cr'[k].inc \/ cr'[k] = NoObj
    BY <1>4 DEF Written, Later
  <2>2. Later(cr[k], cr'[k]) => cr'[k].spec # 0
    BY <1>1, <1>4 DEF Written, Later, Object, Behind
  <2>3. QED
    BY <1>1, <1>2, <1>4, <2>1, <2>2, LaterType DEF Written, Behind, Exists, Later
<1>5. CASE Created(k)
  <2>1. /\ cr'[k].inc = born'[k] /\ cr'[k].spec = 1
        /\ born'[k] = born[k] + 1
        /\ cache'[k].inc \in Nat /\ cache'[k].inc <= born[k]
    BY <1>1, <1>5 DEF Created, NoObj, Behind, Object
  <2>2. born'[k] # 0 /\ cache'[k].inc <= born'[k] /\ cache'[k].inc # born'[k]
    BY <1>1, <2>1
  <2>3. QED
    BY <2>1, <2>2 DEF Behind, Exists
<1>6. QED
  BY <1>3, <1>4, <1>5 DEF Evolves

\* A write that sets the finalizers, accepted by the API server, is Later.
LEMMA AcceptedLater ==
  ASSUME TypeOK, NEW k \in KfDefs, NEW o, NEW fs \in SUBSET Finalizers, Accepts(k, o, fs)
  PROVE  /\ Exists(cr[k]) /\ o = cr[k]
         /\ Later(cr[k], [cr[k] EXCEPT !.fins = fs])
BY FinsLater DEF Accepts, TypeOK, ClusterOK

LEMMA InformersEvolve ==
  ASSUME TypeOK, Informers
  PROVE  \A k \in KfDefs : Evolves(k)
<1> USE DEF TypeOK, memory, informer, cluster
<1>1. ASSUME NEW j \in KfDefs, SyncCache(j) PROVE \A k \in KfDefs : Informed(k)
  BY <1>1 DEF SyncCache, Informed, InformerOK
<1>2. ASSUME NEW j \in KfDefs, AddFinalizer(j) PROVE \A k \in KfDefs : Evolves(k)
  <2>1. PICK fs \in notif[j] : AddFinalizer(j)!2!(fs)
    BY <1>2 DEF AddFinalizer
  <2>2. fs \cup {"kfdef"} \in SUBSET Finalizers
    BY DEF InformerOK, Finalizers
  <2> DEFINE o == [cr[j] EXCEPT !.fins = fs \cup {"kfdef"}]
  <2>3. UNCHANGED cr \/ (Accepts(j, cache[j], fs \cup {"kfdef"}) /\ cr' = [cr EXCEPT ![j] = Stored(o)])
    BY <2>1 DEF ClusterOK
  <2>4. Accepts(j, cache[j], fs \cup {"kfdef"}) => Exists(cr[j]) /\ Later(cr[j], o)
    BY <2>2, AcceptedLater
  <2> HIDE DEF o
  <2>5. UNCHANGED cr \/ (Written(j) /\ \A k \in KfDefs \ {j} : cr'[k] = cr[k])
    BY <1>2, <2>3, <2>4, StoredIs DEF AddFinalizer, Written, ClusterOK
  <2>6. QED
    BY <1>2, <2>5 DEF AddFinalizer, Evolves, Informed, ClusterOK
<1>3. (\A j \in KfDefs : ~SyncCache(j) /\ ~AddFinalizer(j)) => UNCHANGED <<cr, born, cache>>
  BY DEF Informers, ResyncKfDef, ResyncConfigMap, TouchResource, EnqueueKfDef,
         HandleResource, HandleConfigMap
<1>4. UNCHANGED <<cr, born, cache>> => \A k \in KfDefs : Informed(k)
  BY DEF Informed
<1>5. QED
  BY <1>1, <1>2, <1>3, <1>4 DEF Evolves

LEMMA StartEvolve ==
  ASSUME TypeOK, NEW w \in Workers, NEW j \in KfDefs, Start(w, j)
  PROVE  \A k \in KfDefs : Evolves(k)
<1> USE DEF TypeOK, memory, informer, cluster
<1>1. CASE StartGone(w, j)
  BY <1>1 DEF StartGone, Evolves, Informed
<1>2. CASE StartDelete(w, j)
  BY <1>2 DEF StartDelete, Evolves, Informed, LoseMemory, ClusterOK, InformerOK
<1>3. CASE StartApply(w, j)
  <2> DEFINE fs  == cache[j].fins \cup {"kfdef"}
             new == [cache[j] EXCEPT !.fins = @ \cup {"kfdef"}]
  <2>1. UNCHANGED cr \/ (Accepts(j, cache[j], new.fins) /\ cr' = [cr EXCEPT ![j] = new])
    BY <1>3 DEF StartApply
  <2>2. fs \in SUBSET Finalizers /\ new.fins = fs
    BY DEF InformerOK, Object, Finalizers
  <2>3. ASSUME Accepts(j, cache[j], new.fins) PROVE Exists(cr[j]) /\ Later(cr[j], new)
    <3>1. Exists(cr[j]) /\ cache[j] = cr[j] /\ Later(cr[j], [cr[j] EXCEPT !.fins = fs])
      <4> HIDE DEF fs, new
      <4>1. QED
        BY <2>2, <2>3, AcceptedLater
    <3>2. new = [cr[j] EXCEPT !.fins = fs]
      BY <3>1
    <3>3. QED
      BY <3>1, <3>2
  <2> HIDE DEF new
  <2>4. UNCHANGED cr \/ (Written(j) /\ \A k \in KfDefs \ {j} : cr'[k] = cr[k])
    BY <1>3, <2>1, <2>3 DEF StartApply, Written, ClusterOK
  <2>5. QED
    BY <1>3, <2>4 DEF StartApply, Evolves, Informed, ClusterOK
<1>4. QED
  BY <1>1, <1>2, <1>3 DEF Start

LEMMA ContinueEvolve ==
  ASSUME TypeOK, NEW w \in Workers, Continue(w)
  PROVE  \A k \in KfDefs : Evolves(k)
<1> USE DEF TypeOK, memory, informer, cluster
<1>1. CASE RemoveFinalizer(w)
  <2> DEFINE j    == worker[w].key
             rest == worker[w].inst.fins \ {"kfdef"}
             o    == [cr[j] EXCEPT !.fins = rest]
  <2>1. j \in KfDefs /\ rest \in SUBSET Finalizers
    BY <1>1, BusyType DEF RemoveFinalizer, At, Object, WorkersOK, WorkerState
  <2>2. UNCHANGED cr \/ (Accepts(j, worker[w].inst, rest) /\ cr' = [cr EXCEPT ![j] = Stored(o)])
    BY <1>1, <2>1 DEF RemoveFinalizer, ClusterOK
  <2>3. Accepts(j, worker[w].inst, rest) => Exists(cr[j]) /\ Later(cr[j], o)
    <3> HIDE DEF j, rest
    <3>1. QED
      BY <2>1, AcceptedLater DEF o
  <2> HIDE DEF j, rest, o
  <2>4. UNCHANGED cr \/ (Written(j) /\ \A k \in KfDefs \ {j} : cr'[k] = cr[k])
    BY <1>1, <2>1, <2>2, <2>3, StoredIs DEF RemoveFinalizer, Written, ClusterOK
  <2>5. QED
    BY <1>1, <2>4 DEF RemoveFinalizer, Evolves, Informed, ClusterOK
<1>2. CASE DeleteInstances(w)
  <2>1. \A k \in KfDefs : cr'[k] \in {cr[k], Deleted(cr[k])}
    BY <1>2 DEF DeleteInstances
  <2>2. \A k \in KfDefs : cr'[k] = cr[k] \/ Written(k)
    BY <1>2, <2>1, DeletedLater DEF DeleteInstances, Written, ClusterOK, Deleted
  <2>3. QED
    BY <1>2, <2>2 DEF DeleteInstances, Evolves, Informed
<1>3. CASE SetStatus(w)
  <2> DEFINE j   == worker[w].key
             new == worker[w].inst.conds
             o   == [cr[j] EXCEPT !.conds = new]
  <2>1. j \in KfDefs /\ new \in SUBSET Conditions
    BY <1>3, BusyType DEF SetStatus, At, Object, WorkersOK, WorkerState
  <2>2. UNCHANGED cr \/ (Exists(cr[j]) /\ cr' = [cr EXCEPT ![j] = o])
    BY <1>3, <2>1 DEF SetStatus, ClusterOK
  <2>3. Later(cr[j], o)
    BY <2>1 DEF Later, ClusterOK, Object
  <2> HIDE DEF j, new, o
  <2>4. UNCHANGED cr \/ (Written(j) /\ \A k \in KfDefs \ {j} : cr'[k] = cr[k])
    BY <1>3, <2>1, <2>2, <2>3 DEF SetStatus, Written, ClusterOK
  <2>5. QED
    BY <1>3, <2>4 DEF SetStatus, Evolves, Informed, ClusterOK
<1>4. ~RemoveFinalizer(w) /\ ~DeleteInstances(w) /\ ~SetStatus(w) => UNCHANGED <<cr, born, cache>>
  BY DEF Continue, DeleteApp, Cleanup, Apply, Register, StartSecond, Uninstall, Purge
<1>5. QED
  BY <1>1, <1>2, <1>3, <1>4 DEF Evolves, Informed

LEMMA EnvironmentEvolve ==
  ASSUME TypeOK, \A k \in KfDefs : Behind(k), Environment
  PROVE  \A k \in KfDefs : Evolves(k)
<1> USE DEF TypeOK, memory, informer, cluster
<1>1. ASSUME NEW j \in KfDefs, CreateKfDef(j) PROVE \A k \in KfDefs : Evolves(k)
  <2>1. Created(j)
    BY <1>1 DEF CreateKfDef, Created, ClusterOK
  <2>2. \A k \in KfDefs \ {j} : Informed(k)
    BY <1>1 DEF CreateKfDef, Informed, ClusterOK
  <2>3. QED
    BY <2>1, <2>2 DEF Evolves
<1>2. ASSUME NEW j \in KfDefs, NEW o, Exists(cr[j]), o = NoObj \/ Later(cr[j], o),
             cr' = [cr EXCEPT ![j] = o], UNCHANGED <<born, cache>>
      PROVE  \A k \in KfDefs : Evolves(k)
  BY <1>2 DEF Evolves, Written, Informed, ClusterOK
<1>3. ASSUME NEW j \in KfDefs, EditKfDef(j) PROVE \A k \in KfDefs : Evolves(k)
  <2> DEFINE o == [cr[j] EXCEPT !.spec = @ + 1]
  <2>1. cr' = [cr EXCEPT ![j] = o]
    BY <1>3 DEF EditKfDef, ClusterOK
  <2>2. o.spec = cr[j].spec + 1 /\ o.inc = cr[j].inc /\ o.del = cr[j].del /\ o.fins = cr[j].fins
    BY DEF ClusterOK, Object
  <2>3. Later(cr[j], o)
    <3> HIDE DEF o
    <3>1. cr[j].spec \in Nat
      BY DEF ClusterOK, Object
    <3>2. QED
      BY <2>2, <3>1 DEF Later
  <2> HIDE DEF o
  <2>4. QED
    BY <1>2, <1>3, <2>1, <2>3 DEF EditKfDef, Live
<1>4. ASSUME NEW j \in KfDefs, DeleteKfDef(j) PROVE \A k \in KfDefs : Evolves(k)
  <2> DEFINE o == [cr[j] EXCEPT !.del = TRUE, !.fins = @ \cup {"foreground"}]
  <2>1. cr' = [cr EXCEPT ![j] = Deleted(cr[j])] \/ cr' = [cr EXCEPT ![j] = o]
    BY <1>4 DEF DeleteKfDef, ClusterOK
  <2>2. Exists(cr[j]) /\ Later(cr[j], o)
    BY <1>4 DEF DeleteKfDef, Live, Later, ClusterOK, Object
  <2> HIDE DEF o
  <2>3. Deleted(cr[j]) = NoObj \/ Later(cr[j], Deleted(cr[j]))
    BY <2>2, DeletedLater DEF ClusterOK
  <2>4. QED
    BY <1>2, <1>4, <2>1, <2>2, <2>3 DEF DeleteKfDef
<1>5. ASSUME NEW j \in KfDefs, CollectForeground(j) PROVE \A k \in KfDefs : Evolves(k)
  <2> DEFINE fs == cr[j].fins \ {"foreground"}
             o  == [cr[j] EXCEPT !.fins = fs]
  <2>1. fs \in SUBSET Finalizers /\ fs \subseteq cr[j].fins
    BY DEF ClusterOK, Object
  <2>2. o = [cr[j] EXCEPT !.fins = @ \ {"foreground"}]
    BY DEF ClusterOK, Object
  <2>3. cr' = [cr EXCEPT ![j] = Stored(o)]
    BY <1>5, <2>2 DEF CollectForeground, ClusterOK
  <2>4. Later(cr[j], o)
    BY <2>1, FinsLater DEF ClusterOK
  <2>5. Exists(cr[j])
    BY <1>5 DEF CollectForeground, Behind, NoObj
  <2> HIDE DEF o
  <2>6. QED
    BY <1>2, <1>5, <2>3, <2>4, <2>5, StoredIs DEF CollectForeground
<1>6. ASSUME NEW n \in Namespaces, EmptyNamespace(n) PROVE \A k \in KfDefs : Evolves(k)
  <2>1. \A k \in KfDefs : cr'[k] \in {cr[k], Deleted(cr[k])}
    BY <1>6 DEF EmptyNamespace
  <2>2. \A k \in KfDefs : cr'[k] = cr[k] \/ Written(k)
    BY <1>6, <2>1, DeletedLater DEF EmptyNamespace, Written, ClusterOK, Deleted
  <2>3. QED
    BY <1>6, <2>2 DEF EmptyNamespace, Evolves, Informed
<1>7. (Crash \/ Restart \/ RemoveOperator) => \A k \in KfDefs : Informed(k)
  BY DEF Crash, Restart, RemoveOperator, LoseMemory, Informed
<1>8. ASSUME NEW j \in KfDefs, NEW r \in Resources, LoseResource(j, r)
      PROVE  \A k \in KfDefs : Informed(k)
  BY <1>8 DEF LoseResource, Informed
<1>9. ASSUME NEW n \in Namespaces, DropNamespace(n) PROVE \A k \in KfDefs : Informed(k)
  BY <1>9 DEF DropNamespace, Informed
<1>10. AddDeleteConfigMap => \A k \in KfDefs : Informed(k)
  BY DEF AddDeleteConfigMap, Informed
<1>11. QED
  BY <1>1, <1>3, <1>4, <1>5, <1>6, <1>7, <1>8, <1>9, <1>10 DEF Environment, Evolves

LEMMA BehindStep ==
  ASSUME TypeOK, TypeOK', \A k \in KfDefs : Behind(k), [Next]_vars
  PROVE  \A k \in KfDefs : Evolves(k) /\ Behind(k)'
<1>1. ASSUME UNCHANGED vars PROVE \A k \in KfDefs : Evolves(k)
  BY <1>1 DEF vars, informer, cluster, Evolves, Informed
<1>2. \A k \in KfDefs : Evolves(k)
  BY <1>1, InformersEvolve, StartEvolve, ContinueEvolve, EnvironmentEvolve DEF Next, Reconcile
<1>3. QED
  BY <1>2, EvolvesBehind

\* A write makes an object differ from the informer's copy, or leaves it as it was.
THEOREM CacheIsBehind == Spec => []CacheBehind
<1>1. CacheBehind <=> \A k \in KfDefs : Behind(k)
  BY DEF CacheBehind, Behind
<1>2. Init => CacheBehind
  BY DEF Init, CacheBehind, Exists, NoObj
<1>3. TypeOK /\ TypeOK' /\ CacheBehind /\ [Next]_vars => CacheBehind'
  <2>1. SUFFICES ASSUME TypeOK, TypeOK', CacheBehind, [Next]_vars PROVE CacheBehind'
    OBVIOUS
  <2>2. \A k \in KfDefs : Behind(k)'
    BY <1>1, <2>1, BehindStep
  <2>3. QED
    BY <2>2 DEF CacheBehind, Behind
<1>4. QED
  BY <1>2, <1>3, TypeCorrect, PTL DEF Spec

-----------------------------------------------------------------------------
(* No work is lost *)

Safe(k) == Owed(k) => Pending(k)

LEMMA HomeOf ==
  /\ Home(MainWorker) = Main
  /\ \A w \in Workers : w # MainWorker => Home(w) \in Gens /\ Home(w) # Main
BY ConstantsAssumption DEF Home, MainWorker, Workers

\* An object that moves on is not the version the informer has.
LEMMA MovedOn ==
  ASSUME TypeOK, NEW k \in KfDefs, Behind(k), Exists(cr[k]), NEW p \in Object,
         Later(cr[k], p),
         \/ p.spec # cr[k].spec
         \/ p.del # cr[k].del
         \/ cr[k].del /\ p.fins # cr[k].fins
  PROVE  cache[k] # p
<1> SUFFICES ASSUME cache[k] = p PROVE FALSE
  OBVIOUS
<1>1. cr[k] \in Object
  BY DEF TypeOK, ClusterOK
<1>2. Later(p, cr[k])
  BY DEF Behind, Later
<1>3. p.spec = cr[k].spec
  BY <1>1, <1>2 DEF Later, Object
<1>4. p.del = cr[k].del
  BY <1>1, <1>2 DEF Later, Object
<1>5. QED
  BY <1>2, <1>3, <1>4 DEF Later

\* Nothing that announces k, nor k itself, is disturbed.
Kept(k) ==
  /\ proc' = proc
  /\ cr'[k] = cr[k] /\ cache'[k] = cache[k]
  /\ \A fs \in notif[k] : "kfdef" \in fs => fs \in notif'[k]
  /\ k \in queue[Main] => k \in queue'[Main]
  /\ <<k, "core">> \in resEvt => <<k, "core">> \in resEvt'

LEMMA KeptSafe ==
  ASSUME NEW k \in KfDefs, Safe(k), Kept(k),
         Owed(k)' => Owed(k) \/ (~cr[k].del /\ <<k, "core">> \in resEvt'),
         Owed(k)' /\ Held(k) => Held(k)' \/ k \in queue'[Main]
  PROVE  Safe(k)'
BY DEF Safe, Pending, Kept

\* A step of worker w in the middle of a Reconcile.
Local(w) ==
  /\ proc' = proc /\ cache' = cache /\ notif' = notif
  /\ resEvt \subseteq resEvt'
  /\ queue[Main] \subseteq queue'[Main]
  /\ \A v \in Workers \ {w} : worker'[v] = worker[v]

LEMMA LocalSafe ==
  ASSUME TypeOK, NEW w \in Workers, Local(w), NEW k \in KfDefs, Safe(k), cr'[k] = cr[k],
         Owed(k)' => Owed(k) \/ (~cr[k].del /\ <<k, "core">> \in resEvt'),
         w = MainWorker /\ Owed(k)' /\ Held(k) => Held(k)' \/ k \in queue'[Main]
  PROVE  Safe(k)'
<1>1. Kept(k)
  BY DEF Local, Kept
<1>2. w # MainWorker => worker'[MainWorker] = worker[MainWorker]
  BY MainType DEF Local
<1>3. w # MainWorker /\ Held(k) => Held(k)'
  BY <1>2 DEF Held
<1>4. QED
  BY <1>1, <1>3, KeptSafe

LEMMA LocalMoved ==
  ASSUME NEW w \in Workers, Local(w), NEW k \in KfDefs,
         cr'[k] # cache[k] \/ ~HasFinalizer(cr'[k])
  PROVE  Safe(k)'
BY DEF Local, Safe, Pending, Owed

LEMMA RequeueLocal ==
  ASSUME TypeOK, NEW w \in Workers, worker[w].pc # "idle", Requeue(w)
  PROVE  /\ queue[Main] \subseteq queue'[Main]
         /\ w = MainWorker => worker[w].key \in queue'[Main]
         /\ \A v \in Workers \ {w} : worker'[v] = worker[v]
BY HomeOf, HomeType, MainType DEF TypeOK, WorkersOK, Requeue, Add, Accepting

LEMMA GotoLocal ==
  ASSUME TypeOK, NEW w \in Workers, NEW pc \in PCs, Goto(w, pc)
  PROVE  /\ queue' = queue
         /\ worker'[w].pc = pc /\ worker'[w].key = worker[w].key
         /\ \A v \in Workers \ {w} : worker'[v] = worker[v]
BY DEF TypeOK, WorkersOK, WorkerState, Goto

LEMMA FinishLocal ==
  ASSUME TypeOK, NEW w \in Workers, Finish(w)
  PROVE  queue' = queue /\ \A v \in Workers \ {w} : worker'[v] = worker[v]
BY DEF TypeOK, WorkersOK, Finish

LEMMA DeleteAppSafe ==
  ASSUME TypeOK, NEW w \in Workers, DeleteApp(w), NEW k \in KfDefs, Safe(k)
  PROVE  Safe(k)'
<1> DEFINE j == worker[w].key
<1>1. j \in KfDefs
  BY BusyType DEF DeleteApp, At
<1> DEFINE Rest(left) == [r \in Resources |-> IF r \in left THEN deployed[j][r] ELSE 0]
<1>0. \A left \in SUBSET Resources :
        Rest(left) \in [Resources -> Nat] /\ Rest(left)["core"] \in {deployed[j]["core"], 0}
  BY <1>1 DEF TypeOK, ClusterOK, Resources
<1>2. PICK d \in [Resources -> Nat] : SetDeployed(j, d) /\ d["core"] \in {deployed[j]["core"], 0}
  <2>1. CASE SetDeployed(j, Undeployed(j))
    BY <2>1 DEF Undeployed, Resources
  <2>2. CASE \E left \in SUBSET Resources : SetDeployed(j, Rest(left))
    <3> HIDE DEF Rest
    <3>1. QED
      BY <2>2, <1>0
  <2>3. QED
    BY <2>1, <2>2 DEF DeleteApp
<1>3. Local(w) /\ worker'[w].pc = "cleanup" /\ worker'[w].key = j
  BY <1>2, GotoLocal DEF DeleteApp, Local, SetDeployed, PCs, DeletePath
<1>4. UNCHANGED cr
  BY DEF DeleteApp
<1>5. \/ deployed'[k]["core"] = deployed[k]["core"]
      \/ <<k, "core">> \in resEvt'
  BY <1>1, <1>2 DEF SetDeployed, Changed, TypeOK, ClusterOK, Resources
<1>6. Owed(k)' => Owed(k) \/ (~cr[k].del /\ <<k, "core">> \in resEvt')
  BY <1>4, <1>5 DEF Owed
<1>7. w = MainWorker /\ Held(k) => Held(k)'
  BY <1>3, <1>4 DEF DeleteApp, At, Held, DeletePath
<1>8. QED
  BY <1>3, <1>4, <1>6, <1>7, LocalSafe

LEMMA CleanupSafe ==
  ASSUME TypeOK, NEW w \in Workers, Cleanup(w), NEW k \in KfDefs, Safe(k)
  PROVE  Safe(k)'
<1> USE DEF informer, cluster
<1>1. UNCHANGED <<proc, cache, notif, resEvt, cr, deployed>> /\ worker[w].pc = "cleanup"
  BY DEF Cleanup, At
<1>2. CASE Goto(w, "finalize")
  <2>1. Local(w) /\ worker'[w].pc = "finalize" /\ worker'[w].key = worker[w].key
    BY <1>1, <1>2, GotoLocal DEF Local, PCs, DeletePath
  <2>2. w = MainWorker /\ Held(k) => Held(k)'
    BY <1>1, <2>1 DEF Held, DeletePath
  <2>3. QED
    BY <1>1, <2>1, <2>2, LocalSafe DEF Owed
<1>3. CASE Requeue(w)
  BY <1>1, <1>3, RequeueLocal, LocalSafe DEF Local, Held, Owed
<1>4. QED
  BY <1>2, <1>3 DEF Cleanup

LEMMA RemoveFinalizerSafe ==
  ASSUME TypeOK, NEW w \in Workers, RemoveFinalizer(w), NEW k \in KfDefs, Safe(k)
  PROVE  Safe(k)'
<1> USE DEF informer, cluster
<1> DEFINE j    == worker[w].key
           rest == worker[w].inst.fins \ {"kfdef"}
           o    == [cr[j] EXCEPT !.fins = rest]
<1>1. /\ UNCHANGED <<proc, cache, notif, resEvt, deployed>>
      /\ worker[w].pc = "finalize" /\ worker[w].pc # "idle" /\ j \in KfDefs
  BY BusyType DEF RemoveFinalizer, At
<1>2. CASE UNCHANGED cr /\ Requeue(w)
  BY <1>1, <1>2, RequeueLocal, LocalSafe DEF Local, Held, Owed
<1>3. CASE /\ UNCHANGED <<cr, queue>>
           /\ \A v \in Workers \ {w} : worker'[v] = worker[v]
           /\ worker'[w].pc = "finalize" /\ worker'[w].key = j
  <2>1. w = MainWorker /\ Held(k) => Held(k)'
    BY <1>1, <1>3 DEF Held, DeletePath
  <2>2. QED
    BY <1>1, <1>3, <2>1, LocalSafe DEF Local, Owed
<1>4. CASE cr' = [cr EXCEPT ![j] = Stored(o)] /\ (Requeue(w) \/ Finish(w))
  <2>1. Local(w)
    BY <1>1, <1>4, RequeueLocal, FinishLocal DEF Local
  <2>2. CASE k = j
    <3>1. "kfdef" \notin o.fins
      BY <1>1 DEF TypeOK, ClusterOK, Object
    <3>2. ~HasFinalizer(Stored(o))
      BY <3>1 DEF HasFinalizer, Stored, NoObj
    <3>3. cr'[k] = Stored(o)
      BY <1>1, <1>4, <2>2 DEF TypeOK, ClusterOK
    <3>4. QED
      BY <2>1, <3>2, <3>3, LocalMoved
  <2>3. CASE k # j
    <3>1. cr'[k] = cr[k]
      BY <1>4, <2>3 DEF TypeOK, ClusterOK
    <3>2. w = MainWorker => ~Held(k)
      BY <2>3 DEF Held
    <3>3. QED
      BY <1>1, <2>1, <3>1, <3>2, LocalSafe DEF Owed
  <2>4. QED
    BY <2>2, <2>3
<1>5. QED
  BY <1>1, <1>2, <1>3, <1>4 DEF RemoveFinalizer, TypeOK, ClusterOK, WorkersOK, WorkerState

\* Marking an object deleted makes it differ from the informer's copy.
LEMMA DeletedMoved ==
  ASSUME TypeOK, NEW k \in KfDefs, Behind(k)
  PROVE  \/ Deleted(cr[k]) = cr[k]
         \/ Deleted(cr[k]) # cache[k]
         \/ ~HasFinalizer(Deleted(cr[k]))
<1>1. cr[k] \in Object /\ Deleted(cr[k]) \in Object
  BY DeletedType DEF TypeOK, ClusterOK
<1>2. ~HasFinalizer(NoObj)
  BY DEF HasFinalizer, NoObj
<1>3. CASE ~Exists(cr[k])
  BY <1>3 DEF Deleted
<1>4. CASE Exists(cr[k]) /\ cr[k].del
  <2>1. [cr[k] EXCEPT !.del = TRUE] = cr[k]
    BY <1>1, <1>4 DEF Object
  <2>2. QED
    BY <1>2, <1>4, <2>1, StoredIs DEF Deleted
<1>5. CASE Exists(cr[k]) /\ ~cr[k].del
  <2> DEFINE o == [cr[k] EXCEPT !.del = TRUE]
  <2>1. o \in Object /\ o.del # cr[k].del
    BY <1>1, <1>5, DelType DEF Object
  <2>2. Later(cr[k], o)
    BY <1>1, <1>5 DEF Later, Object
  <2> HIDE DEF o
  <2>3. cache[k] # o
    BY <1>5, <2>1, <2>2, MovedOn
  <2>4. QED
    BY <1>2, <1>5, <2>3, StoredIs DEF Deleted, o
<1>6. QED
  BY <1>3, <1>4, <1>5

LEMMA DeleteInstancesSafe ==
  ASSUME TypeOK, NEW w \in Workers, DeleteInstances(w), NEW k \in KfDefs, Behind(k), Safe(k)
  PROVE  Safe(k)'
<1> USE DEF informer
<1>1. /\ UNCHANGED <<proc, cache, notif, resEvt, deployed>> /\ Requeue(w)
      /\ worker[w].pc # "idle"
      /\ cr'[k] \in {cr[k], Deleted(cr[k])}
  BY DEF DeleteInstances, At
<1>2. Local(w) /\ (w = MainWorker => worker[w].key \in queue'[Main])
  BY <1>1, RequeueLocal DEF Local
<1>3. CASE cr'[k] = cr[k]
  BY <1>1, <1>2, <1>3, LocalSafe DEF Owed, Held
<1>4. CASE cr'[k] # cr[k]
  BY <1>1, <1>2, <1>4, DeletedMoved, LocalMoved
<1>5. QED
  BY <1>3, <1>4

LEMMA ApplySafe ==
  ASSUME TypeOK, NEW w \in Workers, Apply(w), NEW k \in KfDefs, Behind(k), Safe(k)
  PROVE  Safe(k)'
<1> DEFINE j == worker[w].key
           Done(S) == [r \in Resources |-> IF r \in S THEN worker[w].inst.spec ELSE deployed[j][r]]
<1>1. /\ UNCHANGED <<proc, cache, notif, queue, cr>>
      /\ worker[w].pc = "apply" /\ j \in KfDefs
  BY BusyType DEF Apply, At
<1>2. \/ \E S \in SUBSET Resources : SetDeployed(j, Done(S))
      \/ UNCHANGED <<deployed, resEvt>>
  BY DEF Apply
<1>3. /\ resEvt \subseteq resEvt'
      /\ \/ deployed'[k]["core"] = deployed[k]["core"]
         \/ deployed[k]["core"] = 0
         \/ <<k, "core">> \in resEvt'
  BY <1>1, <1>2 DEF SetDeployed, Changed, TypeOK, ClusterOK, Resources
<1>4. Owed(k)' => Owed(k) \/ (~cr[k].del /\ <<k, "core">> \in resEvt')
  BY <1>1, <1>3 DEF Owed, Behind, HasFinalizer, NoObj
<1>5. /\ \A v \in Workers \ {w} : worker'[v] = worker[v]
      /\ worker'[w].key = j
      /\ \/ worker'[w].pc = "status" /\ ~worker'[w].ok
         \/ SetDeployed(j, Done(Resources))
  BY <1>1 DEF Apply, TypeOK, WorkersOK, WorkerState
<1>6. w = MainWorker /\ Owed(k)' /\ Held(k) => Held(k)'
  <2> SUFFICES ASSUME w = MainWorker, Owed(k)', Held(k) PROVE Held(k)'
    OBVIOUS
  <2>1. k = j /\ ~cr[k].del /\ worker[w].inst.spec = cr[k].spec
    BY <1>1 DEF Held, DeletePath
  <2>2. CASE worker'[w].pc = "status" /\ ~worker'[w].ok
    BY <1>5, <2>1, <2>2 DEF Held
  <2>3. CASE SetDeployed(j, Done(Resources))
    <3>1. deployed'[k]["core"] = cr[k].spec
      BY <1>1, <2>1, <2>3 DEF SetDeployed, TypeOK, ClusterOK, Resources
    <3>2. QED
      BY <1>1, <2>1, <3>1 DEF Owed
  <2>4. QED
    BY <1>5, <2>2, <2>3
<1>7. Local(w)
  BY <1>1, <1>3, <1>5 DEF Local
<1>8. QED
  BY <1>1, <1>4, <1>6, <1>7, LocalSafe

LEMMA SecondSafe ==
  ASSUME TypeOK, NEW w \in Workers, Register(w) \/ StartSecond(w), NEW k \in KfDefs, Safe(k)
  PROVE  Safe(k)'
<1> USE DEF informer, cluster
<1>1. /\ UNCHANGED <<proc, cache, notif, resEvt, cr, deployed>>
      /\ worker[w].pc \in {"register", "start2nd"}
      /\ Goto(w, "status") \/ Goto(w, "start2nd") \/ Finish(w)
  BY DEF Register, AfterRegister, StartSecond, At
<1>2. Local(w)
  BY <1>1, GotoLocal, FinishLocal DEF Local, PCs, ApplyPath
<1>3. w = MainWorker => ~Held(k)
  BY <1>1 DEF Held, DeletePath
<1>4. QED
  BY <1>1, <1>2, <1>3, LocalSafe DEF Owed

LEMMA SetStatusSafe ==
  ASSUME TypeOK, NEW w \in Workers, SetStatus(w), NEW k \in KfDefs, Safe(k)
  PROVE  Safe(k)'
<1> USE DEF informer
<1> DEFINE j == worker[w].key
<1>1. /\ UNCHANGED <<proc, cache, notif, resEvt, deployed>>
      /\ worker[w].pc = "status" /\ worker[w].pc # "idle" /\ j \in KfDefs
      /\ Requeue(w) \/ (worker[w].ok /\ Finish(w))
      /\ UNCHANGED cr \/ (cache[j] = cr[j] /\ cr' = [cr EXCEPT ![j].conds = worker[w].inst.conds])
  BY BusyType DEF SetStatus, At
<1>2. Local(w)
  BY <1>1, RequeueLocal, FinishLocal DEF Local
<1>3. CASE cr'[k] = cr[k]
  <2>1. w = MainWorker /\ Held(k) => k \in queue'[Main]
    BY <1>1, RequeueLocal DEF Held, DeletePath
  <2>2. QED
    BY <1>1, <1>2, <1>3, <2>1, LocalSafe DEF Owed
<1>4. CASE cr'[k] # cr[k]
  <2>1. cache[k] = cr[k]
    BY <1>1, <1>4 DEF TypeOK, ClusterOK
  <2>2. QED
    BY <1>2, <1>4, <2>1, LocalMoved
<1>5. QED
  BY <1>3, <1>4

LEMMA UninstallSafe ==
  ASSUME TypeOK, NEW w \in Workers, Uninstall(w) \/ Purge(w), NEW k \in KfDefs, Safe(k)
  PROVE  Safe(k)'
<1> USE DEF informer
<1>1. /\ UNCHANGED <<proc, cache, notif, resEvt, cr, deployed>>
      /\ worker[w].pc \in {"uninstall", "purge"} /\ worker[w].pc # "idle"
      /\ Goto(w, "purge") \/ Requeue(w)
  BY DEF Uninstall, Purge, At
<1>2. Local(w)
  BY <1>1, GotoLocal, RequeueLocal DEF Local, PCs
<1>3. w = MainWorker => ~Held(k)
  BY <1>1 DEF Held, DeletePath
<1>4. QED
  BY <1>1, <1>2, <1>3, LocalSafe DEF Owed

LEMMA ContinueSafe ==
  ASSUME TypeOK, NEW w \in Workers, Continue(w), NEW k \in KfDefs, Behind(k), Safe(k)
  PROVE  Safe(k)'
BY DeleteAppSafe, CleanupSafe, RemoveFinalizerSafe, DeleteInstancesSafe, ApplySafe,
   SecondSafe, SetStatusSafe, UninstallSafe DEF Continue

LEMMA InformersSafe ==
  ASSUME TypeOK, Informers, NEW k \in KfDefs, Behind(k), Safe(k)
  PROVE  Safe(k)'
<1> USE DEF memory, informer, cluster
<1>1. ASSUME NEW j \in KfDefs, SyncCache(j) PROVE Safe(k)'
  <2>1. CASE k = j
    <3>1. cr'[k] = cr[k] /\ notif'[k] = notif[k] \cup Notified(cache[k], cr[k])
      BY <1>1, <2>1 DEF SyncCache, TypeOK, InformerOK
    <3>2. HasFinalizer(cr[k]) => cr[k].fins \in notif'[k]
      BY <3>1 DEF Notified, Behind, HasFinalizer, NoObj
    <3>3. QED
      BY <3>1, <3>2 DEF Safe, Owed, Pending, HasFinalizer
  <2>2. CASE k # j
    <3>1. Kept(k) /\ UNCHANGED <<worker, deployed, cr>>
      BY <1>1, <2>2 DEF SyncCache, Kept, TypeOK, InformerOK
    <3>2. QED
      BY <3>1, KeptSafe DEF Owed, Held
  <2>3. QED
    BY <2>1, <2>2
<1>2. ASSUME NEW j \in KfDefs, ResyncKfDef(j) PROVE Safe(k)'
  <2>1. Kept(k) /\ UNCHANGED <<worker, deployed, cr>>
    BY <1>2 DEF ResyncKfDef, Kept, TypeOK, InformerOK
  <2>2. QED
    BY <2>1, KeptSafe DEF Owed, Held
<1>3. ASSUME NEW j \in KfDefs, NEW r \in Resources, TouchResource(j, r) PROVE Safe(k)'
  <2>1. Kept(k) /\ UNCHANGED <<worker, deployed, cr>>
    BY <1>3 DEF TouchResource, Kept
  <2>2. QED
    BY <2>1, KeptSafe DEF Owed, Held
<1>4. ASSUME ResyncConfigMap PROVE Safe(k)'
  <2>1. Kept(k) /\ UNCHANGED <<worker, deployed, cr>>
    BY <1>4 DEF ResyncConfigMap, Kept
  <2>2. QED
    BY <2>1, KeptSafe DEF Owed, Held
<1>5. ASSUME NEW j \in KfDefs, EnqueueKfDef(j) PROVE Safe(k)'
  <2>1. queue'[Main] = queue[Main] \cup {j}
    BY <1>5, MainType DEF EnqueueKfDef, Add, Accepting, TypeOK, WorkersOK
  <2>2. CASE k = j
    BY <2>1, <2>2 DEF Safe, Pending
  <2>3. CASE k # j
    <3>1. Kept(k) /\ UNCHANGED <<worker, deployed, cr>>
      BY <1>5, <2>1, <2>3 DEF EnqueueKfDef, Kept, TypeOK, InformerOK
    <3>2. QED
      BY <3>1, KeptSafe DEF Owed, Held
  <2>4. QED
    BY <2>2, <2>3
<1>6. ASSUME NEW j \in KfDefs, AddFinalizer(j) PROVE Safe(k)'
  <2>1. /\ UNCHANGED <<proc, cache, queue, resEvt, worker, deployed>>
        /\ cr'[k] = cr[k] \/ cache[k] = cr[k]
    BY <1>6 DEF AddFinalizer, Accepts, TypeOK, ClusterOK
  <2>2. \A fs \in notif[k] : "kfdef" \in fs => fs \in notif'[k]
    BY <1>6 DEF AddFinalizer, TypeOK, InformerOK
  <2>3. CASE cr'[k] = cr[k]
    BY <2>1, <2>2, <2>3, KeptSafe DEF Kept, Owed, Held
  <2>4. CASE cr'[k] # cr[k]
    BY <2>1, <2>4 DEF Safe, Pending
  <2>5. QED
    BY <2>3, <2>4
<1>7. ASSUME NEW j \in KfDefs, NEW r \in Resources, HandleResource(j, r) PROVE Safe(k)'
  <2>1. /\ UNCHANGED <<proc, cache, notif, worker, deployed, cr>>
        /\ queue[Main] \subseteq queue'[Main]
        /\ resEvt' = resEvt \ {<<j, r>>}
    BY <1>7, MainType DEF HandleResource, TypeOK, WorkersOK
  <2>2. CASE <<k, "core">> # <<j, r>>
    <3>1. Kept(k)
      BY <2>1, <2>2 DEF Kept
    <3>2. QED
      BY <2>1, <3>1, KeptSafe DEF Owed, Held
  <2>3. CASE <<k, "core">> = <<j, r>>
    <3>1. Live(cache[k]) => k \in queue'[Main]
      BY <1>7, <2>3, MainType DEF HandleResource, Watchers, TypeOK, WorkersOK
    <3>2. cr[k].del \/ cache[k] # cr[k] \/ ~HasFinalizer(cr[k]) \/ k \in queue'[Main]
      BY <3>1 DEF Live, Behind, HasFinalizer, NoObj
    <3>3. CASE cr[k].del
      BY <2>1, <3>3 DEF Safe, Owed, Pending, Held
    <3>4. QED
      BY <2>1, <3>2, <3>3 DEF Safe, Owed, Pending
  <2>4. QED
    BY <2>2, <2>3
<1>8. ASSUME HandleConfigMap PROVE Safe(k)'
  <2>1. queue[Main] \subseteq queue'[Main]
    BY <1>8, MainType DEF HandleConfigMap, Add, Accepting, TypeOK, WorkersOK
  <2>2. Kept(k) /\ UNCHANGED <<worker, deployed, cr>>
    BY <1>8, <2>1 DEF HandleConfigMap, Kept
  <2>3. QED
    BY <2>2, KeptSafe DEF Owed, Held
<1>9. QED
  BY <1>1, <1>2, <1>3, <1>4, <1>5, <1>6, <1>7, <1>8 DEF Informers

\* Taking j from its queue disturbs no other request of the main controller, and
\* leaves j queued, unless the main worker took it.
LEMMA DequeuedLocal ==
  ASSUME TypeOK, NEW w \in Workers, NEW j \in KfDefs, Take(w, j), NEW k \in KfDefs
  PROVE  /\ w # MainWorker \/ k # j => (k \in queue[Main] => k \in Dequeued(w, j)[Main])
         /\ ~(w = MainWorker /\ Held(k))
BY HomeOf, HomeType, MainType DEF TypeOK, WorkersOK, Dequeued, Take, Held, DeletePath

LEMMA TakenSafe ==
  ASSUME TypeOK, NEW w \in Workers, NEW j \in KfDefs, Take(w, j), NEW k \in KfDefs,
         Safe(k), UNCHANGED <<proc, cache, notif, resEvt, deployed>>, cr'[k] = cr[k],
         \/ Drop(w, j) \/ Retry(w, j)
         \/ \E pc \in PCs : \E o \in Object : Begin(w, j, pc, o),
         w = MainWorker /\ k = j /\ Owed(k) => Pending(k)'
  PROVE  Safe(k)'
<1>1. \A v \in Workers \ {w} : worker'[v] = worker[v]
  BY DEF TypeOK, WorkersOK, Drop, Retry, Begin
<1>2. w # MainWorker \/ k # j => (k \in queue[Main] => k \in queue'[Main])
  BY DequeuedLocal, DequeuedType, HomeType, MainType
  DEF TypeOK, WorkersOK, Drop, Retry, Begin, Add
<1>3. CASE w = MainWorker /\ k = j
  BY <1>3 DEF Safe, Owed
<1>4. CASE w # MainWorker \/ k # j
  <2>1. Kept(k)
    BY <1>2, <1>4 DEF Kept
  <2>2. Held(k) => Held(k)'
    BY <1>1, DequeuedLocal, MainType DEF Held
  <2>3. QED
    BY <2>1, <2>2, KeptSafe DEF Owed
<1>5. QED
  BY <1>3, <1>4

\* The main worker took j: its state and its queue afterwards.
LEMMA TakenByMain ==
  ASSUME TypeOK, NEW j \in KfDefs
  PROVE  /\ Retry(MainWorker, j) => j \in queue'[Main]
         /\ \A pc \in PCs : \A o \in Object : Begin(MainWorker, j, pc, o) =>
              /\ worker'[MainWorker].key = j
              /\ worker'[MainWorker].pc = pc
              /\ worker'[MainWorker].inst = o
BY HomeOf, MainType, DequeuedType
DEF TypeOK, WorkersOK, Retry, Add, Accepting, Begin, Task

LEMMA StartSafe ==
  ASSUME TypeOK, NEW w \in Workers, NEW j \in KfDefs, Start(w, j),
         NEW k \in KfDefs, Behind(k), Safe(k)
  PROVE  Safe(k)'
<1> USE DEF informer, cluster
<1>1. cache[j] \in Object /\ NoObj \in Object
  BY NoObjType DEF TypeOK, InformerOK
<1>2. CASE StartGone(w, j)
  <2>1. /\ Take(w, j)
        /\ UNCHANGED <<proc, cache, notif, resEvt, deployed, cr>>
        /\ Drop(w, j) \/ Retry(w, j) \/ Begin(w, j, "uninstall", NoObj)
    BY <1>2 DEF StartGone
  <2>2. k = j /\ Owed(k) => cache[k] # cr[k]
    BY <1>2 DEF StartGone, Owed, Behind, HasFinalizer, NoObj
  <2>3. "uninstall" \in PCs
    BY DEF PCs
  <2>4. QED
    BY <1>1, <2>1, <2>2, <2>3, TakenSafe DEF Pending
<1>3. CASE StartDelete(w, j)
  <2>1. CASE proc' = "panicked"
    BY <2>1 DEF Safe, Pending
  <2>2. CASE Begin(w, j, "delete", cache[j]) /\ UNCHANGED <<proc, cache, notif, resEvt>>
    <3>1. Take(w, j) /\ UNCHANGED <<cr, deployed>> /\ cache[j].del /\ "delete" \in PCs
      BY <1>3 DEF StartDelete, PCs, DeletePath
    <3>2. w = MainWorker /\ k = j /\ Owed(k) => Pending(k)'
      BY <1>1, <2>2, <3>1, TakenByMain DEF Pending, Held, DeletePath
    <3>3. QED
      BY <1>1, <2>2, <3>1, <3>2, TakenSafe
  <2>3. QED
    BY <1>3, <2>1, <2>2 DEF StartDelete
<1>4. CASE StartApply(w, j)
  <2> DEFINE new == [cache[j] EXCEPT !.fins = @ \cup {"kfdef"}]
  <2>1. /\ Take(w, j) /\ Live(cache[j])
        /\ UNCHANGED <<proc, cache, notif, resEvt, deployed>>
        /\ UNCHANGED cr \/ (cache[j] = cr[j] /\ cr' = [cr EXCEPT ![j] = new])
        /\ \/ Begin(w, j, "apply", cache[j])
           \/ Begin(w, j, "apply", new)
           \/ Retry(w, j)
    BY <1>4 DEF StartApply, Accepts
  <2>2. new \in Object /\ "apply" \in PCs
    BY <1>1, FinsType DEF Object, Finalizers, PCs, ApplyPath
  <2>3. new.spec = cache[j].spec
    BY <1>1 DEF Object
  <2> HIDE DEF new
  <2>4. CASE cr'[k] # cr[k]
    <3>1. cache[k] = cr[k]
      BY <2>1, <2>4 DEF TypeOK, ClusterOK
    <3>2. QED
      BY <2>1, <2>4, <3>1 DEF Safe, Pending
  <2>5. CASE cr'[k] = cr[k]
    <3>1. w = MainWorker /\ k = j /\ Owed(k) => Pending(k)'
      BY <1>1, <2>1, <2>2, <2>3, <2>5, TakenByMain DEF Pending, Held, Live
    <3>2. QED
      BY <1>1, <2>1, <2>2, <2>5, <3>1, TakenSafe
  <2>6. QED
    BY <2>4, <2>5
<1>5. QED
  BY <1>2, <1>3, <1>4 DEF Start

LEMMA EnvironmentSafe ==
  ASSUME TypeOK, Environment, NEW k \in KfDefs, Behind(k), Safe(k)
  PROVE  Safe(k)'
<1> USE DEF memory, informer, cluster
<1>1. cr[k] \in Object
  BY DEF TypeOK, ClusterOK
<1>2. ASSUME cr'[k] # cache'[k] PROVE Safe(k)'
  BY <1>2 DEF Safe, Pending
<1>3. ASSUME NEW j \in KfDefs, CreateKfDef(j) PROVE Safe(k)'
  <2>1. CASE k = j
    <3>1. cr'[k] = [NoObj EXCEPT !.inc = born'[k], !.spec = 1]
      BY <1>3, <2>1 DEF CreateKfDef, TypeOK, ClusterOK
    <3>2. QED
      BY <3>1 DEF Safe, Owed, HasFinalizer, NoObj
  <2>2. CASE k # j
    BY <1>3, <2>2, KeptSafe DEF CreateKfDef, Kept, Owed, Held, TypeOK, ClusterOK
  <2>3. QED
    BY <2>1, <2>2
<1>4. ASSUME NEW j \in KfDefs, EditKfDef(j) PROVE Safe(k)'
  <2>1. CASE k = j
    <3> DEFINE o == [cr[k] EXCEPT !.spec = @ + 1]
    <3>1. cr'[k] = o /\ cache' = cache /\ Exists(cr[k])
      BY <1>4, <2>1 DEF EditKfDef, Live, TypeOK, ClusterOK
    <3>2. o.spec = cr[k].spec + 1 /\ o.inc = cr[k].inc /\ o.del = cr[k].del /\ o.fins = cr[k].fins
      BY <1>1 DEF Object
    <3>3. o \in Object
      BY <1>1, SpecType
    <3> HIDE DEF o
    <3>4. cr[k].spec \in Nat
      BY <1>1 DEF Object
    <3>5. Later(cr[k], o) /\ o.spec # cr[k].spec
      BY <3>2, <3>4 DEF Later
    <3>6. QED
      BY <1>2, <3>1, <3>3, <3>5, MovedOn
  <2>2. CASE k # j
    BY <1>4, <2>2, KeptSafe DEF EditKfDef, Kept, Owed, Held, TypeOK, ClusterOK
  <2>3. QED
    BY <2>1, <2>2
<1>5. ASSUME NEW j \in KfDefs, DeleteKfDef(j) PROVE Safe(k)'
  <2> DEFINE o == [cr[k] EXCEPT !.del = TRUE, !.fins = @ \cup {"foreground"}]
  <2>1. CASE k = j
    <3>1. /\ cr'[k] = Deleted(cr[k]) \/ cr'[k] = o
          /\ cache' = cache /\ Exists(cr[k]) /\ ~cr[k].del
      BY <1>5, <2>1 DEF DeleteKfDef, Live, TypeOK, ClusterOK
    <3>2. o \in Object /\ Later(cr[k], o) /\ o.del # cr[k].del
      <4>1. o \in Object
        BY <1>1 DEF Object, Finalizers
      <4>2. o.del = TRUE /\ o.inc = cr[k].inc /\ o.spec = cr[k].spec
        BY <1>1 DEF Object
      <4>3. cr[k].spec <= cr[k].spec
        BY <1>1 DEF Object
      <4> HIDE DEF o
      <4>4. QED
        BY <3>1, <4>1, <4>2, <4>3 DEF Later
    <3> HIDE DEF o
    <3>3. o # cache[k]
      BY <3>1, <3>2, MovedOn
    <3>4. Deleted(cr[k]) # cr[k]
      BY <1>1, <3>1 DEF Deleted, Stored, NoObj, Object, Exists
    <3>5. Deleted(cr[k]) # cache[k] \/ ~HasFinalizer(Deleted(cr[k]))
      BY <3>4, DeletedMoved
    <3>6. QED
      BY <1>2, <3>1, <3>3, <3>5 DEF Safe, Owed
  <2>2. CASE k # j
    <3>1. cr'[k] = cr[k]
      BY <1>5, <2>2 DEF DeleteKfDef, TypeOK, ClusterOK
    <3>2. QED
      BY <1>5, <3>1, KeptSafe DEF DeleteKfDef, Kept, Owed, Held
  <2>3. QED
    BY <2>1, <2>2
<1>6. ASSUME NEW j \in KfDefs, CollectForeground(j) PROVE Safe(k)'
  <2>1. CASE k = j
    <3> DEFINE fs == cr[k].fins \ {"foreground"}
               o  == [cr[k] EXCEPT !.fins = fs]
    <3>1. /\ cr'[k] = Stored([cr[k] EXCEPT !.fins = @ \ {"foreground"}])
          /\ cache' = cache /\ cr[k].del /\ "foreground" \in cr[k].fins
      BY <1>6, <2>1 DEF CollectForeground, TypeOK, ClusterOK
    <3>2. o = [cr[k] EXCEPT !.fins = @ \ {"foreground"}]
      BY <1>1 DEF Object
    <3>3. fs \in SUBSET Finalizers /\ fs \subseteq cr[k].fins /\ Exists(cr[k])
      BY <1>1, <3>1 DEF Object, Behind, NoObj
    <3>4. o \in Object /\ Later(cr[k], o) /\ o.fins # cr[k].fins
      BY <1>1, <3>1, <3>3, FinsType, FinsLater DEF Object
    <3> HIDE DEF o
    <3>5. o # cache[k]
      BY <3>1, <3>3, <3>4, MovedOn
    <3>6. QED
      BY <1>2, <3>1, <3>2, <3>5, StoredIs DEF Safe, Owed, HasFinalizer, NoObj
  <2>2. CASE k # j
    BY <1>6, <2>2, KeptSafe DEF CollectForeground, Kept, Owed, Held, TypeOK, ClusterOK
  <2>3. QED
    BY <2>1, <2>2
<1>7. ASSUME NEW j \in KfDefs, NEW r \in Resources, LoseResource(j, r) PROVE Safe(k)'
  <2>1. CASE proc # "up"
    BY <1>7, <2>1 DEF LoseResource, Safe, Pending
  <2>2. CASE proc = "up"
    <3>1. resEvt' = resEvt \cup {<<j, r>>}
      BY <1>7, <2>2 DEF LoseResource
    <3>2. deployed'[k]["core"] = deployed[k]["core"] \/ <<k, "core">> \in resEvt'
      BY <1>7, <3>1 DEF LoseResource, TypeOK, ClusterOK, Resources
    <3>3. Owed(k)' => Owed(k) \/ (~cr[k].del /\ <<k, "core">> \in resEvt')
      BY <1>7, <3>2 DEF LoseResource, Owed
    <3>4. QED
      BY <1>7, <3>1, <3>3, KeptSafe DEF LoseResource, Kept, Held
  <2>3. QED
    BY <2>1, <2>2
<1>8. ASSUME NEW n \in Namespaces, EmptyNamespace(n) PROVE Safe(k)'
  <2>1. /\ UNCHANGED <<proc, cache, notif, queue, worker>>
        /\ resEvt \subseteq resEvt'
        /\ \/ cr'[k] = Deleted(cr[k])
           \/ cr'[k] = cr[k] /\ deployed'[k] = deployed[k]
    BY <1>8 DEF EmptyNamespace
  <2>2. CASE cr'[k] = cr[k] /\ deployed'[k] = deployed[k]
    BY <2>1, <2>2, KeptSafe DEF Kept, Owed, Held
  <2>3. CASE cr'[k] = Deleted(cr[k]) /\ Deleted(cr[k]) # cr[k]
    BY <1>2, <2>1, <2>3, DeletedMoved DEF Safe, Owed
  <2>4. CASE cr'[k] = cr[k] /\ Deleted(cr[k]) = cr[k]
    <3>1. HasFinalizer(cr[k]) => cr[k].del
      BY <1>1, <2>4 DEF Deleted, Stored, NoObj, Object, Exists, Behind, HasFinalizer
    <3>2. Owed(k)' => Owed(k)
      BY <2>4, <3>1 DEF Owed
    <3>3. QED
      BY <2>1, <2>4, <3>2, KeptSafe DEF Kept, Held
  <2>5. QED
    BY <2>1, <2>2, <2>3, <2>4
<1>9. ASSUME NEW n \in Namespaces, DropNamespace(n) PROVE Safe(k)'
  BY <1>9, KeptSafe DEF DropNamespace, Kept, Owed, Held
<1>10. ASSUME AddDeleteConfigMap PROVE Safe(k)'
  BY <1>10, KeptSafe DEF AddDeleteConfigMap, Kept, Owed, Held
<1>11. ASSUME Crash \/ RemoveOperator PROVE Safe(k)'
  BY <1>11 DEF Crash, RemoveOperator, Safe, Pending
<1>12. ASSUME Restart PROVE Safe(k)'
  <2>1. cr' = cr /\ notif'[k] = IF Exists(cr[k]) THEN {cr[k].fins} ELSE {}
    BY <1>12 DEF Restart
  <2>2. HasFinalizer(cr[k]) => \E fs \in notif'[k] : "kfdef" \in fs
    BY <2>1 DEF Behind, HasFinalizer, NoObj
  <2>3. QED
    BY <2>1, <2>2 DEF Safe, Owed, Pending
<1>13. QED
  BY <1>3, <1>4, <1>5, <1>6, <1>7, <1>8, <1>9, <1>10, <1>11, <1>12 DEF Environment

LEMMA SafeStep ==
  ASSUME TypeOK, [Next]_vars, NEW k \in KfDefs, Behind(k), Safe(k)
  PROVE  Safe(k)'
<1>1. CASE UNCHANGED vars
  BY <1>1, KeptSafe DEF vars, memory, informer, cluster, Kept, Owed, Held
<1>2. QED
  BY <1>1, InformersSafe, StartSafe, ContinueSafe, EnvironmentSafe DEF Next, Reconcile

\* A KfDef with work owed to it always has something that will bring the main
\* controller back: dropped events, requeues into a closed queue, refused writes,
\* the other controller and crashes never lose the last wakeup.
THEOREM NoWorkIsLost == Spec => []NoLostWork
<1>1. Init => NoLostWork
  BY DEF Init, NoLostWork, Owed, HasFinalizer, NoObj
<1>2. TypeOK /\ CacheBehind /\ NoLostWork /\ [Next]_vars => NoLostWork'
  <2>1. SUFFICES ASSUME TypeOK, CacheBehind, NoLostWork, [Next]_vars PROVE NoLostWork'
    OBVIOUS
  <2>2. \A k \in KfDefs : Behind(k) /\ Safe(k)
    BY <2>1 DEF CacheBehind, Behind, NoLostWork, Safe
  <2>3. \A k \in KfDefs : Safe(k)'
    BY <2>1, <2>2, SafeStep
  <2>4. QED
    BY <2>3 DEF NoLostWork, Safe
<1>3. QED
  BY <1>1, <1>2, TypeCorrect, CacheIsBehind, PTL DEF Spec

-----------------------------------------------------------------------------
(* The stop channel *)

\* b2ndController is set exactly while stop holds an open channel, so that the
\* only close that can panic is one that happens while b2ndController is not set.
THEOREM StopFlagAgrees == Spec => []StopMatchesFlag
<1> USE DEF StopMatchesFlag, StopIsOpen
<1>1. Init => StopMatchesFlag
  BY ConstantsAssumption DEF Init
<1>2. ASSUME TypeOK, StopMatchesFlag, LoseMemory PROVE StopMatchesFlag'
  BY <1>2, ConstantsAssumption DEF LoseMemory
<1>3. ASSUME TypeOK, StopMatchesFlag, NEW w \in Workers, NEW k \in KfDefs, StartDelete(w, k)
      PROVE  StopMatchesFlag'
  BY <1>2, <1>3 DEF StartDelete, StopSecond, TypeOK, GlobalsOK
<1>4. ASSUME TypeOK, StopMatchesFlag, NEW w \in Workers, StartSecond(w)
      PROVE  StopMatchesFlag'
  BY <1>4 DEF StartSecond, TypeOK, GlobalsOK
<1>5. UNCHANGED <<b2nd, stop, chan>> /\ StopMatchesFlag => StopMatchesFlag'
  OBVIOUS
<1>6. TypeOK /\ StopMatchesFlag /\ [Next]_vars => StopMatchesFlag'
  <2>1. SUFFICES ASSUME TypeOK, StopMatchesFlag, [Next]_vars PROVE StopMatchesFlag'
    OBVIOUS
  <2> USE DEF memory, informer, cluster
  <2>2. CASE Environment
    BY <1>2, <1>5, <2>1, <2>2
    DEF Environment, CreateKfDef, EditKfDef, DeleteKfDef, CollectForeground, LoseResource,
        EmptyNamespace, DropNamespace, AddDeleteConfigMap, Crash, Restart, RemoveOperator
  <2>3. CASE Informers
    BY <1>5, <2>1, <2>3
    DEF Informers, SyncCache, ResyncKfDef, ResyncConfigMap, TouchResource, EnqueueKfDef,
        AddFinalizer, HandleResource, HandleConfigMap
  <2>4. ASSUME NEW w \in Workers, Continue(w) PROVE StopMatchesFlag'
    BY <1>4, <1>5, <2>1, <2>4
    DEF Continue, DeleteApp, Cleanup, RemoveFinalizer, DeleteInstances, Apply, Register,
        SetStatus, Uninstall, Purge
  <2>5. ASSUME NEW w \in Workers, NEW k \in KfDefs, Start(w, k) PROVE StopMatchesFlag'
    BY <1>3, <1>5, <2>1, <2>5 DEF Start, StartGone, StartApply
  <2>6. CASE UNCHANGED vars
    BY <1>5, <2>1, <2>6 DEF vars
  <2>7. QED
    BY <2>1, <2>2, <2>3, <2>4, <2>5, <2>6 DEF Next, Reconcile
<1>7. QED
  BY <1>1, <1>6, TypeCorrect, PTL DEF Spec

-----------------------------------------------------------------------------
(* The finalizer, as long as no name of a KfDef is used again *)

Unreused == \A k \in KfDefs : born[k] <= 1

\* The object of k is being deleted or gone, and the informer cannot tell otherwise.
Dying(k) ==
  /\ born[k] # 0
  /\ Exists(cache[k]) => cache[k].del
  /\ Exists(cr[k]) => cr[k].del

CopiesOK == \A k \in KfDefs : Exists(cache[k]) \/ cache[k] = NoObj
DeletesDying ==
  \A w \in Workers : worker[w].pc \in DeletePath => worker[w].inst.del /\ Dying(worker[w].key)
CopiesGuarded ==
  \A k \in KfDefs : Live(cache[k]) /\ HasFinalizer(cache[k]) => HasFinalizer(cr[k])
GuardInv == CopiesOK /\ DeletesDying /\ CopiesGuarded

LEMMA DyingStays ==
  ASSUME TypeOK, TypeOK', NEW k \in KfDefs, Behind(k), Evolves(k), Dying(k), born'[k] <= 1
  PROVE  Dying(k)'
<1>1. born[k] \in Nat /\ born'[k] # born[k] + 1
  BY DEF TypeOK, ClusterOK, Dying
<1>2. CASE Informed(k)
  BY <1>2 DEF Informed, Dying, Exists, NoObj
<1>3. CASE Written(k)
  BY <1>3 DEF Written, Dying, Exists, NoObj, Later
<1>4. QED
  BY <1>1, <1>2, <1>3 DEF Evolves, Created

LEMMA CopyStays ==
  ASSUME NEW k \in KfDefs, Behind(k), Evolves(k), Exists(cache[k]) \/ cache[k] = NoObj
  PROVE  Exists(cache'[k]) \/ cache'[k] = NoObj
BY DEF Behind, Evolves, Informed, Written, Created

LEMMA CacheDying ==
  ASSUME TypeOK, NEW k \in KfDefs, Behind(k), Exists(cache[k]) \/ cache[k] = NoObj, born[k] <= 1,
         cache[k].del
  PROVE  Dying(k)
<1>1. /\ cache[k].inc \in Nat /\ cr[k].inc \in Nat /\ born[k] \in Nat
  BY DEF TypeOK, ClusterOK, InformerOK, Object
<1>2. Exists(cache[k])
  BY DEF NoObj
<1>3. born[k] = 1 /\ cache[k].inc = 1
  BY <1>1, <1>2 DEF Behind, Exists
<1>4. Exists(cr[k]) => cr[k].del
  BY <1>1, <1>3 DEF Behind, Exists, Later
<1>5. QED
  BY <1>3, <1>4 DEF Dying

\* What a step makes of the worker w: where a deletion and an apply come from.
Moves(w) ==
  /\ worker'[w].pc \in DeletePath =>
       \/ /\ worker[w].pc \in DeletePath /\ worker'[w].key = worker[w].key
          /\ \/ worker'[w].inst = worker[w].inst
             \/ Exists(cache[worker[w].key]) /\ worker'[w].inst = cache[worker[w].key]
       \/ worker'[w].inst = cache[worker'[w].key] /\ cache[worker'[w].key].del
  /\ worker'[w].pc = "finalize" =>
       /\ worker'[w].key = worker[w].key
       /\ \/ worker[w].pc = "finalize"
          \/ worker[w].pc = "cleanup" /\ worker[w].key \notin instances'
  /\ worker'[w].pc \in {"apply", "register"} =>
       \/ worker[w].pc \in {"apply", "register"} /\ worker'[w].key = worker[w].key
       \/ HasFinalizer(cr'[worker'[w].key])
       \/ /\ Live(cache[worker'[w].key]) /\ HasFinalizer(cache[worker'[w].key])
          /\ cr' = cr

LEMMA StayMoves ==
  ASSUME NEW w \in Workers, worker'[w] = worker[w]
  PROVE  Moves(w)
BY DEF Moves

LEMMA IdleMoves ==
  ASSUME NEW w \in Workers, worker'[w] = Idle
  PROVE  Moves(w)
BY DEF Moves, Idle, Task, DeletePath

LEMMA StartMoves ==
  ASSUME TypeOK, NEW v \in Workers, NEW k \in KfDefs, Start(v, k), NEW w \in Workers
  PROVE  Moves(w)
<1>1. ASSUME NEW pc \in PCs, NEW o, Begin(v, k, pc, o)
      PROVE  IF w = v THEN worker'[w].pc = pc /\ worker'[w].key = k /\ worker'[w].inst = o
                      ELSE worker'[w] = worker[w]
  BY <1>1 DEF Begin, Task, TypeOK, WorkersOK
<1>2. ASSUME Drop(v, k) \/ Retry(v, k) \/ LoseMemory PROVE Moves(w)
  BY <1>2, StayMoves, IdleMoves DEF Drop, Retry, LoseMemory
<1>3. CASE StartGone(v, k)
  <2>1. ASSUME Begin(v, k, "uninstall", NoObj) PROVE Moves(w)
    BY <1>1, <2>1, StayMoves DEF PCs, Moves, DeletePath
  <2>2. QED
    BY <1>2, <1>3, <2>1 DEF StartGone
<1>4. CASE StartDelete(v, k)
  <2>1. ASSUME Begin(v, k, "delete", cache[k]) PROVE Moves(w)
    <3>1. cache[k].del
      BY <1>4 DEF StartDelete
    <3>2. QED
      BY <1>1, <2>1, <3>1, StayMoves DEF PCs, DeletePath, Moves
  <2>2. QED
    BY <1>2, <1>4, <2>1 DEF StartDelete
<1>5. CASE StartApply(v, k)
  <2> DEFINE new == [cache[k] EXCEPT !.fins = @ \cup {"kfdef"}]
  <2>1. ASSUME Begin(v, k, "apply", cache[k]), HasFinalizer(cache[k]), UNCHANGED cr PROVE Moves(w)
    <3>1. Live(cache[k])
      BY <1>5 DEF StartApply
    <3>2. QED
      BY <1>1, <2>1, <3>1, StayMoves DEF PCs, ApplyPath, DeletePath, Moves
  <2>2. ASSUME Begin(v, k, "apply", new), cr' = [cr EXCEPT ![k] = new] PROVE Moves(w)
    <3>1. HasFinalizer(cr'[k])
      BY <2>2 DEF TypeOK, ClusterOK, InformerOK, Object, HasFinalizer
    <3> HIDE DEF new
    <3>2. QED
      BY <1>1, <2>2, <3>1, StayMoves DEF PCs, ApplyPath, DeletePath, Moves
  <2>3. QED
    BY <1>2, <1>5, <2>1, <2>2 DEF StartApply
<1>6. QED
  BY <1>3, <1>4, <1>5 DEF Start

LEMMA ContinueMoves ==
  ASSUME TypeOK, NEW v \in Workers, Continue(v), NEW w \in Workers
  PROVE  Moves(w)
<1>1. ASSUME Finish(v) \/ Requeue(v) PROVE Moves(w)
  BY <1>1, StayMoves, IdleMoves DEF Finish, Requeue, TypeOK, WorkersOK
<1>2. ASSUME NEW pc \in PCs, Goto(v, pc)
      PROVE  IF w = v THEN /\ worker'[w].pc = pc /\ worker'[w].key = worker[w].key
                           /\ worker'[w].inst = worker[w].inst
                      ELSE worker'[w] = worker[w]
  BY <1>2 DEF Goto, TypeOK, WorkersOK, WorkerState
<1>3. CASE DeleteApp(v)
  BY <1>2, <1>3, StayMoves DEF DeleteApp, At, PCs, DeletePath, Moves
<1>4. CASE Cleanup(v)
  <2>1. ASSUME Goto(v, "finalize"), Unregister(worker[v].key) PROVE Moves(w)
    BY <1>2, <1>4, <2>1, StayMoves DEF Cleanup, At, PCs, DeletePath, Moves, Unregister
  <2>2. QED
    BY <1>1, <1>4, <2>1 DEF Cleanup
<1>5. CASE RemoveFinalizer(v)
  <2> DEFINE o == IF Exists(cache[worker[v].key]) THEN cache[worker[v].key] ELSE worker[v].inst
             n == worker[v].tries + 1
  <2>1. ASSUME worker' = [worker EXCEPT ![v] = [@ EXCEPT !.inst = o, !.tries = n]] PROVE Moves(w)
    <3>1. worker[v].pc = "finalize"
      BY <1>5 DEF RemoveFinalizer, At
    <3>2. o = worker[v].inst \/ (Exists(cache[worker[v].key]) /\ o = cache[worker[v].key])
      OBVIOUS
    <3> HIDE DEF o, n
    <3>3. CASE w = v
      <4>1. worker'[w].pc = "finalize" /\ worker'[w].key = worker[w].key /\ worker'[w].inst = o
        BY <2>1, <3>1, <3>3 DEF TypeOK, WorkersOK, WorkerState
      <4>2. QED
        BY <3>1, <3>2, <3>3, <4>1 DEF Moves, DeletePath
    <3>4. CASE w # v
      BY <2>1, <3>4, StayMoves DEF TypeOK, WorkersOK
    <3>5. QED
      BY <3>3, <3>4
  <2>2. worker' = [worker EXCEPT ![v].inst = IF Exists(cache[worker[v].key]) THEN cache[worker[v].key] ELSE @,
                                 ![v].tries = @ + 1]
        => worker' = [worker EXCEPT ![v] = [@ EXCEPT !.inst = o, !.tries = n]]
    BY DEF TypeOK, WorkersOK, WorkerState
  <2> HIDE DEF o, n
  <2>3. QED
    BY <1>1, <1>5, <2>1, <2>2 DEF RemoveFinalizer
<1>6. CASE DeleteInstances(v)
  BY <1>1, <1>6 DEF DeleteInstances
<1>7. CASE Apply(v)
  <2> DEFINE Return(pc, ok, conds) ==
               worker' = [worker EXCEPT ![v].pc = pc, ![v].ok = ok, ![v].inst.conds = conds]
  <2>1. ASSUME NEW pc \in {"register", "status"}, NEW ok, NEW conds, Return(pc, ok, conds) PROVE Moves(w)
    <3>1. worker[v].pc = "apply"
      BY <1>7 DEF Apply, At
    <3>2. CASE w = v
      <4>1. worker'[w].pc = pc /\ worker'[w].key = worker[w].key
        BY <2>1, <3>2 DEF TypeOK, WorkersOK, WorkerState
      <4>2. QED
        BY <3>1, <3>2, <4>1 DEF Moves, DeletePath
    <3>3. CASE w # v
      BY <2>1, <3>3, StayMoves DEF TypeOK, WorkersOK
    <3>4. QED
      BY <3>2, <3>3
  <2>2. Return("register", TRUE, {"Available"}) \/ Return("status", FALSE, {"Degraded", "Available"})
    BY <1>7 DEF Apply
  <2> HIDE DEF Return
  <2>3. QED
    BY <2>1, <2>2
<1>8. CASE Register(v)
  <2>1. ASSUME NEW pc \in {"status", "start2nd"}, Goto(v, pc) PROVE Moves(w)
    BY <1>2, <2>1, StayMoves DEF PCs, ApplyPath, DeletePath, Moves
  <2>2. QED
    BY <1>8, <2>1 DEF Register, AfterRegister
<1>9. CASE StartSecond(v)
  <2>1. Goto(v, "status") => Moves(w)
    BY <1>2, StayMoves DEF PCs, ApplyPath, DeletePath, Moves
  <2>2. QED
    BY <1>1, <1>9, <2>1 DEF StartSecond
<1>10. CASE SetStatus(v)
  BY <1>1, <1>10 DEF SetStatus
<1>11. CASE Uninstall(v)
  <2>1. Goto(v, "purge") => Moves(w)
    BY <1>2, StayMoves DEF PCs, DeletePath, Moves
  <2>2. QED
    BY <1>1, <1>11, <2>1 DEF Uninstall
<1>12. CASE Purge(v)
  BY <1>1, <1>12 DEF Purge
<1>13. QED
  BY <1>3, <1>4, <1>5, <1>6, <1>7, <1>8, <1>9, <1>10, <1>11, <1>12 DEF Continue

LEMMA WorkersMove ==
  ASSUME TypeOK, [Next]_vars, NEW w \in Workers
  PROVE  Moves(w)
<1> USE DEF memory, informer, cluster
<1>1. CASE Environment
  BY <1>1, StayMoves, IdleMoves
  DEF Environment, CreateKfDef, EditKfDef, DeleteKfDef, CollectForeground, LoseResource,
      EmptyNamespace, DropNamespace, AddDeleteConfigMap, Crash, Restart, RemoveOperator, LoseMemory
<1>2. CASE Informers
  BY <1>2, StayMoves
  DEF Informers, SyncCache, ResyncKfDef, ResyncConfigMap, TouchResource, EnqueueKfDef,
      AddFinalizer, HandleResource, HandleConfigMap
<1>3. CASE UNCHANGED vars
  BY <1>3, StayMoves DEF vars
<1>4. QED
  BY <1>1, <1>2, <1>3, StartMoves, ContinueMoves DEF Next, Reconcile

\* Only Reconcile takes our finalizer off, and from the copy it has.
Strips(w, k) == worker[w].pc = "finalize" /\ worker[w].key = k /\ cr[k] = worker[w].inst

LEMMA KeptFinalizer ==
  ASSUME NEW k \in KfDefs, HasFinalizer(cr[k])
  PROVE  /\ HasFinalizer(Deleted(cr[k]))
         /\ \A o \in Object : HasFinalizer(o) => Stored(o) = o
BY DEF HasFinalizer, Deleted, Stored, Exists, NoObj

LEMMA FinalizerLost ==
  ASSUME TypeOK, [Next]_vars, NEW k \in KfDefs, Behind(k),
         HasFinalizer(cr[k]), ~HasFinalizer(cr'[k])
  PROVE  \E w \in Workers : Strips(w, k)
<1> USE DEF TypeOK, memory, informer, cluster
<1>1. CASE Environment
  <2>1. ASSUME NEW j \in KfDefs, CreateKfDef(j) PROVE FALSE
    <3>1. j = k
      BY <2>1 DEF CreateKfDef, ClusterOK
    <3>2. QED
      BY <2>1, <3>1 DEF CreateKfDef, Behind, HasFinalizer, NoObj
  <2>2. ASSUME NEW j \in KfDefs, EditKfDef(j) PROVE FALSE
    BY <2>2 DEF EditKfDef, ClusterOK, Object, HasFinalizer
  <2>3. ASSUME NEW j \in KfDefs, DeleteKfDef(j) PROVE FALSE
    <3>1. cr'[k] = cr[k] \/ cr'[k] = Deleted(cr[k]) \/ cr'[k].fins = cr[k].fins \cup {"foreground"}
      BY <2>3 DEF DeleteKfDef, ClusterOK, Object
    <3>2. QED
      BY <3>1, KeptFinalizer DEF HasFinalizer
  <2>4. ASSUME NEW j \in KfDefs, CollectForeground(j) PROVE FALSE
    <3> DEFINE o == [cr[k] EXCEPT !.fins = @ \ {"foreground"}]
    <3>1. HasFinalizer(o) /\ o \in Object
      BY DEF ClusterOK, Object, HasFinalizer
    <3>2. cr'[k] = cr[k] \/ cr'[k] = Stored(o)
      BY <2>4 DEF CollectForeground, ClusterOK
    <3> HIDE DEF o
    <3>3. QED
      BY <3>1, <3>2, KeptFinalizer
  <2>5. ASSUME NEW n \in Namespaces, EmptyNamespace(n) PROVE FALSE
    BY <2>5, KeptFinalizer DEF EmptyNamespace
  <2>6. QED
    BY <1>1, <2>1, <2>2, <2>3, <2>4, <2>5
    DEF Environment, LoseResource, DropNamespace, AddDeleteConfigMap, Crash, Restart, RemoveOperator
<1>2. CASE Informers
  <2>1. ASSUME NEW j \in KfDefs, AddFinalizer(j) PROVE FALSE
    <3>1. PICK fs \in notif[j] :
            UNCHANGED cr \/ cr' = [cr EXCEPT ![j] = Stored([@ EXCEPT !.fins = fs \cup {"kfdef"}])]
      BY <2>1 DEF AddFinalizer
    <3> DEFINE new == fs \cup {"kfdef"}
               o   == [cr[j] EXCEPT !.fins = new]
    <3>2. new \in SUBSET Finalizers
      BY DEF InformerOK, Finalizers
    <3>3. HasFinalizer(o) /\ o \in Object
      BY <3>2 DEF ClusterOK, Object, HasFinalizer
    <3>4. cr'[k] = cr[k] \/ cr'[k] = Stored(o)
      BY <3>1 DEF ClusterOK
    <3> HIDE DEF o
    <3>5. QED
      BY <3>3, <3>4, KeptFinalizer
  <2>2. QED
    BY <1>2, <2>1
    DEF Informers, SyncCache, ResyncKfDef, ResyncConfigMap, TouchResource, EnqueueKfDef,
        HandleResource, HandleConfigMap
<1>3. CASE UNCHANGED vars
  BY <1>3 DEF vars
<1>4. ASSUME NEW v \in Workers, NEW j \in KfDefs, Start(v, j) PROVE FALSE
  <2>1. CASE StartApply(v, j)
    <3> DEFINE new == [cache[j] EXCEPT !.fins = @ \cup {"kfdef"}]
    <3>1. HasFinalizer(new)
      BY DEF InformerOK, Object, HasFinalizer
    <3> HIDE DEF new
    <3>2. UNCHANGED cr \/ cr' = [cr EXCEPT ![j] = new]
      BY <2>1 DEF StartApply, new
    <3>3. QED
      BY <3>1, <3>2 DEF ClusterOK
  <2>2. QED
    BY <1>4, <2>1 DEF Start, StartGone, StartDelete
<1>5. ASSUME NEW v \in Workers, Continue(v) PROVE \E w \in Workers : Strips(w, k)
  <2>1. CASE RemoveFinalizer(v)
    <3>1. worker[v].key \in KfDefs
      BY <2>1, BusyType DEF RemoveFinalizer, At
    <3>2. worker[v].key = k /\ cr[k] = worker[v].inst /\ worker[v].pc = "finalize"
      BY <2>1, <3>1 DEF RemoveFinalizer, At, Accepts, ClusterOK
    <3>3. QED
      BY <3>2 DEF Strips
  <2>2. CASE DeleteInstances(v)
    BY <2>2, KeptFinalizer DEF DeleteInstances
  <2>3. CASE SetStatus(v)
    <3>1. cr'[k].fins = cr[k].fins
      BY <2>3 DEF SetStatus, ClusterOK, Object
    <3>2. QED
      BY <3>1 DEF HasFinalizer
  <2>4. QED
    BY <1>5, <2>1, <2>2, <2>3
    DEF Continue, DeleteApp, Cleanup, Apply, Register, StartSecond, Uninstall, Purge
<1>6. QED
  BY <1>1, <1>2, <1>3, <1>4, <1>5 DEF Next, Reconcile

LEMMA GuardStep ==
  ASSUME TypeOK, TypeOK', \A k \in KfDefs : Behind(k), GuardInv, Unreused, Unreused', [Next]_vars
  PROVE  /\ GuardInv'
         /\ \A k \in KfDefs : HasFinalizer(cr[k]) /\ ~HasFinalizer(cr'[k]) => Dying(k) /\ cr[k].del
<1>1. \A k \in KfDefs : Evolves(k)
  BY BehindStep
<1>2. \A k \in KfDefs : Dying(k) => Dying(k)'
  BY <1>1, DyingStays DEF Unreused
<1>3. CopiesOK'
  BY <1>1, CopyStays DEF GuardInv, CopiesOK
<1>4. DeletesDying'
  <2>1. SUFFICES ASSUME NEW w \in Workers, worker'[w].pc \in DeletePath,
                        NEW k, k = worker'[w].key
                 PROVE  worker'[w].inst.del /\ Dying(k)'
    BY DEF DeletesDying, Dying
  <2>2. k \in KfDefs
    BY <2>1 DEF TypeOK, WorkersOK, DeletePath
  <2>3. worker'[w].inst.del /\ Dying(k)
    <3>1. Moves(w)
      BY WorkersMove
    <3>2. CASE worker[w].pc \in DeletePath /\ k = worker[w].key
      BY <2>1, <3>1, <3>2 DEF Moves, GuardInv, DeletesDying, Dying
    <3>3. CASE worker'[w].inst = cache[k] /\ cache[k].del
      BY <2>2, <3>3, CacheDying DEF GuardInv, CopiesOK, Unreused
    <3>4. QED
      BY <2>1, <3>1, <3>2, <3>3 DEF Moves
  <2>4. QED
    BY <1>2, <2>2, <2>3
<1>5. ASSUME NEW k \in KfDefs, HasFinalizer(cr[k]), ~HasFinalizer(cr'[k]) PROVE Dying(k) /\ cr[k].del
  <2>1. PICK w \in Workers : Strips(w, k)
    BY <1>5, FinalizerLost
  <2>2. QED
    BY <2>1 DEF Strips, GuardInv, DeletesDying, DeletePath
<1>6. CopiesGuarded'
  <2>1. SUFFICES ASSUME NEW k \in KfDefs, Live(cache'[k]), HasFinalizer(cache'[k]), ~HasFinalizer(cr'[k])
                 PROVE  FALSE
    BY DEF CopiesGuarded
  <2>2. cache'[k] # cr'[k]
    BY <2>1
  <2>3. cache'[k] = cache[k]
    <3>1. cache'[k] # NoObj
      BY <2>1 DEF Live, Exists, NoObj
    <3>2. QED
      BY <1>1, <2>2, <3>1 DEF Evolves, Informed, Written, Created
  <2>4. HasFinalizer(cr[k])
    BY <2>1, <2>3 DEF GuardInv, CopiesGuarded
  <2>5. QED
    BY <1>5, <2>1, <2>3, <2>4 DEF Dying, Live
<1>7. QED
  BY <1>3, <1>4, <1>5, <1>6 DEF GuardInv

LEMMA GuardInit == Init => GuardInv
BY DEF Init, GuardInv, CopiesOK, DeletesDying, CopiesGuarded, Idle, Task, DeletePath, Live, Exists, NoObj

\* Where no name is used again the finalizer leaves an object that is being
\* deleted only: with any number of workers, and whatever fails, a Reconcile
\* that deletes has a copy that says so, and reads no other (RemoveFinalizer).
THEOREM FinalizerIsKept == Spec /\ []Unreused => FinalizerGuards
<1>1. /\ TypeOK /\ TypeOK' /\ CacheBehind /\ GuardInv /\ Unreused /\ Unreused' /\ [Next]_vars
      => /\ GuardInv'
         /\ [\A k \in KfDefs : HasFinalizer(cr[k]) /\ ~HasFinalizer(cr'[k]) => cr[k].del]_vars
  BY GuardStep DEF CacheBehind, Behind
<1>2. QED
  BY <1>1, GuardInit, TypeCorrect, CacheIsBehind, PTL DEF Spec, FinalizerGuards

-----------------------------------------------------------------------------
(* The main controller alone: what is registered, and the promise to users *)

\* No worker of the second controller has a request.
MainAlone == \A w \in Workers \ {MainWorker} : worker[w].pc = "idle"

\* The main controller deploys and registers what the finalizer guards, and drops
\* the finalizer of what is not registered.
MainGuards ==
  /\ worker[MainWorker].pc \in {"apply", "register"} => HasFinalizer(cr[worker[MainWorker].key])
  /\ worker[MainWorker].pc = "finalize" => worker[MainWorker].key \notin instances

LEMMA RegisteredFrom ==
  ASSUME TypeOK, [Next]_vars, NEW k \in instances', k \notin instances
  PROVE  \E w \in Workers : worker[w].pc = "register" /\ worker[w].key = k
<1> USE DEF memory, informer, cluster
<1>1. CASE Environment
  BY <1>1
  DEF Environment, CreateKfDef, EditKfDef, DeleteKfDef, CollectForeground, LoseResource,
      EmptyNamespace, DropNamespace, AddDeleteConfigMap, Crash, Restart, RemoveOperator, LoseMemory
<1>2. CASE Informers
  BY <1>2
  DEF Informers, SyncCache, ResyncKfDef, ResyncConfigMap, TouchResource, EnqueueKfDef,
      AddFinalizer, HandleResource, HandleConfigMap
<1>3. ASSUME NEW w \in Workers, Continue(w)
      PROVE  worker[w].pc = "register" /\ worker[w].key = k
  BY <1>3 DEF Continue, DeleteApp, Cleanup, Unregister, RemoveFinalizer, DeleteInstances, Apply, Register,
              StartSecond, SetStatus, Uninstall, Purge, At
<1>4. ASSUME NEW w \in Workers, NEW j \in KfDefs, Start(w, j) PROVE FALSE
  BY <1>4 DEF Start, StartGone, StartDelete, StartApply, LoseMemory
<1>5. CASE UNCHANGED vars
  BY <1>5 DEF vars
<1>6. QED
  BY <1>1, <1>2, <1>3, <1>4, <1>5 DEF Next, Reconcile

\* Alone, the main controller takes the finalizer off what it is finalizing.
LEMMA StrippedByMain ==
  ASSUME TypeOK, \A k \in KfDefs : Behind(k), MainAlone, [Next]_vars,
         NEW k \in KfDefs, HasFinalizer(cr[k]), ~HasFinalizer(cr'[k])
  PROVE  worker[MainWorker].pc = "finalize" /\ worker[MainWorker].key = k
<1>1. PICK w \in Workers : Strips(w, k)
  BY FinalizerLost
<1>2. QED
  BY <1>1 DEF Strips, MainAlone

LEMMA MainStep ==
  ASSUME TypeOK, TypeOK', \A k \in KfDefs : Behind(k), GuardInv, MainGuards, RegisteredExist, MainAlone,
         [Next]_vars
  PROVE  (MainGuards /\ RegisteredExist)'
<1> DEFINE m == worker[MainWorker]
<1>1. MainWorker \in Workers /\ Moves(MainWorker)
  BY MainType, WorkersMove
<1>2. ASSUME NEW k \in instances', k \notin instances
      PROVE  m.pc = "register" /\ m.key = k
  BY <1>2, RegisteredFrom DEF MainAlone
<1>3. RegisteredExist'
  <2>1. SUFFICES ASSUME NEW k \in instances' PROVE HasFinalizer(cr'[k])
    BY DEF RegisteredExist
  <2>2. k \in KfDefs
    BY DEF TypeOK, GlobalsOK
  <2>3. HasFinalizer(cr[k])
    BY <1>2 DEF RegisteredExist, MainGuards
  <2>4. m.pc = "finalize" => m.key # k
    BY <1>2 DEF MainGuards
  <2>5. QED
    BY <2>2, <2>3, <2>4, StrippedByMain
<1>4. ASSUME NEW k, k = worker'[MainWorker].key, worker'[MainWorker].pc \in {"apply", "register"}
      PROVE  HasFinalizer(cr'[k])
  <2>1. k \in KfDefs
    BY <1>1, <1>4 DEF TypeOK, WorkersOK
  <2>2. CASE m.pc \in {"apply", "register"} /\ k = m.key
    BY <2>1, <2>2, StrippedByMain DEF MainGuards
  <2>3. CASE Live(cache[k]) /\ HasFinalizer(cache[k]) /\ cr' = cr
    BY <2>1, <2>3 DEF GuardInv, CopiesGuarded
  <2>4. QED
    BY <1>1, <1>4, <2>2, <2>3 DEF Moves
<1>5. ASSUME NEW k, k = worker'[MainWorker].key, worker'[MainWorker].pc = "finalize"
      PROVE  k \notin instances'
  <2>1. k = m.key /\ (m.pc = "finalize" \/ (m.pc = "cleanup" /\ k \notin instances'))
    BY <1>1, <1>5 DEF Moves
  <2>2. QED
    BY <1>2, <2>1 DEF MainGuards
<1>6. QED
  BY <1>3, <1>4, <1>5 DEF MainGuards

\* As long as no name is used again and the second controller is idle: whatever
\* fails, crashes or is uninstalled, what is registered carries the finalizer,
\* so that the uninstallation waits for nothing that is gone (Reconcile).
THEOREM RegisteredAreGuarded == Spec /\ []Unreused /\ []MainAlone => []RegisteredExist
<1>1. Init => MainGuards /\ RegisteredExist
  BY MainType DEF Init, MainGuards, RegisteredExist, Idle, Task
<1>2. /\ TypeOK /\ TypeOK' /\ CacheBehind /\ GuardInv /\ MainGuards /\ RegisteredExist
      /\ Unreused /\ Unreused' /\ MainAlone /\ [Next]_vars
      => (GuardInv /\ MainGuards /\ RegisteredExist)'
  BY GuardStep, MainStep DEF CacheBehind, Behind
<1>3. QED
  BY <1>1, <1>2, GuardInit, TypeCorrect, CacheIsBehind, PTL DEF Spec

\* What a user sees of k, and of a step that concerns j only.
Footprint(k) == \E r \in Resources : deployed[k][r] # 0
Only(j) == \A k \in KfDefs \ {j} : cr'[k] = cr[k] /\ deployed'[k] = deployed[k]

\* The phases an object can go through.
Passes(j, p, q) ==
  \/ p = "absent"   /\ q = "bare"
  \/ p = "bare"     /\ q \in {"guarded", "absent", "released"}
  \/ p = "guarded"  /\ q = "deleting"
  \/ p = "deleting" /\ q \in {"absent", "released"} /\ ~Footprint(j)
  \/ p = "released" /\ q = "absent"

LEMMA PhaseMoves ==
  ASSUME NEW j \in KfDefs, Only(j), deployed'[j] = deployed[j],
         NEW from, NEW to, PhaseOf(cr[j]) \in from, to = PhaseOf(cr'[j])
  PROVE  Lifecycle!Move(j, from, to)
<1>1. [k \in KfDefs |-> PhaseOf(cr'[k])] = [[k \in KfDefs |-> PhaseOf(cr[k])] EXCEPT ![j] = to]
  BY DEF Only
<1>2. \A k \in KfDefs : deployed'[k] = deployed[k]
  BY DEF Only
<1>3. [k \in KfDefs |-> \E r \in Resources : deployed'[k][r] # 0]
        = [k \in KfDefs |-> \E r \in Resources : deployed[k][r] # 0]
  BY <1>2
<1>4. QED
  BY <1>1, <1>3 DEF Lifecycle!Move

LEMMA PhaseStep ==
  ASSUME NEW j \in KfDefs, Only(j), deployed'[j] = deployed[j], NEW p, NEW q,
         p = PhaseOf(cr[j]), q = PhaseOf(cr'[j]), Passes(j, p, q)
  PROVE  Lifecycle!Next
<1>1. \A from : p \in from => Lifecycle!Move(j, from, q)
  BY PhaseMoves
<1>2. CASE p = "absent" /\ q = "bare"
  BY <1>1, <1>2 DEF Lifecycle!Next, Lifecycle!Create
<1>3. CASE p = "bare" /\ q \in {"guarded", "absent", "released"}
  BY <1>1, <1>3 DEF Lifecycle!Next, Lifecycle!Guard, Lifecycle!Delete
<1>4. CASE p = "guarded" /\ q = "deleting"
  BY <1>1, <1>4 DEF Lifecycle!Next, Lifecycle!Delete
<1>5. CASE p = "deleting" /\ q \in {"absent", "released"} /\ ~Footprint(j)
  BY <1>1, <1>5 DEF Lifecycle!Next, Lifecycle!Release, Footprint
<1>6. CASE p = "released" /\ q = "absent"
  BY <1>1, <1>6 DEF Lifecycle!Next, Lifecycle!Collect
<1>7. QED
  BY <1>2, <1>3, <1>4, <1>5, <1>6 DEF Passes

LEMMA BooleanUpdate ==
  ASSUME NEW f \in [KfDefs -> BOOLEAN], NEW g \in [KfDefs -> BOOLEAN], NEW j \in KfDefs,
         \A k \in KfDefs \ {j} : g[k] = f[k]
  PROVE  g = [f EXCEPT ![j] = TRUE] \/ (g = [f EXCEPT ![j] = FALSE] /\ ~g[j])
OBVIOUS

LEMMA FootprintStep ==
  ASSUME NEW j \in KfDefs, Only(j), cr'[j] = cr[j],
         Footprint(j)' /\ ~Footprint(j) => PhaseOf(cr[j]) \in {"guarded", "deleting"}
  PROVE  [Lifecycle!Next]_(Lifecycle!vars)
<1> DEFINE f == [k \in KfDefs |-> \E r \in Resources : deployed[k][r] # 0]
           g == [k \in KfDefs |-> \E r \in Resources : deployed'[k][r] # 0]
<1>1. f \in [KfDefs -> BOOLEAN] /\ g \in [KfDefs -> BOOLEAN]
  OBVIOUS
<1>2. \A k \in KfDefs \ {j} : g[k] = f[k]
  BY DEF Only
<1>3. g[j] /\ ~f[j] => PhaseOf(cr[j]) \in {"guarded", "deleting"}
  BY DEF Footprint
<1>4. [k \in KfDefs |-> PhaseOf(cr'[k])] = [k \in KfDefs |-> PhaseOf(cr[k])]
  BY DEF Only
<1> HIDE DEF f, g
<1>5. CASE g = [f EXCEPT ![j] = FALSE]
  BY <1>4, <1>5 DEF Lifecycle!Next, Lifecycle!Remove, f, g
<1>6. CASE g = [f EXCEPT ![j] = TRUE] /\ ~f[j]
  <2>1. PhaseOf(cr[j]) \in {"guarded", "deleting"}
    BY <1>1, <1>3, <1>6
  <2>2. QED
    BY <1>4, <1>6, <2>1 DEF Lifecycle!Next, Lifecycle!Deploy, f, g
<1>7. CASE g = f
  BY <1>4, <1>7 DEF Lifecycle!vars, f, g
<1>8. QED
  <2>1. g = [f EXCEPT ![j] = TRUE] /\ f[j] => g = f
    BY <1>1
  <2>2. QED
    BY <1>1, <1>2, <1>5, <1>6, <1>7, <2>1, BooleanUpdate

LEMMA ViewUnchanged ==
  ASSUME \A k \in KfDefs : PhaseOf(cr'[k]) = PhaseOf(cr[k]) /\ deployed'[k] = deployed[k]
  PROVE  UNCHANGED Lifecycle!vars
<1>1. [k \in KfDefs |-> PhaseOf(cr'[k])] = [k \in KfDefs |-> PhaseOf(cr[k])]
  OBVIOUS
<1>2. [k \in KfDefs |-> \E r \in Resources : deployed'[k][r] # 0]
        = [k \in KfDefs |-> \E r \in Resources : deployed[k][r] # 0]
  OBVIOUS
<1>3. QED
  BY <1>1, <1>2 DEF Lifecycle!vars

\* Nothing that is being uninstalled, as long as nobody has asked for it.
Quiet ==
  /\ \A n \in Namespaces : ns[n] = "active"
  /\ \A w \in Workers : worker[w].pc \notin {"uninstall", "purge"}

\* Every kfDelete has removed all that was deployed.
Undeploys == \A w \in Workers : worker[w].pc = "cleanup" => ~Footprint(worker[w].key)

\* The main controller finalizes what has left nothing.
Cleaned == worker[MainWorker].pc = "finalize" => ~Footprint(worker[MainWorker].key)

LEMMA FootprintFrom ==
  ASSUME TypeOK, [Next]_vars, NEW k \in KfDefs, ~Footprint(k), Footprint(k)'
  PROVE  \E w \in Workers : worker[w].pc = "apply" /\ worker[w].key = k
<1> USE DEF memory, informer, cluster
<1>1. CASE Environment
  <2>1. ASSUME NEW j \in KfDefs, NEW r \in Resources, LoseResource(j, r) PROVE FALSE
    <3>1. \A s \in Resources : deployed'[k][s] = deployed[k][s] \/ deployed'[k][s] = 0
      BY <2>1 DEF LoseResource, TypeOK, ClusterOK
    <3>2. QED
      BY <3>1 DEF Footprint
  <2>2. ASSUME NEW n \in Namespaces, EmptyNamespace(n) PROVE FALSE
    BY <2>2 DEF EmptyNamespace, Footprint
  <2>3. UNCHANGED deployed => FALSE
    BY DEF Footprint
  <2>4. QED
    BY <1>1, <2>1, <2>2, <2>3
    DEF Environment, CreateKfDef, EditKfDef, DeleteKfDef, CollectForeground,
        DropNamespace, AddDeleteConfigMap, Crash, Restart, RemoveOperator
<1>2. UNCHANGED deployed => FALSE
  BY DEF Footprint
<1>3. CASE Informers
  BY <1>2, <1>3
  DEF Informers, SyncCache, ResyncKfDef, ResyncConfigMap, TouchResource, EnqueueKfDef,
      AddFinalizer, HandleResource, HandleConfigMap
<1>4. ASSUME NEW w \in Workers, Continue(w) PROVE worker[w].pc = "apply" /\ worker[w].key = k
  <2>1. CASE Apply(w)
    <3>1. worker[w].key # k => deployed'[k] = deployed[k]
      BY <2>1 DEF Apply, SetDeployed, TypeOK, ClusterOK
    <3>2. QED
      BY <2>1, <3>1 DEF Apply, At, Footprint
  <2>2. CASE DeleteApp(w)
    <3> DEFINE Rest(left) == [r \in Resources |-> IF r \in left THEN deployed[worker[w].key][r] ELSE 0]
    <3>1. PICK d : SetDeployed(worker[w].key, d)
                   /\ (d = Undeployed(worker[w].key) \/ \E left \in SUBSET Resources : d = Rest(left))
      BY <2>2 DEF DeleteApp
    <3>2. \A r \in Resources : d[r] \in {0, deployed[worker[w].key][r]}
      BY <3>1 DEF Undeployed
    <3>3. \A r \in Resources : deployed'[k][r] = deployed[k][r] \/ deployed'[k][r] = 0
      BY <3>1, <3>2 DEF SetDeployed, TypeOK, ClusterOK
    <3>4. QED
      BY <3>3 DEF Footprint
  <2>3. QED
    BY <1>2, <1>4, <2>1, <2>2
    DEF Continue, Cleanup, RemoveFinalizer, DeleteInstances, Register, StartSecond, SetStatus,
        Uninstall, Purge
<1>5. ASSUME NEW w \in Workers, NEW j \in KfDefs, Start(w, j) PROVE FALSE
  BY <1>2, <1>5 DEF Start, StartGone, StartDelete, StartApply
<1>6. CASE UNCHANGED vars
  BY <1>2, <1>6 DEF vars
<1>7. QED
  BY <1>1, <1>3, <1>4, <1>5, <1>6 DEF Next, Reconcile

LEMMA CleanedStep ==
  ASSUME TypeOK, TypeOK', [Next]_vars, MainAlone, Undeploys, Cleaned
  PROVE  Cleaned'
<1> DEFINE m == worker[MainWorker]
<1>1. MainWorker \in Workers /\ Moves(MainWorker)
  BY MainType, WorkersMove
<1>2. SUFFICES ASSUME NEW k, k = worker'[MainWorker].key, worker'[MainWorker].pc = "finalize"
               PROVE  ~Footprint(k)'
  BY DEF Cleaned, Footprint
<1>3. k = m.key /\ m.pc \in {"finalize", "cleanup"}
  BY <1>1, <1>2 DEF Moves
<1>4. k \in KfDefs
  BY <1>1, <1>3, BusyType
<1>5. ~Footprint(k)
  BY <1>1, <1>3 DEF Cleaned, Undeploys
<1>6. \A w \in Workers : worker[w].pc # "apply"
  BY <1>3 DEF MainAlone
<1>7. QED
  BY <1>4, <1>5, <1>6, FootprintFrom

LEMMA QuietStep ==
  ASSUME TypeOK, [Next]_vars, ~cm, Quiet
  PROVE  Quiet'
<1> USE DEF memory, informer, cluster
<1>1. CASE Environment
  <2>1. \A n \in Namespaces : ~EmptyNamespace(n) /\ ~DropNamespace(n)
    BY DEF Quiet, EmptyNamespace, DropNamespace
  <2>2. UNCHANGED <<ns, worker>> => Quiet'
    BY DEF Quiet
  <2>3. UNCHANGED ns /\ LoseMemory => Quiet'
    BY DEF Quiet, LoseMemory, Idle, Task
  <2>4. QED
    BY <1>1, <2>1, <2>2, <2>3
    DEF Environment, CreateKfDef, EditKfDef, DeleteKfDef, CollectForeground, LoseResource,
        AddDeleteConfigMap, Crash, Restart, RemoveOperator
<1>2. CASE Informers
  BY <1>2
  DEF Informers, SyncCache, ResyncKfDef, ResyncConfigMap, TouchResource, EnqueueKfDef,
      AddFinalizer, HandleResource, HandleConfigMap, Quiet
<1>3. CASE UNCHANGED vars
  BY <1>3 DEF vars, Quiet
<1>4. ASSUME UNCHANGED ns,
             \A v \in Workers : worker'[v].pc \in {"uninstall", "purge"} => worker'[v].pc = worker[v].pc
      PROVE  Quiet'
  BY <1>4 DEF Quiet
<1>5. ASSUME NEW w \in Workers, NEW k \in KfDefs, Start(w, k) PROVE Quiet'
  <2>1. ASSUME NEW v \in Workers, worker'[v].pc \in {"uninstall", "purge"} PROVE worker'[v] = worker[v]
    BY <1>5, <2>1 DEF Start, StartGone, StartDelete, StartApply, HasDeleteConfigMap, Begin, Drop, Retry,
                      LoseMemory, Idle, Task, TypeOK, WorkersOK
  <2>2. QED
    BY <1>4, <1>5, <2>1 DEF Start, StartGone, StartDelete, StartApply
<1>6. ASSUME NEW w \in Workers, Continue(w) PROVE Quiet'
  <2>1. ~Uninstall(w) /\ ~Purge(w)
    BY DEF Quiet, Uninstall, Purge, At
  <2>2. ASSUME NEW v \in Workers, worker'[v].pc \in {"uninstall", "purge"} PROVE worker'[v].pc = worker[v].pc
    BY <1>6, <2>1, <2>2 DEF Continue, DeleteApp, Cleanup, RemoveFinalizer, DeleteInstances, Apply, Register,
         AfterRegister, StartSecond, SetStatus, Goto, Finish, Requeue, Idle, Task, TypeOK, WorkersOK, WorkerState
  <2>3. QED
    BY <1>4, <1>6, <2>1, <2>2
    DEF Continue, DeleteApp, Cleanup, RemoveFinalizer, DeleteInstances, Apply, Register, StartSecond, SetStatus
<1>7. QED
  BY <1>1, <1>2, <1>3, <1>5, <1>6 DEF Next, Reconcile

\* A step that writes the object of j is a step of its life, or shows nothing.
Lives(j, o) == PhaseOf(o) = PhaseOf(cr[j]) \/ Passes(j, PhaseOf(cr[j]), PhaseOf(o))

LEMMA WriteStep ==
  ASSUME TypeOK, NEW j \in KfDefs, NEW o, cr' = [cr EXCEPT ![j] = o], UNCHANGED deployed, Lives(j, o)
  PROVE  [Lifecycle!Next]_(Lifecycle!vars)
<1>1. Only(j) /\ cr'[j] = o /\ deployed'[j] = deployed[j]
  BY DEF Only, TypeOK, ClusterOK
<1>2. CASE PhaseOf(o) = PhaseOf(cr[j])
  BY <1>1, <1>2, ViewUnchanged DEF Only
<1>3. CASE Passes(j, PhaseOf(cr[j]), PhaseOf(o))
  BY <1>1, <1>3, PhaseStep
<1>4. QED
  BY <1>2, <1>3 DEF Lives

LEMMA PhaseIs ==
  ASSUME NEW o
  PROVE  /\ ~Exists(o) => PhaseOf(o) = "absent"
         /\ Exists(o) /\ HasFinalizer(o) /\ ~o.del => PhaseOf(o) = "guarded"
         /\ Exists(o) /\ HasFinalizer(o) /\ o.del => PhaseOf(o) = "deleting"
         /\ Exists(o) /\ ~HasFinalizer(o) /\ o.del => PhaseOf(o) = "released"
         /\ Exists(o) /\ ~HasFinalizer(o) /\ ~o.del => PhaseOf(o) = "bare"
BY DEF PhaseOf, Live

\* What writes an object: a user, the garbage collector, the map function and
\* Reconcile.
LEMMA UserLives ==
  ASSUME TypeOK, \A k \in KfDefs : Behind(k), NEW j \in KfDefs,
         CreateKfDef(j) \/ EditKfDef(j) \/ DeleteKfDef(j) \/ CollectForeground(j)
  PROVE  [Lifecycle!Next]_(Lifecycle!vars)
<1> USE DEF TypeOK, ClusterOK
<1>1. PhaseOf(NoObj) = "absent"
  BY PhaseIs DEF NoObj, Exists
<1>2. CASE CreateKfDef(j)
  <2> DEFINE o == [NoObj EXCEPT !.inc = born'[j], !.spec = 1]
  <2>1. born'[j] # 0
    BY <1>2 DEF CreateKfDef
  <2>2. Exists(o) /\ ~HasFinalizer(o) /\ ~o.del
    BY <2>1 DEF NoObj, Exists, HasFinalizer
  <2>3. cr' = [cr EXCEPT ![j] = o] /\ ~Exists(cr[j]) /\ UNCHANGED deployed
    BY <1>2 DEF CreateKfDef
  <2> HIDE DEF o
  <2>4. Lives(j, o)
    BY <2>2, <2>3, PhaseIs DEF Lives, Passes
  <2>5. QED
    BY <2>3, <2>4, WriteStep
<1>3. CASE EditKfDef(j)
  <2> DEFINE n == cr[j].spec + 1
             o == [cr[j] EXCEPT !.spec = n]
  <2>1. cr' = [cr EXCEPT ![j] = o] /\ UNCHANGED deployed
    BY <1>3 DEF EditKfDef
  <2> HIDE DEF n
  <2>2. o.inc = cr[j].inc /\ o.del = cr[j].del /\ o.fins = cr[j].fins
    BY DEF Object
  <2> HIDE DEF o
  <2>3. Exists(cr[j]) /\ ~cr[j].del /\ Exists(o) /\ ~o.del /\ (HasFinalizer(o) <=> HasFinalizer(cr[j]))
    BY <1>3, <2>2 DEF EditKfDef, Live, Exists, HasFinalizer
  <2>4. Lives(j, o)
    BY <2>3, PhaseIs DEF Lives
  <2>5. QED
    BY <2>1, <2>4, WriteStep
<1>4. CASE DeleteKfDef(j)
  <2> DEFINE p == [cr[j] EXCEPT !.del = TRUE, !.fins = @ \cup {"foreground"}]
             d == [cr[j] EXCEPT !.del = TRUE]
  <2>1. /\ cr' = [cr EXCEPT ![j] = Stored(d)] \/ cr' = [cr EXCEPT ![j] = p]
        /\ UNCHANGED deployed /\ Exists(cr[j]) /\ ~cr[j].del
    BY <1>4 DEF DeleteKfDef, Deleted, Live
  <2>2. /\ p.inc = cr[j].inc /\ p.del /\ p.fins = cr[j].fins \cup {"foreground"}
        /\ d.inc = cr[j].inc /\ d.del /\ d.fins = cr[j].fins
    BY DEF Object
  <2> HIDE DEF p, d
  <2>3. /\ Exists(p) /\ p.del /\ (HasFinalizer(p) <=> HasFinalizer(cr[j]))
        /\ Exists(d) /\ d.del /\ (HasFinalizer(d) <=> HasFinalizer(cr[j]))
    BY <2>1, <2>2 DEF Exists, HasFinalizer
  <2>4. Stored(d) = d \/ (Stored(d) = NoObj /\ ~HasFinalizer(d))
    BY DEF Stored, HasFinalizer
  <2>5. Lives(j, p)
    BY <2>1, <2>3, PhaseIs DEF Lives, Passes
  <2>6. Lives(j, Stored(d))
    BY <1>1, <2>1, <2>3, <2>4, PhaseIs DEF Lives, Passes
  <2>7. QED
    BY <2>1, <2>5, <2>6, WriteStep
<1>5. CASE CollectForeground(j)
  <2> DEFINE d == [cr[j] EXCEPT !.fins = @ \ {"foreground"}]
  <2>1. cr' = [cr EXCEPT ![j] = Stored(d)] /\ UNCHANGED deployed /\ cr[j].del
    BY <1>5 DEF CollectForeground
  <2>2. d.inc = cr[j].inc /\ d.del /\ d.fins = cr[j].fins \ {"foreground"}
    BY <2>1 DEF Object
  <2> HIDE DEF d
  <2>3. Exists(cr[j])
    BY <2>1 DEF Behind, NoObj
  <2>4. Exists(d) /\ d.del /\ (HasFinalizer(d) <=> HasFinalizer(cr[j]))
    BY <2>2, <2>3 DEF Exists, HasFinalizer
  <2>5. Stored(d) = d \/ (Stored(d) = NoObj /\ ~HasFinalizer(d))
    BY DEF Stored, HasFinalizer
  <2>6. Lives(j, Stored(d))
    BY <1>1, <2>1, <2>3, <2>4, <2>5, PhaseIs DEF Lives, Passes
  <2>7. QED
    BY <2>1, <2>6, WriteStep
<1>6. QED
  BY <1>2, <1>3, <1>4, <1>5

\* Adding our finalizer guards an object, unless it has it.
LEMMA GuardLives ==
  ASSUME TypeOK, NEW j \in KfDefs, NEW fs \in SUBSET Finalizers, "kfdef" \in fs,
         Exists(cr[j]), cr[j].del => fs \subseteq cr[j].fins
  PROVE  /\ Lives(j, [cr[j] EXCEPT !.fins = fs])
         /\ Stored([cr[j] EXCEPT !.fins = fs]) = [cr[j] EXCEPT !.fins = fs]
<1> DEFINE o == [cr[j] EXCEPT !.fins = fs]
<1>1. o.inc = cr[j].inc /\ o.del = cr[j].del /\ o.fins = fs
  BY DEF TypeOK, ClusterOK, Object
<1> HIDE DEF o
<1>2. Exists(o) /\ HasFinalizer(o) /\ (cr[j].del => HasFinalizer(cr[j]))
  BY <1>1 DEF Exists, HasFinalizer
<1>3. Lives(j, o) /\ Stored(o) = o
  <2>1. cr[j].del \in BOOLEAN
    BY DEF TypeOK, ClusterOK, Object
  <2>2. Lives(j, o)
    BY <1>1, <1>2, <2>1, PhaseIs DEF Lives, Passes
  <2>3. QED
    BY <1>2, <2>2 DEF Stored, HasFinalizer
<1>4. QED
  BY <1>3 DEF o

LEMMA InformerLives ==
  ASSUME TypeOK, NEW j \in KfDefs, AddFinalizer(j)
  PROVE  [Lifecycle!Next]_(Lifecycle!vars)
<1> USE DEF TypeOK, ClusterOK
<1>1. PICK fs \in notif[j] :
        \/ UNCHANGED cr
        \/ /\ Accepts(j, cache[j], fs \cup {"kfdef"})
           /\ cr' = [cr EXCEPT ![j] = Stored([@ EXCEPT !.fins = fs \cup {"kfdef"}])]
  BY DEF AddFinalizer
<1> DEFINE new == fs \cup {"kfdef"}
           o   == [cr[j] EXCEPT !.fins = new]
<1>2. new \in SUBSET Finalizers /\ "kfdef" \in new
  BY DEF InformerOK, Finalizers
<1>3. UNCHANGED deployed
  BY DEF AddFinalizer
<1>4. CASE UNCHANGED cr
  BY <1>3, <1>4, ViewUnchanged
<1>5. CASE Accepts(j, cache[j], new) /\ cr' = [cr EXCEPT ![j] = Stored(o)]
  <2>1. Exists(cr[j]) /\ (cr[j].del => new \subseteq cr[j].fins)
    BY <1>5 DEF Accepts
  <2> HIDE DEF new
  <2>2. Lives(j, Stored(o))
    BY <1>2, <2>1, GuardLives
  <2> HIDE DEF o
  <2>3. QED
    BY <1>3, <1>5, <2>2, WriteStep
<1>6. QED
  BY <1>1, <1>4, <1>5

LEMMA StartLives ==
  ASSUME TypeOK, NEW w \in Workers, NEW j \in KfDefs, Start(w, j)
  PROVE  [Lifecycle!Next]_(Lifecycle!vars)
<1> USE DEF TypeOK, ClusterOK
<1>1. UNCHANGED deployed
  BY DEF Start, StartGone, StartDelete, StartApply, cluster
<1>2. CASE UNCHANGED cr
  BY <1>1, <1>2, ViewUnchanged
<1>3. CASE StartApply(w, j)
  <2> DEFINE new == [cache[j] EXCEPT !.fins = @ \cup {"kfdef"}]
             fs  == cr[j].fins \cup {"kfdef"}
             o   == [cr[j] EXCEPT !.fins = fs]
  <2>1. UNCHANGED cr \/ (Accepts(j, cache[j], new.fins) /\ cr' = [cr EXCEPT ![j] = new])
    BY <1>3 DEF StartApply
  <2>2. CASE Accepts(j, cache[j], new.fins) /\ cr' = [cr EXCEPT ![j] = new]
    <3>1. Exists(cr[j]) /\ cache[j] = cr[j] /\ ~cr[j].del
      BY <1>3, <2>2 DEF Accepts, StartApply, Live
    <3>2. new = o
      BY <3>1
    <3>3. fs \in SUBSET Finalizers /\ "kfdef" \in fs
      BY DEF Object, Finalizers
    <3> HIDE DEF fs
    <3>4. Lives(j, o)
      BY <3>1, <3>3, GuardLives
    <3> HIDE DEF o, new
    <3>5. QED
      BY <1>1, <2>2, <3>2, <3>4, WriteStep
  <2>3. QED
    BY <1>2, <2>1, <2>2
<1>4. QED
  BY <1>2, <1>3 DEF Start, StartGone, StartDelete, cluster

LEMMA FinalizerLives ==
  ASSUME TypeOK, \A k \in KfDefs : Behind(k), GuardInv, MainAlone, Cleaned,
         NEW w \in Workers, RemoveFinalizer(w)
  PROVE  [Lifecycle!Next]_(Lifecycle!vars)
<1> USE DEF TypeOK, ClusterOK
<1> DEFINE j    == worker[w].key
           rest == worker[w].inst.fins \ {"kfdef"}
           o    == [cr[j] EXCEPT !.fins = rest]
<1>1. /\ worker[w].pc = "finalize" /\ UNCHANGED deployed
      /\ UNCHANGED cr \/ (Accepts(j, worker[w].inst, rest) /\ cr' = [cr EXCEPT ![j] = Stored(o)])
  BY DEF RemoveFinalizer, At
<1>2. j \in KfDefs /\ w = MainWorker /\ ~Footprint(j)
  BY <1>1, BusyType DEF MainAlone, Cleaned
<1>3. CASE UNCHANGED cr
  BY <1>1, <1>3, ViewUnchanged
<1>4. CASE Accepts(j, worker[w].inst, rest) /\ cr' = [cr EXCEPT ![j] = Stored(o)]
  <2>1. Exists(cr[j]) /\ cr[j] = worker[w].inst /\ cr[j].del
    BY <1>1, <1>4 DEF Accepts, GuardInv, DeletesDying, DeletePath
  <2>2. o.inc = cr[j].inc /\ o.del /\ o.fins = rest
    BY <1>2, <2>1 DEF Object
  <2>3. "kfdef" \notin rest
    OBVIOUS
  <2> HIDE DEF o, rest
  <2>4. Exists(o) /\ ~HasFinalizer(o) /\ o.del
    BY <2>1, <2>2, <2>3 DEF Exists, HasFinalizer
  <2>5. Stored(o) = o \/ Stored(o) = NoObj
    BY DEF Stored
  <2>6. PhaseOf(Stored(o)) \in {"absent", "released"}
    BY <2>4, <2>5, PhaseIs DEF NoObj, Exists
  <2>7. PhaseOf(cr[j]) \in {"deleting", "released"}
    BY <2>1, PhaseIs
  <2>8. Lives(j, Stored(o))
    BY <1>2, <2>6, <2>7 DEF Lives, Passes
  <2>9. QED
    BY <1>1, <1>2, <1>4, <2>8, WriteStep
<1>5. QED
  BY <1>1, <1>3, <1>4

LEMMA StatusLives ==
  ASSUME TypeOK, NEW w \in Workers, SetStatus(w)
  PROVE  [Lifecycle!Next]_(Lifecycle!vars)
<1> USE DEF TypeOK, ClusterOK
<1> DEFINE j == worker[w].key
           o == [cr[j] EXCEPT !.conds = worker[w].inst.conds]
<1>1. /\ worker[w].pc = "status" /\ UNCHANGED deployed
      /\ UNCHANGED cr \/ (Exists(cr[j]) /\ cr' = [cr EXCEPT ![j] = o])
  BY DEF SetStatus, At
<1>2. j \in KfDefs
  BY <1>1, BusyType
<1>3. o.inc = cr[j].inc /\ o.del = cr[j].del /\ o.fins = cr[j].fins /\ cr[j].del \in BOOLEAN
  BY <1>2 DEF Object
<1> HIDE DEF o
<1>4. Exists(cr[j]) => Lives(j, o)
  <2>1. SUFFICES ASSUME Exists(cr[j]) PROVE PhaseOf(o) = PhaseOf(cr[j])
    BY DEF Lives
  <2>2. Exists(o) /\ (HasFinalizer(o) <=> HasFinalizer(cr[j])) /\ (o.del <=> cr[j].del)
    BY <1>3, <2>1 DEF Exists, HasFinalizer
  <2>3. QED
    BY <2>1, <2>2, PhaseIs
<1>5. QED
  BY <1>1, <1>2, <1>4, WriteStep, ViewUnchanged

\* What changes the resources of one KfDef only.
LEMMA DeployLives ==
  ASSUME TypeOK, \A k \in KfDefs : Behind(k), MainGuards, MainAlone, [Next]_vars,
         NEW j \in KfDefs, UNCHANGED cr, \A k \in KfDefs \ {j} : deployed'[k] = deployed[k]
  PROVE  [Lifecycle!Next]_(Lifecycle!vars)
<1>1. Only(j) /\ cr'[j] = cr[j]
  BY DEF Only
<1>2. ASSUME Footprint(j)', ~Footprint(j) PROVE PhaseOf(cr[j]) \in {"guarded", "deleting"}
  <2>1. HasFinalizer(cr[j])
    BY <1>2, FootprintFrom DEF MainAlone, MainGuards
  <2>2. Exists(cr[j])
    BY <2>1 DEF Behind, HasFinalizer, NoObj
  <2>3. cr[j].del \in BOOLEAN
    BY DEF TypeOK, ClusterOK, Object
  <2>4. QED
    BY <2>1, <2>2, <2>3, PhaseIs
<1>3. QED
  BY <1>1, <1>2, FootprintStep

LEMMA ControllerLives ==
  ASSUME TypeOK, \A k \in KfDefs : Behind(k), GuardInv, MainGuards, MainAlone, Cleaned, Quiet, ~cm,
         [Next]_vars
  PROVE  [Lifecycle!Next]_(Lifecycle!vars)
<1> USE DEF memory, informer, cluster
<1>1. UNCHANGED <<cr, deployed>> => [Lifecycle!Next]_(Lifecycle!vars)
  BY ViewUnchanged
<1>2. CASE Environment
  <2>1. \A n \in Namespaces : ~EmptyNamespace(n)
    BY DEF Quiet, EmptyNamespace
  <2>2. ASSUME NEW j \in KfDefs, NEW r \in Resources, LoseResource(j, r)
        PROVE  [Lifecycle!Next]_(Lifecycle!vars)
    <3>1. UNCHANGED cr /\ \A k \in KfDefs \ {j} : deployed'[k] = deployed[k]
      BY <2>2 DEF LoseResource, TypeOK, ClusterOK
    <3>2. QED
      BY <3>1, DeployLives
  <2>3. QED
    BY <1>1, <1>2, <2>1, <2>2, UserLives
    DEF Environment, DropNamespace, AddDeleteConfigMap, Crash, Restart, RemoveOperator
<1>3. CASE Informers
  BY <1>1, <1>3, InformerLives
  DEF Informers, SyncCache, ResyncKfDef, ResyncConfigMap, TouchResource, EnqueueKfDef,
      HandleResource, HandleConfigMap
<1>4. ASSUME NEW w \in Workers, Continue(w) PROVE [Lifecycle!Next]_(Lifecycle!vars)
  <2>1. ASSUME DeleteApp(w) \/ Apply(w) PROVE [Lifecycle!Next]_(Lifecycle!vars)
    <3> DEFINE j == worker[w].key
    <3>1. j \in KfDefs
      BY <2>1, BusyType DEF DeleteApp, Apply, At
    <3>2. UNCHANGED cr
      BY <2>1 DEF DeleteApp, Apply
    <3>3. \A k \in KfDefs \ {j} : deployed'[k] = deployed[k]
      BY <2>1 DEF DeleteApp, Apply, SetDeployed, TypeOK, ClusterOK
    <3> HIDE DEF j
    <3>4. QED
      BY <3>1, <3>2, <3>3, DeployLives
  <2>2. ~DeleteInstances(w) /\ ~Uninstall(w) /\ ~Purge(w)
    BY DEF DeleteInstances, HasDeleteConfigMap, Quiet, Uninstall, Purge, At
  <2>3. QED
    BY <1>1, <1>4, <2>1, <2>2, FinalizerLives, StatusLives DEF Continue, Cleanup, Register, StartSecond
<1>5. CASE UNCHANGED vars
  BY <1>1, <1>5 DEF vars
<1>6. QED
  BY <1>2, <1>3, <1>4, <1>5, StartLives DEF Next, Reconcile

LEMMA LifecycleInit == Init => Lifecycle!Init /\ MainGuards /\ RegisteredExist /\ Quiet /\ Cleaned
<1> SUFFICES ASSUME Init PROVE Lifecycle!Init /\ MainGuards /\ RegisteredExist /\ Quiet /\ Cleaned
  OBVIOUS
<1>1. PhaseOf(NoObj) = "absent"
  BY PhaseIs DEF NoObj, Exists
<1>2. [k \in KfDefs |-> PhaseOf(cr[k])] = [k \in KfDefs |-> "absent"]
  BY <1>1 DEF Init
<1>3. [k \in KfDefs |-> \E r \in Resources : deployed[k][r] # 0] = [k \in KfDefs |-> FALSE]
  BY DEF Init
<1>4. Lifecycle!Init
  BY <1>2, <1>3 DEF Lifecycle!Init
<1>5. MainGuards /\ RegisteredExist /\ Quiet /\ Cleaned
  BY MainType DEF Init, MainGuards, RegisteredExist, Quiet, Cleaned, Idle, Task
<1>6. QED
  BY <1>4, <1>5

\* As long as no name is used again, the second controller is idle, every kfDelete
\* removes what was deployed and nobody uninstalls the operator: what it does to
\* its KfDefs, through edits, failing writes, lost resources and crashes, is what
\* operator.md promises.
THEOREM LifecycleImplemented ==
  Spec /\ []Unreused /\ []MainAlone /\ []Undeploys /\ []~cm => ImplementsLifecycle
<1>1. /\ TypeOK /\ TypeOK' /\ CacheBehind /\ GuardInv /\ MainGuards /\ RegisteredExist /\ Quiet /\ Cleaned
      /\ Unreused /\ Unreused' /\ MainAlone /\ Undeploys /\ ~cm /\ [Next]_vars
      => /\ (GuardInv /\ MainGuards /\ RegisteredExist /\ Quiet /\ Cleaned)'
         /\ [Lifecycle!Next]_(Lifecycle!vars)
  BY GuardStep, MainStep, QuietStep, CleanedStep, ControllerLives DEF CacheBehind, Behind
<1>2. QED
  BY <1>1, LifecycleInit, GuardInit, TypeCorrect, CacheIsBehind, PTL
  DEF Spec, ImplementsLifecycle, Lifecycle!Spec

\* What the promise says of the cluster: resources of a KfDef have a guardian that
\* will remove them.
LEMMA LifecycleGuards == Lifecycle!Spec => []Lifecycle!Guarded
<1>1. Lifecycle!Init => Lifecycle!Guarded
  BY DEF Lifecycle!Init, Lifecycle!Guarded
<1>2. Lifecycle!Guarded /\ [Lifecycle!Next]_(Lifecycle!vars) => Lifecycle!Guarded'
  BY DEF Lifecycle!Guarded, Lifecycle!Next, Lifecycle!vars, Lifecycle!Move, Lifecycle!Create, Lifecycle!Guard,
         Lifecycle!Delete, Lifecycle!Deploy, Lifecycle!Remove, Lifecycle!Release, Lifecycle!Collect
<1>3. QED
  BY <1>1, <1>2, PTL DEF Lifecycle!Spec

-----------------------------------------------------------------------------
(* The kinds that come with CRDs *)

OneKfDef == \A k, l \in KfDefs : k = l

\* What is applied or registered has been created.
KnownInv ==
  \A k \in KfDefs : born[k] = 0 =>
    /\ k \notin instances
    /\ \A w \in Workers : worker[w].pc \in {"apply", "register"} => worker[w].key # k

LEMMA KnownStep ==
  ASSUME TypeOK, TypeOK', \A k \in KfDefs : Behind(k), KnownInv, [Next]_vars
  PROVE  KnownInv'
<1>1. SUFFICES ASSUME NEW k \in KfDefs, born'[k] = 0
               PROVE  /\ k \notin instances'
                      /\ \A w \in Workers : worker'[w].pc \in {"apply", "register"} => worker'[w].key # k
  BY DEF KnownInv
<1>2. Evolves(k) /\ Behind(k) /\ Behind(k)'
  BY BehindStep
<1>3. born[k] = 0
  <2>1. born[k] \in Nat
    BY DEF TypeOK, ClusterOK
  <2>2. QED
    BY <1>1, <1>2, <2>1 DEF Evolves, Informed, Written, Created
<1>4. ~HasFinalizer(cr'[k]) /\ ~Exists(cache[k])
  <2>1. cache[k].inc \in Nat
    BY DEF TypeOK, InformerOK, Object
  <2>2. QED
    BY <1>1, <1>2, <1>3, <2>1 DEF Behind, Exists, HasFinalizer, NoObj
<1>5. k \notin instances'
  BY <1>3, RegisteredFrom DEF KnownInv
<1>6. ASSUME NEW w \in Workers, worker'[w].pc \in {"apply", "register"} PROVE worker'[w].key # k
  BY <1>3, <1>4, <1>6, WorkersMove DEF Moves, KnownInv, Live
<1>7. QED
  BY <1>5, <1>6

\* What a step does to the flag, to the registered KfDefs and to who is about to
\* start the second controller.
Unmoved ==
  /\ UNCHANGED b2nd
  /\ instances' \subseteq instances
  /\ \A w \in Workers : At(w, "start2nd") => At(w, "start2nd")'

LEMMA FlagStep ==
  ASSUME TypeOK, [Next]_vars
  PROVE  \/ Unmoved \/ instances' = {}
         \/ \E w \in Workers : Register(w) \/ StartSecond(w)
         \/ \E k \in KfDefs : cache[k].del /\ UNCHANGED <<cr, instances>>
<1> USE DEF memory, informer, cluster
<1>1. CASE Environment
  BY <1>1
  DEF Environment, CreateKfDef, EditKfDef, DeleteKfDef, CollectForeground, LoseResource,
      EmptyNamespace, DropNamespace, AddDeleteConfigMap, Crash, Restart, RemoveOperator, LoseMemory,
      Unmoved, At
<1>2. CASE Informers
  BY <1>2
  DEF Informers, SyncCache, ResyncKfDef, ResyncConfigMap, TouchResource, EnqueueKfDef,
      AddFinalizer, HandleResource, HandleConfigMap, Unmoved, At
<1>3. CASE UNCHANGED vars
  BY <1>3 DEF vars, Unmoved, At
<1>4. ASSUME NEW v \in Workers, worker[v].pc # "start2nd", UNCHANGED <<b2nd, proc>>,
             instances' \subseteq instances, \A w \in Workers \ {v} : worker'[w] = worker[w]
      PROVE  Unmoved
  BY <1>4 DEF Unmoved, At
<1>5. ASSUME NEW v \in Workers, NEW k \in KfDefs, Start(v, k)
      PROVE  Unmoved \/ instances' = {} \/ (cache[k].del /\ UNCHANGED <<cr, instances>>)
  <2>1. worker[v].pc = "idle"
    BY <1>5 DEF Start, StartGone, StartDelete, StartApply, Take
  <2>2. CASE StartDelete(v, k)
    BY <2>2 DEF StartDelete, LoseMemory
  <2>3. CASE StartGone(v, k) \/ StartApply(v, k)
    <3>1. UNCHANGED <<b2nd, proc, instances>>
      BY <2>3 DEF StartGone, StartApply
    <3>2. \A w \in Workers \ {v} : worker'[w] = worker[w]
      BY <2>3 DEF StartGone, StartApply, Begin, Drop, Retry, TypeOK, WorkersOK
    <3>3. QED
      BY <1>4, <2>1, <3>1, <3>2
  <2>4. QED
    BY <1>5, <2>2, <2>3 DEF Start
<1>6. ASSUME NEW v \in Workers, Continue(v) PROVE Unmoved \/ Register(v) \/ StartSecond(v)
  <2>1. SUFFICES ASSUME ~Register(v), ~StartSecond(v) PROVE Unmoved
    OBVIOUS
  <2>2. worker[v].pc # "start2nd" /\ UNCHANGED <<b2nd, proc>> /\ instances' \subseteq instances
    BY <1>6, <2>1 DEF Continue, DeleteApp, Cleanup, Unregister, RemoveFinalizer, DeleteInstances, Apply,
                      SetStatus, Uninstall, Purge, At
  <2>3. \A w \in Workers \ {v} : worker'[w] = worker[w]
    BY <1>6, <2>1 DEF Continue, DeleteApp, Cleanup, RemoveFinalizer, DeleteInstances, Apply, SetStatus,
                      Uninstall, Purge, Goto, Finish, Requeue, TypeOK, WorkersOK
  <2>4. QED
    BY <1>4, <2>2, <2>3
<1>7. QED
  BY <1>1, <1>2, <1>3, <1>5, <1>6 DEF Next, Reconcile

LEMMA WatchedStep ==
  ASSUME OneKfDef, TypeOK, TypeOK', \A k \in KfDefs : Behind(k), GuardInv, KnownInv, CrdKindsWatched,
         Unreused, Unreused', used'["faults"] = 0, used["faults"] = 0, [Next]_vars
  PROVE  CrdKindsWatched'
<1>1. SUFFICES ASSUME NEW k \in instances', Live(cr'[k])
               PROVE  b2nd' \/ \E w \in Workers : At(w, "start2nd")'
  BY DEF CrdKindsWatched
<1>2. k \in KfDefs
  BY DEF TypeOK, GlobalsOK
<1>3. CASE \E w \in Workers : Register(w)
  <2>1. PICK w \in Workers : Register(w)
    BY <1>3
  <2>2. b2nd' = b2nd /\ proc' = "up" /\ worker'[w].pc = IF b2nd THEN "status" ELSE "start2nd"
    BY <2>1 DEF Register, AfterRegister, At, Goto, TypeOK, WorkersOK, WorkerState
  <2>3. b2nd' \/ At(w, "start2nd")'
    BY <2>2 DEF TypeOK, GlobalsOK, At
  <2>4. QED
    BY <2>3
<1>4. CASE \E w \in Workers : StartSecond(w)
  <2>1. ~Spend("faults")
    BY DEF Spend, TypeOK, ClusterOK, EventKinds
  <2>2. QED
    BY <1>4, <2>1 DEF StartSecond
<1>5. CASE Unmoved
  <2>1. k \in instances
    BY <1>5 DEF Unmoved
  <2>2. Evolves(k)
    BY <1>2, BehindStep
  <2>3. born[k] # 0
    BY <1>2, <2>1 DEF KnownInv
  <2>4. ~Created(k)
    BY <1>2, <2>3 DEF Created, Unreused, TypeOK, ClusterOK
  <2>5. Live(cr[k])
    BY <1>1, <1>2, <2>2, <2>4 DEF Evolves, Informed, Written, Live, Later, Exists, NoObj
  <2>6. QED
    BY <1>5, <2>1, <2>5 DEF CrdKindsWatched, Unmoved
<1>6. CASE \E l \in KfDefs : cache[l].del /\ UNCHANGED <<cr, instances>>
  <2>1. cache[k].del /\ cr'[k] = cr[k]
    BY <1>2, <1>6 DEF OneKfDef
  <2>2. Dying(k)
    BY <1>2, <2>1, CacheDying DEF GuardInv, CopiesOK, Unreused
  <2>3. QED
    BY <1>1, <2>1, <2>2 DEF Dying, Live
<1>7. QED
  BY <1>3, <1>4, <1>5, <1>6, FlagStep

\* One KfDef whose name is not used again, and no call that fails: while it is
\* registered and not deleted the second controller watches, or a worker is about
\* to start it, through any crashes and with any number of workers (Reconcile).
THEOREM CrdKindsAreWatched ==
  ASSUME OneKfDef
  PROVE  Spec /\ []Unreused /\ [](used["faults"] = 0) => []CrdKindsWatched
<1>1. Init => KnownInv /\ CrdKindsWatched
  BY DEF Init, KnownInv, CrdKindsWatched, Idle, Task
<1>2. /\ TypeOK /\ TypeOK' /\ CacheBehind /\ GuardInv /\ KnownInv /\ CrdKindsWatched
      /\ Unreused /\ Unreused' /\ used["faults"] = 0 /\ (used["faults"] = 0)' /\ [Next]_vars
      => (GuardInv /\ KnownInv /\ CrdKindsWatched)'
  BY GuardStep, KnownStep, WatchedStep DEF CacheBehind, Behind
<1>3. QED
  BY <1>1, <1>2, GuardInit, TypeCorrect, CacheIsBehind, PTL DEF Spec

-----------------------------------------------------------------------------
(* One second controller *)

\* No two workers are about to start a second controller.
OneStarter == \A v, w \in Workers : worker[v].pc = "start2nd" /\ worker[w].pc = "start2nd" => v = w

\* The incarnations the model has are enough.
SlotIsFree == \A w \in Workers : At(w, "start2nd") => \E g \in Gens : Reusable(g)

OneChannelOpen == \A g \in Gens : chan[g] = "open" => g = stop

\* Who is about to start a second controller has found b2ndController unset, and
\* nobody has set it since.
StarterInv == \A w \in Workers : worker[w].pc = "start2nd" => ~b2nd

\* A step that leaves the flag and the channels, and lets a worker come to start
\* a second controller only past the flag.
FlagStays ==
  /\ UNCHANGED <<b2nd, stop, chan>>
  /\ \A w \in Workers : worker'[w].pc = "start2nd" => worker[w].pc = "start2nd" \/ ~b2nd

LEMMA ChannelStep ==
  ASSUME TypeOK, [Next]_vars
  PROVE  \/ FlagStays \/ LoseMemory
         \/ \E w \in Workers, k \in KfDefs : StopSecond /\ UNCHANGED stop /\ Begin(w, k, "delete", cache[k])
         \/ \E w \in Workers : StartSecond(w)
<1> USE DEF memory, informer, cluster
<1>1. CASE Environment
  BY <1>1
  DEF Environment, CreateKfDef, EditKfDef, DeleteKfDef, CollectForeground, LoseResource,
      EmptyNamespace, DropNamespace, AddDeleteConfigMap, Crash, Restart, RemoveOperator, FlagStays
<1>2. CASE Informers
  BY <1>2
  DEF Informers, SyncCache, ResyncKfDef, ResyncConfigMap, TouchResource, EnqueueKfDef,
      AddFinalizer, HandleResource, HandleConfigMap, FlagStays
<1>3. CASE UNCHANGED vars
  BY <1>3 DEF vars, FlagStays
<1>4. ASSUME NEW v \in Workers, worker'[v].pc = "start2nd" => ~b2nd, UNCHANGED <<b2nd, stop, chan>>,
             \A w \in Workers \ {v} : worker'[w] = worker[w]
      PROVE  FlagStays
  BY <1>4 DEF FlagStays
<1>5. ASSUME NEW v \in Workers, NEW k \in KfDefs, Start(v, k), ~LoseMemory,
             ~(StopSecond /\ UNCHANGED stop /\ Begin(v, k, "delete", cache[k]))
      PROVE  FlagStays
  <2>1. worker[v].pc = "idle"
    BY <1>5 DEF Start, StartGone, StartDelete, StartApply, Take
  <2>2. UNCHANGED <<b2nd, stop, chan>>
    BY <1>5 DEF Start, StartGone, StartDelete, StartApply
  <2>3. /\ \A w \in Workers \ {v} : worker'[w] = worker[w]
        /\ worker'[v].pc # "start2nd"
    BY <1>5, <2>1 DEF Start, StartGone, StartDelete, StartApply, Begin, Task, Drop, Retry, TypeOK, WorkersOK
  <2>4. QED
    BY <1>4, <2>2, <2>3
<1>6. ASSUME NEW v \in Workers, Continue(v), ~StartSecond(v)
      PROVE  FlagStays
  <2>1. UNCHANGED <<b2nd, stop, chan>>
    BY <1>6 DEF Continue, DeleteApp, Cleanup, RemoveFinalizer, DeleteInstances, Apply, Register,
                SetStatus, Uninstall, Purge
  <2>2. \A w \in Workers \ {v} : worker'[w] = worker[w]
    BY <1>6 DEF Continue, DeleteApp, Cleanup, RemoveFinalizer, DeleteInstances, Apply, Register, SetStatus,
                Uninstall, Purge, Goto, Finish, Requeue, TypeOK, WorkersOK
  <2>3. worker'[v].pc = "start2nd" => ~b2nd
    <3>1. ASSUME Register(v) PROVE worker'[v].pc = "start2nd" => ~b2nd
      BY <3>1 DEF Register, Goto, AfterRegister, TypeOK, WorkersOK, WorkerState
    <3>2. worker[v].pc # "start2nd" /\ worker \in [Workers -> WorkerState]
      BY <1>6 DEF Continue, DeleteApp, Cleanup, RemoveFinalizer, DeleteInstances, Apply, Register, SetStatus,
                  Uninstall, Purge, At, TypeOK, WorkersOK
    <3>3. ASSUME ~Register(v), ~Apply(v), ~RemoveFinalizer(v) PROVE worker'[v].pc # "start2nd"
      BY <1>6, <3>2, <3>3 DEF Continue, DeleteApp, Cleanup, DeleteInstances, SetStatus, Uninstall, Purge,
                              Goto, Finish, Requeue, Idle, Task, WorkerState
    <3>4. ASSUME Apply(v) PROVE worker'[v].pc # "start2nd"
      BY <3>2, <3>4 DEF Apply, WorkerState
    <3>5. ASSUME RemoveFinalizer(v) PROVE worker'[v].pc # "start2nd"
      BY <3>2, <3>5 DEF RemoveFinalizer, Finish, Requeue, Idle, Task, WorkerState
    <3>6. QED
      BY <3>1, <3>3, <3>4, <3>5
  <2>4. QED
    BY <1>4, <2>1, <2>2, <2>3
<1>7. QED
  BY <1>1, <1>2, <1>3, <1>5, <1>6 DEF Next, Reconcile

LEMMA StarterStep ==
  ASSUME TypeOK, TypeOK', StopMatchesFlag, OneStarter, StarterInv, OneChannelOpen, [Next]_vars
  PROVE  StarterInv' /\ OneChannelOpen'
<1>1. worker \in [Workers -> WorkerState] /\ chan \in [Gens -> {"unmade", "open", "closed"}]
  BY DEF TypeOK, WorkersOK, GlobalsOK
<1>2. CASE FlagStays
  BY <1>2 DEF FlagStays, StarterInv, OneChannelOpen
<1>3. CASE LoseMemory
  BY <1>3 DEF LoseMemory, StarterInv, OneChannelOpen
<1>4. ASSUME NEW w \in Workers, NEW k \in KfDefs, StopSecond, UNCHANGED stop,
             Begin(w, k, "delete", cache[k])
      PROVE  StarterInv' /\ OneChannelOpen'
  BY <1>1, <1>4 DEF StopSecond, StarterInv, OneChannelOpen
<1>5. ASSUME NEW w \in Workers, StartSecond(w)
      PROVE  StarterInv' /\ OneChannelOpen'
  <2>1. ~b2nd /\ ~StopIsOpen /\ \A v \in Workers \ {w} : worker[v].pc # "start2nd"
    BY <1>5 DEF StartSecond, At, StarterInv, OneStarter, StopMatchesFlag
  <2>2. \A g \in Gens : chan[g] # "open"
    BY <2>1 DEF OneChannelOpen, StopIsOpen
  <2>3. OneChannelOpen'
    BY <1>1, <1>5, <2>2 DEF StartSecond, OneChannelOpen
  <2>4. \A v \in Workers : worker'[v].pc # "start2nd"
    BY <1>1, <1>5, <2>1 DEF StartSecond, Goto, Finish, Idle, Task, WorkerState
  <2>5. QED
    BY <2>3, <2>4 DEF StarterInv
<1>6. QED
  BY <1>2, <1>3, <1>4, <1>5, ChannelStep

\* As long as no two workers are about to start a second controller at once: the
\* only channel that is open is the one in stop, so that every incarnation that
\* runs can be stopped, through any crashes and failures (Reconcile).
THEOREM OneChannelIsOpen == Spec /\ []OneStarter => []OneChannelOpen
<1>1. Init => StarterInv /\ OneChannelOpen
  BY DEF Init, StarterInv, OneChannelOpen, Idle, Task
<1>2. TypeOK /\ TypeOK' /\ StopMatchesFlag /\ OneStarter /\ StarterInv /\ OneChannelOpen /\ [Next]_vars
      => (StarterInv /\ OneChannelOpen)'
  BY StarterStep
<1>3. QED
  BY <1>1, <1>2, TypeCorrect, StopFlagAgrees, PTL DEF Spec

\* The same, and the model never lacks an incarnation to start: that is all
\* OneSecondController says (Reconcile).
THEOREM OneControllerRuns == Spec /\ []OneStarter /\ []SlotIsFree => []OneSecondController
<1>1. OneChannelOpen /\ SlotIsFree => OneSecondController
  BY DEF OneChannelOpen, SlotIsFree, OneSecondController
<1>2. QED
  BY <1>1, OneChannelIsOpen, PTL
=============================================================================
