--------------------------- MODULE KfDefController ---------------------------
(***************************************************************************)
(* The KfDef operator: pkg/controller/kfdef/kfdef_controller.go and        *)
(* status.go, run by the manager of cmd/manager/main.go.                   *)
(*                                                                         *)
(* A "main" controller watches the KfDef objects and the core kinds they   *)
(* deploy; a second controller, started after the first successful apply   *)
(* and stopped when the last registered KfDef is deleted, watches the      *)
(* kinds that come with CRDs.  Both run the same Reconcile, on queues and  *)
(* workers of their own, and share package variables that no lock guards:  *)
(* kfdefInstances, b2ndController and stop.                                *)
(*                                                                         *)
(* The API server (cr, ns, csv), the informers (cache, notif, resEvt) and  *)
(* the work queues of controller-runtime v0.2.0 are modelled as the        *)
(* controller uses them.  Every object a KfDef deploys is represented by   *)
(* one resource of each of the two groups of kinds, deployed[k][r] being   *)
(* the revision of k's spec it was rendered from (0: the object is gone).  *)
(***************************************************************************)
EXTENDS Naturals, FiniteSets

CONSTANTS
  KfDefs,               \* the names a KfDef object can have
  Namespaces,           \* the namespaces of the cluster
  NsOf,                 \* the namespace of each KfDef
  Generated,            \* those labelled odhGeneratedNamespaceLabel
  Main,                 \* the controller "kfdef-controller"
  Gens,                 \* incarnations of "kubeflow-controller"
  GenWorkers,           \* workers per incarnation (Start is called twice on each)
  FinalizerMaxRetries,  \* finalizerMaxRetries
  NoKey, NoGen,         \* "no request" and the nil channel
  MaxIncarnations,      \* bound: how often an object of each name may be created
  Limit,                \* bounds: how often each other event may happen
  Scenarios             \* bounds: the events and KfDefs one behaviour may meet

EventKinds == {"edits", "losses", "touches", "resyncs",
               "foregrounds", "faults", "crashes", "configmaps"}

ASSUME ConstantsAssumption ==
  /\ NsOf \in [KfDefs -> Namespaces]
  /\ Generated \subseteq Namespaces
  /\ Main \notin Gens
  /\ NoKey \notin KfDefs
  /\ NoGen \notin Gens
  /\ GenWorkers \in Nat
  /\ FinalizerMaxRetries \in Nat
  /\ MaxIncarnations \in Nat
  /\ Limit \in [EventKinds -> Nat]
  /\ Scenarios \subseteq SUBSET (EventKinds \cup KfDefs)

VARIABLES
  cr,         \* the KfDef object of each name on the API server
  born,       \* how many objects have had each name
  cache,      \* the informer's copy of it, which client.Get reads
  notif,      \* finalizers of the objects whose event still waits for the map function
  resEvt,     \* update and delete events of deployed resources, not yet handled
  cmEvt,      \* the event of the delete ConfigMap is not yet handled
  queue,      \* the requests in the work queue of each controller
  worker,     \* what each worker goroutine is doing
  instances,  \* kfdefInstances
  b2nd,       \* b2ndController
  stop,       \* the incarnation whose channel the variable stop holds
  chan,       \* stop channel of each incarnation: unmade, open or closed
  deployed,   \* what is deployed of each KfDef, per group of kinds
  ns,         \* phase of each namespace
  cm,         \* the ConfigMap with deleteConfigMapLabel exists
  csv,        \* the operator's ClusterServiceVersion exists
  proc,       \* the operator process
  used        \* how often each event of the environment has happened

memory  == <<queue, worker, instances, b2nd, stop, chan>>
informer == <<cache, notif, resEvt, cmEvt>>
cluster == <<cr, born, deployed, ns, cm, csv>>
vars == <<memory, informer, cluster, proc, used>>

-----------------------------------------------------------------------------
(* Objects, workers and their types *)

Finalizers  == {"kfdef", "foreground"}
Conditions  == {"Available", "Degraded"}
Resources   == {"core", "crd"}      \* WatchedResources, WatchedKubeflowResources
Controllers == {Main} \cup Gens
Workers     == {<<Main, 1>>} \cup (Gens \X (1..GenWorkers))
MainWorker  == <<Main, 1>>
Home(w)     == w[1]

\* inc counts the objects that have had this name; 0 stands for NotFound.
Object == [inc : Nat, fins : SUBSET Finalizers, del : BOOLEAN, spec : Nat,
           conds : SUBSET Conditions]
NoObj  == [inc |-> 0, fins |-> {}, del |-> FALSE, spec |-> 0, conds |-> {}]

Exists(o)       == o.inc # 0
HasFinalizer(o) == "kfdef" \in o.fins
Live(o)         == Exists(o) /\ ~o.del

DeletePath == {"delete", "cleanup", "finalize"}
ApplyPath  == {"apply", "register", "start2nd", "status"}
PCs == {"idle", "uninstall", "purge"} \cup DeletePath \cup ApplyPath

WorkerState == [pc : PCs, key : KfDefs \cup {NoKey}, inst : Object,
                ok : BOOLEAN, tries : 0..FinalizerMaxRetries]
Task(k, pc, o) == [pc |-> pc, key |-> k, inst |-> o, ok |-> FALSE, tries |-> 0]
Idle == Task(NoKey, "idle", NoObj)

ClusterOK ==
  /\ cr \in [KfDefs -> Object]
  /\ born \in [KfDefs -> Nat]
  /\ deployed \in [KfDefs -> [Resources -> Nat]]
  /\ ns \in [Namespaces -> {"active", "terminating", "gone"}]
  /\ cm \in BOOLEAN
  /\ csv \in BOOLEAN
  /\ proc \in {"up", "down", "panicked", "removed"}
  /\ used \in [EventKinds -> Nat]

InformerOK ==
  /\ cache \in [KfDefs -> Object]
  /\ notif \in [KfDefs -> SUBSET SUBSET Finalizers]
  /\ resEvt \in SUBSET (KfDefs \X Resources)
  /\ cmEvt \in BOOLEAN

WorkersOK ==
  /\ queue \in [Controllers -> SUBSET KfDefs]
  /\ worker \in [Workers -> WorkerState]
  /\ \A w \in Workers : worker[w].pc # "idle" => worker[w].key \in KfDefs

GlobalsOK ==
  /\ instances \in SUBSET KfDefs
  /\ b2nd \in BOOLEAN
  /\ stop \in Gens \cup {NoGen}
  /\ chan \in [Gens -> {"unmade", "open", "closed"}]

TypeOK == ClusterOK /\ InformerOK /\ WorkersOK /\ GlobalsOK

Init ==
  /\ queue = [c \in Controllers |-> {}]
  /\ worker = [w \in Workers |-> Idle]
  /\ instances = {}
  /\ b2nd = FALSE
  /\ stop = NoGen
  /\ chan = [g \in Gens |-> "unmade"]
  /\ cr = [k \in KfDefs |-> NoObj]
  /\ born = [k \in KfDefs |-> 0]
  /\ cache = [k \in KfDefs |-> NoObj]
  /\ notif = [k \in KfDefs |-> {}]
  /\ resEvt = {}
  /\ cmEvt = FALSE
  /\ deployed = [k \in KfDefs |-> [r \in Resources |-> 0]]
  /\ ns = [n \in Namespaces |-> "active"]
  /\ cm = FALSE
  /\ csv = TRUE
  /\ proc = "up"
  /\ used = [e \in EventKinds |-> 0]

-----------------------------------------------------------------------------
(* Helpers *)

\* The environment's budget: what has happened and x belong to one scenario.
Meets(x) ==
  \E E \in Scenarios :
     /\ x \in E
     /\ \A e \in EventKinds \ E : used[e] = 0
     /\ \A k \in KfDefs \ E : born[k] = 0

\* Event e may still happen, and does.
Spend(e) == used[e] < Limit[e] /\ Meets(e) /\ used' = [used EXCEPT ![e] = @ + 1]

\* The API server drops an object being deleted once it has no finalizer.
Stored(o)  == IF o.del /\ o.fins = {} THEN NoObj ELSE o
Deleted(o) == IF Exists(o) THEN Stored([o EXCEPT !.del = TRUE]) ELSE o

\* Mutant: the API server lets a finalizer be added during the deletion.
AcceptsAnyFinalizer(k, o, fs) == Exists(cr[k]) /\ o = cr[k]

\* Update of k from the copy o with finalizers fs: refused when o is not the
\* stored version (Conflict, NotFound) or gains a finalizer while deleted (Invalid).
Accepts(k, o, fs) ==
  /\ Exists(cr[k])
  /\ o = cr[k]
  /\ o.del => fs \subseteq o.fins

\* Events the changes of deployed resources raise.  Creations are filtered out
\* by ownedResourcePredicates, an unchanged object raises none.
Changed(old, new) ==
  {p \in KfDefs \X Resources :
     /\ old[p[1]][p[2]] # 0
     /\ new[p[1]][p[2]] # old[p[1]][p[2]]}

SetDeployed(k, d) ==
  /\ deployed' = [deployed EXCEPT ![k] = d]
  /\ resEvt' = resEvt \cup Changed(deployed, deployed')

\* A queue that was shut down with its incarnation drops what is added to it.
Accepting(c)  == IF c = Main THEN TRUE ELSE chan[c] = "open"
Add(q, c, k)  == [q EXCEPT ![c] = IF Accepting(c) THEN @ \cup {k} ELSE @]

\* Reconcile returns: with an error or Requeue the request is queued again.
Finish(w)  == worker' = [worker EXCEPT ![w] = Idle] /\ UNCHANGED queue
Requeue(w) == /\ worker' = [worker EXCEPT ![w] = Idle]
              /\ queue' = Add(queue, Home(w), worker[w].key)

At(w, pc)   == proc = "up" /\ worker[w].pc = pc
Goto(w, pc) == worker' = [worker EXCEPT ![w].pc = pc] /\ UNCHANGED queue

\* hasDeleteConfigMap, evaluated on the informer's list.
HasDeleteConfigMap == cm

\* The process is gone, and with it its memory and its informers.
LoseMemory ==
  /\ queue' = [c \in Controllers |-> {}]
  /\ worker' = [w \in Workers |-> Idle]
  /\ instances' = {}
  /\ b2nd' = FALSE
  /\ stop' = NoGen
  /\ chan' = [g \in Gens |-> "unmade"]
  /\ cache' = [k \in KfDefs |-> NoObj]
  /\ notif' = [k \in KfDefs |-> {}]
  /\ resEvt' = {}
  /\ cmEvt' = FALSE

-----------------------------------------------------------------------------
(* Informers and event handlers *)

\* Mutants: a predicate that passes creations only, or no object being deleted.
NotifiedOnCreate(old, new) == IF Exists(new) /\ ~Exists(old) THEN {new.fins} ELSE {}
NotifiedUnlessDeleted(old, new) ==
  IF Live(new) THEN {o.fins : o \in {x \in {old, new} : Exists(x)}} ELSE {}

\* The objects on which the map function is called when the informer's copy
\* changes from old to new.  Create and Update pass kfdefPredicates (an Update
\* calls it on both versions), Delete does not.
Notified(old, new) ==
  IF Exists(new) THEN {o.fins : o \in {x \in {old, new} : Exists(x)}} ELSE {}

\* The informer receives the stored version of k.
SyncCache(k) ==
  /\ proc = "up"
  /\ cache[k] # cr[k]
  /\ cache' = [cache EXCEPT ![k] = cr[k]]
  /\ notif' = [notif EXCEPT ![k] = @ \cup Notified(cache[k], cr[k])]
  /\ UNCHANGED <<memory, resEvt, cmEvt, cluster, proc, used>>

\* The informers' periodic resync repeats the event of every object they hold,
\* as an Update: of a KfDef, of the delete ConfigMap, and of a deployed resource,
\* whose event may also come from a write of another controller to its status.
ResyncKfDef(k) ==
  /\ proc = "up"
  /\ Exists(cache[k])
  /\ Spend("resyncs")
  /\ notif' = [notif EXCEPT ![k] = @ \cup {cache[k].fins}]
  /\ UNCHANGED <<memory, cache, resEvt, cmEvt, cluster, proc>>

ResyncConfigMap ==
  /\ proc = "up"
  /\ cm
  /\ Spend("resyncs")
  /\ cmEvt' = TRUE
  /\ UNCHANGED <<memory, cache, notif, resEvt, cluster, proc>>

TouchResource(k, r) ==
  /\ proc = "up"
  /\ deployed[k][r] # 0
  /\ Spend("touches")
  /\ resEvt' = resEvt \cup {<<k, r>>}
  /\ UNCHANGED <<memory, cache, notif, cmEvt, cluster, proc>>

\* The map function on an object that carries the finalizer: enqueue it.
EnqueueKfDef(k) ==
  /\ proc = "up"
  /\ \E fs \in notif[k] :
       /\ "kfdef" \in fs
       /\ notif' = [notif EXCEPT ![k] = @ \ {fs}]
  /\ queue' = Add(queue, Main, k)
  /\ UNCHANGED <<worker, instances, b2nd, stop, chan, cache, resEvt, cmEvt,
                 cluster, proc, used>>

\* The map function on an object without it: write the cached copy back with
\* the event's finalizers and ours.  A refused or failed write is only logged,
\* and the request is never enqueued here.
AddFinalizer(k) ==
  /\ proc = "up"
  /\ \E fs \in notif[k] :
       /\ "kfdef" \notin fs
       /\ notif' = [notif EXCEPT ![k] = @ \ {fs}]
       /\ LET new == fs \cup {"kfdef"} IN
            \/ /\ Accepts(k, cache[k], new)
               /\ cr' = [cr EXCEPT ![k] = Stored([@ EXCEPT !.fins = new])]
               /\ UNCHANGED used
            \/ /\ ~Accepts(k, cache[k], new)
               /\ UNCHANGED <<cr, used>>
            \/ Spend("faults") /\ UNCHANGED cr
  /\ UNCHANGED <<memory, cache, resEvt, cmEvt, born, deployed, ns, cm, csv, proc>>

\* The map function on a deployed resource: its KfDef is enqueued by every
\* controller watching the kind, unless the cache has it gone or being deleted.
WatchersOfCore(r) == IF r = "core" THEN {Main} ELSE {}  \* mutants:
WatchersOfCrd(r)  == IF r = "core" THEN {} ELSE {g \in Gens : chan[g] = "open"}  \* one group missing
Watchers(r) == IF r = "core" THEN {Main} ELSE {g \in Gens : chan[g] = "open"}

HandleResource(k, r) ==
  /\ proc = "up"
  /\ <<k, r>> \in resEvt
  /\ resEvt' = resEvt \ {<<k, r>>}
  /\ queue' = IF Live(cache[k])
              THEN [c \in Controllers |->
                      IF c \in Watchers(r) THEN queue[c] \cup {k} ELSE queue[c]]
              ELSE queue
  /\ UNCHANGED <<worker, instances, b2nd, stop, chan, cache, notif, cmEvt,
                 cluster, proc, used>>

\* The map function on the delete ConfigMap: enqueue one registered KfDef, the
\* first the iteration of the map yields, or none.
HandleConfigMap ==
  /\ proc = "up"
  /\ cmEvt
  /\ cmEvt' = FALSE
  /\ \/ \E k \in instances : queue' = Add(queue, Main, k)
     \/ instances = {} /\ UNCHANGED queue
  /\ UNCHANGED <<worker, instances, b2nd, stop, chan, cache, notif, resEvt,
                 cluster, proc, used>>

-----------------------------------------------------------------------------
(* Reconcile *)

\* An idle worker takes k, which no other worker of its controller holds.
Take(w, k) ==
  /\ proc = "up"
  /\ worker[w].pc = "idle"
  /\ k \in queue[Home(w)]
  /\ \A v \in Workers : Home(v) = Home(w) => worker[v].key # k

Dequeued(w, k) == [queue EXCEPT ![Home(w)] = @ \ {k}]

Begin(w, k, pc, o) ==
  /\ queue' = Dequeued(w, k)
  /\ worker' = [worker EXCEPT ![w] = Task(k, pc, o)]

\* Reconcile returns before it has done anything, with or without a requeue.
Drop(w, k)  == queue' = Dequeued(w, k) /\ UNCHANGED worker
Retry(w, k) == queue' = Add(Dequeued(w, k), Home(w), k) /\ UNCHANGED worker

\* NotFound, or deleted without our finalizer: nothing to do, unless the
\* operator is being uninstalled.
StartGone(w, k) ==
  /\ Take(w, k)
  /\ \/ /\ ~Exists(cache[k])
        /\ IF HasDeleteConfigMap THEN Begin(w, k, "uninstall", NoObj) ELSE Drop(w, k)
     \/ /\ cache[k].del /\ ~HasFinalizer(cache[k])
        /\ IF HasDeleteConfigMap THEN Retry(w, k) ELSE Drop(w, k)
  /\ UNCHANGED <<instances, b2nd, stop, chan, informer, cluster, proc, used>>

StopIsOpen == stop \in Gens /\ chan[stop] = "open"

CloseStop == chan' = [chan EXCEPT ![stop] = "closed"] /\ UNCHANGED b2nd  \* mutant
StopSecond ==
  /\ chan' = [chan EXCEPT ![stop] = "closed"]
  /\ b2nd' = FALSE

\* Being deleted: close the second controller's channel if one KfDef is
\* registered, whichever it is.  Closing a nil or closed channel panics.
StartDelete(w, k) ==
  /\ Take(w, k)
  /\ cache[k].del /\ HasFinalizer(cache[k])
  /\ \/ /\ Cardinality(instances) # 1
        /\ Begin(w, k, "delete", cache[k])
        /\ UNCHANGED <<instances, b2nd, stop, chan, informer, proc>>
     \/ /\ Cardinality(instances) = 1
        /\ StopIsOpen
        /\ StopSecond
        /\ Begin(w, k, "delete", cache[k])
        /\ UNCHANGED <<instances, stop, informer, proc>>
     \/ /\ Cardinality(instances) = 1
        /\ ~StopIsOpen
        /\ proc' = "panicked"
        /\ LoseMemory
  /\ UNCHANGED <<cluster, used>>

\* Not being deleted: the finalizer is there, or is added by a write of its own.
\* The write, or removing the application directory, may fail.
StartApply(w, k) ==
  /\ Take(w, k)
  /\ Live(cache[k])
  /\ LET new == [cache[k] EXCEPT !.fins = @ \cup {"kfdef"}] IN
       \/ /\ HasFinalizer(cache[k])
          /\ Begin(w, k, "apply", cache[k])
          /\ UNCHANGED <<cr, used>>
       \/ /\ ~HasFinalizer(cache[k])
          /\ Accepts(k, cache[k], new.fins)
          /\ cr' = [cr EXCEPT ![k] = new]
          /\ Begin(w, k, "apply", new)
          /\ UNCHANGED used
       \/ /\ ~HasFinalizer(cache[k])
          /\ ~Accepts(k, cache[k], new.fins)
          /\ Retry(w, k)
          /\ UNCHANGED <<cr, used>>
       \/ /\ Spend("faults")
          /\ Retry(w, k)
          /\ \/ UNCHANGED cr
             \/ /\ Accepts(k, cache[k], new.fins)
                /\ cr' = [cr EXCEPT ![k] = new]
  /\ UNCHANGED <<instances, b2nd, stop, chan, informer, born, deployed, ns, cm, csv, proc>>

Start(w, k) == StartGone(w, k) \/ StartDelete(w, k) \/ StartApply(w, k)

\* kfDelete; its error is logged and the cleanup goes on.
UndeployedCore(k) == [deployed[k] EXCEPT !["core"] = 0]  \* mutant: CRD kinds left
Undeployed(k) == [r \in Resources |-> 0]

DeleteApp(w) ==
  /\ At(w, "delete")
  /\ LET k == worker[w].key IN
       \/ SetDeployed(k, Undeployed(k)) /\ UNCHANGED used
       \/ /\ Spend("faults")
          /\ \E left \in SUBSET Resources :
               SetDeployed(k, [r \in Resources |->
                                 IF r \in left THEN deployed[k][r] ELSE 0])
  /\ Goto(w, "cleanup")
  /\ UNCHANGED <<instances, b2nd, stop, chan, cache, notif, cmEvt, cr, born, ns, cm, csv, proc>>

\* Remove the application directory, which may fail, and unregister the KfDef.
KeepRegistered(k) == UNCHANGED instances  \* mutant
Unregister(k) == instances' = instances \ {k}

Cleanup(w) ==
  /\ At(w, "cleanup")
  /\ \/ /\ Unregister(worker[w].key)
        /\ Goto(w, "finalize")
        /\ UNCHANGED used
     \/ Spend("faults") /\ Requeue(w) /\ UNCHANGED instances
  /\ UNCHANGED <<b2nd, stop, chan, informer, cluster, proc>>

\* Write the object without the finalizer; after a Conflict read it again from
\* the cache (keeping the old copy if it is gone there) and retry.
MayRetryOnceMore(w) == worker[w].tries <= FinalizerMaxRetries  \* mutant
MayRetry(w) == worker[w].tries < FinalizerMaxRetries

RemoveFinalizer(w) ==
  /\ At(w, "finalize")
  /\ LET k    == worker[w].key
         o    == worker[w].inst
         rest == o.fins \ {"kfdef"}
     IN \/ /\ Accepts(k, o, rest)
           /\ cr' = [cr EXCEPT ![k] = Stored([@ EXCEPT !.fins = rest])]
           /\ IF HasDeleteConfigMap THEN Requeue(w) ELSE Finish(w)
           /\ UNCHANGED used
        \/ /\ Exists(cr[k]) /\ ~Accepts(k, o, rest)
           /\ MayRetry(w)
           /\ worker' = [worker EXCEPT
                ![w].inst  = IF Exists(cache[k]) THEN cache[k] ELSE @,
                ![w].tries = @ + 1]
           /\ UNCHANGED <<queue, cr, used>>
        \/ /\ ~Accepts(k, o, rest)
           /\ ~Exists(cr[k]) \/ ~MayRetry(w)
           /\ Requeue(w)
           /\ UNCHANGED <<cr, used>>
        \/ Spend("faults") /\ Requeue(w) /\ UNCHANGED cr
  /\ UNCHANGED <<instances, b2nd, stop, chan, informer, born, deployed, ns, cm, csv, proc>>

\* With the delete ConfigMap present nothing is applied: every registered KfDef
\* is deleted, up to the first that fails, and the request is requeued.
DeleteInstances(w) ==
  /\ At(w, "apply")
  /\ HasDeleteConfigMap
  /\ \E D \in SUBSET instances :
       /\ \/ D = instances /\ UNCHANGED used
          \/ D # instances /\ Spend("faults")
       /\ cr' = [k \in KfDefs |-> IF k \in D THEN Deleted(cr[k]) ELSE cr[k]]
  /\ Requeue(w)
  /\ UNCHANGED <<instances, b2nd, stop, chan, informer, born, deployed, ns, cm, csv, proc>>

\* kfApply and getReconcileStatus.  A failed apply leaves some resources
\* applied; its conditions are Degraded and Available.
Apply(w) ==
  /\ At(w, "apply")
  /\ ~HasDeleteConfigMap
  /\ LET k == worker[w].key
         Done(S) == [r \in Resources |->
                       IF r \in S THEN worker[w].inst.spec ELSE deployed[k][r]]
         Return(pc, ok, conds) ==
           worker' = [worker EXCEPT ![w].pc = pc, ![w].ok = ok,
                                    ![w].inst.conds = conds]
     IN \/ /\ ns[NsOf[k]] = "active"
           /\ SetDeployed(k, Done(Resources))
           /\ Return("register", TRUE, {"Available"})
           /\ UNCHANGED used
        \/ /\ Spend("faults")
           /\ ns[NsOf[k]] = "active"
           /\ \E S \in SUBSET Resources : SetDeployed(k, Done(S))
           /\ Return("status", FALSE, {"Degraded", "Available"})
        \/ /\ ns[NsOf[k]] # "active"
           /\ Return("status", FALSE, {"Degraded", "Available"})
           /\ UNCHANGED <<deployed, resEvt, used>>
  /\ UNCHANGED <<queue, instances, b2nd, stop, chan, cache, notif, cmEvt, cr, born,
                 ns, cm, csv, proc>>

\* The apply succeeded: register the KfDef and look at b2ndController.
AlwaysStartSecond == "start2nd"  \* mutants: b2ndController ignored,
NeverStartSecond  == "status"    \* or already set
AfterRegister == IF b2nd THEN "status" ELSE "start2nd"

Register(w) ==
  /\ At(w, "register")
  /\ instances' = instances \cup {worker[w].key}
  /\ Goto(w, AfterRegister)
  /\ UNCHANGED <<b2nd, stop, chan, informer, cluster, proc, used>>

\* Create, watch and start an incarnation of the second controller.  If it
\* cannot be created Reconcile returns nil at once, without writing the status.
Reusable(g) ==
  \/ chan[g] = "unmade"
  \/ /\ chan[g] = "closed"
     /\ queue[g] = {}
     /\ \A v \in Workers : Home(v) = g => worker[v].pc = "idle"

StartSecond(w) ==
  /\ At(w, "start2nd")
  /\ \/ /\ \E g \in Gens : /\ Reusable(g)
                           /\ chan' = [chan EXCEPT ![g] = "open"]
                           /\ stop' = g
        /\ b2nd' = TRUE
        /\ Goto(w, "status")
        /\ UNCHANGED used
     \/ Spend("faults") /\ Finish(w) /\ UNCHANGED <<b2nd, stop, chan>>
  /\ UNCHANGED <<instances, informer, cluster, proc>>

\* setKfDefStatus: read the object again, write the status if it differs.  The
\* request is requeued if this fails or if the apply had failed.
SetStatus(w) ==
  /\ At(w, "status")
  /\ LET k   == worker[w].key
         new == worker[w].inst.conds
         Return == IF worker[w].ok THEN Finish(w) ELSE Requeue(w)
     IN \/ /\ Exists(cache[k]) /\ cache[k].conds = new
           /\ Return
           /\ UNCHANGED <<cr, used>>
        \/ /\ Exists(cache[k]) /\ cache[k].conds # new
           /\ cache[k] = cr[k]
           /\ cr' = [cr EXCEPT ![k].conds = new]
           /\ Return
           /\ UNCHANGED used
        \/ /\ ~Exists(cache[k]) \/ (cache[k].conds # new /\ cache[k] # cr[k])
           /\ Requeue(w)
           /\ UNCHANGED <<cr, used>>
        \/ Spend("faults") /\ Requeue(w) /\ UNCHANGED cr
  /\ UNCHANGED <<instances, b2nd, stop, chan, informer, born, deployed, ns, cm, csv, proc>>

\* operatorUninstall, called when the requested KfDef is gone: delete its
\* namespace, then wait for the registered KfDefs.  Reconcile returns an error
\* whatever the outcome, so the request always comes back.
Uninstall(w) ==
  /\ At(w, "uninstall")
  /\ LET left == [ns EXCEPT ![NsOf[worker[w].key]] = IF @ = "active" THEN "terminating" ELSE @]
     IN \/ /\ ns' = left
           /\ IF instances = {} THEN Goto(w, "purge") ELSE Requeue(w)
           /\ UNCHANGED used
        \/ Spend("faults") /\ Requeue(w) /\ ns' \in {ns, left}
  /\ UNCHANGED <<instances, b2nd, stop, chan, informer, cr, born, deployed, cm, csv, proc>>

\* The rest of operatorUninstall: the generated namespaces, then the CSV.
Purge(w) ==
  /\ At(w, "purge")
  /\ \/ /\ ns' = [n \in Namespaces |->
                    IF n \in Generated /\ ns[n] = "active" THEN "terminating" ELSE ns[n]]
        /\ csv' = FALSE
        /\ UNCHANGED used
     \/ /\ Spend("faults")
        /\ \E D \in SUBSET Generated :
             ns' = [n \in Namespaces |->
                      IF n \in D /\ ns[n] = "active" THEN "terminating" ELSE ns[n]]
        /\ UNCHANGED csv
  /\ Requeue(w)
  /\ UNCHANGED <<instances, b2nd, stop, chan, informer, cr, born, deployed, cm, proc>>

Continue(w) ==
  \/ DeleteApp(w) \/ Cleanup(w) \/ RemoveFinalizer(w)
  \/ DeleteInstances(w) \/ Apply(w) \/ Register(w) \/ StartSecond(w) \/ SetStatus(w)
  \/ Uninstall(w) \/ Purge(w)

-----------------------------------------------------------------------------
(* The environment: users, the API server's controllers, the process *)

CreateKfDef(k) ==
  /\ Meets(k)
  /\ ~Exists(cr[k])
  /\ ns[NsOf[k]] = "active"
  /\ born[k] < MaxIncarnations
  /\ born' = [born EXCEPT ![k] = @ + 1]
  /\ cr' = [cr EXCEPT ![k] = [NoObj EXCEPT !.inc = born'[k], !.spec = 1]]
  /\ UNCHANGED <<memory, informer, deployed, ns, cm, csv, proc, used>>

EditKfDef(k) ==
  /\ Live(cr[k])
  /\ Spend("edits")
  /\ cr' = [cr EXCEPT ![k].spec = @ + 1]
  /\ UNCHANGED <<memory, informer, born, deployed, ns, cm, csv, proc>>

\* Background deletion, or foreground deletion with the finalizer it adds.
DeleteKfDef(k) ==
  /\ Live(cr[k])
  /\ \/ cr' = [cr EXCEPT ![k] = Deleted(@)] /\ UNCHANGED used
     \/ /\ Spend("foregrounds")
        /\ cr' = [cr EXCEPT ![k].del = TRUE, ![k].fins = @ \cup {"foreground"}]
  /\ UNCHANGED <<memory, informer, born, deployed, ns, cm, csv, proc>>

\* The garbage collector ends a foreground deletion.
CollectForeground(k) ==
  /\ cr[k].del /\ "foreground" \in cr[k].fins
  /\ cr' = [cr EXCEPT ![k] = Stored([cr[k] EXCEPT !.fins = @ \ {"foreground"}])]
  /\ UNCHANGED <<memory, informer, born, deployed, ns, cm, csv, proc, used>>

\* Someone deletes a deployed resource.
LoseResource(k, r) ==
  /\ deployed[k][r] # 0
  /\ Spend("losses")
  /\ deployed' = [deployed EXCEPT ![k][r] = 0]
  /\ resEvt' = IF proc = "up" THEN resEvt \cup {<<k, r>>} ELSE resEvt
  /\ UNCHANGED <<memory, cache, notif, cmEvt, cr, born, ns, cm, csv, proc>>

\* The namespace controller empties a namespace, then drops it.
EmptyNamespace(n) ==
  LET inside == {k \in KfDefs : NsOf[k] = n} IN
  /\ ns[n] = "terminating"
  /\ \E k \in inside : Live(cr[k]) \/ \E r \in Resources : deployed[k][r] # 0
  /\ cr' = [k \in KfDefs |-> IF k \in inside THEN Deleted(cr[k]) ELSE cr[k]]
  /\ deployed' = [k \in KfDefs |->
                    IF k \in inside THEN [r \in Resources |-> 0] ELSE deployed[k]]
  /\ resEvt' = IF proc = "up" THEN resEvt \cup Changed(deployed, deployed') ELSE resEvt
  /\ UNCHANGED <<memory, cache, notif, cmEvt, born, ns, cm, csv, proc, used>>

DropNamespace(n) ==
  /\ ns[n] = "terminating"
  /\ \A k \in KfDefs : NsOf[k] = n =>
       ~Exists(cr[k]) /\ \A r \in Resources : deployed[k][r] = 0
  /\ ns' = [ns EXCEPT ![n] = "gone"]
  /\ UNCHANGED <<memory, informer, cr, born, deployed, cm, csv, proc, used>>

\* The add-on manager asks for the uninstallation of the operator.
AddDeleteConfigMap ==
  /\ ~cm
  /\ Spend("configmaps")
  /\ cm' = TRUE
  /\ cmEvt' = (proc = "up")
  /\ UNCHANGED <<memory, cache, notif, resEvt, cr, born, deployed, ns, csv, proc>>

\* A crash, or a data race on the package variables that the Go runtime detects.
Crash ==
  /\ proc = "up"
  /\ Spend("crashes")
  /\ proc' = "down"
  /\ LoseMemory
  /\ UNCHANGED cluster

\* The pod is restarted; the informers list every object before the workers run.
Restart ==
  /\ proc \in {"down", "panicked"}
  /\ proc' = "up"
  /\ cache' = cr
  /\ notif' = [k \in KfDefs |-> IF Exists(cr[k]) THEN {cr[k].fins} ELSE {}]
  /\ cmEvt' = cm
  /\ UNCHANGED <<memory, resEvt, cluster, used>>

\* Without its CSV the operator's deployment is removed.
RemoveOperator ==
  /\ ~csv
  /\ proc # "removed"
  /\ proc' = "removed"
  /\ LoseMemory
  /\ UNCHANGED <<cluster, used>>

Environment ==
  \/ \E k \in KfDefs : \/ CreateKfDef(k) \/ EditKfDef(k) \/ DeleteKfDef(k)
                       \/ CollectForeground(k)
                       \/ \E r \in Resources : LoseResource(k, r)
  \/ \E n \in Namespaces : EmptyNamespace(n) \/ DropNamespace(n)
  \/ AddDeleteConfigMap \/ Crash \/ Restart \/ RemoveOperator

Informers ==
  \/ \E k \in KfDefs : \/ SyncCache(k) \/ ResyncKfDef(k) \/ EnqueueKfDef(k) \/ AddFinalizer(k)
                       \/ \E r \in Resources : HandleResource(k, r) \/ TouchResource(k, r)
  \/ HandleConfigMap \/ ResyncConfigMap

Reconcile == \E w \in Workers : Continue(w) \/ \E k \in KfDefs : Start(w, k)

Next == Environment \/ Informers \/ Reconcile

\* Goroutines, informers and the cluster's own controllers keep running; the
\* work queue is first-in first-out, so a request that keeps coming back does
\* not starve another one.  Users, resyncs, faults and crashes owe nothing.
Fairness ==
  /\ \A w \in Workers : WF_vars(Continue(w))
  /\ \A w \in Workers, k \in KfDefs : SF_vars(Start(w, k))
  /\ \A k \in KfDefs :
       /\ WF_vars(SyncCache(k))
       /\ WF_vars(EnqueueKfDef(k))
       /\ WF_vars(AddFinalizer(k))
       /\ WF_vars(CollectForeground(k))
       /\ \A r \in Resources : WF_vars(HandleResource(k, r))
  /\ WF_vars(HandleConfigMap)
  /\ \A n \in Namespaces : WF_vars(EmptyNamespace(n)) /\ WF_vars(DropNamespace(n))
  /\ WF_vars(Restart)
  /\ WF_vars(RemoveOperator)

Spec == Init /\ [][Next]_vars
FairSpec == Spec /\ Fairness

-----------------------------------------------------------------------------
(* Properties *)

\* k carries our finalizer and Reconcile has something left to do for it: its
\* deletion, or deploying the current revision of the core kinds.
Owed(k) ==
  /\ HasFinalizer(cr[k])
  /\ cr[k].del \/ deployed[k]["core"] # cr[k].spec

\* The main controller is reconciling k, and cannot end without finishing the
\* work or asking for a retry.
Held(k) ==
  /\ worker[MainWorker].key = k
  /\ \/ cr[k].del /\ worker[MainWorker].pc \in DeletePath
     \/ /\ ~cr[k].del /\ worker[MainWorker].pc = "apply"
        /\ worker[MainWorker].inst.spec = cr[k].spec
     \/ worker[MainWorker].pc = "status" /\ ~worker[MainWorker].ok

\* Something will make the main controller reconcile k again: a stale cache, a
\* pending event, a queued request, or a Reconcile under way.
Pending(k) ==
  \/ proc # "up"
  \/ cache[k] # cr[k]
  \/ \E fs \in notif[k] : "kfdef" \in fs
  \/ k \in queue[Main]
  \/ ~cr[k].del /\ <<k, "core">> \in resEvt
  \/ Held(k)

\* No wakeup is ever lost: dropped events, requeues into a closed queue, writes
\* by the other controller and crashes never leave a KfDef with work owed to it
\* and nothing that would bring the main controller back.
NoLostWork == \A k \in KfDefs : Owed(k) => Pending(k)

\* p is a later version of the object o: the generation does not go back, a
\* deletion is not taken back, and no finalizer is added to a deleted object.
Later(o, p) ==
  /\ o.inc = p.inc
  /\ o.spec <= p.spec
  /\ o.del => p.del /\ p.fins \subseteq o.fins

\* The informer's copy is the stored object or an earlier version of it, or of
\* an earlier object of the name: no write from a stale copy takes a name back
\* to a version the informer has seen, after which no event would come.
CacheBehind ==
  \A k \in KfDefs :
    /\ IF Exists(cr[k]) THEN cr[k].inc = born[k] /\ cr[k].spec # 0 ELSE cr[k] = NoObj
    /\ cache[k].inc <= born[k]
    /\ Exists(cr[k]) /\ cache[k].inc = cr[k].inc => Later(cache[k], cr[k])

\* b2ndController says whether stop holds a channel that can be closed.
StopMatchesFlag == b2nd <=> StopIsOpen

\* The kinds that come with CRDs are watched as long as a registered KfDef may
\* lose a resource of one.
CrdKindsWatched ==
  (\E k \in instances : Live(cr[k])) =>
    b2nd \/ \E w \in Workers : At(w, "start2nd")

\* At most one incarnation of the second controller is running, the one stop
\* can stop, and a worker about to create one is never left without a slot.
OneSecondController ==
  /\ \A g \in Gens : chan[g] = "open" => g = stop
  /\ \A w \in Workers : At(w, "start2nd") => \E g \in Gens : Reusable(g)

\* kfdefInstances names only objects that carry our finalizer, so that the
\* uninstallation never waits for a KfDef that is gone.
RegisteredExist == \A k \in instances : HasFinalizer(cr[k])

\* The finalizer is dropped from an object that is being deleted only.
FinalizerGuards ==
  [][\A k \in KfDefs : HasFinalizer(cr[k]) /\ ~HasFinalizer(cr'[k]) => cr[k].del]_vars

\* No Reconcile brings the process down.
NoPanic == proc # "panicked"

\* The operator is removed after every KfDef.
CsvOutlivesKfDefs == ~csv => \A k \in KfDefs : ~Exists(cr[k])

\* A KfDef that is deleted goes away, unless the operator is told to go first.
DeletionCompletes == \A k \in KfDefs : cr[k].del ~> ~cr[k].del \/ cm

\* Once users and failures leave a guarded KfDef alone, what the cluster runs of
\* the kinds r is its current revision, and stays so.
Converges(r) ==
  \A k \in KfDefs :
    <>[](Live(cr[k]) /\ HasFinalizer(cr[k]) => deployed[k][r] = cr[k].spec \/ cm)

CoreConverges == Converges("core")
CrdConverges  == Converges("crd")

\* A KfDef that is created gets deployed, unless it is deleted first.
CreatedIsDeployed ==
  \A k \in KfDefs : Live(cr[k]) ~> ~Live(cr[k]) \/ deployed[k]["core"] = cr[k].spec

\* If a KfDef is registered while the delete ConfigMap is there, and nothing
\* has failed, the operator is removed, whatever order the namespaces and the
\* KfDefs go in.
UninstallCompletes ==
  cm /\ instances # {} ~> proc = "removed" \/ used["faults"] + used["crashes"] > 0

=============================================================================
