--------------------------- MODULE KfAppResources ---------------------------
(***************************************************************************)
(* What kfApply and kfDelete do to the cluster: Apply and Delete of the    *)
(* kustomize package manager (pkg/kfapp/kustomize/kustomize.go) and the    *)
(* client utilities below them (pkg/utils/k8utils.go).                     *)
(*                                                                         *)
(* An apply renders the applications of a KfDef one after the other, with  *)
(* the annotation kfctl.kubeflow.io/kfdef-instance on the resources the    *)
(* operator is to remove again, and hands them to kubectl.  A delete       *)
(* visits the same resources and removes those that carry the annotation.  *)
(* Users and other KfDefs write to the same resources.                     *)
(***************************************************************************)
EXTENDS Naturals, Sequences

CONSTANTS
  KfDefs,
  Workers,           \* goroutines that run an apply or a delete
  Resources,         \* names of the resources, the namespaces among them
  Namespaces,
  Profiles,          \* the CustomResourceDefinition profiles.kubeflow.org
  Within,            \* the namespace of a resource, or Nowhere
  Home,              \* the namespace of each KfDef
  Apps,              \* the resources of each application of a KfDef, in order
  Place,             \* place of each resource in InstallOrder and UninstallOrder
  Nobody, Nowhere,
  Limit              \* bounds: how often each event may happen

EventKinds == {"applies", "faults", "lookups", "creations", "namespaces"}
Orders     == {"install", "uninstall"}

ASSUME ConstantsAssumption ==
  /\ Namespaces \subseteq Resources
  /\ Profiles \subseteq Resources \ Namespaces
  /\ Within \in [Resources -> Namespaces \cup {Nowhere}]
  /\ \A r \in Namespaces \cup Profiles : Within[r] = Nowhere
  /\ Nowhere \notin Resources
  /\ Nobody \notin KfDefs
  /\ Home \in [KfDefs -> Namespaces]
  /\ Apps \in [KfDefs -> Seq(SUBSET Resources)]
  /\ Place \in [Orders -> [Resources -> Nat]]
  /\ Limit \in [EventKinds -> Nat]

VARIABLES
  phase,    \* of each resource in the cluster
  owner,    \* the KfDef its annotation names
  maker,    \* who created it: the user or the operator
  state,    \* of each KfDef: live, being deleted, deleted without or with an error
  worker,   \* what each worker is doing
  used      \* how often each event has happened

cluster == <<phase, owner, maker>>
vars == <<cluster, state, worker, used>>

PCs == {"idle", "render", "apply", "look", "remove", "wait", "home", "removeHome"}

\* app is the index of the current application, todo what is left of it, mark
\* what its rendered form annotates, errs whether a call has failed.
Job == [pc : PCs, key : KfDefs \cup {Nobody}, app : Nat, todo : SUBSET Resources,
        mark : SUBSET Resources, target : Resources \cup {Nowhere}, errs : BOOLEAN]
Idle == [pc |-> "idle", key |-> Nobody, app |-> 0, todo |-> {}, mark |-> {},
         target |-> Nowhere, errs |-> FALSE]

\* What the fields of a job are, depending on what the worker is doing.
JobOK(j) ==
  /\ j \in Job
  /\ j.pc # "idle" => j.key \in KfDefs
  /\ j.pc = "apply" => j.app \in DOMAIN Apps[j.key]
  /\ j.pc \in {"remove", "wait", "removeHome"} => j.target \in Resources

TypeOK ==
  /\ phase \in [Resources -> {"absent", "present", "deleting"}]
  /\ owner \in [Resources -> KfDefs \cup {Nobody}]
  /\ maker \in [Resources -> {"user", "operator", "none"}]
  /\ state \in [KfDefs -> {"live", "deleting", "deleted", "failed"}]
  /\ worker \in [Workers -> Job] /\ \A w \in Workers : JobOK(worker[w])
  /\ used \in [EventKinds -> Nat]

Listed(k) == UNION {Apps[k][i] : i \in DOMAIN Apps[k]}

\* Before the operator runs the cluster holds whatever users have created.
Closed(R) == \A r \in R : Within[r] \in R \cup {Nowhere}

Init ==
  /\ \E R \in SUBSET Resources :
       /\ Closed(R)
       /\ phase = [r \in Resources |-> IF r \in R THEN "present" ELSE "absent"]
       /\ maker = [r \in Resources |-> IF r \in R THEN "user" ELSE "none"]
  /\ owner = [r \in Resources |-> Nobody]
  /\ state = [k \in KfDefs |-> "live"]
  /\ worker = [w \in Workers |-> Idle]
  /\ used = [e \in EventKinds |-> 0]

-----------------------------------------------------------------------------
(* Helpers *)

Spend(e) == used[e] < Limit[e] /\ used' = [used EXCEPT ![e] = @ + 1]

Exists(r) == phase[r] # "absent"

\* The order in which kubectl gets the rendered resources, and Delete visits them.
IsFirst(r, R, order) == r \in R /\ \A q \in R : Place[order][r] <= Place[order][q]

\* r can be written: it is there, or its namespace is and is not going away.
Writable(r) == Exists(r) \/ (Within[r] # Nowhere => phase[Within[r]] = "present")

\* kubectl, or a user, writes r with or without the annotation of a KfDef.
Write(r, who, annotation) ==
  /\ phase' = [phase EXCEPT ![r] = IF Exists(r) THEN @ ELSE "present"]
  /\ maker' = [maker EXCEPT ![r] = IF Exists(r) THEN @ ELSE who]
  /\ owner' = [owner EXCEPT ![r] = annotation]

\* Mutant: namespaces that exist are annotated like everything else.
MarkedRegardless(R, known) ==
  {r \in R : \A b \in R \cap Profiles : Place["install"][r] < Place["install"][b]}

\* GenerateYamlWithOperatorAnnotation: from the first namespace that exists
\* already, or the profiles CRD, on, no resource of the application is annotated.
Marked(R, known) ==
  {r \in R : \A b \in R \cap (known \cup Profiles) :
               Place["install"][r] < Place["install"][b]}

\* DeleteResource removes what carries the annotation, whosever it is.
Removable(r) == Exists(r) /\ owner[r] # Nobody

At(w, pc)    == worker[w].pc = pc
Become(w, j) == worker' = [worker EXCEPT ![w] = j]

ReturnBusy(w) == Become(w, [worker[w] EXCEPT !.key = Nobody])  \* mutant
Return(w)     == Become(w, Idle)

\* Delete is done with r; an error is kept for later.
ForgetError(w, r, failed) ==  \* mutant
  Become(w, [worker[w] EXCEPT !.pc = "look", !.todo = @ \ {r}, !.target = Nowhere])
Visited(w, r, failed) ==
  Become(w, [worker[w] EXCEPT !.pc = "look", !.todo = @ \ {r},
                              !.target = Nowhere, !.errs = @ \/ failed])

End(w, outcome) ==
  /\ state' = [state EXCEPT ![worker[w].key] = outcome]
  /\ Return(w)

-----------------------------------------------------------------------------
(* Apply *)

\* NewApply creates the namespace of the KfDef, without the annotation.
BeginApply(w, k) ==
  /\ At(w, "idle")
  /\ state[k] = "live"
  /\ Spend("applies")
  /\ Become(w, [Idle EXCEPT !.pc = "render", !.key = k, !.app = 1])
  /\ IF Exists(Home[k]) THEN UNCHANGED cluster ELSE Write(Home[k], "operator", Nobody)
  /\ UNCHANGED state

\* Render the next application.  A namespace whose lookup fails counts as one
\* that does not exist.
Render(w) ==
  /\ At(w, "render")
  /\ LET R     == Apps[worker[w].key][worker[w].app]
         there == {n \in Namespaces : Exists(n)}
         Hand(known) == Become(w, [worker[w] EXCEPT !.pc = "apply", !.todo = R,
                                                    !.mark = Marked(R, known)])
     IN \/ /\ worker[w].app > Len(Apps[worker[w].key])
           /\ Return(w)
           /\ UNCHANGED used
        \/ /\ worker[w].app \in DOMAIN Apps[worker[w].key]
           /\ \/ Hand(there) /\ UNCHANGED used
              \/ Spend("lookups") /\ \E known \in SUBSET there : Hand(known)
        \/ Spend("faults") /\ Return(w)
  /\ UNCHANGED <<cluster, state>>

\* kubectl writes the next resource, or fails on it and goes on.
ApplyOne(w) ==
  /\ At(w, "apply")
  /\ \E r \in worker[w].todo :
       /\ IsFirst(r, worker[w].todo, "install")
       /\ \/ /\ Writable(r)
             /\ Write(r, "operator", IF r \in worker[w].mark THEN worker[w].key ELSE Nobody)
             /\ Become(w, [worker[w] EXCEPT !.todo = @ \ {r}])
             /\ UNCHANGED used
          \/ /\ (~Writable(r) /\ UNCHANGED used) \/ Spend("faults")
             /\ Become(w, [worker[w] EXCEPT !.todo = @ \ {r}, !.errs = TRUE])
             /\ UNCHANGED cluster
  /\ UNCHANGED state

\* An application that failed is applied again, as it was rendered, until the
\* backoff gives up; the next one is rendered when it has succeeded.
FinishApp(w) ==
  /\ At(w, "apply")
  /\ worker[w].todo = {}
  /\ \/ /\ ~worker[w].errs
        /\ Become(w, [worker[w] EXCEPT !.pc = "render", !.app = @ + 1])
     \/ /\ worker[w].errs
        /\ Become(w, [worker[w] EXCEPT !.todo = Apps[worker[w].key][worker[w].app],
                                       !.errs = FALSE])
     \/ /\ worker[w].errs
        /\ Return(w)
  /\ UNCHANGED <<cluster, state, used>>

-----------------------------------------------------------------------------
(* Delete *)

BeginDelete(w, k) ==
  /\ At(w, "idle")
  /\ state' = [state EXCEPT ![k] = "deleting"]
  /\ Become(w, [Idle EXCEPT !.pc = "look", !.key = k, !.app = Len(Apps[k]) + 1])
  /\ UNCHANGED <<cluster, used>>

\* The applications are visited last to first; one that cannot be rendered
\* ends the deletion, resources that cannot be deleted end it after the last.
NextApp(w) ==
  /\ At(w, "look")
  /\ worker[w].todo = {}
  /\ LET i == worker[w].app - 1 IN
       \/ /\ i \in DOMAIN Apps[worker[w].key]
          /\ Become(w, [worker[w] EXCEPT !.app = i, !.todo = Apps[worker[w].key][i]])
          /\ UNCHANGED <<state, used>>
       \/ /\ i \notin DOMAIN Apps[worker[w].key]
          /\ ~worker[w].errs
          /\ Become(w, [worker[w] EXCEPT !.pc = "home"])
          /\ UNCHANGED <<state, used>>
       \/ /\ i \notin DOMAIN Apps[worker[w].key]
          /\ worker[w].errs
          /\ End(w, "failed")
          /\ UNCHANGED used
       \/ Spend("faults") /\ End(w, "failed")
  /\ UNCHANGED cluster

\* DeleteResource reads the next resource.
Look(w) ==
  /\ At(w, "look")
  /\ \E r \in worker[w].todo :
       /\ IsFirst(r, worker[w].todo, "uninstall")
       /\ \/ /\ Removable(r)
             /\ Become(w, [worker[w] EXCEPT
                  !.pc = IF phase[r] = "present" THEN "remove" ELSE "wait",
                  !.target = r])
             /\ UNCHANGED used
          \/ ~Removable(r) /\ Visited(w, r, FALSE) /\ UNCHANGED used
          \/ Spend("faults") /\ Visited(w, r, TRUE)
  /\ UNCHANGED <<cluster, state>>

\* It deletes whatever has the name by then, and fails if nothing has.
Remove(w) ==
  /\ At(w, "remove")
  /\ LET r == worker[w].target IN
       \/ /\ Exists(r)
          /\ phase' = [phase EXCEPT ![r] = "deleting"]
          /\ Become(w, [worker[w] EXCEPT !.pc = "wait"])
          /\ UNCHANGED used
       \/ ~Exists(r) /\ Visited(w, r, TRUE) /\ UNCHANGED <<phase, used>>
       \/ Spend("faults") /\ Visited(w, r, TRUE) /\ UNCHANGED phase
  /\ UNCHANGED <<owner, maker, state>>

\* It polls until the resource is gone, five minutes at most.
Wait(w) ==
  /\ At(w, "wait")
  /\ LET r == worker[w].target IN Visited(w, r, Exists(r))
  /\ UNCHANGED <<cluster, state, used>>

\* Last the namespace of the KfDef, if the operator has made it; it is left
\* alone when it cannot be read.
LookHome(w) ==
  /\ At(w, "home")
  /\ LET n == Home[worker[w].key] IN
       \/ /\ Removable(n)
          /\ Become(w, [worker[w] EXCEPT !.pc = "removeHome", !.target = n])
          /\ UNCHANGED <<state, used>>
       \/ ~Removable(n) /\ End(w, "deleted") /\ UNCHANGED used
       \/ Spend("lookups") /\ End(w, "deleted")
  /\ UNCHANGED cluster

RemoveHome(w) ==
  /\ At(w, "removeHome")
  /\ LET n == worker[w].target IN
       \/ /\ Exists(n)
          /\ phase' = [phase EXCEPT ![n] = "deleting"]
          /\ End(w, "deleted")
          /\ UNCHANGED used
       \/ ~Exists(n) /\ End(w, "failed") /\ UNCHANGED <<phase, used>>
       \/ Spend("faults") /\ End(w, "failed") /\ UNCHANGED phase
  /\ UNCHANGED <<owner, maker>>

-----------------------------------------------------------------------------
(* The cluster and its users *)

\* The contents of a namespace are deleted with it.
EmptyNamespace(r) ==
  /\ Within[r] # Nowhere
  /\ phase[Within[r]] = "deleting"
  /\ phase[r] = "present"
  /\ phase' = [phase EXCEPT ![r] = "deleting"]
  /\ UNCHANGED <<owner, maker, state, worker, used>>

Vanish(r) ==
  /\ phase[r] = "deleting"
  /\ \A q \in Resources : Within[q] = r => phase[q] = "absent"
  /\ phase' = [phase EXCEPT ![r] = "absent"]
  /\ owner' = [owner EXCEPT ![r] = Nobody]
  /\ maker' = [maker EXCEPT ![r] = "none"]
  /\ UNCHANGED <<state, worker, used>>

UserCreate(r) ==
  /\ ~Exists(r)
  /\ Writable(r)
  /\ Spend(IF r \in Namespaces THEN "namespaces" ELSE "creations")
  /\ Write(r, "user", Nobody)
  /\ UNCHANGED <<state, worker>>

Step(w) ==
  \/ \E k \in KfDefs : BeginApply(w, k) \/ BeginDelete(w, k)
  \/ Render(w) \/ ApplyOne(w) \/ FinishApp(w)
  \/ NextApp(w) \/ Look(w) \/ Remove(w) \/ Wait(w) \/ LookHome(w) \/ RemoveHome(w)

Next ==
  \/ \E w \in Workers : Step(w)
  \/ \E r \in Resources : EmptyNamespace(r) \/ Vanish(r) \/ UserCreate(r)

Spec == Init /\ [][Next]_vars

-----------------------------------------------------------------------------
(* Properties *)

\* What users keep: the operator never deletes the profiles CRD, nor a namespace
\* a user created, unless it could not look a namespace up or the user created
\* one behind its back, between the rendering of an application and its writing.
UserDataKept ==
  [][\A r \in Namespaces \cup Profiles :
       phase[r] = "present" /\ phase'[r] = "deleting" =>
         /\ r \notin Profiles
         /\ maker[r] = "operator" \/ used["lookups"] # 0 \/ used["namespaces"] # 0]_vars

\* r belongs to one application only.
Unshared(r, k) ==
  /\ \E i \in DOMAIN Apps[k] : r \in Apps[k][i] /\ \A j \in DOMAIN Apps[k] : r \in Apps[k][j] => j = i
  /\ \A l \in KfDefs : r \in Listed(l) => l = k

\* A deletion that reports no error has removed everything of the applications
\* that hold no namespace and no profiles CRD, whatever failed and was retried
\* before it: only what a user has created since can be there.
CleanDeletion ==
  \A k \in KfDefs : state[k] = "deleted" =>
    \A i \in DOMAIN Apps[k] : Apps[k][i] \cap (Namespaces \cup Profiles) = {} =>
      \A r \in Apps[k][i] : Unshared(r, k) /\ phase[r] = "present" =>
        maker[r] = "user" /\ owner[r] = Nobody

\* A deletion that reports no error has removed all that was applied, the
\* profiles CRD excepted.
DeletesWhatItApplied ==
  \A k \in KfDefs : state[k] = "deleted" =>
    \A r \in Listed(k) \ Profiles :
      Unshared(r, k) => ~(phase[r] = "present" /\ maker[r] = "operator")

=============================================================================
